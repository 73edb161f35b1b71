---------------------------- MODULE ModelMatrix ----------------------------
(***************************************************************************)
(* Low-memory training of the model matrix (pysrc/pipeline/panel/          *)
(* train_model_matrix.py): a parent process scans the canonical panel into *)
(* scratch files, starts one worker process after the other, one for each  *)
(* model and fold, and joins the fragments they write into the prediction  *)
(* panel.  The parent may be killed and leave its worker running; the      *)
(* training may be started again in the same run directory.                *)
(*                                                                         *)
(* Attempts are numbered 1, 2, ...; the worker of attempt a is worker[a].  *)
(* A version of the canonical panel stands for its content; the rows of a  *)
(* fragment are counted, one for each date tested.  Directories are        *)
(* functions from the cells whose file they hold.                          *)
(***************************************************************************)
EXTENDS WalkForward, FiniteSets, Sequences, Functions

CONSTANTS Setups,  \* the trainings that are run, see SetupAssumption
          NoFile

\* dates[v] is the number of dates in version v; deaths bounds the kills and the
\* interrupts of the parent; timeout: panel_train_worker_timeout_seconds > 0;
\* keepScratch, keepFragments: panel_preserve_..._on_failure; faulty: a file may resist
\* its removal.
ASSUME SetupAssumption ==
  Setups \subseteq [models : Nat \ {0}, folds : Nat \ {0}, horizon : Nat,
                    dates : Seq(Nat \ {0}), attempts : Nat, deaths : Nat,
                    timeout : BOOLEAN, keepScratch : BOOLEAN, keepFragments : BOOLEAN,
                    faulty : BOOLEAN]

\* There is a canonical panel: train_model_matrix opens it before anything else.
ASSUME CanonicalAssumption == \A s \in Setups : s.dates # <<>>

\* A fragment: the attempt whose worker wrote it, the version its features are from, its
\* rows, and the last date trained on.
Fragment == [by : Nat, src : Nat, rows : Nat, last : Nat]

ASSUME NoFileAssumption ==
  NoFile \notin [by : Nat, src : Nat, rows : Seq(Fragment), haunted : BOOLEAN]

VARIABLES canonical,  \* the version in the canonical panel's file
          parent,     \* the running attempt: where it is and what it remembers
          worker,     \* worker[a]: the worker process that attempt a started last
          scratch,    \* the scratch directory: feature and index files
          tmps,       \* temporary fragments, by the worker and the cell
          fragments,  \* predictions/fragments
          statuses,   \* reports/worker_status
          draft,      \* what the parent has written of the new panel
          panel,      \* predictions/model_prediction_panel.parquet
          report,     \* attempt that wrote model_matrix_report.json, or 0
          outcome,    \* outcome[a]: how attempt a ended
          deaths,     \* kills and interrupts so far
          setup

files == <<scratch, tmps, fragments, statuses, draft, panel, report>>
vars == <<canonical, parent, worker, files, outcome, deaths, setup>>

-----------------------------------------------------------------------------
Attempts == 1 .. setup.attempts
FoldsOf(v) == Folds(setup.dates[v], setup.folds)
CellCount(v) == setup.models * Cardinality(FoldsOf(v))
\* The cells in the order of the two loops: models, and the folds of each.
FoldOf(v, c) == (c - 1) % Cardinality(FoldsOf(v))
Expected(v, c) == Cardinality(TestDates(setup.dates[v], setup.folds, FoldOf(v, c)))

EmptyDir == <<>>
\* A file is written, or replaced, in a directory; a file is removed from one.
With(dir, c, content) == [i \in DOMAIN dir \cup {c} |-> IF i = c THEN content ELSE dir[i]]
Without(dir, c) == Restrict(dir, DOMAIN dir \ {c})

Working == {"spawned", "opened", "fitted", "written", "renamed", "reported",
            "failing", "unlinked"}
Alive(a) == worker[a].at \in Working

\* Inside the try statement of _train_model_matrix_low_memory.
Trying == {"prepare", "scan", "spawn", "polling", "count", "assemble", "verify",
           "publish", "report", "diagnose", "sweep"}

TypeOK ==
  /\ setup \in Setups /\ canonical \in DOMAIN setup.dates
  /\ parent \in [at : Trying \cup {"resting", "closing", "withdraw", "release", "removing", "discard"},
                 n : 0 .. setup.attempts, src : 0 .. Len(setup.dates),
                 cell : Nat, loaded : BOOLEAN, haunted : BOOLEAN,
                 verdict : {"success", "failed", "broken", "interrupted"}]
  /\ worker \in [Attempts -> [at : Working \cup {"none", "gone"}, cell : Nat, of : Nat,
                              src : Nat, ok : BOOLEAN]]
  /\ scratch \in [state : {"none", "partial", "complete"}, src : 0 .. Len(setup.dates)]
  /\ tmps \subseteq Attempts \X Nat
  /\ Range(fragments) \cup Range(draft) \subseteq Fragment
  /\ Range(statuses) \subseteq BOOLEAN
  /\ panel = NoFile \/ panel.by \in Attempts
  /\ report \in 0 .. setup.attempts
  /\ outcome \in [Attempts -> {"none", "running", "success", "refused", "failed", "broken",
                               "interrupted", "killed"}]
  /\ deaths \in 0 .. setup.deaths
  /\ parent.at \in {"spawn", "polling", "count", "assemble"} =>
       parent.cell \in 1 .. CellCount(parent.src) + 1

Init ==
  /\ setup \in Setups /\ canonical = 1
  /\ parent = [at |-> "resting", n |-> 0, src |-> 0, cell |-> 0, loaded |-> FALSE,
               haunted |-> FALSE, verdict |-> "failed"]
  /\ worker = [a \in Attempts |->
                 [at |-> "none", cell |-> 0, of |-> 0, src |-> 0, ok |-> FALSE]]
  /\ scratch = [state |-> "none", src |-> 0] /\ tmps = {}
  /\ fragments = EmptyDir /\ statuses = EmptyDir /\ draft = EmptyDir
  /\ panel = NoFile /\ report = 0
  /\ outcome = [a \in Attempts |-> "none"] /\ deaths = 0

-----------------------------------------------------------------------------
(* The parent. *)

Goes(at) == parent' = [parent EXCEPT !.at = at]
\* An exception: the except clause of _train_model_matrix_low_memory is next.
Raises == parent' = [parent EXCEPT !.at = "withdraw", !.verdict = "failed"]
\* The same while the writer of the new panel is open.
RaisesWriting == parent' = [parent EXCEPT !.at = "closing", !.verdict = "failed"]
OnlyParent == UNCHANGED <<canonical, worker, files, outcome, deaths, setup>>

\* The canonical panel is opened for its metadata.  An attempt is haunted when the
\* worker of one that was killed or interrupted still runs.
Begin ==
  /\ parent.at = "resting" /\ parent.n < setup.attempts
  /\ parent' = [at |-> "prepare", n |-> parent.n + 1, src |-> canonical, cell |-> 1,
                loaded |-> FALSE, haunted |-> \E a \in Attempts : Alive(a),
                verdict |-> "failed"]
  /\ outcome' = [outcome EXCEPT ![parent.n + 1] = "running"]
  /\ draft' = EmptyDir
  /\ UNCHANGED <<canonical, worker, scratch, tmps, fragments, statuses, panel, report,
                 deaths, setup>>

\* Manifest, target, memory mode, audit or grain are refused before the try statement: no
\* clause runs, and what earlier attempts left stays.
BeginRaises ==
  /\ parent.at = "resting" /\ parent.n < setup.attempts
  /\ parent' = [at |-> "resting", n |-> parent.n + 1, src |-> canonical, cell |-> 1,
                loaded |-> FALSE, haunted |-> \E a \in Attempts : Alive(a),
                verdict |-> "failed"]
  /\ outcome' = [outcome EXCEPT ![parent.n + 1] = "refused"]
  /\ UNCHANGED <<canonical, worker, files, deaths, setup>>

\* Scratch left by an earlier attempt in this run directory is removed first.
InitScratch ==
  /\ parent.at = "prepare"
  /\ Goes("scan")
  /\ scratch' = [state |-> "partial", src |-> 0]
  /\ UNCHANGED <<canonical, worker, tmps, fragments, statuses, draft, panel, report,
                 outcome, deaths, setup>>

\* The scan opens the file anew; its rows must be as many as the metadata said.  The
\* scratch files are complete when it turns out that there are no folds.
Scan ==
  /\ parent.at = "scan"
  /\ IF setup.dates[canonical] = setup.dates[parent.src]
     THEN /\ parent' = [parent EXCEPT !.loaded = TRUE,
                          !.at = IF FoldsOf(canonical) = {} THEN "withdraw" ELSE "spawn"]
          /\ scratch' = [state |-> "complete", src |-> canonical]
     ELSE Raises /\ UNCHANGED scratch
  /\ UNCHANGED <<canonical, worker, tmps, fragments, statuses, draft, panel, report,
                 outcome, deaths, setup>>

\* As if the cells were counted from zero.
SpawnPastTheEnd ==
  /\ parent.at = "spawn"
  /\ IF parent.cell <= CellCount(parent.src) + 1
     THEN /\ worker' = [worker EXCEPT ![parent.n] =
                          [at |-> "spawned", cell |-> parent.cell, of |-> parent.src,
                           src |-> 0, ok |-> FALSE]]
          /\ Goes("polling")
     ELSE /\ parent' = [parent EXCEPT !.at = "assemble", !.cell = 1]
          /\ UNCHANGED worker
  /\ UNCHANGED <<canonical, files, outcome, deaths, setup>>
\* The next cell of the matrix, or the end of the loops.
Spawn ==
  /\ parent.at = "spawn"
  /\ IF parent.cell <= CellCount(parent.src)
     THEN /\ worker' = [worker EXCEPT ![parent.n] =
                          [at |-> "spawned", cell |-> parent.cell, of |-> parent.src,
                           src |-> 0, ok |-> FALSE]]
          /\ Goes("polling")
     ELSE /\ parent' = [parent EXCEPT !.at = "assemble", !.cell = 1]
          /\ UNCHANGED worker
  /\ UNCHANGED <<canonical, files, outcome, deaths, setup>>

\* As if an exception in the parent ended its worker.
TerminatesNothing == Raises /\ UNCHANGED worker
\* The parent kills the worker and its children and raises: the worker ran too long
\* or the processes hold too much memory.
Terminates ==
  /\ Raises
  /\ worker' = [worker EXCEPT ![parent.n].at = "gone", ![parent.n].ok = FALSE]
TimesOut ==
  /\ parent.at = "polling" /\ Alive(parent.n) /\ setup.timeout
  /\ Terminates
  /\ UNCHANGED <<canonical, files, outcome, deaths, setup>>
ExceedsMemory ==
  /\ parent.at = "polling" /\ Alive(parent.n)
  /\ Terminates
  /\ UNCHANGED <<canonical, files, outcome, deaths, setup>>

\* The worker has ended: its exit code and the status file must both be good.
Exited(a) == worker[a].at = "gone"
StatusOk(c) == c \in DOMAIN statuses /\ statuses[c]
\* As if the status file told that the worker has ended.
JoinByStatus ==
  /\ parent.at = "polling" /\ Exited(parent.n) /\ parent.cell \in DOMAIN statuses
  /\ IF worker[parent.n].ok /\ StatusOk(parent.cell) THEN Goes("count") ELSE Raises
  /\ OnlyParent
Join ==
  /\ parent.at = "polling" /\ Exited(parent.n)
  /\ IF worker[parent.n].ok /\ StatusOk(parent.cell) THEN Goes("count") ELSE Raises
  /\ OnlyParent

CountRows ==
  /\ parent.at = "count"
  /\ IF /\ parent.cell \in DOMAIN fragments
        /\ fragments[parent.cell].rows = Expected(parent.src, parent.cell)
     THEN parent' = [parent EXCEPT !.at = "spawn", !.cell = @ + 1]
     ELSE Raises
  /\ OnlyParent

\* The fragments are copied into a temporary file one after the other.
AppendFragment ==
  /\ parent.at = "assemble" /\ parent.cell <= CellCount(parent.src)
  /\ IF parent.cell \in DOMAIN fragments
     THEN /\ draft' = With(draft, parent.cell, fragments[parent.cell])
          /\ parent' = [parent EXCEPT !.cell = @ + 1]
     ELSE RaisesWriting /\ UNCHANGED draft
  /\ UNCHANGED <<canonical, worker, scratch, tmps, fragments, statuses, panel, report,
                 outcome, deaths, setup>>

\* Every cell was completed, so what is left to check is the number of rows.
DraftRows == FoldFunction(LAMBDA f, total : f.rows + total, 0, draft)
ExpectedRows(v) ==
  FoldFunction(+, 0, [c \in 1 .. CellCount(v) |-> Expected(v, c)])
Assembled ==
  /\ parent.at = "assemble" /\ parent.cell > CellCount(parent.src)
  /\ IF DraftRows # 0 /\ DraftRows = ExpectedRows(parent.src) THEN Goes("verify") ELSE Raises
  /\ OnlyParent

\* As if the canonical panel could not change.
VerifyUnchecked == parent.at = "verify" /\ Goes("publish") /\ OnlyParent
\* assert_canonical_source_unchanged.
Verify ==
  /\ parent.at = "verify"
  /\ IF canonical = parent.src THEN Goes("publish") ELSE Raises
  /\ OnlyParent

\* The temporary file replaces the panel; the report is written after it.
Publish ==
  /\ parent.at = "publish"
  /\ panel' = [by |-> parent.n, src |-> parent.src, rows |-> draft,
               haunted |-> parent.haunted]
  /\ draft' = EmptyDir
  /\ Goes("report")
  /\ UNCHANGED <<canonical, worker, scratch, tmps, fragments, statuses, report, outcome,
                 deaths, setup>>

WriteReport ==
  /\ parent.at = "report"
  /\ report' = parent.n
  /\ Goes("diagnose")
  /\ UNCHANGED <<canonical, worker, scratch, tmps, fragments, statuses, draft, panel,
                 outcome, deaths, setup>>

\* Diversity, sanity and validation reports: they may raise, see Raise.
Diagnose == parent.at = "diagnose" /\ Goes("sweep") /\ OnlyParent

\* shutil.rmtree(fragment_dir, ignore_errors=True): what cannot be removed stays.
RemoveFragments ==
  /\ \E kept \in SUBSET DOMAIN fragments : fragments' = Restrict(fragments, kept)
  /\ tmps' \in SUBSET tmps

Sweep ==
  /\ parent.at = "sweep"
  /\ RemoveFragments
  /\ parent' = [parent EXCEPT !.at = "release", !.verdict = "success"]
  /\ UNCHANGED <<canonical, worker, scratch, statuses, draft, panel, report, outcome,
                 deaths, setup>>

\* I/O, memory, an unreadable file: the polling loop itself raises nothing else, but what
\* follows it may.
Raise ==
  /\ parent.at \in Trying /\ parent.at # "sweep"
  /\ parent.at = "polling" => Exited(parent.n)
  /\ Raises \/ (parent.at = "assemble" /\ RaisesWriting)
  /\ OnlyParent

\* The except clause closes the writer first; if that raises, the rest of it is left out.
CloseWriter ==
  /\ parent.at = "closing"
  /\ \/ Goes("withdraw")
     \/ parent' = [parent EXCEPT !.at = "release", !.verdict = "broken"]
  /\ OnlyParent

\* As if only the temporary file were to be deleted.
WithdrawDraftOnly ==
  /\ parent.at = "withdraw"
  /\ draft' = EmptyDir
  /\ Goes("release")
  /\ UNCHANGED <<canonical, worker, scratch, tmps, fragments, statuses, panel, report,
                 outcome, deaths, setup>>
\* Whichever attempt wrote it, the panel is deleted.
Withdraw ==
  /\ parent.at = "withdraw"
  /\ draft' = EmptyDir /\ panel' = NoFile
  /\ Goes("release")
  /\ UNCHANGED <<canonical, worker, scratch, tmps, fragments, statuses, report, outcome,
                 deaths, setup>>

\* One of the two files cannot be unlinked.
WithdrawRaises ==
  /\ parent.at = "withdraw" /\ setup.faulty
  /\ draft' \in {draft, EmptyDir}
  /\ parent' = [parent EXCEPT !.at = "release", !.verdict = "broken"]
  /\ UNCHANGED <<canonical, worker, scratch, tmps, fragments, statuses, panel, report,
                 outcome, deaths, setup>>

\* A KeyboardInterrupt is no Exception: only the finally clause runs, and nobody
\* terminates the worker.  (In the finally clause it is like a kill.)
Interrupt ==
  /\ parent.at \in Trying \cup {"closing", "withdraw"} /\ deaths < setup.deaths
  /\ parent' = [parent EXCEPT !.at = "release", !.verdict = "interrupted"]
  /\ deaths' = deaths + 1
  /\ UNCHANGED <<canonical, worker, files, outcome, setup>>

\* The finally clause.  Scratch is known only after _prepare_scratch_panel returned.
Kept(preserve) == parent.verdict # "success" /\ preserve
\* shutil.rmtree(scratch_dir, ignore_errors=True) removes one file after the other.  A file
\* that resists stays, and so does the directory if a worker that still runs makes its
\* training matrix there.
Release ==
  /\ parent.at = "release"
  /\ IF parent.loaded /\ ~Kept(setup.keepScratch)
     THEN \/ scratch' = [state |-> "partial", src |-> scratch.src] /\ Goes("removing")
          \/ setup.faulty /\ UNCHANGED scratch /\ Goes("discard")
     ELSE UNCHANGED scratch /\ Goes("discard")
  /\ UNCHANGED <<canonical, worker, tmps, fragments, statuses, draft, panel, report,
                 outcome, deaths, setup>>
RemoveScratch ==
  /\ parent.at = "removing"
  /\ \/ scratch' = [state |-> "none", src |-> 0]
     \/ (setup.faulty \/ \E a \in Attempts : Alive(a)) /\ UNCHANGED scratch
  /\ Goes("discard")
  /\ UNCHANGED <<canonical, worker, tmps, fragments, statuses, draft, panel, report,
                 outcome, deaths, setup>>
Discard ==
  /\ parent.at = "discard"
  /\ IF parent.verdict # "success" /\ ~setup.keepFragments
     THEN RemoveFragments
     ELSE UNCHANGED <<fragments, tmps>>
  /\ Goes("resting")
  /\ outcome' = [outcome EXCEPT ![parent.n] = parent.verdict]
  /\ UNCHANGED <<canonical, worker, scratch, statuses, draft, panel, report, deaths, setup>>

\* The parent is killed: no clause runs.
Killed ==
  /\ parent.at # "resting" /\ deaths < setup.deaths
  /\ Goes("resting")
  /\ outcome' = [outcome EXCEPT ![parent.n] = "killed"]
  /\ deaths' = deaths + 1
  /\ UNCHANGED <<canonical, worker, files, setup>>

-----------------------------------------------------------------------------
(* The worker of attempt a: _low_memory_model_fold_worker. *)

Becomes(a, at) == worker' = [worker EXCEPT ![a].at = at]
OnlyWorker == UNCHANGED <<canonical, parent, files, outcome, deaths, setup>>

FoldAt(a) == FoldOf(worker[a].of, worker[a].cell)
LastTrained(a) ==
  TrainEnd(setup.dates[worker[a].of], setup.folds, setup.horizon, FoldAt(a)) - 1

\* The scratch files are mapped: they stay readable when the directory is removed.  Files
\* that are being written hold zeros (version 0) or are missing.
Open(a) ==
  /\ worker[a].at = "spawned"
  /\ \/ /\ scratch.state # "none"
        /\ worker' = [worker EXCEPT ![a].at = "opened", ![a].src = scratch.src]
     \/ scratch.state # "complete" /\ Becomes(a, "failing")
  /\ OnlyWorker

\* Without training rows the worker raises.
Fit(a) ==
  /\ worker[a].at = "opened"
  /\ Becomes(a, IF LastTrained(a) < 0 THEN "failing" ELSE "fitted")
  /\ OnlyWorker

\* The groups of the test window are read from files, one by one: a file that is gone
\* counts as no rows, and the count must be the expected one.
Predict(a) ==
  /\ worker[a].at = "fitted"
  /\ IF /\ scratch.state = "complete"
        /\ TestEnd(setup.dates[worker[a].of], setup.folds, FoldAt(a))
             <= setup.dates[scratch.src]
     THEN Becomes(a, "written") /\ tmps' = tmps \cup {<<a, worker[a].cell>>}
     ELSE Becomes(a, "failing") /\ UNCHANGED tmps
  /\ UNCHANGED <<canonical, parent, scratch, fragments, statuses, draft, panel, report,
                 outcome, deaths, setup>>

Rename(a) ==
  /\ worker[a].at = "written"
  /\ IF <<a, worker[a].cell>> \in tmps
     THEN /\ Becomes(a, "renamed")
          /\ tmps' = tmps \ {<<a, worker[a].cell>>}
          /\ fragments' = With(fragments, worker[a].cell,
               [by |-> a, src |-> worker[a].src,
                rows |-> Expected(worker[a].of, worker[a].cell), last |-> LastTrained(a)])
     ELSE Becomes(a, "failing") /\ UNCHANGED <<tmps, fragments>>
  /\ UNCHANGED <<canonical, parent, scratch, statuses, draft, panel, report, outcome,
                 deaths, setup>>

ReportOk(a) ==
  /\ worker[a].at = "renamed"
  /\ Becomes(a, "reported")
  /\ statuses' = With(statuses, worker[a].cell, TRUE)
  /\ UNCHANGED <<canonical, parent, scratch, tmps, fragments, draft, panel, report,
                 outcome, deaths, setup>>

Ends(a, ok) == worker' = [worker EXCEPT ![a].at = "gone", ![a].ok = ok]
Exit0(a) == worker[a].at = "reported" /\ Ends(a, TRUE) /\ OnlyWorker

\* The except clause removes what is at the path of the fragment, whoever wrote it.
WorkerRaises(a) ==
  /\ worker[a].at \in {"spawned", "opened", "fitted", "written", "renamed", "reported"}
  /\ Becomes(a, "failing")
  /\ OnlyWorker
Unlink(a) ==
  /\ worker[a].at = "failing"
  /\ Becomes(a, "unlinked")
  /\ tmps' = tmps \ {<<a, worker[a].cell>>}
  /\ fragments' = Without(fragments, worker[a].cell)
  /\ UNCHANGED <<canonical, parent, scratch, statuses, draft, panel, report, outcome,
                 deaths, setup>>
ReportFailed(a) ==
  /\ worker[a].at = "unlinked"
  /\ Ends(a, FALSE)
  /\ statuses' = With(statuses, worker[a].cell, FALSE)
  /\ UNCHANGED <<canonical, parent, scratch, tmps, fragments, draft, panel, report,
                 outcome, deaths, setup>>

\* Killed by the operating system, for instance.
WorkerDies(a) == Alive(a) /\ Ends(a, FALSE) /\ OnlyWorker

\* The materializer writes the canonical panel again.
WritePanel ==
  /\ canonical < Len(setup.dates)
  /\ canonical' = canonical + 1
  /\ UNCHANGED <<parent, worker, files, outcome, deaths, setup>>

-----------------------------------------------------------------------------
ParentStep ==
  \/ InitScratch \/ Scan \/ Spawn \/ TimesOut \/ Join \/ CountRows \/ AppendFragment
  \/ Assembled \/ Verify \/ Publish \/ WriteReport \/ Diagnose \/ Sweep
  \/ CloseWriter \/ Withdraw \/ WithdrawRaises \/ Release \/ RemoveScratch \/ Discard
WorkerStep(a) ==
  \/ Open(a) \/ Fit(a) \/ Predict(a) \/ Rename(a) \/ ReportOk(a) \/ Exit0(a)
  \/ WorkerRaises(a) \/ Unlink(a) \/ ReportFailed(a) \/ WorkerDies(a)
Next ==
  \/ Begin \/ BeginRaises \/ ParentStep \/ Raise \/ ExceedsMemory \/ Interrupt \/ Killed \/ WritePanel
  \/ \E a \in Attempts : WorkerStep(a)

\* The parent goes on while its process lives; a worker may hang for ever.
Spec == Init /\ [][Next]_vars /\ WF_vars(ParentStep)

-----------------------------------------------------------------------------
Resting == parent.at = "resting"

\* A published panel holds a fragment for every model and fold.  Unless the worker of a
\* killed attempt was still running, every date of the walk is tested once by each model,
\* and no model was trained on a label that was not yet known when its test window began.
\* (The rows are added up only over all fragments, so that two workers left from older
\* versions of the panel, one with more and one with fewer dates, can make up for each
\* other.)
PanelComplete ==
  panel # NoFile =>
    LET v == panel.src IN
      /\ DOMAIN panel.rows = 1 .. CellCount(v)
      /\ ~panel.haunted => \A c \in DOMAIN panel.rows :
           /\ panel.rows[c].rows = Expected(v, c)
           /\ panel.rows[c].last + setup.horizon
                < TestStart(setup.dates[v], setup.folds, FoldOf(v, c))

\* Unless the worker of a killed attempt was still running, all rows of a panel come from
\* workers of its own attempt, never from fragments that were lying in the run
\* directory, and from the version of the canonical panel that its report names.
PublishedFromSource ==
  (panel # NoFile /\ ~panel.haunted) =>
    \A c \in DOMAIN panel.rows : panel.rows[c].by = panel.by /\ panel.rows[c].src = panel.src

\* What an attempt leaves agrees with how it ended: after a success the panel and the
\* report are its own; after an exception whose except clause ran to its end there is no
\* panel, not even an earlier one.  Only such an attempt withdraws a panel, so one that is
\* there may be older than the last attempt; but unless a file resisted its removal, it
\* was never published by an attempt that then failed, however many came after it.
OutcomeMatchesFiles ==
  (Resting /\ parent.n > 0) =>
    /\ outcome[parent.n] = "success" => panel # NoFile /\ panel.by = parent.n /\ report = parent.n
    /\ outcome[parent.n] = "failed" => panel = NoFile
    /\ (panel # NoFile /\ ~setup.faulty) =>
         outcome[panel.by] \in {"success", "interrupted", "killed"}

\* An attempt that prepared its scratch files and ended by itself removes them, unless told
\* to keep them for the failure.  The removal tells nobody when it does not succeed: it
\* needs all workers to be gone, this attempt's own, because it was waited for or
\* terminated, and those of others, and files that do not resist.
ScratchReleased ==
  (/\ Resting /\ parent.n > 0 /\ parent.loaded
   /\ ~parent.haunted /\ ~setup.faulty
   /\ \/ outcome[parent.n] = "success"
      \/ outcome[parent.n] \in {"failed", "broken"} /\ ~setup.keepScratch)
    => scratch.state = "none"

\* No attempt that ended by itself leaves its worker running: not when the worker took too
\* long or too much memory, and not when another step or the except clause raised.
WorkersReaped ==
  \A a \in Attempts : outcome[a] \in {"success", "refused", "failed", "broken"} => ~Alive(a)

\* With a timeout every attempt comes to an end, whatever its workers do.
AttemptsEnd == (setup.timeout /\ ~Resting) ~> Resting
=============================================================================
