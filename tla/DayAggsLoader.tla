---------------------------- MODULE DayAggsLoader ----------------------------
(***************************************************************************)
(* The loader of daily market data                                         *)
(* (pysrc/pipeline/stages/market_data/sources/massive_day_aggs_loader.py): *)
(* a pool of threads downloads one object per trading date, converts it    *)
(* and renames a temporary file to the date's Parquet file; a manifest     *)
(* lists what became of every date.  A load may be killed and started      *)
(* again on the same directory, and two loads may run at once.             *)
(*                                                                         *)
(* The versions of objects are numbered in the order the vendor published  *)
(* them; version 0 is an object that is missing.  A file that a process    *)
(* holds open stays open when it is renamed.                               *)
(***************************************************************************)
EXTENDS Integers, FiniteSets, Sequences, FiniteSetsExt

CONSTANTS Dates,   \* the trading dates of the range, numbers in their order
          Setups,  \* see SetupAssumption
          NoFile

\* loads[l]: whether load l overwrites; together: may loads run at once; objects: the
\* versions at first; publications, kills: how many there may be.
ASSUME SetupAssumption ==
  /\ Dates \subseteq Nat /\ IsFiniteSet(Dates)
  /\ Setups \subseteq [loads : Seq(BOOLEAN), together : BOOLEAN, workers : Nat \ {0},
                       objects : [Dates -> {0, 1}], publications : Nat, kills : Nat]

VARIABLES setup,
          object,     \* [version, bad]: what the vendor serves for each date
          tmp, out,   \* the temporary and the Parquet file of each date
          load,       \* load[l]: where it is
          task,       \* task[l][d]: the call of download_and_convert_one
          manifest,   \* manifest[l]: what it says of each date
          before,     \* before[l]: the Parquet files when load l began
          overlapped, \* two loads ran at once
          published, kills

vars == <<setup, object, tmp, out, load, task, manifest, before, overlapped, published,
          kills>>

-----------------------------------------------------------------------------
Loads == DOMAIN setup.loads
Running(l) == load[l] \in {"loading", "reporting"}
Statuses == {"downloaded", "skipped_existing", "missing", "failed"}

\* A task that is not running, and one with a result.
Idle == [at |-> "queued", src |-> 0, status |-> "failed"]
InPool == {"get", "convert", "open", "write", "replace"}

Files == [src : Nat, whole : BOOLEAN, torn : BOOLEAN, writers : SUBSET Loads]
TypeOK ==
  /\ setup \in Setups
  /\ object \in [Dates -> [version : Nat, bad : BOOLEAN]]
  /\ tmp \in [Dates -> Files \cup {NoFile}] /\ out \in [Dates -> Files \cup {NoFile}]
  /\ load \in [Loads -> {"none", "loading", "reporting", "ended", "crashed", "killed"}]
  /\ task \in [Loads -> [Dates -> [at : InPool \cup {"queued", "done", "raised"},
                                   src : Nat, status : Statuses]]]
  /\ \A l \in Loads : manifest[l] \in [Dates -> [status : Statuses, hash : Nat]] \cup {NoFile}
  /\ overlapped \in BOOLEAN
  /\ published \in 0 .. setup.publications /\ kills \in 0 .. setup.kills
  /\ \A l \in Loads : Cardinality({d \in Dates : task[l][d].at \in InPool}) <= setup.workers

Init ==
  /\ setup \in Setups
  /\ object = [d \in Dates |-> [version |-> setup.objects[d], bad |-> FALSE]]
  /\ tmp = [d \in Dates |-> NoFile] /\ out = [d \in Dates |-> NoFile]
  /\ load = [l \in Loads |-> "none"]
  /\ task = [l \in Loads |-> [d \in Dates |-> Idle]]
  /\ manifest = [l \in Loads |-> NoFile]
  /\ before = [l \in Loads |-> out]
  /\ overlapped = FALSE /\ published = 0 /\ kills = 0

-----------------------------------------------------------------------------
(* A load. *)

\* The tasks of all dates are submitted to the pool.
Begin(l) ==
  /\ load[l] = "none" /\ \A k \in Loads : k < l => load[k] # "none"
  /\ setup.together \/ \A k \in Loads : ~Running(k)
  /\ load' = [load EXCEPT ![l] = "loading"]
  /\ before' = [before EXCEPT ![l] = out]
  /\ overlapped' = (overlapped \/ \E k \in Loads : Running(k))
  /\ UNCHANGED <<setup, object, tmp, out, task, manifest, published, kills>>

Goes(l, d, at) == task' = [task EXCEPT ![l][d].at = at]
Returns(l, d, status) ==
  task' = [task EXCEPT ![l][d] = [at |-> "done", src |-> @.src, status |-> status]]
OnlyTask ==
  UNCHANGED <<setup, object, tmp, out, load, manifest, before, overlapped, published, kills>>
OnlyFiles ==
  UNCHANGED <<setup, object, load, manifest, before, overlapped, published, kills>>

\* As if the number of threads were checked after one more was started.
FreeThreadOneMore(l) == Cardinality({d \in Dates : task[l][d].at \in InPool}) <= setup.workers
\* As if a thread were lost with a task that raised.
FreeThreadLost(l) ==
  Cardinality({d \in Dates : task[l][d].at \in InPool \cup {"raised"}}) < setup.workers
\* A free thread takes the task that was submitted first.
FreeThread(l) == Cardinality({d \in Dates : task[l][d].at \in InPool}) < setup.workers
First(l, d) == d = Min({c \in Dates : task[l][c].at = "queued"})
\* As if files that are there were downloaded again.
TakeAnyway(l, d) ==
  /\ load[l] = "loading" /\ task[l][d].at = "queued"
  /\ First(l, d) /\ FreeThread(l)
  /\ Goes(l, d, "get")
  /\ OnlyTask
Take(l, d) ==
  /\ load[l] = "loading" /\ task[l][d].at = "queued"
  /\ First(l, d) /\ FreeThread(l)
  /\ IF out[d] # NoFile /\ ~setup.loads[l]
     THEN Returns(l, d, "skipped_existing")
     ELSE Goes(l, d, "get")
  /\ OnlyTask

\* The object is read, or is missing, or the client gives up.
Get(l, d) ==
  /\ load[l] = "loading" /\ task[l][d].at = "get"
  /\ \/ /\ object[d].version # 0
        /\ task' = [task EXCEPT ![l][d] =
                      [at |-> IF object[d].bad THEN "convert" ELSE "open",
                       src |-> object[d].version, status |-> @.status]]
     \/ object[d].version = 0 /\ Returns(l, d, "missing")
     \/ Returns(l, d, "failed")
  /\ OnlyTask

\* The object cannot be decompressed or parsed.
ConversionFailsDropsOut(l, d) ==
  /\ load[l] = "loading" /\ task[l][d].at = "convert"
  /\ Returns(l, d, "failed")
  /\ tmp' = [tmp EXCEPT ![d] = NoFile] /\ out' = [out EXCEPT ![d] = NoFile]
  /\ OnlyFiles
\* A temporary file is removed, whoever wrote it.
ConversionFails(l, d) ==
  /\ load[l] = "loading" /\ task[l][d].at = "convert"
  /\ Returns(l, d, "failed")
  /\ tmp' = [tmp EXCEPT ![d] = NoFile]
  /\ UNCHANGED out /\ OnlyFiles

\* A file is opened for writing: it is truncated if it is there.
Opened(file, l, src) ==
  IF file = NoFile
  THEN [src |-> src, whole |-> FALSE, torn |-> FALSE, writers |-> {l}]
  ELSE [src |-> src, whole |-> FALSE, torn |-> file.writers # {},
        writers |-> file.writers \cup {l}]

\* As if there were no temporary file.
OpenInPlace(l, d) ==
  /\ load[l] = "loading" /\ task[l][d].at = "open"
  /\ Goes(l, d, "write")
  /\ out' = [out EXCEPT ![d] = Opened(@, l, task[l][d].src)]
  /\ UNCHANGED tmp /\ OnlyFiles
Open(l, d) ==
  /\ load[l] = "loading" /\ task[l][d].at = "open"
  /\ Goes(l, d, "write")
  /\ tmp' = [tmp EXCEPT ![d] = Opened(@, l, task[l][d].src)]
  /\ UNCHANGED out /\ OnlyFiles

\* The writer is done with its file, which another process may have renamed meanwhile.
Closed(file, l, src) ==
  IF file # NoFile /\ l \in file.writers
  THEN [file EXCEPT !.whole = ~file.torn, !.src = src, !.writers = @ \ {l}]
  ELSE file
Write(l, d) ==
  /\ load[l] = "loading" /\ task[l][d].at = "write"
  /\ Goes(l, d, "replace")
  /\ tmp' = [tmp EXCEPT ![d] = Closed(@, l, task[l][d].src)]
  /\ out' = [out EXCEPT ![d] = Closed(@, l, task[l][d].src)]
  /\ OnlyFiles

\* A disk that is full or a connection that breaks: no handler catches an OSError.
Abandoned(file, l) ==
  IF file = NoFile THEN NoFile ELSE [file EXCEPT !.writers = @ \ {l}]
Raise(l, d) ==
  /\ load[l] = "loading" /\ task[l][d].at \in {"get", "write"}
  /\ Goes(l, d, "raised")
  /\ tmp' = [tmp EXCEPT ![d] = Abandoned(@, l)]
  /\ out' = [out EXCEPT ![d] = Abandoned(@, l)]
  /\ OnlyFiles

Replace(l, d) ==
  /\ load[l] = "loading" /\ task[l][d].at = "replace"
  /\ IF tmp[d] # NoFile
     THEN /\ Returns(l, d, "downloaded")
          /\ out' = [out EXCEPT ![d] = tmp[d]] /\ tmp' = [tmp EXCEPT ![d] = NoFile]
     ELSE Goes(l, d, "raised") /\ UNCHANGED <<tmp, out>>
  /\ OnlyFiles

\* The pool waits for all its tasks, also after one that raised.
EndRun(l) ==
  /\ load[l] = "loading" /\ \A d \in Dates : task[l][d].at \in {"done", "raised"}
  /\ load' = [load EXCEPT ![l] =
       IF \E d \in Dates : task[l][d].at = "raised" THEN "crashed" ELSE "reporting"]
  /\ UNCHANGED <<setup, object, tmp, out, task, manifest, before, overlapped, published,
                 kills>>

\* A skipped or missing file has no hash in the manifest.
WriteManifest(l) ==
  /\ load[l] = "reporting"
  /\ load' = [load EXCEPT ![l] = "ended"]
  /\ manifest' = [manifest EXCEPT ![l] =
       [d \in Dates |-> [status |-> task[l][d].status, hash |-> task[l][d].src]]]
  /\ UNCHANGED <<setup, object, tmp, out, task, before, overlapped, published, kills>>

Kill(l) ==
  /\ Running(l) /\ kills < setup.kills
  /\ load' = [load EXCEPT ![l] = "killed"] /\ kills' = kills + 1
  /\ tmp' = [d \in Dates |-> Abandoned(tmp[d], l)]
  /\ out' = [d \in Dates |-> Abandoned(out[d], l)]
  /\ UNCHANGED <<setup, object, task, manifest, before, overlapped, published>>

\* The vendor publishes or corrects an object.
Publish(d) ==
  /\ published < setup.publications
  /\ published' = published + 1
  /\ \E bad \in BOOLEAN :
       object' = [object EXCEPT ![d] = [version |-> published + 2, bad |-> bad]]
  /\ UNCHANGED <<setup, tmp, out, load, task, manifest, before, overlapped, kills>>

TaskStep(l, d) ==
  \/ Take(l, d) \/ Get(l, d) \/ ConversionFails(l, d) \/ Open(l, d) \/ Write(l, d)
  \/ Replace(l, d)
Next ==
  \/ \E l \in Loads : Begin(l) \/ EndRun(l) \/ WriteManifest(l) \/ Kill(l)
  \/ \E l \in Loads, d \in Dates : TaskStep(l, d) \/ Raise(l, d)
  \/ \E d \in Dates : Publish(d)

\* Threads go on; the requests of the client time out.
Fairness ==
  \A l \in 1 .. 2 :
    /\ WF_vars(l \in Loads /\ (EndRun(l) \/ WriteManifest(l)))
    /\ \A d \in Dates : WF_vars(l \in Loads /\ TaskStep(l, d))
Spec == Init /\ [][Next]_vars /\ Fairness

-----------------------------------------------------------------------------
\* Whatever was killed or failed half way, a Parquet file that is there is whole: later
\* loads trust it for its name alone.  (Two loads at once share the temporary file.)
PublishedWhole ==
  ~overlapped => \A d \in Dates : out[d] # NoFile => out[d].whole /\ out[d].writers = {}

\* The manifest of the last load that ended is true of the directory: a downloaded file
\* holds the version whose hash is listed, a skipped one was there, and a date that is
\* missing or failed has what it had before.
ManifestMatches ==
  ~overlapped =>
    \A l \in Loads :
      (load[l] = "ended" /\ \A k \in Loads : k > l => load[k] = "none") =>
        \A d \in Dates :
          LET entry == manifest[l][d] IN
            /\ entry.status = "downloaded" => out[d] # NoFile /\ out[d].src = entry.hash
            /\ entry.status = "skipped_existing" => out[d] # NoFile
            /\ entry.status # "downloaded" => out[d] = before[l][d]

\* A load that does not overwrite resumes: what an earlier one published is not touched.
ResumeKeeps ==
  [][\A d \in Dates :
       (out[d] # NoFile /\ out'[d] # out[d]) =>
         \/ overlapped
         \/ \E l \in Loads : setup.loads[l] /\ Running(l)]_vars

\* Every load comes to an end, also when tasks raise.
LoadsEnd == \A l \in 1 .. 2 : (l \in Loads /\ Running(l)) ~> (l \in Loads /\ ~Running(l))
=============================================================================
