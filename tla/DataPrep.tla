------------------------------ MODULE DataPrep ------------------------------
(***************************************************************************)
(* DataPrepOrchestrator.run (pysrc/pipeline/dataprep_runtime.py) with a    *)
(* preset and a grid: fetch, clean, search the grid for the parameters     *)
(* with the lowest score, materialize the preprocessed data, and write a   *)
(* manifest.  The best trials of a search are remembered in the cache for  *)
(* the context (columns, preset, names of the parameters); the next search *)
(* evaluates them first and then only looks at the values they used.       *)
(*                                                                         *)
(* A frame is the set of its dates.  A trial is its parameters: the score  *)
(* is recomputed from the data whenever the trial is used.  The cache may  *)
(* lose what it was given at any time, and a write to it may be lost.      *)
(***************************************************************************)
EXTENDS Integers, Sequences, FiniteSets, Bags, FiniteSetsExt, DateChunks

CONSTANTS Names,        \* the parameters of the grid
          Values,       \* the values they may take
          Top,          \* how many trials are remembered (10 in the code)
          Score(_, _),  \* the score of parameters on a frame: a number, or one of:
          Invalid,      \*   the evaluation raises ValueError or TypeError
          Crash,        \*   the evaluation raises another exception
          Setups,       \* see SetupAssumption
          NoRun, NoManifest

Params == [Names -> Values]

\* One entry per run: its grid and its run_id, which a caller may provide and which
\* otherwise has a resolution of one second.  versions: what the source holds, one after
\* another; chunk: days per chunk, or 0; together: may runs overlap; kills: how many.
ASSUME SetupAssumption ==
  /\ Top \in Nat \ {0}
  /\ \A s \in Setups :
       /\ s.grids \in Seq([Names -> SUBSET Values]) /\ DOMAIN s.ids = DOMAIN s.grids
       /\ s.versions \in Seq(SUBSET Int) /\ Len(s.versions) > 0
       /\ \A v \in DOMAIN s.versions : s.versions[v] = {} \/ HasEnds(s.versions[v])
       /\ s.chunk \in Nat /\ s.together \in BOOLEAN /\ s.kills \in Nat
\* A grid has finitely many combinations, and evaluating one on a version of the source
\* gives a number or raises.
ASSUME ScoreAssumption ==
  /\ IsFiniteSet(Params) /\ Invalid \notin Int
  /\ \A s \in Setups : \A v \in DOMAIN s.versions, p \in Params :
       Score(s.versions[v], p) \in Int \/ Score(s.versions[v], p) \in {Invalid, Crash}

VARIABLES setup,
          now,        \* the version the source holds
          run,        \* run[r]: where run r is and what it has computed
          memory,     \* the trials remembered for the context, and who saved them
          artifacts,  \* the preprocessed data in the cache, under their keys
          manifests,  \* the manifest of each run_id
          kills

vars == <<setup, now, run, memory, artifacts, manifests, kills>>

-----------------------------------------------------------------------------
Runs == DOMAIN setup.grids
Ids == {setup.ids[r] : r \in Runs}
Working == {"clean", "load", "search", "materialize", "finish", "failing"}
Over == {"returned", "raised", "killed"}

\* All names of the grid take part: the names are part of the context.
Combinations(grid) == {p \in Params : \A n \in Names : p[n] \in grid[n]}

\* How many trials there are: as many as places in a list of them.
Size(trials) == Cardinality(UNION {{p} \X (1 .. trials[p]) : p \in BagToSet(trials)})
\* The trials with the given parameters, and the bags of trials in a bag.
Only(trials, params) == [p \in params |-> trials[p]]
Parts(trials) ==
  {b \in UNION {[S -> 1 .. Size(trials)] : S \in SUBSET BagToSet(trials)} :
     b \sqsubseteq trials}

\* As if the trials were not sorted before they are cut off.
LowestUnsorted(trials, k, frame) ==
  {b \in Parts(trials) : Size(b) = Min({k, Size(trials)})}
\* The k best trials; which of several with the same score are among them depends on the
\* order of a Python set.
Lowest(trials, k, frame) ==
  LET tried == BagToSet(trials)
      AtMost(s) == Only(trials, {p \in tried : Score(frame, p) <= s})
      cutoff == Min({s \in {Score(frame, p) : p \in tried} : Size(AtMost(s)) >= k})
      lower == Only(trials, {p \in tried : Score(frame, p) < cutoff})
      tied == Only(trials, {p \in tried : Score(frame, p) = cutoff})
  IN IF Size(trials) <= k THEN {trials}
     ELSE {lower (+) b :
             b \in {t \in Parts(tied) : Size(t) = k - Size(lower)}}

\* shrink_grid keeps the values of the best two fifths of the trials.
Keep(trials) == Max({1, (2 * Size(trials)) \div 5})
Shrunk(grid, keepers) ==
  IF keepers = EmptyBag THEN grid
  ELSE [n \in Names |-> {p[n] : p \in BagToSet(keepers)}]

\* The remembered trials that can be evaluated on this frame.
Evaluated(trials, frame) ==
  Only(trials, {p \in BagToSet(trials) : Score(frame, p) # Invalid})

NoTrials == [trials |-> EmptyBag, by |-> NoRun]
Fresh == [at |-> "none", raw |-> {}, clean |-> {}, prior |-> NoTrials,
          best |-> <<>>, success |-> FALSE]

\* As if the key left out the hash of the data.
ProcKeyWithoutData(r) == [id |-> setup.ids[r], params |-> run[r].best, clean |-> {}]
\* The key of a preprocessed artifact; the run_id stands for the hash of the configuration,
\* which it is part of.
ProcKey(r) == [id |-> setup.ids[r], params |-> run[r].best, clean |-> run[r].clean]

TypeOK ==
  /\ setup \in Setups
  /\ now \in DOMAIN setup.versions
  /\ run \in [Runs -> [at : {"none"} \cup Working \cup Over, raw : SUBSET Int,
                       clean : SUBSET Int, success : BOOLEAN, best : Params \cup {<<>>},
                       prior : [trials : {run[r].prior.trials : r \in Runs},
                                by : Runs \cup {NoRun}]]]
  /\ \A m \in {memory} \cup {run[r].prior : r \in Runs} :
       /\ IsABag(m.trials) /\ BagToSet(m.trials) \subseteq Params
       /\ Size(m.trials) <= Top
       /\ m.by \in Runs \cup {NoRun}
  /\ manifests \in [Ids -> [run : Runs, success : BOOLEAN, error : BOOLEAN] \cup {NoManifest}]
  /\ kills \in 0 .. setup.kills

Init ==
  /\ setup \in Setups
  /\ now = 1
  /\ run = [r \in Runs |-> Fresh]
  /\ memory = NoTrials
  /\ artifacts = {}
  /\ manifests = [i \in Ids |-> NoManifest]
  /\ kills = 0

-----------------------------------------------------------------------------
Goes(r, at) == run' = [run EXCEPT ![r].at = at]
OnlyRun == UNCHANGED <<setup, now, memory, artifacts, manifests, kills>>

\* A frame without rows ends the run at once, without a manifest.
Fetch(r) ==
  /\ run[r].at = "none" /\ \A q \in Runs : q < r => run[q].at # "none"
  /\ setup.together \/ \A q \in Runs : run[q].at \notin Working
  /\ \/ run' = [run EXCEPT ![r].raw = setup.versions[now],
                           ![r].at = IF setup.versions[now] = {} THEN "returned" ELSE "clean"]
     \/ Goes(r, "failing")
  /\ OnlyRun

\* The plan, the report and the checkpoint that cleaning saves are not read again.
Clean(r) ==
  /\ run[r].at = "clean"
  /\ run' = [run EXCEPT ![r].at = "load", ![r].clean = Cleaned(run[r].raw, setup.chunk)]
  /\ OnlyRun

\* A grid without values is a configuration error.  Memory that cannot be read is no memory.
Load(r) ==
  /\ run[r].at = "load"
  /\ IF \A n \in Names : setup.grids[r][n] = {}
     THEN Goes(r, "failing")
     ELSE \E prior \in {memory, NoTrials} :
            run' = [run EXCEPT ![r].at = "search", ![r].prior = prior]
  /\ OnlyRun

\* The combinations that are tried after the remembered trials.
Narrowed(grid, prior, frame) ==
  {Combinations(Shrunk(grid, keepers)) : keepers \in Lowest(prior, Keep(prior), frame)}
Best(params, frame) ==
  {p \in params : \A q \in params : Score(frame, p) <= Score(frame, q)}
\* As if all trials were remembered.
SearchesKeepingAll(grid, prior, frame) ==
  UNION {[best : Best(BagToSet(trials), frame), trials : {trials}] :
           trials \in {prior (+) SetToBag(current) :
             current \in {c \in Narrowed(grid, prior, frame) :
               c # {} /\ \A p \in c : Score(frame, p) \notin {Invalid, Crash}}}}
\* What a search may end with: the best parameters, and the trials to remember.
Searches(grid, prior, frame) ==
  UNION {[best : Best(BagToSet(trials), frame), trials : Lowest(trials, Top, frame)] :
           trials \in {prior (+) SetToBag(current) :
             current \in {c \in Narrowed(grid, prior, frame) :
               c # {} /\ \A p \in c : Score(frame, p) \notin {Invalid, Crash}}}}

\* An exception of the evaluation ends the run, but for the exceptions that say that a
\* remembered trial does not fit.  The best trials are remembered in place of whatever
\* another run remembered meanwhile.
Search(r) ==
  /\ run[r].at = "search"
  /\ \E prior \in {Evaluated(run[r].prior.trials, run[r].clean)} :
       \E found \in {IF \E p \in BagToSet(prior) : Score(run[r].clean, p) = Crash THEN {}
                     ELSE Searches(setup.grids[r], prior, run[r].clean)} :
         \/ \E f \in found :
              /\ run' = [run EXCEPT ![r].at = "materialize", ![r].best = f.best]
              /\ memory' \in {memory, [trials |-> f.trials, by |-> r]}
         \/ found = {} /\ Goes(r, "failing") /\ UNCHANGED memory
  /\ UNCHANGED <<setup, now, artifacts, manifests, kills>>

\* Data that are in the cache under their key are not computed again.
Materialize(r) ==
  /\ run[r].at = "materialize"
  /\ Goes(r, "finish")
  /\ IF \E a \in artifacts : a.key = ProcKey(r)
     THEN UNCHANGED artifacts
     ELSE \/ artifacts' = artifacts \cup
               {[key |-> ProcKey(r), frame |-> run[r].clean, params |-> run[r].best]}
          \/ UNCHANGED artifacts
  /\ UNCHANGED <<setup, now, memory, manifests, kills>>

Evict ==
  /\ \E a \in artifacts : artifacts' = artifacts \ {a}
  /\ UNCHANGED <<setup, now, run, memory, manifests, kills>>

\* The manifest is written, or cannot be encoded and is dropped without a word.
SaveManifest(r, success, error) ==
  \/ manifests' = [manifests EXCEPT ![setup.ids[r]] =
       [run |-> r, success |-> success, error |-> error]]
  \/ UNCHANGED manifests

\* An OSError of the write reaches the handler of the run, with the status set already.
Finish(r) ==
  /\ run[r].at = "finish"
  /\ \/ /\ run' = [run EXCEPT ![r].at = "returned", ![r].success = TRUE]
        /\ SaveManifest(r, TRUE, FALSE)
     \/ /\ run' = [run EXCEPT ![r].at = "failing", ![r].success = TRUE]
        /\ UNCHANGED manifests
  /\ UNCHANGED <<setup, now, memory, artifacts, kills>>

\* As if every trial were remembered as soon as it is evaluated.
RaiseRemembering(r) ==
  /\ run[r].at \in {"clean", "load", "search", "materialize", "finish"}
  /\ Goes(r, "failing")
  /\ IF run[r].at # "search" THEN UNCHANGED memory
     ELSE \E p \in Combinations(setup.grids[r]) :
            memory' = [trials |-> SetToBag({p}), by |-> NoRun]
  /\ UNCHANGED <<setup, now, artifacts, manifests, kills>>
\* Any stage may raise.
Raise(r) ==
  /\ run[r].at \in {"clean", "load", "search", "materialize", "finish"}
  /\ Goes(r, "failing")
  /\ OnlyRun

\* As if the error were not noted in a manifest that says success.
HandleQuietly(r) ==
  /\ run[r].at = "failing"
  /\ Goes(r, "raised")
  /\ SaveManifest(r, run[r].success, ~run[r].success)
  /\ UNCHANGED <<setup, now, memory, artifacts, kills>>
\* The handler adds the error to the manifest and raises again, or raises what its own
\* write raised.
Handle(r) ==
  /\ run[r].at = "failing"
  /\ Goes(r, "raised")
  /\ SaveManifest(r, run[r].success, TRUE)
  /\ UNCHANGED <<setup, now, memory, artifacts, kills>>

Kill(r) ==
  /\ run[r].at \in Working /\ kills < setup.kills
  /\ Goes(r, "killed") /\ kills' = kills + 1
  /\ UNCHANGED <<setup, now, memory, artifacts, manifests>>

\* The source changes.
Publish ==
  /\ now < Len(setup.versions)
  /\ now' = now + 1
  /\ UNCHANGED <<setup, run, memory, artifacts, manifests, kills>>

Step(r) ==
  \/ Clean(r) \/ Load(r) \/ Search(r) \/ Materialize(r) \/ Finish(r) \/ Handle(r)
Next ==
  \/ \E r \in Runs : Fetch(r) \/ Step(r) \/ Raise(r) \/ Kill(r)
  \/ Evict \/ Publish

Spec == Init /\ [][Next]_vars

-----------------------------------------------------------------------------
Chosen(r) == run[r].best # <<>>
Scored(r, p) == Score(run[r].clean, p)

\* Memory only saves work: runs of one grid on data that do not change all choose a
\* combination with the lowest score of the whole grid, however often the grid was
\* shrunk, whoever wrote the memory last, and whatever was lost or failed in between.
SameAnswer ==
  (Len(setup.versions) = 1 /\ \A q, r \in Runs : setup.grids[q] = setup.grids[r]) =>
    \A r \in Runs : Chosen(r) =>
      \A p \in Combinations(setup.grids[r]) :
        Score(run[r].clean, p) \in Int => Scored(r, run[r].best) <= Scored(r, p)

\* A run that starts from what another one remembered for the same data does not choose
\* anything worse, also when its grid is different.
NeverForgets ==
  \A r \in Runs :
    LET q == run[r].prior.by IN
      (Chosen(r) /\ q # NoRun) =>
        (run[q].clean = run[r].clean => Scored(r, run[r].best) <= Scored(r, run[q].best))

\* A manifest of success without an error is that of a run that returned.
ManifestHonest ==
  \A i \in Ids :
    LET m == manifests[i] IN
      (m # NoManifest /\ m.success /\ ~m.error) => run[m.run].at = "returned"

\* What the cache holds under the key a run reports was computed from all the rows that run
\* fetched, with the parameters it chose, also when run_ids are used again.
ArtifactMatches ==
  \A r \in Runs : (run[r].at \in {"finish", "returned"} /\ Chosen(r)) =>
    \A a \in artifacts :
      a.key = ProcKey(r) => a.frame = run[r].raw /\ a.params = run[r].best
=============================================================================
