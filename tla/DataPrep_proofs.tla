--------------------------- MODULE DataPrep_proofs ---------------------------
(***************************************************************************)
(* What a manifest says of its run, what the cache holds under the key it  *)
(* names, and what a search finds with the trials that earlier ones        *)
(* remembered, for any number of runs, grids, scores and versions.         *)
(***************************************************************************)
EXTENDS DataPrep, FiniteSetTheorems, WellFoundedInduction, TLAPS

-----------------------------------------------------------------------------
(* Cutting a frame into chunks of days loses no row and doubles none.      *)

\* The first and the last date of a frame.
LEMMA Ends ==
  ASSUME NEW rows \in SUBSET Int, HasEnds(rows)
  PROVE  /\ Min(rows) \in rows /\ Max(rows) \in rows
         /\ \A t \in rows : Min(rows) <= t /\ t <= Max(rows)
  BY DEF HasEnds, Min, Max

\* Division tells the span a day is in.
LEMMA Quotient ==
  ASSUME NEW d \in Nat, NEW size \in Nat \ {0}
  PROVE  /\ d \div size \in 0 .. d
         /\ (d \div size) * size <= d
         /\ d < ((d \div size) + 1) * size
  OBVIOUS

\* Two spans have no day in common.
LEMMA SpansApart ==
  ASSUME NEW d \in Nat, NEW size \in Nat \ {0}, NEW j \in Nat, NEW k \in Nat,
         j * size <= d, d < (j + 1) * size, k * size <= d, d < (k + 1) * size
  PROVE  j = k
  OBVIOUS

\* Every row is in the chunk of one span that the loop visits, and of no other
\* (_iter_date_chunks).
THEOREM RowInOneSpan ==
  ASSUME NEW rows \in SUBSET Int, HasEnds(rows), NEW size \in Nat \ {0}, NEW t \in rows
  PROVE  \E k \in Spans(Min(rows), Max(rows), size) :
           /\ t \in RowsOf(rows, Min(rows), size, k)
           /\ \A j \in Spans(Min(rows), Max(rows), size) :
                t \in RowsOf(rows, Min(rows), size, j) => j = k
<1> DEFINE first == Min(rows)
           last == Max(rows)
           k == (t - first) \div size
<1>1. first \in Int /\ last \in Int /\ t \in Int /\ first <= t /\ t <= last
  BY Ends
<1>2. t - first \in Nat
  BY <1>1
<1>3. k \in 0 .. (t - first) /\ k * size <= t - first /\ t - first < (k + 1) * size
  BY <1>2, Quotient
<1>4. k \in Spans(first, last, size)
  <2> HIDE DEF k
  <2>1. k * size \in Int
    BY <1>2, <1>3
  <2> QED
    BY <1>1, <1>2, <1>3, <2>1 DEF Spans
<1>5. t \in RowsOf(rows, first, size, k)
  <2> HIDE DEF k
  <2>1. k * size \in Int /\ (k + 1) * size \in Int
    BY <1>2, <1>3
  <2> QED
    BY <1>1, <1>3, <2>1 DEF RowsOf
<1>6. ASSUME NEW j \in Spans(first, last, size), t \in RowsOf(rows, first, size, j)
      PROVE  j = k
  <2> HIDE DEF k
  <2>1. j \in Nat /\ k \in Nat
    BY <1>1, <1>2, <1>3 DEF Spans
  <2>2. j * size \in Int /\ (j + 1) * size \in Int
    BY <2>1
  <2>3. j * size <= t - first /\ t - first < (j + 1) * size
    BY <1>1, <1>6, <2>2 DEF RowsOf
  <2> QED
    BY <1>2, <1>3, <2>1, <2>3, SpansApart
<1> QED
  BY <1>4, <1>5, <1>6

\* What is cleaned in chunks is the whole frame (_run_cleaning).
THEOREM ChunksWhole ==
  ASSUME NEW rows \in SUBSET Int, HasEnds(rows), NEW size \in Nat
  PROVE  Cleaned(rows, size) = rows
<1>1. CASE size = 0
  BY <1>1 DEF Cleaned
<1>2. CASE size # 0
  <2>1. \A t \in rows : t \in UNION Chunks(rows, size)
    BY <1>2, RowInOneSpan DEF Chunks
  <2>2. UNION Chunks(rows, size) \subseteq rows
    BY DEF Chunks, RowsOf
  <2> QED
    BY <1>2, <2>1, <2>2 DEF Cleaned
<1> QED
  BY <1>1, <1>2

-----------------------------------------------------------------------------
(* Types.                                                                  *)

TrialBags == UNION {[S -> Nat \ {0}] : S \in SUBSET Params}
Memories == [trials : TrialBags, by : Runs \cup {NoRun}]
Entries == [at : {"none"} \cup Working \cup Over, raw : SUBSET Int, clean : SUBSET Int,
            prior : Memories, best : Params \cup {<<>>}, success : BOOLEAN]
Manifests == [run : Runs, success : BOOLEAN, error : BOOLEAN]
Types ==
  /\ setup \in Setups
  /\ now \in DOMAIN setup.versions
  /\ run \in [Runs -> Entries]
  /\ memory \in Memories
  /\ manifests \in [Ids -> Manifests \cup {NoManifest}]

\* Part of a bag of trials is a bag of trials (Evaluated, Lowest).
LEMMA OnlyBags ==
  ASSUME NEW trials \in TrialBags, NEW params, params \subseteq BagToSet(trials)
  PROVE  Only(trials, params) \in TrialBags
<1>1. PICK S \in SUBSET Params : trials \in [S -> Nat \ {0}]
  BY DEF TrialBags
<1>2. params \in SUBSET Params /\ Only(trials, params) \in [params -> Nat \ {0}]
  BY <1>1 DEF Only, BagToSet
<1> QED
  BY <1>2 DEF TrialBags

\* The remembered trials and the new ones together are a bag.
LEMMA SumBags ==
  ASSUME NEW b \in TrialBags, NEW c \in TrialBags
  PROVE  b (+) c \in TrialBags
<1>1. PICK S \in SUBSET Params : b \in [S -> Nat \ {0}]
  BY DEF TrialBags
<1>2. PICK T \in SUBSET Params : c \in [T -> Nat \ {0}]
  BY DEF TrialBags
<1>3. S \cup T \in SUBSET Params /\ b (+) c \in [S \cup T -> Nat \ {0}]
  BY <1>1, <1>2 DEF (+)
<1> QED
  BY <1>3 DEF TrialBags

\* So is a part chosen from trials with the same score.
LEMMA PartBags ==
  ASSUME NEW trials \in TrialBags, NEW b \in Parts(trials)
  PROVE  b \in TrialBags
<1>1. PICK S \in SUBSET BagToSet(trials) : b \in [S -> 1 .. Size(trials)]
  BY DEF Parts
<1>2. S \in SUBSET Params /\ b \in [S -> Nat \ {0}]
  BY <1>1 DEF TrialBags, BagToSet
<1> QED
  BY <1>2 DEF TrialBags

\* The best trials are trials (Evolver.save, shrink_grid).
LEMMA LowestBags ==
  ASSUME NEW trials \in TrialBags, NEW k, NEW frame, NEW b \in Lowest(trials, k, frame)
  PROVE  b \in TrialBags
<1>1. CASE b = trials
  BY <1>1
<1>2. ASSUME NEW s, NEW t \in Parts(Only(trials, {p \in BagToSet(trials) : Score(frame, p) = s})),
             b = Only(trials, {p \in BagToSet(trials) : Score(frame, p) < s}) (+) t
      PROVE  b \in TrialBags
  <2>1. /\ Only(trials, {p \in BagToSet(trials) : Score(frame, p) = s}) \in TrialBags
        /\ Only(trials, {p \in BagToSet(trials) : Score(frame, p) < s}) \in TrialBags
    BY OnlyBags
  <2> QED
    BY <1>2, <2>1, PartBags, SumBags
<1> QED
  BY <1>1, <1>2 DEF Lowest

\* The trials that can be evaluated are trials.
LEMMA EvaluatedBags ==
  ASSUME NEW trials \in TrialBags, NEW frame
  PROVE  Evaluated(trials, frame) \in TrialBags
  BY OnlyBags DEF Evaluated

\* Each combination of a grid is one trial.
LEMMA CombinationBags ==
  ASSUME NEW current \in SUBSET Params
  PROVE  SetToBag(current) \in TrialBags
<1>1. SetToBag(current) \in [current -> Nat \ {0}]
  BY DEF SetToBag
<1> QED
  BY <1>1 DEF TrialBags

\* A search ends with parameters and with trials to remember (_search_best_params).
LEMMA SearchTypes ==
  ASSUME NEW grid, NEW prior \in TrialBags, NEW frame, NEW f \in Searches(grid, prior, frame)
  PROVE  f.best \in Params /\ f.trials \in TrialBags
<1>1. PICK current \in Narrowed(grid, prior, frame) :
        f \in [best : Best(BagToSet(prior (+) SetToBag(current)), frame),
               trials : Lowest(prior (+) SetToBag(current), Top, frame)]
  BY DEF Searches
<1>2. current \in SUBSET Params
  BY DEF Narrowed, Combinations
<1>3. prior (+) SetToBag(current) \in TrialBags
  BY <1>2, CombinationBags, SumBags
<1>4. BagToSet(prior (+) SetToBag(current)) \subseteq Params
  BY <1>3 DEF TrialBags, BagToSet
<1>5. f.best \in Params
  BY <1>1, <1>4 DEF Best
<1>6. f.trials \in TrialBags
  <2>1. f.trials \in Lowest(prior (+) SetToBag(current), Top, frame)
    BY <1>1
  <2> QED
    BY <2>1, <1>3, LowestBags
<1> QED
  BY <1>5, <1>6

-----------------------------------------------------------------------------
(* Types are kept.                                                         *)

\* A memory that is empty is a memory.
LEMMA NoTrialsType == NoTrials \in Memories
  BY CombinationBags DEF NoTrials, Memories, EmptyBag

\* What the assumption on the setups says of the source and of chunks.
LEMMA SetupFacts ==
  ASSUME Types
  PROVE  /\ setup.chunk \in Nat /\ now \in DOMAIN setup.versions
         /\ setup.versions[now] \in SUBSET Int
         /\ setup.versions[now] = {} \/ HasEnds(setup.versions[now])
         /\ Ids = {setup.ids[r] : r \in Runs}
  BY SetupAssumption DEF Types, Ids

\* The first state has its types.
LEMMA TypesInit == Init => Types
<1> SUFFICES ASSUME Init PROVE Types
  OBVIOUS
<1>1. 1 \in DOMAIN setup.versions
  BY SetupAssumption DEF Init
<1>2. Fresh \in Entries
  BY NoTrialsType DEF Fresh, Entries
<1> QED
  BY <1>1, <1>2, NoTrialsType DEF Init, Types

\* A step of run r leaves the entries of other runs alone, and r was not over.
Moves(r) ==
  /\ setup' = setup /\ run[r].at \notin Over
  /\ \E e \in Entries : run' = [run EXCEPT ![r] = e]

\* A step that only goes on is a step of its run.
LEMMA GoesMoves ==
  ASSUME Types, NEW r \in Runs, NEW at \in Working \cup Over, Goes(r, at),
         run[r].at \notin Over, setup' = setup
  PROVE  Moves(r)
<1>1. run[r] \in Entries
  BY DEF Types
<1>2. [run[r] EXCEPT !.at = at] \in Entries
  BY <1>1 DEF Entries
<1>3. run' = [run EXCEPT ![r] = [run[r] EXCEPT !.at = at]]
  BY DEF Goes
<1> QED
  BY <1>2, <1>3 DEF Moves

\* What a run does next.
Acts(r) == Fetch(r) \/ Step(r) \/ Raise(r) \/ Kill(r)

\* Every action of a run changes only the entry of that run, which was not over.
LEMMA ActsMove ==
  ASSUME Types, NEW r \in Runs, Acts(r)
  PROVE  Moves(r)
<1>0. run[r] \in Entries /\ run \in [Runs -> Entries]
  BY DEF Types
<1>1. CASE Fetch(r)
  <2>1. setup' = setup /\ run[r].at \notin Over
    BY <1>1 DEF Fetch, OnlyRun, Over
  <2>2. CASE Goes(r, "failing")
    BY <2>1, <2>2, GoesMoves DEF Working
  <2>3. CASE run' = [run EXCEPT ![r].raw = setup.versions[now],
                                ![r].at = IF setup.versions[now] = {} THEN "returned" ELSE "clean"]
    <3> DEFINE e == [run[r] EXCEPT !.raw = setup.versions[now],
                                   !.at = IF setup.versions[now] = {} THEN "returned" ELSE "clean"]
    <3>1. e \in Entries
      BY <1>0, SetupFacts DEF Entries, Working, Over
    <3>2. run' = [run EXCEPT ![r] = e]
      BY <2>3
    <3> QED
      BY <2>1, <3>1, <3>2 DEF Moves
  <2> QED
    BY <1>1, <2>2, <2>3 DEF Fetch
<1>2. CASE Clean(r)
  <2> DEFINE e == [run[r] EXCEPT !.at = "load", !.clean = Cleaned(run[r].raw, setup.chunk)]
  <2>1. Cleaned(run[r].raw, setup.chunk) \in SUBSET Int
    BY <1>0 DEF Entries, Cleaned, Chunks, RowsOf
  <2>2. e \in Entries
    BY <1>0, <2>1 DEF Entries, Working, Over
  <2>3. run' = [run EXCEPT ![r] = e]
    BY <1>2 DEF Clean
  <2> QED
    BY <1>2, <2>2, <2>3 DEF Moves, Clean, OnlyRun, Over
<1>3. CASE Load(r)
  <2>1. setup' = setup /\ run[r].at \notin Over
    BY <1>3 DEF Load, OnlyRun, Over
  <2>2. CASE Goes(r, "failing")
    BY <2>1, <2>2, GoesMoves DEF Working
  <2>3. CASE \E prior \in {memory, NoTrials} :
               run' = [run EXCEPT ![r].at = "search", ![r].prior = prior]
    <3>1. PICK prior \in {memory, NoTrials} :
            run' = [run EXCEPT ![r].at = "search", ![r].prior = prior]
      BY <2>3
    <3>2. prior \in Memories
      BY NoTrialsType DEF Types
    <3>3. [run[r] EXCEPT !.at = "search", !.prior = prior] \in Entries
      BY <1>0, <3>2 DEF Entries, Working, Over
    <3>4. run' = [run EXCEPT ![r] = [run[r] EXCEPT !.at = "search", !.prior = prior]]
      BY <3>1
    <3> QED
      BY <2>1, <3>3, <3>4 DEF Moves
  <2> QED
    BY <1>3, <2>2, <2>3 DEF Load
<1>4. CASE Search(r)
  <2>1. setup' = setup /\ run[r].at \notin Over
    BY <1>4 DEF Search, Over
  <2>2. CASE Goes(r, "failing")
    BY <2>1, <2>2, GoesMoves DEF Working
  <2>3. ASSUME NEW f \in Searches(setup.grids[r],
                             Evaluated(run[r].prior.trials, run[r].clean), run[r].clean),
               run' = [run EXCEPT ![r].at = "materialize", ![r].best = f.best]
        PROVE  Moves(r)
    <3>1. run[r].prior.trials \in TrialBags
      BY <1>0 DEF Entries, Memories
    <3>2. f.best \in Params
      BY <3>1, EvaluatedBags, SearchTypes
    <3>3. [run[r] EXCEPT !.at = "materialize", !.best = f.best] \in Entries
      BY <1>0, <3>2 DEF Entries, Working, Over
    <3>4. run' = [run EXCEPT ![r] = [run[r] EXCEPT !.at = "materialize", !.best = f.best]]
      BY <2>3
    <3> QED
      BY <2>1, <3>3, <3>4 DEF Moves
  <2> QED
    BY <1>4, <2>2, <2>3 DEF Search
<1>5. CASE Materialize(r)
  BY <1>5, GoesMoves DEF Materialize, Working, Over
<1>6. CASE Finish(r)
  <2>1. setup' = setup /\ run[r].at \notin Over
    BY <1>6 DEF Finish, Over
  <2>2. PICK at \in {"returned", "failing"} :
          run' = [run EXCEPT ![r].at = at, ![r].success = TRUE]
    BY <1>6 DEF Finish
  <2>3. [run[r] EXCEPT !.at = at, !.success = TRUE] \in Entries
    BY <1>0 DEF Entries, Working, Over
  <2>4. run' = [run EXCEPT ![r] = [run[r] EXCEPT !.at = at, !.success = TRUE]]
    BY <2>2
  <2> QED
    BY <2>1, <2>3, <2>4 DEF Moves
<1>7. CASE Handle(r)
  BY <1>7, GoesMoves DEF Handle, Working, Over
<1>8. CASE Raise(r)
  BY <1>8, GoesMoves DEF Raise, OnlyRun, Working, Over
<1>9. CASE Kill(r)
  BY <1>9, GoesMoves DEF Kill, Working, Over
<1> QED
  BY <1>1, <1>2, <1>3, <1>4, <1>5, <1>6, <1>7, <1>8, <1>9 DEF Acts, Step

\* Whatever a run writes to the memory are trials.
LEMMA MemoryType ==
  ASSUME Types, NEW r \in Runs, Acts(r)
  PROVE  memory' \in Memories
<1>1. memory \in Memories /\ run[r] \in Entries
  BY DEF Types
<1>2. CASE Search(r)
  <2>1. ASSUME NEW f \in Searches(setup.grids[r],
                             Evaluated(run[r].prior.trials, run[r].clean), run[r].clean),
               memory' \in {memory, [trials |-> f.trials, by |-> r]}
        PROVE  memory' \in Memories
    <3>1. run[r].prior.trials \in TrialBags
      BY <1>1 DEF Entries, Memories
    <3>2. f.trials \in TrialBags
      BY <3>1, EvaluatedBags, SearchTypes
    <3> QED
      BY <1>1, <2>1, <3>2 DEF Memories
  <2> QED
    BY <1>1, <1>2, <2>1 DEF Search
<1>3. CASE memory' = memory
  BY <1>1, <1>3
<1> QED
  BY <1>2, <1>3 DEF Acts, Step, Fetch, Clean, Load, Materialize, Finish, Handle, Raise, Kill,
                    OnlyRun

\* Whatever a run writes as its manifest is one.
LEMMA ManifestType ==
  ASSUME Types, NEW r \in Runs, Acts(r)
  PROVE  manifests' \in [Ids -> Manifests \cup {NoManifest}]
<1>1. manifests \in [Ids -> Manifests \cup {NoManifest}] /\ run[r].success \in BOOLEAN
  BY DEF Types, Entries
<1>2. ASSUME NEW success \in BOOLEAN, NEW error \in BOOLEAN, SaveManifest(r, success, error)
      PROVE  manifests' \in [Ids -> Manifests \cup {NoManifest}]
  <2>1. [run |-> r, success |-> success, error |-> error] \in Manifests
    BY DEF Manifests
  <2> QED
    BY <1>1, <1>2, <2>1 DEF SaveManifest
<1>3. CASE Finish(r) \/ Handle(r)
  BY <1>1, <1>2, <1>3 DEF Finish, Handle
<1>4. CASE manifests' = manifests
  BY <1>1, <1>4
<1> QED
  BY <1>3, <1>4 DEF Acts, Step, Fetch, Clean, Load, Search, Materialize, Raise, Kill, OnlyRun

\* No step breaks a type.
LEMMA TypesNext == Types /\ [Next]_vars => Types'
<1> SUFFICES ASSUME Types, [Next]_vars PROVE Types'
  OBVIOUS
<1>1. ASSUME NEW r \in Runs, Acts(r) PROVE Types'
  <2>1. setup' = setup /\ run' \in [Runs -> Entries]
    BY <1>1, ActsMove DEF Types, Moves
  <2>2. now' = now
    BY <1>1 DEF Acts, Step, Fetch, Clean, Load, Search, Materialize, Finish, Handle, Raise,
                Kill, OnlyRun
  <2>3. Runs' = Runs /\ Ids' = Ids /\ Entries' = Entries /\ Memories' = Memories
        /\ Manifests' = Manifests
    BY <2>1 DEF Runs, Ids, Entries, Memories, Manifests
  <2> QED
    BY <1>1, <2>1, <2>2, <2>3, MemoryType, ManifestType DEF Types
<1>2. CASE Evict
  BY <1>2 DEF Evict, Types, Entries, Memories, Manifests, Runs, Ids
<1>3. CASE Publish
  <2>1. now' \in DOMAIN setup.versions
    BY <1>3, SetupAssumption DEF Publish, Types
  <2> QED
    BY <1>3, <2>1 DEF Publish, Types, Entries, Memories, Manifests, Runs, Ids
<1>4. CASE UNCHANGED vars
  BY <1>4 DEF vars, Types, Entries, Memories, Manifests, Runs, Ids
<1> QED
  BY <1>1, <1>2, <1>3, <1>4 DEF Next, Acts

-----------------------------------------------------------------------------
(* Manifests.                                                              *)

\* Nothing moves a run that is over, and a manifest of success is written by the step that
\* makes its run return; so ManifestHonest is inductive beside the types.
LEMMA HonestNext ==
  ASSUME Types, ManifestHonest, NEW r \in Runs, Acts(r)
  PROVE  ManifestHonest'
<1>1. Moves(r)
  BY ActsMove
<1>2. /\ run[r].at # "returned" /\ run \in [Runs -> Entries] /\ run[r] \in Entries
      /\ manifests \in [Ids -> Manifests \cup {NoManifest}]
  BY <1>1 DEF Moves, Over, Types
<1>3. \A q \in Runs : q # r => run'[q] = run[q]
  BY <1>1, <1>2 DEF Moves
<1>4. Ids' = Ids
  BY <1>1 DEF Moves, Ids, Runs
<1>5. CASE manifests' = manifests
  <2> SUFFICES ASSUME NEW i \in Ids, manifests[i] # NoManifest, manifests[i].success,
                      ~manifests[i].error
               PROVE  run'[manifests[i].run].at = "returned"
    BY <1>4, <1>5 DEF ManifestHonest
  <2>1. manifests[i].run \in Runs /\ run[manifests[i].run].at = "returned"
    BY <1>2 DEF ManifestHonest, Manifests
  <2> QED
    BY <1>2, <1>3, <2>1
<1>6. ASSUME NEW success \in BOOLEAN, NEW error \in BOOLEAN,
             manifests' = [manifests EXCEPT ![setup.ids[r]] =
               [run |-> r, success |-> success, error |-> error]],
             success /\ ~error => run'[r].at = "returned"
      PROVE  ManifestHonest'
  <2> SUFFICES ASSUME NEW i \in Ids, manifests'[i] # NoManifest, manifests'[i].success,
                      ~manifests'[i].error
               PROVE  run'[manifests'[i].run].at = "returned"
    BY <1>4 DEF ManifestHonest
  <2>1. CASE i = setup.ids[r]
    <3>1. manifests'[i] = [run |-> r, success |-> success, error |-> error]
      BY <1>2, <1>6, <2>1
    <3> QED
      BY <3>1, <1>6
  <2>2. CASE i # setup.ids[r]
    <3>1. manifests'[i] = manifests[i]
      BY <1>2, <1>6, <2>2
    <3>2. manifests[i].run \in Runs /\ run[manifests[i].run].at = "returned"
      BY <1>2, <3>1 DEF ManifestHonest, Manifests
    <3> QED
      BY <1>2, <1>3, <3>1, <3>2
  <2> QED
    BY <2>1, <2>2
<1>7. CASE Finish(r)
  <2>1. CASE run' = [run EXCEPT ![r].at = "returned", ![r].success = TRUE]
             /\ SaveManifest(r, TRUE, FALSE)
    <3>1. run'[r].at = "returned"
      BY <1>2, <2>1 DEF Entries
    <3> QED
      BY <1>5, <1>6, <2>1, <3>1 DEF SaveManifest
  <2> QED
    BY <1>5, <1>7, <2>1 DEF Finish
<1>8. CASE Handle(r)
  <2>1. run[r].success \in BOOLEAN
    BY <1>2 DEF Entries
  <2> QED
    BY <1>5, <1>6, <1>8, <2>1 DEF Handle, SaveManifest
<1> QED
  BY <1>5, <1>7, <1>8
     DEF Acts, Step, Fetch, Clean, Load, Search, Materialize, Raise, Kill, OnlyRun

\* A manifest that says success and no error is that of a run that returned (run,
\* _save_manifest): a failure, also of the write itself, leaves an error in it.
THEOREM ManifestsHonest == Spec => []ManifestHonest
<1>1. Init => ManifestHonest
  BY DEF Init, ManifestHonest
<1>2. Types /\ ManifestHonest /\ [Next]_vars => ManifestHonest'
  <2> SUFFICES ASSUME Types, ManifestHonest, [Next]_vars PROVE ManifestHonest'
    OBVIOUS
  <2>1. CASE Evict \/ Publish \/ UNCHANGED vars
    BY <2>1 DEF Evict, Publish, vars, ManifestHonest, Ids, Runs
  <2> QED
    BY <2>1, HonestNext DEF Next, Acts
<1> QED
  BY <1>1, <1>2, TypesInit, TypesNext, PTL DEF Spec

-----------------------------------------------------------------------------
(* Artifacts.                                                              *)

\* The data of a run beyond cleaning are all the rows it fetched: cutting them into chunks
\* loses none.
Cleans(e) ==
  /\ e.at \in {"none", "clean", "load", "search"} => e.best = <<>>
  /\ e.at = "clean" => e.raw \in SUBSET Int /\ HasEnds(e.raw)
  /\ e.at \in {"load", "search", "materialize", "finish"} => e.clean = e.raw
  /\ e.at = "returned" /\ e.best # <<>> => e.clean = e.raw

\* An artifact is what its key says.
Stored == \A a \in artifacts : a.key.clean = a.frame /\ a.key.params = a.params

DataInv == Stored /\ \A r \in Runs : Cleans(run[r])

\* The invariant says what is to be shown.
LEMMA DataMatches == DataInv => ArtifactMatches
  BY DEF DataInv, Stored, Cleans, ArtifactMatches, Chosen, ProcKey

\* A step of a run keeps what is known of its own data (run, _run_cleaning).
LEMMA CleansNext ==
  ASSUME Types, NEW r \in Runs, Cleans(run[r]), Acts(r)
  PROVE  Cleans(run'[r])
<1>1. run \in [Runs -> Entries] /\ run[r] \in Entries
  BY DEF Types
<1>2. ASSUME NEW at, at \in {"failing", "killed", "raised"}, Goes(r, at)
      PROVE  Cleans(run'[r])
  <2>1. run'[r].at = at
    BY <1>1, <1>2 DEF Goes, Entries
  <2> QED
    BY <1>2, <2>1 DEF Cleans
<1>3. CASE Fetch(r)
  <2>1. CASE Goes(r, "failing")
    BY <1>2, <2>1
  <2>2. CASE run' = [run EXCEPT ![r].raw = setup.versions[now],
                                ![r].at = IF setup.versions[now] = {} THEN "returned" ELSE "clean"]
    <3>1. /\ run'[r].at = IF setup.versions[now] = {} THEN "returned" ELSE "clean"
          /\ run'[r].raw = setup.versions[now] /\ run'[r].best = run[r].best
      BY <1>1, <2>2 DEF Entries
    <3>2. run[r].best = <<>>
      BY <1>3 DEF Cleans, Fetch
    <3> QED
      BY <3>1, <3>2, SetupFacts DEF Cleans
  <2> QED
    BY <1>3, <2>1, <2>2 DEF Fetch
<1>4. CASE Clean(r)
  <2>1. /\ run'[r].at = "load" /\ run'[r].raw = run[r].raw /\ run'[r].best = run[r].best
        /\ run'[r].clean = Cleaned(run[r].raw, setup.chunk)
    BY <1>1, <1>4 DEF Clean, Entries
  <2>2. run[r].at = "clean"
    BY <1>4 DEF Clean
  <2>3. Cleaned(run[r].raw, setup.chunk) = run[r].raw
    BY <2>2, SetupFacts, ChunksWhole DEF Cleans
  <2> QED
    BY <2>1, <2>2, <2>3 DEF Cleans
<1>5. CASE Load(r)
  <2>1. CASE Goes(r, "failing")
    BY <1>2, <2>1
  <2>2. ASSUME NEW prior \in {memory, NoTrials},
               run' = [run EXCEPT ![r].at = "search", ![r].prior = prior]
        PROVE  Cleans(run'[r])
    <3>1. /\ run'[r].at = "search" /\ run'[r].raw = run[r].raw
          /\ run'[r].best = run[r].best /\ run'[r].clean = run[r].clean
      BY <1>1, <2>2 DEF Entries
    <3> QED
      BY <1>5, <3>1 DEF Load, Cleans
  <2> QED
    BY <1>5, <2>1, <2>2 DEF Load
<1>6. CASE Search(r)
  <2>1. CASE Goes(r, "failing")
    BY <1>2, <2>1
  <2>2. ASSUME NEW best, run' = [run EXCEPT ![r].at = "materialize", ![r].best = best]
        PROVE  Cleans(run'[r])
    <3>1. /\ run'[r].at = "materialize" /\ run'[r].raw = run[r].raw
          /\ run'[r].clean = run[r].clean
      BY <1>1, <2>2 DEF Entries
    <3> QED
      BY <1>6, <3>1 DEF Search, Cleans
  <2> QED
    BY <1>6, <2>1, <2>2 DEF Search
<1>7. CASE Materialize(r)
  <2>1. /\ run'[r].at = "finish" /\ run'[r].raw = run[r].raw /\ run'[r].best = run[r].best
        /\ run'[r].clean = run[r].clean
    BY <1>1, <1>7 DEF Materialize, Goes, Entries
  <2> QED
    BY <1>7, <2>1 DEF Materialize, Cleans
<1>8. CASE Finish(r)
  <2>1. /\ run'[r].at \in {"returned", "failing"} /\ run'[r].raw = run[r].raw
        /\ run'[r].best = run[r].best /\ run'[r].clean = run[r].clean
    <3>1. PICK at \in {"returned", "failing"} :
            run' = [run EXCEPT ![r].at = at, ![r].success = TRUE]
      BY <1>8 DEF Finish
    <3> QED
      BY <1>1, <3>1 DEF Entries
  <2> QED
    BY <1>8, <2>1 DEF Finish, Cleans
<1>9. CASE Handle(r) \/ Raise(r) \/ Kill(r)
  BY <1>2, <1>9 DEF Handle, Raise, Kill
<1> QED
  BY <1>3, <1>4, <1>5, <1>6, <1>7, <1>8, <1>9 DEF Acts, Step

\* Artifacts are only written by _materialize_preprocessed.
LEMMA StoredNext == Stored /\ [Next]_vars => Stored'
<1> SUFFICES ASSUME Stored, [Next]_vars PROVE Stored'
  OBVIOUS
<1>1. CASE artifacts' \subseteq artifacts
  BY <1>1 DEF Stored
<1>2. ASSUME NEW r \in Runs, Materialize(r) PROVE Stored'
  BY <1>1, <1>2 DEF Materialize, Stored, ProcKey
<1> QED
  BY <1>1, <1>2 DEF Next, Step, Fetch, Clean, Load, Search, Finish, Handle, Raise, Kill,
                    OnlyRun, Evict, Publish, vars

\* No step breaks the invariant.
LEMMA DataNext == Types /\ DataInv /\ [Next]_vars => DataInv'
<1> SUFFICES ASSUME Types, DataInv, [Next]_vars PROVE DataInv'
  OBVIOUS
<1>1. Stored'
  BY StoredNext DEF DataInv
<1>2. ASSUME NEW r \in Runs, Acts(r) PROVE DataInv'
  <2>1. Moves(r) /\ run \in [Runs -> Entries]
    BY <1>2, ActsMove DEF Types
  <2>2. \A q \in Runs : q # r => run'[q] = run[q]
    BY <2>1 DEF Moves
  <2>3. Cleans(run'[r])
    BY <1>2, CleansNext DEF DataInv
  <2>4. Runs' = Runs
    BY <2>1 DEF Moves, Runs
  <2>5. \A q \in Runs : Cleans(run'[q])
    BY <2>2, <2>3 DEF DataInv
  <2> QED
    BY <1>1, <2>4, <2>5 DEF DataInv, Cleans
<1>3. CASE Evict \/ Publish \/ UNCHANGED vars
  <2>1. run' = run /\ Runs' = Runs
    BY <1>3 DEF Evict, Publish, vars, Runs
  <2> QED
    BY <1>1, <2>1 DEF DataInv, Cleans
<1> QED
  BY <1>2, <1>3 DEF Next, Acts

\* At first there are no artifacts and no data.
LEMMA DataInit == Init => DataInv
  BY DEF Init, DataInv, Stored, Cleans, Fresh

\* Data in the cache under the key a run reports are the preprocessed form of all the rows
\* the run fetched, with the parameters it chose (_materialize_preprocessed), for any run_ids
\* and any chunk size.
THEOREM ArtifactsMatch == Spec => []ArtifactMatches
  BY DataInit, TypesInit, TypesNext, DataNext, DataMatches, PTL DEF Spec

-----------------------------------------------------------------------------
(* Numbers of trials and scores.                                           *)

\* A finite set of numbers has a first and a last one: else a smallest subset without them
\* would have a smaller one.
LEMMA FiniteHasEnds ==
  ASSUME NEW nums \in SUBSET Int, IsFiniteSet(nums), nums # {}
  PROVE  HasEnds(nums)
<1> SUFFICES ASSUME ~HasEnds(nums) PROVE FALSE
  OBVIOUS
<1> DEFINE bad == {s \in SUBSET nums : s # {} /\ ~HasEnds(s)}
<1>1. IsWellFoundedOn(StrictSubsetOrdering(nums), SUBSET nums)
  BY FS_StrictSubsetOrderingWellFounded, FS_FiniteSubsetsOfFinite
<1>2. bad \subseteq SUBSET nums /\ bad # {}
  OBVIOUS
<1>3. PICK s \in bad : \A t \in bad : ~(<<t, s>> \in StrictSubsetOrdering(nums))
  <2> HIDE DEF bad
  <2> QED
    BY <1>1, <1>2, WFMin, Zenon
<1>4. PICK a \in s : TRUE
  OBVIOUS
<1>5. a \in Int /\ s \subseteq Int /\ s \in SUBSET nums
  OBVIOUS
<1>6. s \ {a} # {}
  <2> SUFFICES ASSUME s \ {a} = {} PROVE FALSE
    OBVIOUS
  <2>1. s = {a}
    OBVIOUS
  <2> QED
    BY <1>5, <2>1 DEF HasEnds
<1>7. HasEnds(s \ {a})
  <2>1. <<s \ {a}, s>> \in StrictSubsetOrdering(nums)
    BY <1>5 DEF StrictSubsetOrdering
  <2>2. s \ {a} \notin bad
    BY <1>3, <2>1
  <2>3. s \ {a} \in SUBSET nums
    OBVIOUS
  <2> QED
    BY <1>6, <2>2, <2>3
<1>8. PICK b, c \in s \ {a} : \A t \in s \ {a} : b <= t /\ t <= c
  BY <1>7 DEF HasEnds
<1>9. b \in Int /\ c \in Int
  BY <1>5
<1>10. PICK lo \in s : lo <= a /\ lo <= b
  BY <1>5, <1>8, <1>9
<1>11. PICK hi \in s : a <= hi /\ c <= hi
  BY <1>5, <1>8, <1>9
<1>12. \A t \in s : lo <= t /\ t <= hi
  <2> TAKE t \in s
  <2>1. t \in Int /\ lo \in Int /\ hi \in Int
    BY <1>5
  <2>2. CASE t = a
    BY <1>10, <1>11, <2>2
  <2>3. CASE t # a
    BY <1>8, <1>9, <1>10, <1>11, <2>1, <2>3
  <2> QED
    BY <2>2, <2>3
<1>13. HasEnds(s)
  BY <1>12 DEF HasEnds
<1> QED
  BY <1>3, <1>13

\* The places of the trials in a list.
Places(b) == UNION {{p} \X (1 .. b[p]) : p \in BagToSet(b)}

\* A place is one of some trial.
LEMMA PlaceOf ==
  ASSUME NEW b, NEW t
  PROVE  t \in Places(b) <=> \E p \in BagToSet(b) : t \in {p} \X (1 .. b[p])
BY DEF Places

\* There are finitely many trials, as many as places for them.
LEMMA SizeType ==
  ASSUME NEW b \in TrialBags
  PROVE  /\ Size(b) = Cardinality(Places(b)) /\ Size(b) \in Nat
         /\ IsFiniteSet(Places(b)) /\ IsFiniteSet(BagToSet(b))
<1>1. PICK S \in SUBSET Params : b \in [S -> Nat \ {0}]
  BY DEF TrialBags
<1>2. BagToSet(b) = S /\ IsFiniteSet(S)
  BY <1>1, ScoreAssumption, FS_Subset DEF BagToSet
<1> DEFINE columns == {{p} \X (1 .. b[p]) : p \in S}
<1>3. IsFiniteSet(columns)
  <2> DEFINE f == [p \in S |-> {p} \X (1 .. b[p])]
  <2>1. f \in Surjection(S, columns)
    BY DEF Surjection
  <2> HIDE DEF f, columns
  <2> QED
    BY <1>2, <2>1, FS_Surjection
<1>4. ASSUME NEW p \in S PROVE IsFiniteSet({p} \X (1 .. b[p]))
  <2>1. IsFiniteSet({p})
    BY FS_Singleton
  <2>2. b[p] \in Int /\ 1 \in Int
    BY <1>1
  <2>3. IsFiniteSet(1 .. b[p])
    BY <2>2, FS_Interval
  <2> QED
    BY <2>1, <2>3, FS_Product
<1>5. \A T \in columns : IsFiniteSet(T)
  BY <1>4
<1>6. IsFiniteSet(UNION columns)
  <2> HIDE DEF columns
  <2> QED
    BY <1>3, <1>5, FS_UNION
<1>7. Places(b) = UNION columns
  BY <1>2 DEF Places
<1>8. IsFiniteSet(Places(b))
  BY <1>6, <1>7
<1>9. Size(b) = Cardinality(Places(b))
  BY DEF Size, Places
<1> QED
  BY <1>2, <1>8, <1>9, FS_CardinalityType

\* The empty bag.
LEMMA SizeEmpty == Size(EmptyBag) = 0 /\ BagToSet(EmptyBag) = {} /\ EmptyBag \in TrialBags
<1>1. BagToSet(EmptyBag) = {}
  BY DEF EmptyBag, SetToBag, BagToSet
<1>2. Places(EmptyBag) = {}
  BY <1>1, PlaceOf
<1>3. EmptyBag \in TrialBags
  BY CombinationBags DEF EmptyBag
<1> QED
  BY <1>1, <1>2, <1>3, SizeType, FS_EmptySet

\* Only the empty bag has no trials.
LEMMA NoneLeft ==
  ASSUME NEW b \in TrialBags, BagToSet(b) = {}
  PROVE  b = EmptyBag /\ Size(b) = 0
<1>1. b = EmptyBag
  BY DEF TrialBags, BagToSet, EmptyBag, SetToBag
<1> QED
  BY <1>1, SizeEmpty

\* Trials with other parameters add up.
LEMMA SizesAdd ==
  ASSUME NEW b \in TrialBags, NEW c \in TrialBags, BagToSet(b) \cap BagToSet(c) = {}
  PROVE  Size(b (+) c) = Size(b) + Size(c) /\ BagToSet(b (+) c) = BagToSet(b) \cup BagToSet(c)
<1>1. b (+) c \in TrialBags
  BY SumBags
<1>2. PICK S \in SUBSET Params : b \in [S -> Nat \ {0}]
  BY DEF TrialBags
<1>3. PICK T \in SUBSET Params : c \in [T -> Nat \ {0}]
  BY DEF TrialBags
<1>4. BagToSet(b) = S /\ BagToSet(c) = T /\ BagToSet(b (+) c) = S \cup T
  BY <1>2, <1>3 DEF BagToSet, (+)
<1>5. /\ \A p \in S : (b (+) c)[p] = b[p]
      /\ \A p \in T : (b (+) c)[p] = c[p]
  BY <1>2, <1>3, <1>4 DEF (+)
<1>6. Places(b (+) c) = Places(b) \cup Places(c)
  BY <1>4, <1>5, PlaceOf
<1>7. Places(b) \cap Places(c) = {}
  BY <1>4, PlaceOf
<1>8. /\ IsFiniteSet(Places(b)) /\ IsFiniteSet(Places(c))
      /\ Size(b) = Cardinality(Places(b)) /\ Size(c) = Cardinality(Places(c))
      /\ Size(b (+) c) = Cardinality(Places(b (+) c)) /\ Size(b) \in Nat /\ Size(c) \in Nat
  BY <1>1, SizeType
<1>9. Cardinality(Places(b) \cup Places(c)) =
        Cardinality(Places(b)) + Cardinality(Places(c)) - Cardinality(Places(b) \cap Places(c))
  BY <1>8, FS_Union
<1>10. Cardinality(Places(b) \cap Places(c)) = 0
  BY <1>7, FS_EmptySet
<1> QED
  BY <1>4, <1>6, <1>8, <1>9, <1>10

\* The least and the greatest of some numbers.
LEMMA LeastGreatest ==
  ASSUME NEW nums \in SUBSET Int, IsFiniteSet(nums), nums # {}
  PROVE  /\ Min(nums) \in nums /\ \A t \in nums : Min(nums) <= t
         /\ \E t \in nums : \A u \in nums : u <= t
<1>1. HasEnds(nums)
  BY FiniteHasEnds
<1> QED
  BY <1>1, Ends

\* The scores of some trials.
Scores(trials, frame) == {Score(frame, p) : p \in BagToSet(trials)}
AllScored(trials, frame) == \A p \in BagToSet(trials) : Score(frame, p) \in Int

\* The scores of some trials are finitely many numbers.
LEMMA ScoresFinite ==
  ASSUME NEW trials \in TrialBags, NEW frame, AllScored(trials, frame)
  PROVE  IsFiniteSet(Scores(trials, frame)) /\ Scores(trials, frame) \in SUBSET Int
<1> DEFINE f == [p \in BagToSet(trials) |-> Score(frame, p)]
<1>1. f \in Surjection(BagToSet(trials), Scores(trials, frame))
  BY DEF Surjection, Scores
<1>2. IsFiniteSet(BagToSet(trials))
  BY SizeType
<1> HIDE DEF f
<1>3. IsFiniteSet(Scores(trials, frame))
  BY <1>1, <1>2, FS_Surjection
<1> QED
  BY <1>3 DEF Scores, AllScored

\* Some trial has the lowest score.
LEMMA BestExists ==
  ASSUME NEW trials \in TrialBags, NEW frame, AllScored(trials, frame),
         BagToSet(trials) # {}
  PROVE  \E m \in BagToSet(trials) :
           \A p \in BagToSet(trials) : Score(frame, m) <= Score(frame, p)
<1>1. Scores(trials, frame) # {}
  BY DEF Scores
<1>2. /\ Min(Scores(trials, frame)) \in Scores(trials, frame)
      /\ \A t \in Scores(trials, frame) : Min(Scores(trials, frame)) <= t
  BY <1>1, ScoresFinite, LeastGreatest
<1> QED
  BY <1>2 DEF Scores

\* What is taken from a bag with a part of its parameters.
LEMMA OnlySet ==
  ASSUME NEW trials, NEW params
  PROVE  BagToSet(Only(trials, params)) = params
BY DEF Only, BagToSet

\* All of a bag is the bag.
LEMMA OnlyAll ==
  ASSUME NEW trials \in TrialBags
  PROVE  Only(trials, BagToSet(trials)) = trials
BY DEF Only, BagToSet, TrialBags

\* The score at which the best k trials are cut off (Evolver.save, shrink_grid).
AtMostScore(trials, frame, s) == Only(trials, {p \in BagToSet(trials) : Score(frame, p) <= s})
Cutoff(trials, k, frame) ==
  Min({s \in Scores(trials, frame) : Size(AtMostScore(trials, frame, s)) >= k})

\* Such a score exists when there are more than k trials.
LEMMA CutoffIsScore ==
  ASSUME NEW trials \in TrialBags, NEW frame, AllScored(trials, frame), NEW k \in Nat,
         k < Size(trials)
  PROVE  Cutoff(trials, k, frame) \in Int
<1> DEFINE nums == {s \in Scores(trials, frame) : Size(AtMostScore(trials, frame, s)) >= k}
<1>1. Scores(trials, frame) # {}
  <2>1. BagToSet(trials) # {}
    BY NoneLeft, SizeType
  <2> QED
    BY <2>1 DEF Scores
<1>2. PICK s \in Scores(trials, frame) : \A t \in Scores(trials, frame) : t <= s
  BY <1>1, ScoresFinite, LeastGreatest
<1>3. {p \in BagToSet(trials) : Score(frame, p) <= s} = BagToSet(trials)
  BY <1>2 DEF Scores
<1>4. Size(AtMostScore(trials, frame, s)) = Size(trials)
  BY <1>3, OnlyAll DEF AtMostScore
<1>5. Size(trials) \in Nat
  BY SizeType
<1>6. s \in nums
  BY <1>4, <1>5
<1>7. nums \in SUBSET Int /\ IsFiniteSet(nums)
  BY ScoresFinite, FS_Subset
<1>8. Min(nums) \in nums
  <2> HIDE DEF nums
  <2> QED
    BY <1>6, <1>7, LeastGreatest
<1>9. Min(nums) \in Int
  BY <1>7, <1>8
<1> QED
  BY <1>9 DEF Cutoff

\* The best k trials are no more than k, and one with the lowest score of all is among them.
LEMMA LowestFacts ==
  ASSUME NEW trials \in TrialBags, NEW frame, AllScored(trials, frame), NEW k \in Nat \ {0},
         NEW b \in Lowest(trials, k, frame)
  PROVE  /\ Size(b) <= k /\ BagToSet(b) \subseteq BagToSet(trials)
         /\ BagToSet(trials) # {} =>
              \E m \in BagToSet(b) :
                \A p \in BagToSet(trials) : Score(frame, m) <= Score(frame, p)
<1>0. Size(trials) \in Nat
  BY SizeType
<1>1. CASE Size(trials) <= k
  <2>1. b = trials
    BY <1>1 DEF Lowest
  <2> QED
    BY <1>1, <2>1, BestExists
<1>2. CASE ~(Size(trials) <= k)
  <2> DEFINE cutoff == Cutoff(trials, k, frame)
             lower == Only(trials, {p \in BagToSet(trials) : Score(frame, p) < cutoff})
             tied == Only(trials, {p \in BagToSet(trials) : Score(frame, p) = cutoff})
  <2>1. PICK t \in Parts(tied) : b = lower (+) t /\ Size(t) = k - Size(lower)
    BY <1>2 DEF Lowest, Cutoff, AtMostScore, Scores
  <2>2. cutoff \in Int
    BY <1>0, <1>2, CutoffIsScore
  <2>3. lower \in TrialBags /\ tied \in TrialBags
    BY OnlyBags
  <2>4. BagToSet(lower) = {p \in BagToSet(trials) : Score(frame, p) < cutoff}
        /\ BagToSet(tied) = {p \in BagToSet(trials) : Score(frame, p) = cutoff}
    BY OnlySet
  <2> HIDE DEF cutoff, lower, tied
  <2>5. t \in TrialBags /\ BagToSet(t) \subseteq BagToSet(tied)
    <3>1. PICK S \in SUBSET BagToSet(tied) : t \in [S -> 1 .. Size(tied)]
      BY <2>1 DEF Parts
    <3>2. BagToSet(t) = S
      BY <3>1 DEF BagToSet
    <3> QED
      BY <2>1, <2>3, <3>1, <3>2, PartBags
  <2>6. BagToSet(lower) \cap BagToSet(t) = {}
    BY <2>2, <2>4, <2>5 DEF AllScored
  <2>7. /\ Size(b) = Size(lower) + Size(t)
        /\ BagToSet(b) = BagToSet(lower) \cup BagToSet(t)
    BY <2>1, <2>3, <2>5, <2>6, SizesAdd
  <2>8. Size(lower) \in Nat /\ Size(t) \in Nat
    BY <2>3, <2>5, SizeType
  <2>9. Size(b) <= k
    BY <2>1, <2>7, <2>8
  <2>10. BagToSet(b) \subseteq BagToSet(trials)
    BY <2>4, <2>5, <2>7
  <2>11. ASSUME BagToSet(trials) # {}
         PROVE  \E m \in BagToSet(b) :
                  \A p \in BagToSet(trials) : Score(frame, m) <= Score(frame, p)
    <3>1. PICK m \in BagToSet(trials) :
            \A p \in BagToSet(trials) : Score(frame, m) <= Score(frame, p)
      BY <2>11, BestExists
    <3>2. CASE BagToSet(lower) # {}
      <4>1. PICK p \in BagToSet(trials) : Score(frame, p) < cutoff
        BY <2>4, <3>2
      <4>2. Score(frame, m) < cutoff
        BY <2>2, <3>1, <4>1 DEF AllScored
      <4>3. m \in BagToSet(b)
        BY <2>4, <2>7, <4>2
      <4> QED
        BY <3>1, <4>3
    <3>3. CASE BagToSet(lower) = {}
      <4>1. Size(lower) = 0
        BY <2>3, <3>3, NoneLeft
      <4>2. Size(t) # 0
        BY <2>1, <4>1
      <4>3. BagToSet(t) # {}
        BY <2>5, <4>2, NoneLeft
      <4>4. PICK x \in BagToSet(t) : TRUE
        BY <4>3
      <4>5. x \in BagToSet(b) /\ x \in BagToSet(trials) /\ Score(frame, x) = cutoff
        BY <2>4, <2>5, <2>7
      <4>6. \A p \in BagToSet(trials) : Score(frame, x) <= Score(frame, p)
        <5> TAKE p \in BagToSet(trials)
        <5>1. ~(Score(frame, p) < cutoff) /\ Score(frame, p) \in Int
          BY <2>4, <3>3 DEF AllScored
        <5> QED
          BY <2>2, <4>5, <5>1
      <4> QED
        BY <4>5, <4>6
    <3> QED
      BY <3>2, <3>3
  <2> QED
    BY <2>9, <2>10, <2>11
<1> QED
  BY <1>1, <1>2

-----------------------------------------------------------------------------
(* What a search finds.                                                    *)

\* The parameters of the remembered trials and the new ones.
LEMMA SumParams ==
  ASSUME NEW b \in TrialBags, NEW current \in SUBSET Params
  PROVE  BagToSet(b (+) SetToBag(current)) = BagToSet(b) \cup current
<1>1. DOMAIN SetToBag(current) = current
  BY DEF SetToBag
<1>2. DOMAIN (b (+) SetToBag(current)) = DOMAIN b \cup DOMAIN SetToBag(current)
  BY DEF (+)
<1> QED
  BY <1>1, <1>2 DEF BagToSet

\* Parameters on a version of the source have a score or raise.
Scorable(frame) ==
  \A p \in Params : Score(frame, p) \in Int \/ Score(frame, p) \in {Invalid, Crash}

\* Without remembered trials the whole grid is tried.
LEMMA WholeGrid ==
  ASSUME NEW grid, NEW frame
  PROVE  Narrowed(grid, EmptyBag, frame) = {Combinations(grid)}
<1>1. Size(EmptyBag) = 0
  BY SizeEmpty
<1>2. Keep(EmptyBag) = 1
  <2>1. (2 * 0) \div 5 = 0
    OBVIOUS
  <2>2. {1, 0} \in SUBSET Int /\ HasEnds({1, 0})
    BY DEF HasEnds
  <2>3. Max({1, 0}) \in {1, 0} /\ 1 <= Max({1, 0})
    BY <2>2, Ends
  <2>4. Max({1, 0}) = 1
    BY <2>3
  <2> QED
    BY <1>1, <2>1, <2>4 DEF Keep
<1>3. Lowest(EmptyBag, Keep(EmptyBag), frame) = {EmptyBag}
  BY <1>1, <1>2 DEF Lowest
<1>4. Shrunk(grid, EmptyBag) = grid
  BY DEF Shrunk
<1> QED
  BY <1>3, <1>4 DEF Narrowed

\* The best parameters are no worse than any trial, remembered or new; the trials to
\* remember are at most Top and one of them is as good; and if nothing was remembered,
\* nothing in the grid is better (_search_best_params).
LEMMA SearchFacts ==
  ASSUME NEW grid, NEW prior \in TrialBags, NEW frame, Scorable(frame),
         AllScored(prior, frame), NEW f \in Searches(grid, prior, frame)
  PROVE  /\ f.best \in Params /\ Score(frame, f.best) \in Int
         /\ f.trials \in TrialBags /\ Size(f.trials) <= Top
         /\ \A p \in BagToSet(prior) : Score(frame, f.best) <= Score(frame, p)
         /\ \E m \in BagToSet(f.trials) :
              Score(frame, m) \in Int /\ Score(frame, m) <= Score(frame, f.best)
         /\ BagToSet(prior) = {} =>
              \A p \in Combinations(grid) : Score(frame, f.best) <= Score(frame, p)
<1>1. PICK current \in Narrowed(grid, prior, frame) :
        /\ current # {} /\ \A p \in current : Score(frame, p) \notin {Invalid, Crash}
        /\ f \in [best : Best(BagToSet(prior (+) SetToBag(current)), frame),
                  trials : Lowest(prior (+) SetToBag(current), Top, frame)]
  BY DEF Searches
<1> DEFINE trials == prior (+) SetToBag(current)
<1>2. current \in SUBSET Params
  BY DEF Narrowed, Combinations
<1>3. trials \in TrialBags
  BY <1>2, CombinationBags, SumBags
<1>4. BagToSet(trials) = BagToSet(prior) \cup current
  BY <1>2, SumParams
<1>5. AllScored(trials, frame)
  BY <1>1, <1>2, <1>4 DEF AllScored, Scorable
<1>6. f.best \in Best(BagToSet(trials), frame) /\ f.trials \in Lowest(trials, Top, frame)
  BY <1>1
<1> HIDE DEF trials
<1>7. f.best \in BagToSet(trials)
      /\ \A p \in BagToSet(trials) : Score(frame, f.best) <= Score(frame, p)
  BY <1>6 DEF Best
<1>8. BagToSet(trials) \subseteq Params
  BY <1>3 DEF TrialBags, BagToSet
<1>9. Top \in Nat \ {0}
  BY SetupAssumption
<1>10. f.trials \in TrialBags
  BY <1>3, <1>6, LowestBags
<1>11. /\ Size(f.trials) <= Top /\ BagToSet(f.trials) \subseteq BagToSet(trials)
       /\ BagToSet(trials) # {} =>
            \E m \in BagToSet(f.trials) :
              \A p \in BagToSet(trials) : Score(frame, m) <= Score(frame, p)
  BY <1>3, <1>5, <1>6, <1>9, LowestFacts
<1>12. \E m \in BagToSet(f.trials) :
         Score(frame, m) \in Int /\ Score(frame, m) <= Score(frame, f.best)
  BY <1>5, <1>7, <1>11 DEF AllScored
<1>13. BagToSet(prior) = {} => current = Combinations(grid)
  BY NoneLeft, WholeGrid
<1> QED
  BY <1>4, <1>5, <1>7, <1>8, <1>10, <1>11, <1>12, <1>13 DEF AllScored

-----------------------------------------------------------------------------
(* What is remembered.                                                     *)

\* A run works on a version of the source, and what it chose can be evaluated on it.
Versions == {setup.versions[v] : v \in DOMAIN setup.versions}
Searched ==
  \A r \in Runs :
    /\ run[r].at \in {"clean", "load", "search", "materialize", "finish"} =>
         run[r].raw \in Versions
    /\ run[r].at = "search" => Names # {}
    /\ Chosen(r) => /\ run[r].clean \in Versions
                    /\ run[r].best \in Params /\ Scored(r, run[r].best) \in Int

\* Among the trials that a run saved is one that is as good as what the run chose.
Known(m) ==
  m.by # NoRun =>
    /\ Chosen(m.by)
    /\ \E p \in BagToSet(m.trials) :
         Scored(m.by, p) \in Int /\ Scored(m.by, p) <= Scored(m.by, run[m.by].best)
Remembers == Known(memory) /\ \A r \in Runs : Known(run[r].prior)

\* With one version of the source and one grid: trials hold one with the lowest score.
OneAnswer == Len(setup.versions) = 1 /\ \A q, r \in Runs : setup.grids[q] = setup.grids[r]
HasLowest(trials) ==
  BagToSet(trials) # {} =>
    \A r \in Runs : \A p \in Combinations(setup.grids[r]) :
      Score(setup.versions[1], p) \in Int =>
        \E m \in BagToSet(trials) :
          /\ Score(setup.versions[1], m) \in Int
          /\ Score(setup.versions[1], m) <= Score(setup.versions[1], p)
Answers ==
  OneAnswer => HasLowest(memory.trials) /\ \A r \in Runs : HasLowest(run[r].prior.trials)

Bounded == Size(memory.trials) <= Top /\ \A r \in Runs : Size(run[r].prior.trials) <= Top

Recalls == Searched /\ Remembers /\ Answers /\ Bounded /\ NeverForgets /\ SameAnswer

\* Every version of the source can be scored.
LEMMA VersionsScorable ==
  ASSUME Types, NEW frame \in Versions
  PROVE  Scorable(frame)
BY ScoreAssumption DEF Types, Versions, Scorable

\* A step of a run changes its entry in one of three ways: it goes on, it takes what is
\* remembered, or it has searched.
GoesOn(r) ==
  /\ memory' = memory
  /\ run'[r].prior = run[r].prior /\ run'[r].best = run[r].best
  /\ run'[r].best # <<>> => run'[r].clean = run[r].clean
TakesPrior(r) ==
  /\ memory' = memory /\ run[r].best = <<>> /\ run'[r].best = <<>>
  /\ run'[r].prior \in {memory, NoTrials}
Chooses(r) ==
  /\ run[r].at = "search" /\ run'[r].prior = run[r].prior /\ run'[r].clean = run[r].clean
  /\ run'[r].raw = run[r].raw
  /\ LET prior == Evaluated(run[r].prior.trials, run[r].clean) IN
       /\ AllScored(prior, run[r].clean)
       /\ \E f \in Searches(setup.grids[r], prior, run[r].clean) :
            /\ run'[r].best = f.best
            /\ memory' \in {memory, [trials |-> f.trials, by |-> r]}

\* What a search works on: a version of the source, and remembered trials.
LEMMA SearchFrame ==
  ASSUME Types, DataInv, Searched, NEW r \in Runs, run[r].at = "search"
  PROVE  /\ run[r].best = <<>> /\ run[r].clean \in Versions /\ Scorable(run[r].clean)
         /\ run[r].prior.trials \in TrialBags
<1>1. Cleans(run[r])
  BY DEF DataInv
<1>2. run[r].best = <<>> /\ run[r].clean = run[r].raw
  BY <1>1 DEF Cleans
<1>3. run[r].raw \in Versions
  BY DEF Searched
<1>4. run[r].prior.trials \in TrialBags
  BY DEF Types, Entries, Memories
<1> QED
  BY <1>2, <1>3, <1>4, VersionsScorable

\* There is no fourth way.
LEMMA StepKinds ==
  ASSUME Types, DataInv, Searched, NEW r \in Runs, Acts(r)
  PROVE  GoesOn(r) \/ TakesPrior(r) \/ Chooses(r)
<1>1. run \in [Runs -> Entries] /\ run[r] \in Entries
  BY DEF Types
<1>2. Cleans(run[r])
  BY DEF DataInv
<1>3. ASSUME NEW at, Goes(r, at), memory' = memory PROVE GoesOn(r)
  BY <1>1, <1>3 DEF Goes, GoesOn, Entries
<1>4. CASE Fetch(r)
  <2>1. CASE Goes(r, "failing")
    BY <1>3, <1>4, <2>1 DEF Fetch, OnlyRun
  <2>2. CASE run' = [run EXCEPT ![r].raw = setup.versions[now],
                                ![r].at = IF setup.versions[now] = {} THEN "returned" ELSE "clean"]
    <3>1. /\ run'[r].prior = run[r].prior /\ run'[r].best = run[r].best
          /\ run'[r].clean = run[r].clean
      BY <1>1, <2>2 DEF Entries
    <3> QED
      BY <1>4, <3>1 DEF Fetch, OnlyRun, GoesOn
  <2> QED
    BY <1>4, <2>1, <2>2 DEF Fetch
<1>5. CASE Clean(r)
  <2>1. run'[r].prior = run[r].prior /\ run'[r].best = run[r].best
    BY <1>1, <1>5 DEF Clean, Entries
  <2>2. run[r].best = <<>>
    BY <1>2, <1>5 DEF Cleans, Clean
  <2> QED
    BY <1>5, <2>1, <2>2 DEF Clean, OnlyRun, GoesOn
<1>6. CASE Load(r)
  <2>1. CASE Goes(r, "failing")
    BY <1>3, <1>6, <2>1 DEF Load, OnlyRun
  <2>2. ASSUME NEW prior \in {memory, NoTrials},
               run' = [run EXCEPT ![r].at = "search", ![r].prior = prior]
        PROVE  TakesPrior(r)
    <3>1. run'[r].prior = prior /\ run'[r].best = run[r].best
      BY <1>1, <2>2 DEF Entries
    <3>2. run[r].best = <<>>
      BY <1>2, <1>6 DEF Cleans, Load
    <3> QED
      BY <1>6, <3>1, <3>2 DEF Load, OnlyRun, TakesPrior
  <2> QED
    BY <1>6, <2>1, <2>2 DEF Load
<1>7. CASE Search(r)
  <2> DEFINE prior == Evaluated(run[r].prior.trials, run[r].clean)
             found == IF \E p \in BagToSet(prior) : Score(run[r].clean, p) = Crash THEN {}
                      ELSE Searches(setup.grids[r], prior, run[r].clean)
  <2>1. run[r].at = "search"
    BY <1>7 DEF Search
  <2>2. \/ \E f \in found :
             /\ run' = [run EXCEPT ![r].at = "materialize", ![r].best = f.best]
             /\ memory' \in {memory, [trials |-> f.trials, by |-> r]}
        \/ Goes(r, "failing") /\ memory' = memory
    BY <1>7 DEF Search
  <2>3. ASSUME NEW f \in found,
               run' = [run EXCEPT ![r].at = "materialize", ![r].best = f.best],
               memory' \in {memory, [trials |-> f.trials, by |-> r]}
        PROVE  Chooses(r)
    <3>1. /\ f \in Searches(setup.grids[r], prior, run[r].clean)
          /\ \A p \in BagToSet(prior) : Score(run[r].clean, p) # Crash
      BY <2>3
    <3>2. /\ run'[r].prior = run[r].prior /\ run'[r].clean = run[r].clean
          /\ run'[r].raw = run[r].raw /\ run'[r].best = f.best
      BY <1>1, <2>3 DEF Entries
    <3>3. /\ Scorable(run[r].clean) /\ run[r].prior.trials \in TrialBags
      BY <2>1, SearchFrame
    <3>4. BagToSet(prior) = {p \in BagToSet(run[r].prior.trials) :
                               Score(run[r].clean, p) # Invalid}
      BY OnlySet DEF Evaluated
    <3>5. BagToSet(run[r].prior.trials) \subseteq Params
      BY <3>3 DEF TrialBags, BagToSet
    <3>6. AllScored(prior, run[r].clean)
      BY <3>1, <3>3, <3>4, <3>5 DEF AllScored, Scorable
    <3> HIDE DEF prior, found
    <3>7. \E g \in Searches(setup.grids[r], prior, run[r].clean) :
            run'[r].best = g.best /\ memory' \in {memory, [trials |-> g.trials, by |-> r]}
      BY <2>3, <3>1, <3>2
    <3> QED
      BY <2>1, <3>2, <3>6, <3>7 DEF Chooses, prior
  <2> QED
    BY <1>3, <2>2, <2>3
<1>8. CASE Materialize(r)
  BY <1>3, <1>8 DEF Materialize
<1>9. CASE Finish(r)
  <2>1. PICK at : run' = [run EXCEPT ![r].at = at, ![r].success = TRUE]
    BY <1>9 DEF Finish
  <2>2. /\ run'[r].prior = run[r].prior /\ run'[r].best = run[r].best
        /\ run'[r].clean = run[r].clean
    BY <1>1, <2>1 DEF Entries
  <2> QED
    BY <1>9, <2>2 DEF Finish, GoesOn
<1>10. CASE Handle(r) \/ Raise(r) \/ Kill(r)
  BY <1>3, <1>10 DEF Handle, Raise, Kill, OnlyRun
<1> QED
  BY <1>4, <1>5, <1>6, <1>7, <1>8, <1>9, <1>10 DEF Acts, Step

\* What a run chose is final.
LEMMA Final ==
  ASSUME Types, DataInv, Searched, NEW r \in Runs, Acts(r), NEW q \in Runs, Chosen(q)
  PROVE  /\ run'[q].best = run[q].best /\ run'[q].clean = run[q].clean
         /\ run'[q].prior = run[q].prior
<1>1. q # r => run'[q] = run[q]
  BY ActsMove DEF Moves, Types
<1>2. CASE GoesOn(r)
  BY <1>1, <1>2 DEF GoesOn, Chosen
<1>3. CASE TakesPrior(r)
  BY <1>1, <1>3 DEF TakesPrior, Chosen
<1>4. CASE Chooses(r)
  BY <1>1, <1>4, SearchFrame DEF Chooses, Chosen
<1> QED
  BY <1>2, <1>3, <1>4, StepKinds

\* What a search adds, in the terms of its run.
LEMMA Choice ==
  ASSUME Types, DataInv, Searched, NEW r \in Runs, run[r].at = "search",
         AllScored(Evaluated(run[r].prior.trials, run[r].clean), run[r].clean),
         NEW f \in Searches(setup.grids[r], Evaluated(run[r].prior.trials, run[r].clean),
                            run[r].clean)
  PROVE  /\ f.best \in Params /\ f.best # <<>> /\ Scored(r, f.best) \in Int
         /\ f.trials \in TrialBags /\ Size(f.trials) <= Top
         /\ \A p \in BagToSet(run[r].prior.trials) :
              Scored(r, p) \in Int => Scored(r, f.best) <= Scored(r, p)
         /\ \E m \in BagToSet(f.trials) :
              Scored(r, m) \in Int /\ Scored(r, m) <= Scored(r, f.best)
         /\ (\A p \in BagToSet(run[r].prior.trials) : Scored(r, p) \notin Int) =>
              \A p \in Combinations(setup.grids[r]) : Scored(r, f.best) <= Scored(r, p)
<1> DEFINE frame == run[r].clean
           prior == Evaluated(run[r].prior.trials, frame)
<1>1. Scorable(frame) /\ run[r].prior.trials \in TrialBags
  BY SearchFrame
<1>2. prior \in TrialBags
  BY <1>1, EvaluatedBags
<1>3. BagToSet(prior) = {p \in BagToSet(run[r].prior.trials) : Score(frame, p) # Invalid}
  BY OnlySet DEF Evaluated
<1>4. AllScored(prior, frame) /\ f \in Searches(setup.grids[r], prior, frame)
  OBVIOUS
<1> HIDE DEF prior
<1>5. /\ f.best \in Params /\ Score(frame, f.best) \in Int
      /\ f.trials \in TrialBags /\ Size(f.trials) <= Top
      /\ \A p \in BagToSet(prior) : Score(frame, f.best) <= Score(frame, p)
      /\ \E m \in BagToSet(f.trials) :
           Score(frame, m) \in Int /\ Score(frame, m) <= Score(frame, f.best)
      /\ BagToSet(prior) = {} =>
           \A p \in Combinations(setup.grids[r]) : Score(frame, f.best) <= Score(frame, p)
  <2> HIDE DEF frame
  <2> QED
    BY <1>1, <1>2, <1>4, SearchFacts
<1>6. f.best # <<>>
  <2>1. PICK n \in Names : TRUE
    BY DEF Searched
  <2>2. DOMAIN f.best = Names
    BY <1>5 DEF Params
  <2>3. DOMAIN <<>> = {}
    OBVIOUS
  <2> QED
    BY <2>1, <2>2, <2>3
<1>7. \A p \in BagToSet(run[r].prior.trials) : Score(frame, p) \in Int => p \in BagToSet(prior)
  BY <1>3, ScoreAssumption
<1>8. (\A p \in BagToSet(run[r].prior.trials) : Score(frame, p) \notin Int) => BagToSet(prior) = {}
  BY <1>3, <1>4 DEF AllScored
<1> QED
  BY <1>5, <1>6, <1>7, <1>8 DEF Scored

-----------------------------------------------------------------------------
(* What is remembered is kept by every step of a run.                      *)

\* Runs go on working on versions of the source, and what is chosen has a score.
LEMMA SearchedNext ==
  ASSUME Types, DataInv, Searched, NEW r \in Runs, Acts(r)
  PROVE  Searched'
<1>1. /\ setup' = setup /\ Runs' = Runs /\ Versions' = Versions
      /\ \A q \in Runs : q # r => run'[q] = run[q]
      /\ run \in [Runs -> Entries] /\ run[r] \in Entries
  BY ActsMove DEF Moves, Runs, Versions, Types
<1>2. run'[r].at \in {"clean", "load", "search", "materialize", "finish"} =>
        run'[r].raw \in Versions
  <2>1. CASE Fetch(r)
    <3>1. CASE Goes(r, "failing")
      <4>1. run'[r].at = "failing"
        BY <1>1, <3>1 DEF Goes, Entries
      <4> QED
        BY <4>1
    <3>2. CASE run' = [run EXCEPT ![r].raw = setup.versions[now],
                                  ![r].at = IF setup.versions[now] = {} THEN "returned" ELSE "clean"]
      <4>1. run'[r].raw = setup.versions[now]
        BY <1>1, <3>2 DEF Entries
      <4> QED
        BY <4>1, SetupFacts DEF Versions
    <3> QED
      BY <2>1, <3>1, <3>2 DEF Fetch
  <2>2. CASE Clean(r)
    <3>1. run'[r].raw = run[r].raw
      BY <1>1, <2>2 DEF Clean, Entries
    <3> QED
      BY <2>2, <3>1 DEF Clean, Searched
  <2>3. CASE Load(r)
    <3>1. run'[r].raw = run[r].raw
      <4>1. CASE Goes(r, "failing")
        BY <1>1, <4>1 DEF Goes, Entries
      <4>2. ASSUME NEW prior, run' = [run EXCEPT ![r].at = "search", ![r].prior = prior]
            PROVE  run'[r].raw = run[r].raw
        BY <1>1, <4>2 DEF Entries
      <4> QED
        BY <2>3, <4>1, <4>2 DEF Load
    <3> QED
      BY <2>3, <3>1 DEF Load, Searched
  <2>4. CASE Search(r)
    <3>1. run'[r].raw = run[r].raw
      <4>1. CASE Goes(r, "failing")
        BY <1>1, <4>1 DEF Goes, Entries
      <4>2. ASSUME NEW best, run' = [run EXCEPT ![r].at = "materialize", ![r].best = best]
            PROVE  run'[r].raw = run[r].raw
        BY <1>1, <4>2 DEF Entries
      <4> QED
        BY <2>4, <4>1, <4>2 DEF Search
    <3> QED
      BY <2>4, <3>1 DEF Search, Searched
  <2>5. CASE Materialize(r)
    <3>1. run'[r].raw = run[r].raw
      BY <1>1, <2>5 DEF Materialize, Goes, Entries
    <3> QED
      BY <2>5, <3>1 DEF Materialize, Searched
  <2>6. CASE Finish(r)
    <3>1. PICK at \in {"returned", "failing"} :
            run' = [run EXCEPT ![r].at = at, ![r].success = TRUE]
      BY <2>6 DEF Finish
    <3>2. run'[r].at = at
      BY <1>1, <3>1 DEF Entries
    <3> QED
      BY <3>2
  <2>7. CASE Handle(r) \/ Raise(r) \/ Kill(r)
    <3>1. run'[r].at \in {"raised", "failing", "killed"}
      BY <1>1, <2>7 DEF Handle, Raise, Kill, Goes, Entries
    <3> QED
      BY <3>1
  <2> QED
    BY <2>1, <2>2, <2>3, <2>4, <2>5, <2>6, <2>7 DEF Acts, Step
<1>3. run'[r].at = "search" => Names # {}
  <2>1. CASE Load(r)
    <3>1. CASE Goes(r, "failing")
      <4>1. run'[r].at = "failing"
        BY <1>1, <3>1 DEF Goes, Entries
      <4> QED
        BY <4>1
    <3> QED
      BY <2>1, <3>1 DEF Load
  <2>2. CASE ~Load(r)
    <3>1. run'[r].at # "search"
      <4>1. ASSUME NEW at, at # "search", Goes(r, at) PROVE run'[r].at # "search"
        BY <1>1, <4>1 DEF Goes, Entries
      <4>2. CASE Fetch(r)
        <5>1. run' = [run EXCEPT ![r].raw = setup.versions[now],
                        ![r].at = IF setup.versions[now] = {} THEN "returned" ELSE "clean"]
                => run'[r].at # "search"
          BY <1>1 DEF Entries
        <5> QED
          BY <4>1, <4>2, <5>1 DEF Fetch
      <4>3. CASE Clean(r)
        BY <1>1, <4>3 DEF Clean, Entries
      <4>4. CASE Search(r)
        <5>1. ASSUME NEW best, run' = [run EXCEPT ![r].at = "materialize", ![r].best = best]
              PROVE  run'[r].at # "search"
          BY <1>1, <5>1 DEF Entries
        <5> QED
          BY <4>1, <4>4, <5>1 DEF Search
      <4>5. CASE Finish(r)
        <5>1. PICK at \in {"returned", "failing"} :
                run' = [run EXCEPT ![r].at = at, ![r].success = TRUE]
          BY <4>5 DEF Finish
        <5> QED
          BY <1>1, <5>1 DEF Entries
      <4>6. CASE Materialize(r) \/ Handle(r) \/ Raise(r) \/ Kill(r)
        BY <4>1, <4>6 DEF Materialize, Handle, Raise, Kill
      <4> QED
        BY <2>2, <4>2, <4>3, <4>4, <4>5, <4>6 DEF Acts, Step
    <3> QED
      BY <3>1
  <2> QED
    BY <2>1, <2>2
<1>4. ASSUME run'[r].best # <<>>
      PROVE  /\ run'[r].clean \in Versions /\ run'[r].best \in Params
             /\ Score(run'[r].clean, run'[r].best) \in Int
  <2>1. CASE Chosen(r)
    BY <2>1, Final DEF Searched, Scored
  <2>2. CASE ~Chosen(r)
    <3>1. Chooses(r)
      BY <1>4, <2>2, StepKinds DEF GoesOn, TakesPrior, Chosen
    <3>2. PICK f \in Searches(setup.grids[r], Evaluated(run[r].prior.trials, run[r].clean),
                              run[r].clean) : run'[r].best = f.best
      BY <3>1 DEF Chooses
    <3>3. f.best \in Params /\ Scored(r, f.best) \in Int
      BY <3>1, Choice DEF Chooses
    <3> QED
      BY <3>1, <3>2, <3>3, SearchFrame DEF Chooses, Scored
  <2> QED
    BY <2>1, <2>2
<1>5. ASSUME NEW q \in Runs
      PROVE  /\ run'[q].at \in {"clean", "load", "search", "materialize", "finish"} =>
                  run'[q].raw \in Versions
             /\ run'[q].at = "search" => Names # {}
             /\ run'[q].best # <<>> => /\ run'[q].clean \in Versions
                                       /\ run'[q].best \in Params
                                       /\ Score(run'[q].clean, run'[q].best) \in Int
  <2>1. CASE q = r
    BY <1>2, <1>3, <1>4, <2>1
  <2>2. CASE q # r
    BY <1>1, <2>2 DEF Searched, Chosen, Scored
  <2> QED
    BY <2>1, <2>2
<1> QED
  BY <1>1, <1>5 DEF Searched, Chosen, Scored

\* What a run saved stays as good as what it chose.
LEMMA KnownStays ==
  ASSUME Types, DataInv, Searched, NEW r \in Runs, Acts(r), NEW m \in Memories, Known(m)
  PROVE  m.by # NoRun =>
           /\ run'[m.by].best # <<>>
           /\ \E p \in BagToSet(m.trials) :
                /\ Score(run'[m.by].clean, p) \in Int
                /\ Score(run'[m.by].clean, p) <= Score(run'[m.by].clean, run'[m.by].best)
<1> SUFFICES ASSUME m.by # NoRun
             PROVE  /\ run'[m.by].best # <<>>
                    /\ \E p \in BagToSet(m.trials) :
                         /\ Score(run'[m.by].clean, p) \in Int
                         /\ Score(run'[m.by].clean, p) <= Score(run'[m.by].clean, run'[m.by].best)
  OBVIOUS
<1>1. m.by \in Runs /\ Chosen(m.by)
  BY DEF Memories, Known
<1>2. run'[m.by].best = run[m.by].best /\ run'[m.by].clean = run[m.by].clean
  BY <1>1, Final
<1> QED
  BY <1>1, <1>2 DEF Known, Chosen, Scored

\* The memory is only written by a search, with one of the trials as good as its best.
LEMMA RemembersNext ==
  ASSUME Types, DataInv, Searched, Remembers, NEW r \in Runs, Acts(r)
  PROVE  Remembers'
<1>1. /\ Runs' = Runs /\ \A q \in Runs : q # r => run'[q] = run[q]
  BY ActsMove DEF Moves, Runs, Types
<1>2. memory \in Memories /\ \A q \in Runs : run[q].prior \in Memories
  BY DEF Types, Entries
<1> DEFINE Ok(m) ==
      m.by # NoRun =>
        /\ run'[m.by].best # <<>>
        /\ \E p \in BagToSet(m.trials) :
             /\ Score(run'[m.by].clean, p) \in Int
             /\ Score(run'[m.by].clean, p) <= Score(run'[m.by].clean, run'[m.by].best)
<1>3. Ok(memory) /\ \A q \in Runs : Ok(run[q].prior)
  BY <1>2, KnownStays DEF Remembers
<1>4. Ok(NoTrials)
  BY DEF NoTrials
<1>5. ASSUME NEW f \in Searches(setup.grids[r],
                          Evaluated(run[r].prior.trials, run[r].clean), run[r].clean),
             Chooses(r), run'[r].best = f.best
      PROVE  Ok([trials |-> f.trials, by |-> r])
  <2>1. /\ f.best # <<>>
        /\ \E m \in BagToSet(f.trials) : Scored(r, m) \in Int /\ Scored(r, m) <= Scored(r, f.best)
    BY <1>5, Choice DEF Chooses
  <2> QED
    BY <1>5, <2>1 DEF Chooses, Scored
<1> HIDE DEF Ok
<1>6. Ok(memory') /\ Ok(run'[r].prior)
  <2>1. CASE GoesOn(r)
    BY <1>3, <2>1 DEF GoesOn
  <2>2. CASE TakesPrior(r)
    BY <1>3, <1>4, <2>2 DEF TakesPrior
  <2>3. CASE Chooses(r)
    BY <1>3, <1>5, <2>3 DEF Chooses
  <2> QED
    BY <2>1, <2>2, <2>3, StepKinds
<1>7. \A q \in Runs : Ok(run'[q].prior)
  BY <1>1, <1>3, <1>6
<1> QED
  BY <1>1, <1>6, <1>7 DEF Remembers, Known, Chosen, Scored, Ok

\* A search evaluates what it remembers, so that it chooses nothing worse.
LEMMA NeverForgetsNext ==
  ASSUME Types, DataInv, Searched, Remembers, NeverForgets, NEW r \in Runs, Acts(r)
  PROVE  NeverForgets'
<1>1. /\ Runs' = Runs /\ \A q \in Runs : q # r => run'[q] = run[q]
  BY ActsMove DEF Moves, Runs, Types
<1>2. ASSUME NEW s \in Runs, run'[s].best # <<>>, run'[s].prior.by # NoRun,
             run'[run'[s].prior.by].clean = run'[s].clean
      PROVE  Score(run'[s].clean, run'[s].best)
               <= Score(run'[s].clean, run'[run'[s].prior.by].best)
  <2>1. CASE Chosen(s)
    <3>1. /\ run'[s].best = run[s].best /\ run'[s].clean = run[s].clean
          /\ run'[s].prior = run[s].prior
      BY <2>1, Final
    <3> DEFINE q == run[s].prior.by
    <3>2. q \in Runs /\ Chosen(q)
      BY <1>2, <3>1 DEF Remembers, Known, Types, Entries, Memories
    <3>3. run'[q].best = run[q].best /\ run'[q].clean = run[q].clean
      BY <3>2, Final
    <3>4. Scored(s, run[s].best) <= Scored(s, run[q].best)
      BY <1>2, <2>1, <3>1, <3>3 DEF NeverForgets
    <3> QED
      BY <3>1, <3>3, <3>4 DEF Scored
  <2>2. CASE ~Chosen(s)
    <3>1. s = r /\ Chooses(r)
      BY <1>1, <1>2, <2>2, StepKinds DEF GoesOn, TakesPrior, Chosen
    <3> DEFINE q == run[r].prior.by
    <3>2. run'[r].prior = run[r].prior /\ run'[r].clean = run[r].clean
      BY <3>1 DEF Chooses
    <3>3. q \in Runs /\ Chosen(q) /\ Known(run[r].prior)
      BY <1>2, <3>1, <3>2 DEF Remembers, Known, Types, Entries, Memories
    <3>4. run'[q].best = run[q].best /\ run'[q].clean = run[q].clean
      BY <3>3, Final
    <3>5. run[q].clean = run[r].clean
      BY <1>2, <3>1, <3>2, <3>4
    <3>6. PICK p \in BagToSet(run[r].prior.trials) :
            Scored(r, p) \in Int /\ Scored(r, p) <= Scored(r, run[q].best)
      BY <1>2, <3>1, <3>2, <3>3, <3>5 DEF Known, Scored
    <3>7. PICK f \in Searches(setup.grids[r], Evaluated(run[r].prior.trials, run[r].clean),
                              run[r].clean) : run'[r].best = f.best
      BY <3>1 DEF Chooses
    <3>8. Scored(r, f.best) \in Int /\ Scored(r, f.best) <= Scored(r, p)
      BY <3>1, <3>6, Choice DEF Chooses
    <3>9. Scored(r, run[q].best) \in Int
      BY <3>3, <3>5 DEF Searched, Scored
    <3>10. Scored(r, f.best) <= Scored(r, run[q].best)
      BY <3>6, <3>8, <3>9
    <3> QED
      BY <3>1, <3>2, <3>4, <3>7, <3>10 DEF Scored
  <2> QED
    BY <2>1, <2>2
<1> QED
  BY <1>1, <1>2 DEF NeverForgets, Chosen, Scored

\* With one version of the source, that is what every search works on, and it ends with a
\* combination with the lowest score of the whole grid: either a remembered trial is as good
\* as any, or none of them fits and the whole grid is tried.
LEMMA ChoiceLowest ==
  ASSUME Types, DataInv, Searched, Answers, OneAnswer, NEW r \in Runs, run[r].at = "search",
         AllScored(Evaluated(run[r].prior.trials, run[r].clean), run[r].clean),
         NEW f \in Searches(setup.grids[r], Evaluated(run[r].prior.trials, run[r].clean),
                            run[r].clean)
  PROVE  /\ run[r].clean = setup.versions[1]
         /\ \A p \in Combinations(setup.grids[r]) :
              Scored(r, p) \in Int => Scored(r, f.best) <= Scored(r, p)
<1>1. run[r].clean = setup.versions[1]
  <2>1. setup.versions \in Seq(SUBSET Int) /\ Len(setup.versions) = 1
    BY SetupAssumption DEF Types, OneAnswer
  <2>2. DOMAIN setup.versions = {1}
    BY <2>1
  <2>3. run[r].clean \in Versions
    BY SearchFrame
  <2> QED
    BY <2>2, <2>3 DEF Versions
<1>2. /\ Scored(r, f.best) \in Int
      /\ \A p \in BagToSet(run[r].prior.trials) :
           Scored(r, p) \in Int => Scored(r, f.best) <= Scored(r, p)
      /\ (\A p \in BagToSet(run[r].prior.trials) : Scored(r, p) \notin Int) =>
           \A p \in Combinations(setup.grids[r]) : Scored(r, f.best) <= Scored(r, p)
  BY Choice
<1>3. HasLowest(run[r].prior.trials)
  BY DEF Answers
<1>4. ASSUME NEW p \in Combinations(setup.grids[r]), Scored(r, p) \in Int
      PROVE  Scored(r, f.best) <= Scored(r, p)
  <2>1. CASE \A x \in BagToSet(run[r].prior.trials) : Scored(r, x) \notin Int
    BY <1>2, <2>1
  <2>2. CASE BagToSet(run[r].prior.trials) # {}
    <3>1. PICK m \in BagToSet(run[r].prior.trials) :
            Scored(r, m) \in Int /\ Scored(r, m) <= Scored(r, p)
      BY <1>1, <1>3, <1>4, <2>2 DEF HasLowest, Scored
    <3>2. Scored(r, f.best) <= Scored(r, m)
      BY <1>2, <3>1
    <3> QED
      BY <1>2, <1>4, <3>1, <3>2
  <2> QED
    BY <2>1, <2>2
<1> QED
  BY <1>1, <1>4

\* Trials that a search saves hold one with the lowest score of the grid.
LEMMA AnswersNext ==
  ASSUME Types, DataInv, Searched, Answers, NEW r \in Runs, Acts(r)
  PROVE  Answers'
<1>1. /\ setup' = setup /\ Runs' = Runs /\ \A q \in Runs : q # r => run'[q] = run[q]
  BY ActsMove DEF Moves, Runs, Types
<1> SUFFICES ASSUME OneAnswer PROVE Answers'
  BY <1>1 DEF Answers, OneAnswer
<1>2. HasLowest(memory.trials) /\ \A q \in Runs : HasLowest(run[q].prior.trials)
  BY DEF Answers
<1>3. HasLowest(NoTrials.trials)
  BY SizeEmpty DEF NoTrials, HasLowest
<1>4. ASSUME Chooses(r), NEW f \in Searches(setup.grids[r],
               Evaluated(run[r].prior.trials, run[r].clean), run[r].clean)
      PROVE  HasLowest(f.trials)
  <2>1. /\ run[r].at = "search"
        /\ AllScored(Evaluated(run[r].prior.trials, run[r].clean), run[r].clean)
    BY <1>4 DEF Chooses
  <2>2. PICK m \in BagToSet(f.trials) : Scored(r, m) \in Int /\ Scored(r, m) <= Scored(r, f.best)
    BY <2>1, Choice
  <2>3. Scored(r, f.best) \in Int
    BY <2>1, Choice
  <2>4. /\ run[r].clean = setup.versions[1]
        /\ \A p \in Combinations(setup.grids[r]) :
             Scored(r, p) \in Int => Scored(r, f.best) <= Scored(r, p)
    BY <2>1, ChoiceLowest
  <2>5. ASSUME NEW s \in Runs, NEW p \in Combinations(setup.grids[s]),
               Score(setup.versions[1], p) \in Int
        PROVE  /\ Score(setup.versions[1], m) \in Int
               /\ Score(setup.versions[1], m) <= Score(setup.versions[1], p)
    <3>1. setup.grids[s] = setup.grids[r]
      BY DEF OneAnswer
    <3>2. Scored(r, f.best) <= Scored(r, p) /\ Scored(r, p) \in Int
      BY <2>4, <2>5, <3>1 DEF Scored
    <3>3. Scored(r, m) <= Scored(r, p)
      BY <2>2, <2>3, <3>2
    <3> QED
      BY <2>2, <2>4, <3>3 DEF Scored
  <2> QED
    BY <2>5 DEF HasLowest
<1>5. HasLowest(memory'.trials) /\ HasLowest(run'[r].prior.trials)
  <2>1. CASE GoesOn(r)
    BY <1>2, <2>1 DEF GoesOn
  <2>2. CASE TakesPrior(r)
    BY <1>2, <1>3, <2>2 DEF TakesPrior
  <2>3. CASE Chooses(r)
    <3>1. PICK f \in Searches(setup.grids[r], Evaluated(run[r].prior.trials, run[r].clean),
                              run[r].clean) : memory' \in {memory, [trials |-> f.trials, by |-> r]}
      BY <2>3 DEF Chooses
    <3>2. HasLowest(f.trials)
      BY <1>4, <2>3
    <3>3. run'[r].prior = run[r].prior
      BY <2>3 DEF Chooses
    <3>4. memory'.trials \in {memory.trials, f.trials}
      BY <3>1
    <3> QED
      BY <1>2, <3>2, <3>3, <3>4
  <2> QED
    BY <2>1, <2>2, <2>3, StepKinds
<1>6. \A q \in Runs : HasLowest(run'[q].prior.trials)
  BY <1>1, <1>2, <1>5
<1> QED
  BY <1>1, <1>5, <1>6 DEF Answers, HasLowest

\* So each search ends with the lowest score.
LEMMA SameAnswerNext ==
  ASSUME Types, DataInv, Searched, Answers, SameAnswer, NEW r \in Runs, Acts(r)
  PROVE  SameAnswer'
<1>1. /\ setup' = setup /\ Runs' = Runs /\ \A q \in Runs : q # r => run'[q] = run[q]
  BY ActsMove DEF Moves, Runs, Types
<1>2. ASSUME OneAnswer, NEW s \in Runs, run'[s].best # <<>>,
             NEW p \in Combinations(setup.grids[s]), Score(run'[s].clean, p) \in Int
      PROVE  Score(run'[s].clean, run'[s].best) <= Score(run'[s].clean, p)
  <2>1. CASE Chosen(s)
    <3>1. run'[s].best = run[s].best /\ run'[s].clean = run[s].clean
      BY <2>1, Final
    <3> QED
      BY <1>2, <2>1, <3>1 DEF SameAnswer, Scored, OneAnswer
  <2>2. CASE ~Chosen(s)
    <3>1. s = r /\ Chooses(r)
      BY <1>1, <1>2, <2>2, StepKinds DEF GoesOn, TakesPrior, Chosen
    <3>2. PICK f \in Searches(setup.grids[r], Evaluated(run[r].prior.trials, run[r].clean),
                              run[r].clean) : run'[r].best = f.best
      BY <3>1 DEF Chooses
    <3>3. /\ run'[r].clean = run[r].clean /\ run[r].at = "search"
          /\ AllScored(Evaluated(run[r].prior.trials, run[r].clean), run[r].clean)
      BY <3>1 DEF Chooses
    <3>4. \A c \in Combinations(setup.grids[r]) :
            Scored(r, c) \in Int => Scored(r, f.best) <= Scored(r, c)
      BY <1>2, <3>3, ChoiceLowest
    <3> QED
      BY <1>2, <3>1, <3>2, <3>3, <3>4 DEF Scored
  <2> QED
    BY <2>1, <2>2
<1> QED
  BY <1>1, <1>2 DEF SameAnswer, OneAnswer, Chosen, Scored, Combinations

\* No search saves more than Top trials.
LEMMA BoundedNext ==
  ASSUME Types, DataInv, Searched, Bounded, NEW r \in Runs, Acts(r)
  PROVE  Bounded'
<1>1. /\ Runs' = Runs /\ \A q \in Runs : q # r => run'[q] = run[q]
  BY ActsMove DEF Moves, Runs, Types
<1>2. Size(NoTrials.trials) <= Top
  BY SizeEmpty, SetupAssumption DEF NoTrials
<1>3. Size(memory'.trials) <= Top /\ Size(run'[r].prior.trials) <= Top
  <2>1. CASE GoesOn(r)
    BY <2>1 DEF GoesOn, Bounded
  <2>2. CASE TakesPrior(r)
    BY <1>2, <2>2 DEF TakesPrior, Bounded
  <2>3. CASE Chooses(r)
    <3>1. PICK f \in Searches(setup.grids[r], Evaluated(run[r].prior.trials, run[r].clean),
                              run[r].clean) : memory' \in {memory, [trials |-> f.trials, by |-> r]}
      BY <2>3 DEF Chooses
    <3>2. Size(f.trials) <= Top
      BY <2>3, Choice DEF Chooses
    <3>3. memory'.trials \in {memory.trials, f.trials} /\ run'[r].prior = run[r].prior
      BY <2>3, <3>1 DEF Chooses
    <3> QED
      BY <3>2, <3>3 DEF Bounded
  <2> QED
    BY <2>1, <2>2, <2>3, StepKinds
<1>4. \A q \in Runs : Size(run'[q].prior.trials) <= Top
  BY <1>1, <1>3 DEF Bounded
<1> QED
  BY <1>1, <1>3, <1>4 DEF Bounded

-----------------------------------------------------------------------------
(* Types, answers and what is not forgotten.                               *)

Kills == kills \in 0 .. setup.kills

\* A run is killed only while one may be.
LEMMA KillsNext == Types /\ Kills /\ [Next]_vars => Kills'
<1> SUFFICES ASSUME Types, Kills, [Next]_vars PROVE Kills'
  OBVIOUS
<1>1. CASE kills' = kills /\ setup' = setup
  BY <1>1 DEF Kills
<1>2. ASSUME NEW r \in Runs, Kill(r) PROVE Kills'
  <2>1. setup.kills \in Nat /\ setup' = setup
    BY <1>2, SetupAssumption DEF Types, Kill
  <2> QED
    BY <1>2, <2>1 DEF Kill, Kills
<1> QED
  BY <1>1, <1>2 DEF Next, Step, Fetch, Clean, Load, Search, Materialize, Finish, Handle, Raise,
                    OnlyRun, Evict, Publish, vars

\* In the first state nothing is remembered and nothing chosen.
LEMMA RecallsInit == Init => Recalls /\ Kills
<1> SUFFICES ASSUME Init PROVE Recalls /\ Kills
  OBVIOUS
<1>1. \A r \in Runs : run[r] = Fresh
  BY DEF Init
<1>2. memory = NoTrials /\ NoTrials.by = NoRun /\ NoTrials.trials = EmptyBag
  BY DEF Init, NoTrials
<1>3. Fresh.best = <<>> /\ Fresh.prior = NoTrials /\ Fresh.at = "none"
  BY DEF Fresh
<1>4. Size(EmptyBag) <= Top /\ BagToSet(EmptyBag) = {}
  BY SizeEmpty, SetupAssumption
<1>5. Searched
  BY <1>1, <1>3 DEF Searched, Chosen
<1>6. Remembers
  BY <1>1, <1>2, <1>3 DEF Remembers, Known
<1>7. Answers
  BY <1>1, <1>2, <1>3, <1>4 DEF Answers, HasLowest
<1>8. Bounded
  BY <1>1, <1>2, <1>3, <1>4 DEF Bounded
<1>9. NeverForgets /\ SameAnswer
  BY <1>1, <1>3 DEF NeverForgets, SameAnswer, Chosen
<1>10. Kills
  <2>1. setup.kills \in Nat
    BY SetupAssumption DEF Init
  <2> QED
    BY <2>1 DEF Init, Kills
<1> QED
  BY <1>5, <1>6, <1>7, <1>8, <1>9, <1>10 DEF Recalls

\* No step breaks the invariant: the source may change and the cache may lose artifacts, and
\* neither touches what runs have searched or remembered.
LEMMA RecallsNext == Types /\ DataInv /\ Recalls /\ [Next]_vars => Recalls'
<1> SUFFICES ASSUME Types, DataInv, Recalls, [Next]_vars PROVE Recalls'
  OBVIOUS
<1>1. ASSUME NEW r \in Runs, Acts(r) PROVE Recalls'
  BY <1>1, SearchedNext, RemembersNext, AnswersNext, BoundedNext, NeverForgetsNext,
     SameAnswerNext DEF Recalls
<1>2. CASE Evict \/ Publish \/ UNCHANGED vars
  <2>1. setup' = setup /\ run' = run /\ memory' = memory
    BY <1>2 DEF Evict, Publish, vars
  <2>2. Runs' = Runs /\ Versions' = Versions
    BY <2>1 DEF Runs, Versions
  <2>3. Searched' /\ NeverForgets' /\ SameAnswer' /\ Bounded'
    BY <2>1, <2>2
       DEF Recalls, Searched, NeverForgets, SameAnswer, Bounded, Chosen, Scored, Combinations
  <2>4. Remembers'
    BY <2>1, <2>2 DEF Recalls, Remembers, Known, Chosen, Scored
  <2>5. Answers'
    BY <2>1, <2>2 DEF Recalls, Answers, OneAnswer, HasLowest, Combinations
  <2> QED
    BY <2>3, <2>4, <2>5 DEF Recalls
<1> QED
  BY <1>1, <1>2 DEF Next, Acts

\* The inductive invariant says what TypeOK does.
LEMMA TypesTypeOK == Types /\ Recalls /\ Kills => TypeOK
<1> SUFFICES ASSUME Types, Recalls, Kills PROVE TypeOK
  OBVIOUS
<1>1. ASSUME NEW r \in Runs
      PROVE  run[r] \in [at : {"none"} \cup Working \cup Over, raw : SUBSET Int,
                         clean : SUBSET Int, success : BOOLEAN, best : Params \cup {<<>>},
                         prior : [trials : {run[q].prior.trials : q \in Runs},
                                  by : Runs \cup {NoRun}]]
  <2>1. run[r] \in Entries
    BY DEF Types
  <2>2. run[r].prior \in [trials : {run[q].prior.trials : q \in Runs}, by : Runs \cup {NoRun}]
    <3>1. run[r].prior \in Memories
      BY <2>1 DEF Entries
    <3>2. run[r].prior.trials \in {run[q].prior.trials : q \in Runs}
      OBVIOUS
    <3> QED
      BY <3>1, <3>2 DEF Memories
  <2> HIDE DEF Recalls
  <2> QED
    BY <2>1, <2>2 DEF Entries
<1>2. ASSUME NEW m \in {memory} \cup {run[r].prior : r \in Runs}
      PROVE  /\ IsABag(m.trials) /\ BagToSet(m.trials) \subseteq Params
             /\ Size(m.trials) <= Top /\ m.by \in Runs \cup {NoRun}
  <2>1. m \in Memories
    BY DEF Types, Entries
  <2>2. m.trials \in TrialBags /\ m.by \in Runs \cup {NoRun}
    BY <2>1 DEF Memories
  <2>3. PICK S \in SUBSET Params : m.trials \in [S -> Nat \ {0}]
    BY <2>2 DEF TrialBags
  <2>4. DOMAIN m.trials = S /\ \A p \in S : m.trials[p] \in Nat /\ m.trials[p] > 0
    BY <2>3
  <2>5. IsABag(m.trials)
    BY <2>3, <2>4 DEF IsABag
  <2>6. BagToSet(m.trials) \subseteq Params
    BY <2>4 DEF BagToSet
  <2>7. Size(m.trials) <= Top
    BY DEF Recalls, Bounded
  <2> QED
    BY <2>2, <2>5, <2>6, <2>7
<1>3. run \in [Runs -> [at : {"none"} \cup Working \cup Over, raw : SUBSET Int,
                        clean : SUBSET Int, success : BOOLEAN, best : Params \cup {<<>>},
                        prior : [trials : {run[r].prior.trials : r \in Runs},
                                 by : Runs \cup {NoRun}]]]
  <2>1. run \in [Runs -> Entries]
    BY DEF Types
  <2> QED
    BY <1>1, <2>1
<1>4. /\ setup \in Setups /\ now \in DOMAIN setup.versions
      /\ manifests \in [Ids -> [run : Runs, success : BOOLEAN, error : BOOLEAN]
                                  \cup {NoManifest}]
  BY DEF Types, Manifests
<1> QED
  BY <1>2, <1>3, <1>4 DEF TypeOK, Kills

\* All parts of the state have their types, and neither the memory nor what a run took from
\* it holds more than Top trials (Evolver.save): also when several of them have the score at
\* which the list is cut off, and when remembered trials are evaluated and saved again.
THEOREM TypeCorrect == Spec => []TypeOK
  BY TypesInit, DataInit, RecallsInit, TypesNext, DataNext, RecallsNext, KillsNext, TypesTypeOK, PTL DEF Spec

\* Runs of one grid on data that do not change all choose a combination with the lowest score
\* of the grid, for any grid and any scores: shrinking it to the values of remembered trials
\* loses nothing, whoever saved them and whatever failed in between (_search_best_params).
THEOREM SameAnswerHolds == Spec => []SameAnswer
<1>1. Recalls => SameAnswer
  BY DEF Recalls
<1> QED
  BY <1>1, DataInit, TypesInit, RecallsInit, TypesNext, DataNext, RecallsNext, PTL DEF Spec

\* A run that takes what another one saved for the same data chooses nothing worse, for any
\* grids of the two (_search_best_params, Evolver.save).
THEOREM NeverForgetsHolds == Spec => []NeverForgets
<1>1. Recalls => NeverForgets
  BY DEF Recalls
<1> QED
  BY <1>1, DataInit, TypesInit, RecallsInit, TypesNext, DataNext, RecallsNext, PTL DEF Spec
=============================================================================
