------------------------- MODULE ModelMatrix_proofs -------------------------
(***************************************************************************)
(* The folds of WalkForward, for every number of dates and folds and every *)
(* horizon; then, for every set of trainings, that what the model matrix   *)
(* publishes is complete and of one source, that its files agree with how  *)
(* the attempts ended and that no worker outlives an attempt that ended    *)
(* by itself.  Last, what goes into training is safe in time: views of the *)
(* past and splits of a series, for every store, log of events, policy,    *)
(* day, frame, number of folds and width of the windows.                   *)
(***************************************************************************)
EXTENDS ModelMatrix, PointInTime, PurgedSplits, CombinatorialSplits, FiniteSetTheorems,
        SequenceTheorems, WellFoundedInduction, TLAPS

\* The size of a fold is at least one, and the folds fill at most the dates there are.
LEMMA FoldSizeBound ==
  ASSUME NEW dates \in Nat, NEW folds \in Nat \ {0}, dates >= 2
  PROVE  /\ FoldCount(dates, folds) \in Nat \ {0}
         /\ FoldSize(dates, folds) \in Nat \ {0}
         /\ FoldSize(dates, folds) * (FoldCount(dates, folds) + 1) <= dates
<1>1. FoldCount(dates, folds) \in Nat \ {0} /\ FoldCount(dates, folds) + 1 <= dates
  BY DEF FoldCount, GreaterOf
<1> DEFINE n == FoldCount(dates, folds) + 1
           q == dates \div n
<1>2. n \in Nat \ {0} /\ n <= dates
  BY <1>1
<1> HIDE DEF n
<1>3. q \in Nat /\ q >= 1 /\ q * n <= dates
  BY <1>2, SMTT(30)
<1>4. FoldSize(dates, folds) = q
  BY <1>3 DEF FoldSize, GreaterOf, n
<1> QED BY <1>1, <1>3, <1>4 DEF n

\* Every fold starts within the dates: the break of the loop is never taken.
LEMMA StartsWithin ==
  ASSUME NEW dates \in Nat, NEW folds \in Nat \ {0}, dates >= 2,
         NEW i \in 0 .. FoldCount(dates, folds) - 1
  PROVE  /\ i \in Folds(dates, folds)
         /\ TestStart(dates, folds, i) \in Nat \ {0}
         /\ TestStart(dates, folds, i) + FoldSize(dates, folds) <= dates
<1> DEFINE s == FoldSize(dates, folds)
           k == FoldCount(dates, folds)
<1>1. s \in Nat \ {0} /\ k \in Nat \ {0} /\ s * (k + 1) <= dates
  BY FoldSizeBound
<1> HIDE DEF s, k
<1>2. i \in Nat /\ i + 1 <= k
  BY <1>1 DEF k
<1>3. s * (i + 1) + s <= s * (k + 1) /\ s * (i + 1) \in Nat /\ s * (i + 1) >= 1
  <2>1. PICK d \in Nat : k = i + 1 + d
    BY <1>1, <1>2
  <2>2. s * (k + 1) = s * (i + 1) + s + s * d
    BY <1>1, <1>2, <2>1
  <2>3. s * d >= 0 /\ s * d \in Nat
    BY <1>1
  <2>4. s * (i + 1) = s * i + s /\ s * i \in Nat
    BY <1>1, <1>2
  <2> QED BY <1>1, <2>2, <2>3, <2>4
<1>4. TestStart(dates, folds, i) = s * (i + 1)
  BY DEF TestStart, s
<1> QED BY <1>1, <1>2, <1>3, <1>4 DEF Folds, s, k

\* As many folds are built as FoldCount says.
THEOREM AllFoldsBuilt ==
  ASSUME NEW dates \in Nat, NEW folds \in Nat \ {0}, dates >= 2
  PROVE  Folds(dates, folds) = 0 .. FoldCount(dates, folds) - 1
BY StartsWithin DEF Folds

\* Every test window holds a date, and only dates of the panel.
THEOREM WindowsWithinDates ==
  ASSUME NEW dates \in Nat, NEW folds \in Nat \ {0}, NEW i \in Folds(dates, folds)
  PROVE  TestDates(dates, folds, i) # {} /\ TestDates(dates, folds, i) \subseteq 1 .. dates - 1
<1>1. dates >= 2 /\ i \in 0 .. FoldCount(dates, folds) - 1
  BY DEF Folds
<1>2. FoldSize(dates, folds) \in Nat \ {0}
  BY <1>1, FoldSizeBound
<1>3. /\ TestStart(dates, folds, i) \in Nat \ {0}
      /\ TestStart(dates, folds, i) + FoldSize(dates, folds) <= dates
  BY <1>1, StartsWithin
<1>4. TestEnd(dates, folds, i) = TestStart(dates, folds, i) + FoldSize(dates, folds)
  BY <1>2, <1>3 DEF TestEnd, LesserOf
<1>5. TestStart(dates, folds, i) \in TestDates(dates, folds, i)
  BY <1>2, <1>3, <1>4 DEF TestDates
<1> QED BY <1>2, <1>3, <1>4, <1>5 DEF TestDates

\* No date is tested in two folds.
THEOREM WindowsDisjoint ==
  ASSUME NEW dates \in Nat, NEW folds \in Nat \ {0},
         NEW i \in Folds(dates, folds), NEW j \in Folds(dates, folds), i < j
  PROVE  TestDates(dates, folds, i) \cap TestDates(dates, folds, j) = {}
<1> DEFINE s == FoldSize(dates, folds)
<1>1. dates >= 2 /\ i \in 0 .. FoldCount(dates, folds) - 1 /\ j \in 0 .. FoldCount(dates, folds) - 1
  BY DEF Folds
<1>2. s \in Nat \ {0} /\ FoldCount(dates, folds) \in Nat
  BY <1>1, FoldSizeBound
<1>3. /\ TestStart(dates, folds, i) \in Nat
      /\ TestStart(dates, folds, i) + s <= dates
      /\ TestStart(dates, folds, j) \in Nat
      /\ TestStart(dates, folds, j) + s <= dates
  BY <1>1, StartsWithin
<1>4. TestStart(dates, folds, i) + s <= TestStart(dates, folds, j)
  <2> HIDE DEF s
  <2>0. i \in Nat /\ j \in Nat
    BY <1>1, <1>2
  <2>1. PICK d \in Nat : j = i + 1 + d
    BY <2>0
  <2>2. s * (j + 1) = s * (i + 1) + s + s * d /\ s * d \in Nat
    BY <1>2, <2>0, <2>1
  <2>3. s * (i + 1) \in Nat
    BY <1>2, <2>0
  <2> QED BY <1>2, <2>2, <2>3 DEF TestStart, s
<1>5. TestEnd(dates, folds, i) = TestStart(dates, folds, i) + s
  BY <1>2, <1>3 DEF TestEnd, LesserOf
<1>6. TestEnd(dates, folds, j) = TestStart(dates, folds, j) + s
  BY <1>2, <1>3 DEF TestEnd, LesserOf
<1> QED BY <1>2, <1>3, <1>4, <1>5, <1>6 DEF TestDates

\* No model is trained on a label that was not known before its test window begins: the
\* label of date d is known at d + horizon.
THEOREM NoLookAhead ==
  ASSUME NEW dates \in Nat, NEW folds \in Nat \ {0}, NEW horizon \in Nat,
         NEW i \in Folds(dates, folds), NEW d \in TrainDates(dates, folds, horizon, i)
  PROVE  \A t \in TestDates(dates, folds, i) : d + horizon < t
<1>1. dates >= 2 /\ i \in 0 .. FoldCount(dates, folds) - 1
  BY DEF Folds
<1>2. TestStart(dates, folds, i) \in Nat
  BY <1>1, StartsWithin
<1>3. d + horizon < TestStart(dates, folds, i) /\ d \in Nat
  BY <1>2 DEF TrainDates, TrainEnd, GreaterOf
<1>4. TestEnd(dates, folds, i) \in Int
  BY <1>1, <1>2, FoldSizeBound DEF TestEnd, LesserOf
<1> QED BY <1>2, <1>3, <1>4 DEF TestDates

-----------------------------------------------------------------------------
LEMMA IntervalSize == \A a, b \in Int : Cardinality(a .. b) \in Nat
<1> TAKE a, b \in Int
<1>1. Cardinality(a .. b) = IF a > b THEN 0 ELSE b - a + 1
  BY FS_Interval
<1> QED
  BY <1>1

\* What a set-up holds.
LEMMA SetupFacts ==
  ASSUME setup \in Setups
  PROVE  /\ setup.models \in Nat \ {0} /\ setup.folds \in Nat \ {0} /\ setup.horizon \in Nat
         /\ setup.attempts \in Nat /\ setup.deaths \in Nat
         /\ Len(setup.dates) \in Nat \ {0}
         /\ DOMAIN setup.dates = 1 .. Len(setup.dates)
         /\ \A v \in DOMAIN setup.dates : setup.dates[v] \in Nat \ {0}
<1>1. setup \in [models : Nat \ {0}, folds : Nat \ {0}, horizon : Nat,
                 dates : Seq(Nat \ {0}), attempts : Nat, deaths : Nat,
                 timeout : BOOLEAN, keepScratch : BOOLEAN, keepFragments : BOOLEAN,
                 faulty : BOOLEAN]
  BY SetupAssumption
<1>2. setup.dates \in Seq(Nat \ {0}) /\ setup.dates # <<>>
  BY <1>1, CanonicalAssumption
<1>3. /\ Len(setup.dates) \in Nat \ {0}
      /\ DOMAIN setup.dates = 1 .. Len(setup.dates)
      /\ \A v \in DOMAIN setup.dates : setup.dates[v] \in Nat \ {0}
  BY <1>2
<1> QED
  BY <1>1, <1>3

\* Every cell of the matrix is a fold of its version, and its window has a number of rows.
LEMMA CellFacts ==
  ASSUME setup \in Setups, NEW v \in DOMAIN setup.dates
  PROVE  /\ CellCount(v) \in Nat
         /\ \A c \in 1 .. CellCount(v) :
              /\ FoldOf(v, c) \in FoldsOf(v)
              /\ Expected(v, c) \in Nat
              /\ TestStart(setup.dates[v], setup.folds, FoldOf(v, c)) \in Nat
<1> DEFINE d == setup.dates[v]
           k == FoldCount(d, setup.folds)
<1>1. d \in Nat /\ setup.folds \in Nat \ {0} /\ setup.models \in Nat \ {0}
  BY SetupFacts
<1>2. CASE d < 2
  <2>1. FoldsOf(v) = {}
    BY <1>1, <1>2 DEF FoldsOf, Folds
  <2>2. Cardinality(FoldsOf(v)) = 0
    BY <2>1, FS_EmptySet
  <2>3. CellCount(v) = 0
    BY <1>1, <2>2 DEF CellCount
  <2> QED
    BY <2>3
<1>3. CASE d >= 2
  <2>1. k \in Nat \ {0} /\ FoldsOf(v) = 0 .. k - 1
    BY <1>1, <1>3, FoldSizeBound, AllFoldsBuilt DEF FoldsOf
  <2> HIDE DEF k
  <2>2. Cardinality(FoldsOf(v)) = k
    BY <2>1, FS_Interval
  <2>3. CellCount(v) \in Nat
    BY <1>1, <2>1, <2>2 DEF CellCount
  <2>4. ASSUME NEW c \in 1 .. CellCount(v)
        PROVE  /\ FoldOf(v, c) \in FoldsOf(v)
               /\ Expected(v, c) \in Nat
               /\ TestStart(d, setup.folds, FoldOf(v, c)) \in Nat
    <3>1. FoldOf(v, c) = (c - 1) % k /\ c - 1 \in Nat
      BY <2>2, <2>3 DEF FoldOf
    <3>2. FoldOf(v, c) \in 0 .. k - 1
      <4>1. \A x, y \in Int : y > 0 => x % y \in 0 .. y - 1
        OBVIOUS
      <4> QED
        BY <2>1, <3>1, <4>1
    <3>3. TestStart(d, setup.folds, FoldOf(v, c)) \in Nat
      BY <1>1, <1>3, <3>2, StartsWithin DEF k
    <3>4. TestEnd(d, setup.folds, FoldOf(v, c)) \in Int
      <4>1. FoldSize(d, setup.folds) \in Nat
        BY <1>1, <1>3, FoldSizeBound
      <4> QED
        BY <1>1, <3>3, <4>1 DEF TestEnd, LesserOf
    <3>5. Expected(v, c) \in Nat
      <4>1. /\ TestStart(d, setup.folds, FoldOf(v, c)) \in Int
            /\ TestEnd(d, setup.folds, FoldOf(v, c)) - 1 \in Int
        BY <3>3, <3>4
      <4>2. Cardinality(TestDates(d, setup.folds, FoldOf(v, c))) \in Nat
        BY ONLY <4>1, IntervalSize DEF TestDates
      <4> QED
        BY <4>2 DEF Expected
    <3> QED
      BY <2>1, <3>2, <3>3, <3>5
  <2> QED
    BY <2>3, <2>4
<1> QED
  BY <1>1, <1>2, <1>3

\* The trainings do not change, and with them nothing that is computed from them.
LEMMA SetupStays ==
  ASSUME [Next]_vars
  PROVE  /\ setup' = setup /\ Attempts' = Attempts
         /\ \A v : CellCount(v)' = CellCount(v) /\ FoldsOf(v)' = FoldsOf(v)
         /\ \A v, c : FoldOf(v, c)' = FoldOf(v, c) /\ Expected(v, c)' = Expected(v, c)
<1>1. setup' = setup
  BY DEF Next, vars, Begin, BeginRaises, ParentStep, InitScratch, Scan, Spawn, TimesOut, Join,
     CountRows, AppendFragment, Assembled, Verify, Publish, WriteReport, Diagnose, Sweep,
     CloseWriter, Withdraw, WithdrawRaises, Release, RemoveScratch, Discard, OnlyParent, Raise, ExceedsMemory, Interrupt, Killed, WritePanel,
     WorkerStep, Open, Fit, Predict, Rename, ReportOk, Exit0, WorkerRaises, Unlink,
     ReportFailed, WorkerDies, OnlyWorker
<1> QED
  BY <1>1 DEF Attempts, CellCount, FoldsOf, FoldOf, Expected

\* A directory without files, with a file more, with a file less.
LEMMA EmptyDirectory == DOMAIN EmptyDir = {} /\ Range(EmptyDir) = {}
BY DEF EmptyDir, Range

LEMMA FileAdded ==
  ASSUME NEW dir, NEW c, NEW content
  PROVE  /\ DOMAIN With(dir, c, content) = DOMAIN dir \cup {c}
         /\ With(dir, c, content)[c] = content
         /\ \A i \in DOMAIN dir \ {c} : With(dir, c, content)[i] = dir[i]
         /\ Range(With(dir, c, content)) \subseteq Range(dir) \cup {content}
BY DEF With, Range

LEMMA FilesKept ==
  ASSUME NEW dir, NEW kept \in SUBSET DOMAIN dir
  PROVE  /\ DOMAIN Restrict(dir, kept) = kept
         /\ Range(Restrict(dir, kept)) \subseteq Range(dir)
BY DEF Restrict, Range

LEMMA FileRemoved ==
  ASSUME NEW dir, NEW c
  PROVE  /\ DOMAIN Without(dir, c) = DOMAIN dir \ {c}
         /\ \A i \in DOMAIN dir \ {c} : Without(dir, c)[i] = dir[i]
         /\ Range(Without(dir, c)) \subseteq Range(dir)
BY DEF Without, Restrict, Range

\* With the types: an attempt that runs is one of the training, and a worker works on a
\* cell of the version its parent opened.  One that has fitted a model had training rows.
ParentTyped ==
  /\ parent \in [at : Trying \cup {"resting", "closing", "withdraw", "release", "removing", "discard"},
                 n : 0 .. setup.attempts, src : 0 .. Len(setup.dates),
                 cell : Nat, loaded : BOOLEAN, haunted : BOOLEAN,
                 verdict : {"success", "failed", "broken", "interrupted"}]
  /\ parent.at # "resting" => parent.n \in Attempts /\ parent.src \in DOMAIN setup.dates
  /\ parent.at \in {"prepare", "scan"} => parent.cell = 1
  /\ parent.at \in {"spawn", "polling", "count", "assemble"} =>
       parent.cell \in 1 .. CellCount(parent.src) + 1
  /\ parent.at \in {"polling", "count"} => parent.cell <= CellCount(parent.src)

WorkerTyped ==
  /\ worker \in [Attempts -> [at : Working \cup {"none", "gone"}, cell : Nat, of : Nat,
                              src : Nat, ok : BOOLEAN]]
  /\ \A a \in Attempts : worker[a].at # "none" =>
       /\ worker[a].of \in DOMAIN setup.dates
       /\ worker[a].cell \in 1 .. CellCount(worker[a].of)
       /\ worker[a].at \in {"fitted", "written"} => LastTrained(a) >= 0

FilesTyped ==
  /\ setup \in Setups /\ canonical \in DOMAIN setup.dates
  /\ scratch \in [state : {"none", "partial", "complete"}, src : 0 .. Len(setup.dates)]
  /\ tmps \subseteq Attempts \X Nat
  /\ Range(fragments) \cup Range(draft) \subseteq Fragment
  /\ Range(statuses) \subseteq BOOLEAN
  /\ panel = NoFile \/ panel.by \in Attempts
  /\ report \in 0 .. setup.attempts
  /\ outcome \in [Attempts -> {"none", "running", "success", "refused", "failed",
                               "broken", "interrupted", "killed"}]
  /\ deaths \in 0 .. setup.deaths

Typed == ParentTyped /\ WorkerTyped /\ FilesTyped

LEMMA TypedInit == Init => Typed
<1> SUFFICES ASSUME Init PROVE Typed
  OBVIOUS
<1>1. setup \in Setups
  BY DEF Init
<1>2. /\ Len(setup.dates) \in Nat \ {0} /\ DOMAIN setup.dates = 1 .. Len(setup.dates)
      /\ setup.attempts \in Nat /\ setup.deaths \in Nat
  BY <1>1, SetupFacts
<1>3. Range(fragments) \cup Range(draft) \subseteq Fragment /\ Range(statuses) \subseteq BOOLEAN
  BY EmptyDirectory DEF Init
<1>4. ParentTyped
  BY <1>2 DEF Init, ParentTyped
<1>5. WorkerTyped
  BY DEF Init, WorkerTyped
<1>6. FilesTyped
  BY <1>1, <1>2, <1>3 DEF Init, FilesTyped, Attempts
<1> QED
  BY <1>4, <1>5, <1>6 DEF Typed

\* What a worker was trained on depends on its cell alone.
LEMMA SameTraining ==
  ASSUME setup' = setup, NEW a,
         worker'[a].of = worker[a].of, worker'[a].cell = worker[a].cell
  PROVE  LastTrained(a)' = LastTrained(a)
BY DEF LastTrained, FoldAt, FoldOf, FoldsOf

\* Where the parent is and at which cell, after a step that changes only these.
Moves(at, cell) == parent' = [parent EXCEPT !.at = at, !.cell = cell]

LEMMA ParentTypedStep == ASSUME Typed, [Next]_vars PROVE ParentTyped'
<1>0. /\ setup' = setup /\ Attempts' = Attempts
      /\ \A v : CellCount(v)' = CellCount(v)
  BY SetupStays
<1>1. /\ setup.attempts \in Nat /\ Attempts = 1 .. setup.attempts
      /\ Len(setup.dates) \in Nat \ {0} /\ DOMAIN setup.dates = 1 .. Len(setup.dates)
      /\ \A v \in DOMAIN setup.dates : CellCount(v) \in Nat
      /\ canonical \in DOMAIN setup.dates
  BY SetupFacts, CellFacts DEF Typed, FilesTyped, Attempts
<1>2. ParentTyped
  BY DEF Typed
<1>3. CASE UNCHANGED parent
  BY <1>0, <1>2, <1>3 DEF ParentTyped
<1>4. CASE Begin
  BY <1>0, <1>1, <1>2, <1>4 DEF Begin, ParentTyped, Trying
<1>25. CASE BeginRaises
  BY <1>0, <1>1, <1>2, <1>25 DEF BeginRaises, ParentTyped
<1>5. ASSUME NEW at \in Trying \cup {"resting", "closing", "withdraw", "release", "removing", "discard"},
             NEW verdict \in {"success", "failed", "broken", "interrupted"},
             at \notin {"prepare", "scan", "spawn", "polling", "count", "assemble"},
             parent.at # "resting",
             parent' = [parent EXCEPT !.at = at, !.verdict = verdict]
      PROVE  ParentTyped'
  BY <1>0, <1>1, <1>2, <1>5 DEF ParentTyped
<1>6. ASSUME Raises \/ RaisesWriting, parent.at # "resting" PROVE ParentTyped'
  BY <1>0, <1>1, <1>2, <1>6 DEF ParentTyped, Raises, RaisesWriting
<1>7. ASSUME NEW at \in {"verify", "publish", "report", "diagnose", "sweep", "withdraw",
                        "release", "removing", "discard", "resting"},
             Goes(at), parent.at # "resting"
      PROVE  ParentTyped'
  BY <1>0, <1>1, <1>2, <1>7 DEF ParentTyped, Goes, Trying
<1>8. CASE InitScratch
  BY <1>0, <1>1, <1>2, <1>8 DEF InitScratch, Goes, ParentTyped, Trying
<1>9. CASE Scan
  <2>1. CASE Raises
    BY <1>6, <1>9, <2>1 DEF Scan
  <2>2. ASSUME ~Raises PROVE ParentTyped'
    <3>1. /\ parent.at = "scan"
          /\ parent' = [parent EXCEPT !.loaded = TRUE,
                          !.at = IF FoldsOf(canonical) = {} THEN "withdraw" ELSE "spawn"]
      BY <1>9, <2>2 DEF Scan
    <3>2. /\ parent.cell = 1 /\ parent.n \in Attempts /\ parent.src \in DOMAIN setup.dates
      BY <1>2, <3>1 DEF ParentTyped
    <3>3. 1 \in 1 .. CellCount(parent.src) + 1
      BY <1>1, <3>2
    <3> QED
      BY <1>0, <1>1, <1>2, <3>1, <3>2, <3>3 DEF ParentTyped, Trying
  <2> QED
    BY <2>1, <2>2
<1>23. ASSUME NEW at, NEW cell, at \in {"spawn", "polling", "count", "assemble"},
              cell \in 1 .. CellCount(parent.src) + 1,
              at \in {"polling", "count"} => cell <= CellCount(parent.src),
              parent.at # "resting", Moves(at, cell)
       PROVE  ParentTyped'
  <2>1. cell \in Nat /\ parent.n \in Attempts /\ parent.src \in DOMAIN setup.dates
    BY <1>1, <1>2, <1>23 DEF ParentTyped
  <2>2. /\ parent'.at = at /\ parent'.cell = cell /\ parent'.n = parent.n
        /\ parent'.src = parent.src
        /\ parent' \in [at : Trying \cup {"resting", "closing", "withdraw", "release", "removing", "discard"},
                 n : 0 .. setup.attempts, src : 0 .. Len(setup.dates),
                 cell : Nat, loaded : BOOLEAN, haunted : BOOLEAN,
                 verdict : {"success", "failed", "broken", "interrupted"}]
    BY <1>2, <1>23, <2>1 DEF ParentTyped, Trying, Moves
  <2> QED
    BY <1>0, <1>23, <2>1, <2>2 DEF ParentTyped
<1>24. parent.at \in {"spawn", "polling", "count", "assemble"} =>
          /\ parent.cell \in 1 .. CellCount(parent.src) + 1 /\ parent.cell \in Nat
          /\ parent.src \in DOMAIN setup.dates /\ CellCount(parent.src) \in Nat
          /\ parent.at \in {"polling", "count"} => parent.cell <= CellCount(parent.src)
  BY <1>1, <1>2 DEF ParentTyped
<1>10. CASE Spawn
  <2>1. CASE parent.cell <= CellCount(parent.src)
    <3>1. Moves("polling", parent.cell) /\ parent.at # "resting"
      BY <1>2, <1>10, <2>1 DEF Spawn, Goes, Moves, ParentTyped
    <3> QED
      BY <1>10, <1>23, <1>24, <2>1, <3>1 DEF Spawn
  <2>2. CASE ~(parent.cell <= CellCount(parent.src))
    <3>1. Moves("assemble", 1)
      BY <1>10, <2>2 DEF Spawn, Moves
    <3>2. parent.at = "spawn" /\ 1 \in 1 .. CellCount(parent.src) + 1
      BY <1>10, <1>24 DEF Spawn
    <3> QED
      BY <1>23, <3>1, <3>2
  <2> QED
    BY <2>1, <2>2
<1>11. CASE TimesOut \/ ExceedsMemory
  BY <1>6, <1>11 DEF TimesOut, ExceedsMemory, Terminates
<1>12. CASE Join
  <2>1. ASSUME Goes("count") PROVE ParentTyped'
    <3>1. parent.at = "polling" /\ Moves("count", parent.cell)
      BY <1>2, <1>12, <2>1 DEF Join, Goes, Moves, ParentTyped
    <3> QED
      BY <1>23, <1>24, <3>1
  <2> QED
    BY <1>6, <1>12, <2>1 DEF Join
<1>13. CASE CountRows
  <2>1. ASSUME parent' = [parent EXCEPT !.at = "spawn", !.cell = @ + 1] PROVE ParentTyped'
    <3>1. parent.at = "count" /\ parent.cell + 1 \in 1 .. CellCount(parent.src) + 1
      BY <1>13, <1>24 DEF CountRows
    <3>2. Moves("spawn", parent.cell + 1)
      BY <2>1 DEF Moves
    <3> QED
      BY <1>23, <3>1, <3>2
  <2> QED
    BY <1>6, <1>13, <2>1 DEF CountRows
<1>14. CASE AppendFragment
  <2>1. ASSUME parent' = [parent EXCEPT !.cell = @ + 1] PROVE ParentTyped'
    <3>1. parent.at = "assemble" /\ parent.cell + 1 \in 1 .. CellCount(parent.src) + 1
      BY <1>14, <1>24 DEF AppendFragment
    <3>2. parent = [parent EXCEPT !.at = "assemble"]
      BY <1>2, <3>1 DEF ParentTyped
    <3>3. parent' = [[parent EXCEPT !.at = "assemble"] EXCEPT !.cell = parent.cell + 1]
      BY <2>1, <3>2
    <3>4. Moves("assemble", parent.cell + 1)
      BY <1>2, <3>3 DEF ParentTyped, Moves
    <3> QED
      BY <1>23, <3>1, <3>4
  <2>2. parent.at # "resting" /\ (parent' = [parent EXCEPT !.cell = @ + 1] \/ RaisesWriting)
    BY <1>14 DEF AppendFragment
  <2> QED
    BY <1>6, <2>1, <2>2
<1>15. CASE Assembled \/ Verify
  BY <1>6, <1>7, <1>15 DEF Assembled, Verify
<1>16. CASE Publish \/ WriteReport \/ Diagnose \/ Withdraw \/ Release \/ RemoveScratch \/ Discard
            \/ Killed
  BY <1>7, <1>16 DEF Publish, WriteReport, Diagnose, Withdraw, Release, RemoveScratch, Discard,
     Killed
<1>17. CASE Sweep \/ WithdrawRaises \/ Interrupt
  BY <1>5, <1>17 DEF Sweep, WithdrawRaises, Interrupt, Trying
<1>26. CASE CloseWriter
  <2>1. CASE parent' = [parent EXCEPT !.at = "release", !.verdict = "broken"]
    BY <1>5, <1>26, <2>1 DEF CloseWriter, Trying
  <2> QED
    BY <1>7, <1>26, <2>1 DEF CloseWriter
<1>18. CASE Raise
  BY <1>6, <1>18 DEF Raise, Trying
<1>19. CASE WritePanel \/ \E a \in Attempts : WorkerStep(a)
  BY <1>3, <1>19 DEF WritePanel, WorkerStep, Open, Fit, Predict, Rename, ReportOk, Exit0,
     WorkerRaises, Unlink, ReportFailed, WorkerDies, OnlyWorker
<1> QED
  BY <1>3, <1>4, <1>8, <1>9, <1>10, <1>11, <1>12, <1>13, <1>14, <1>15, <1>16, <1>17, <1>18,
     <1>19, <1>25, <1>26 DEF Next, ParentStep, vars

\* A worker goes on with its cell.
Continues(a, at, ok, src) == worker' = [worker EXCEPT ![a].at = at, ![a].ok = ok, ![a].src = src]

LEMMA WorkerTypedStep == ASSUME Typed, [Next]_vars PROVE WorkerTyped'
<1>0. /\ setup' = setup /\ Attempts' = Attempts
      /\ \A v : CellCount(v)' = CellCount(v)
  BY SetupStays
<1>1. WorkerTyped /\ ParentTyped /\ scratch.src \in Nat
  BY SetupFacts DEF Typed, FilesTyped
<1>2. CASE UNCHANGED worker
  <2>1. \A a : LastTrained(a)' = LastTrained(a)
    BY <1>0, <1>2, SameTraining
  <2> QED
    BY <1>0, <1>1, <1>2, <2>1 DEF WorkerTyped
<1>3. ASSUME NEW a \in Attempts, NEW at \in Working \cup {"gone"}, NEW ok \in BOOLEAN,
             NEW src \in Nat, worker[a].at # "none",
             at \in {"fitted", "written"} => LastTrained(a) >= 0,
             Continues(a, at, ok, src)
      PROVE  WorkerTyped'
  <2>1. /\ \A b \in Attempts : /\ worker'[b].of = worker[b].of /\ worker'[b].cell = worker[b].cell
                               /\ b # a => worker'[b] = worker[b]
        /\ worker'[a].at = at
        /\ worker' \in [Attempts -> [at : Working \cup {"none", "gone"}, cell : Nat, of : Nat,
                                     src : Nat, ok : BOOLEAN]]
    <3>1. /\ worker[a] \in [at : Working \cup {"none", "gone"}, cell : Nat, of : Nat,
                            src : Nat, ok : BOOLEAN]
          /\ worker' = [b \in Attempts |->
                          IF b = a THEN [worker[a] EXCEPT !.at = at, !.ok = ok, !.src = src]
                                   ELSE worker[b]]
      BY <1>1, <1>3 DEF WorkerTyped, Continues
    <3>2. [worker[a] EXCEPT !.at = at, !.ok = ok, !.src = src]
            \in [at : Working \cup {"none", "gone"}, cell : Nat, of : Nat, src : Nat, ok : BOOLEAN]
      BY <1>3, <3>1
    <3> QED
      BY <1>1, <1>3, <3>1, <3>2 DEF WorkerTyped
  <2>2. \A b \in Attempts : LastTrained(b)' = LastTrained(b)
    BY <1>0, <2>1, SameTraining
  <2> QED
    BY <1>0, <1>1, <1>3, <2>1, <2>2 DEF WorkerTyped
<1>4. CASE Spawn
  <2>1. CASE UNCHANGED worker
    BY <1>2, <2>1
  <2>2. CASE ~UNCHANGED worker
    <3>1. /\ parent.n \in Attempts /\ parent.src \in DOMAIN setup.dates
          /\ parent.cell \in 1 .. CellCount(parent.src) /\ parent.cell \in Nat /\ parent.src \in Nat
          /\ worker' = [worker EXCEPT ![parent.n] =
                          [at |-> "spawned", cell |-> parent.cell, of |-> parent.src,
                           src |-> 0, ok |-> FALSE]]
      <4>1. CellCount(parent.src) \in Nat /\ parent.src \in Nat
        BY <1>1, <1>4, CellFacts, SetupFacts DEF Spawn, ParentTyped, Typed, FilesTyped
      <4> QED
        BY <1>1, <1>4, <2>2, <4>1 DEF Spawn, ParentTyped
    <3>2. \A b \in Attempts : b # parent.n => worker'[b] = worker[b]
      BY <1>1, <3>1 DEF WorkerTyped
    <3>3. \A b \in Attempts : b # parent.n => LastTrained(b)' = LastTrained(b)
      BY <1>0, <3>2, SameTraining
    <3>4. worker'[parent.n] = [at |-> "spawned", cell |-> parent.cell, of |-> parent.src,
                               src |-> 0, ok |-> FALSE]
      BY <1>1, <3>1 DEF WorkerTyped
    <3>5. worker' \in [Attempts -> [at : Working \cup {"none", "gone"}, cell : Nat, of : Nat,
                                    src : Nat, ok : BOOLEAN]]
      BY <1>1, <3>1 DEF WorkerTyped, Working
    <3> QED
      BY <1>0, <1>1, <3>1, <3>2, <3>3, <3>4, <3>5 DEF WorkerTyped
  <2> QED
    BY <2>1, <2>2
<1>5. CASE TimesOut \/ ExceedsMemory
  <2>1. /\ parent.n \in Attempts /\ worker[parent.n].at # "none"
        /\ worker' = [worker EXCEPT ![parent.n].at = "gone", ![parent.n].ok = FALSE]
    BY <1>1, <1>5 DEF TimesOut, ExceedsMemory, Terminates, ParentTyped, Alive, Working
  <2>2. Continues(parent.n, "gone", FALSE, worker[parent.n].src)
    BY <1>1, <2>1 DEF WorkerTyped, Continues
  <2>3. worker[parent.n].src \in Nat /\ "gone" \in Working \cup {"gone"}
    BY <1>1, <2>1 DEF WorkerTyped
  <2> QED
    BY <1>3, <2>1, <2>2, <2>3
<1>6. ASSUME NEW a \in Attempts, WorkerStep(a) PROVE WorkerTyped'
  <2>1. ASSUME NEW at \in Working, Becomes(a, at), worker[a].at # "none",
               at \in {"fitted", "written"} => LastTrained(a) >= 0
        PROVE  WorkerTyped'
    <3>1. Continues(a, at, worker[a].ok, worker[a].src)
      BY <1>1, <2>1 DEF Becomes, WorkerTyped, Continues
    <3>2. worker[a].ok \in BOOLEAN /\ worker[a].src \in Nat
      BY <1>1 DEF WorkerTyped
    <3> QED
      BY <1>3, <2>1, <3>1, <3>2
  <2>2. ASSUME NEW ok \in BOOLEAN, Ends(a, ok), worker[a].at # "none" PROVE WorkerTyped'
    <3>1. Continues(a, "gone", ok, worker[a].src)
      BY <1>1, <2>2 DEF Ends, WorkerTyped, Continues
    <3>2. worker[a].src \in Nat
      BY <1>1 DEF WorkerTyped
    <3> QED
      BY <1>3, <2>2, <3>1, <3>2
  <2>3. CASE Open(a)
    <3>1. CASE worker' = [worker EXCEPT ![a].at = "opened", ![a].src = scratch.src]
      <4>1. Continues(a, "opened", worker[a].ok, scratch.src)
        BY <1>1, <3>1 DEF WorkerTyped, Continues
      <4> QED
        BY <1>1, <1>3, <2>3, <4>1 DEF WorkerTyped, Open, Working
    <3> QED
      BY <2>1, <2>3, <3>1 DEF Open, Working
  <2>4. CASE Fit(a)
    <3>1. LastTrained(a) \in Int
      <4>1. worker[a].of \in DOMAIN setup.dates /\ worker[a].cell \in 1 .. CellCount(worker[a].of)
        BY <1>1, <2>4 DEF Fit, WorkerTyped
      <4>2. TestStart(setup.dates[worker[a].of], setup.folds, FoldAt(a)) \in Nat
        BY <4>1, CellFacts DEF Typed, FilesTyped, FoldAt
      <4> QED
        BY <4>2, SetupFacts DEF Typed, FilesTyped, LastTrained, TrainEnd, GreaterOf
    <3> QED
      BY <2>1, <2>4, <3>1 DEF Fit, Working
  <2>5. CASE Predict(a)
    BY <1>1, <2>1, <2>5 DEF Predict, Working, WorkerTyped
  <2>6. CASE Rename(a) \/ ReportOk(a) \/ WorkerRaises(a) \/ Unlink(a)
    BY <2>1, <2>6 DEF Rename, ReportOk, WorkerRaises, Unlink, Working
  <2>7. CASE Exit0(a) \/ ReportFailed(a) \/ WorkerDies(a)
    BY <2>2, <2>7 DEF Exit0, ReportFailed, WorkerDies, Alive, Working
  <2> QED
    BY <1>6, <2>3, <2>4, <2>5, <2>6, <2>7 DEF WorkerStep
<1> QED
  BY <1>2, <1>4, <1>5, <1>6 DEF Next, vars, Begin, BeginRaises, ParentStep, InitScratch, Scan,
     Join, CountRows, AppendFragment, Assembled, Verify, Publish, WriteReport, Diagnose, Sweep,
     CloseWriter, Withdraw, WithdrawRaises, Release, RemoveScratch, Discard, OnlyParent, Raise, Interrupt, Killed, WritePanel

LEMMA FilesTypedStep == ASSUME Typed, [Next]_vars PROVE FilesTyped'
<1>0. setup' = setup /\ Attempts' = Attempts
  BY SetupStays
<1>1. /\ setup.attempts \in Nat /\ setup.deaths \in Nat /\ Attempts = 1 .. setup.attempts
      /\ Len(setup.dates) \in Nat \ {0} /\ DOMAIN setup.dates = 1 .. Len(setup.dates)
  BY SetupFacts DEF Typed, FilesTyped, Attempts
<1>2. FilesTyped /\ ParentTyped /\ WorkerTyped
  BY DEF Typed
<1>3. CASE UNCHANGED <<canonical, files, outcome, deaths, setup>>
  BY <1>2, <1>3 DEF FilesTyped, files, Attempts
<1>6. CASE Begin
  <2>1. parent.n + 1 \in Attempts
    BY <1>1, <1>2, <1>6 DEF Begin, ParentTyped
  <2>2. outcome' \in [Attempts -> {"none", "running", "success", "refused", "failed",
                               "broken", "interrupted", "killed"}]
    BY <1>2, <1>6, <2>1 DEF Begin, FilesTyped
  <2> QED
    BY <1>0, <1>2, <1>6, <2>2, EmptyDirectory DEF Begin, FilesTyped
<1>17. CASE BeginRaises
  <2>1. parent.n + 1 \in Attempts
    BY <1>1, <1>2, <1>17 DEF BeginRaises, ParentTyped
  <2>2. outcome' \in [Attempts -> {"none", "running", "success", "refused", "failed",
                               "broken", "interrupted", "killed"}]
    BY <1>2, <1>17, <2>1 DEF BeginRaises, FilesTyped
  <2> QED
    BY <1>0, <1>2, <1>17, <2>2 DEF BeginRaises, FilesTyped, files
<1>18. ASSUME RemoveFragments PROVE Range(fragments') \subseteq Fragment /\ tmps' \subseteq tmps
  BY <1>2, <1>18, FilesKept DEF RemoveFragments, FilesTyped
<1>7. CASE InitScratch \/ Scan \/ Release \/ RemoveScratch
  <2>1. scratch' \in [state : {"none", "partial", "complete"}, src : 0 .. Len(setup.dates)]
    BY <1>1, <1>2, <1>7 DEF InitScratch, Scan, Release, RemoveScratch, FilesTyped
  <2> QED
    BY <1>0, <1>2, <1>7, <2>1 DEF InitScratch, Scan, Release, RemoveScratch, FilesTyped
<1>8. CASE AppendFragment
  <2>1. CASE UNCHANGED draft
    BY <1>0, <1>2, <1>8, <2>1 DEF AppendFragment, FilesTyped
  <2>2. CASE ~UNCHANGED draft
    <3>1. /\ parent.cell \in DOMAIN fragments
          /\ draft' = With(draft, parent.cell, fragments[parent.cell])
      BY <1>8, <2>2 DEF AppendFragment
    <3>2. fragments[parent.cell] \in Range(fragments)
      BY <3>1 DEF Range
    <3>3. Range(draft') \subseteq Range(draft) \cup {fragments[parent.cell]}
      BY <3>1, FileAdded
    <3> QED
      BY <1>0, <1>2, <1>8, <3>2, <3>3 DEF AppendFragment, FilesTyped
  <2> QED
    BY <2>1, <2>2
<1>9. CASE Publish \/ Withdraw \/ WithdrawRaises
  <2>1. parent.n \in Attempts
    BY <1>2, <1>9 DEF Publish, Withdraw, WithdrawRaises, ParentTyped
  <2>2. panel' = NoFile \/ panel'.by \in Attempts
    BY <1>2, <1>9, <2>1 DEF Publish, Withdraw, WithdrawRaises, FilesTyped
  <2> QED
    BY <1>0, <1>2, <1>9, <2>2, EmptyDirectory DEF Publish, Withdraw, WithdrawRaises, FilesTyped
<1>10. CASE WriteReport
  <2>1. parent.n \in 0 .. setup.attempts
    BY <1>2, <1>10 DEF WriteReport, ParentTyped
  <2> QED
    BY <1>0, <1>2, <1>10, <2>1 DEF WriteReport, FilesTyped
<1>11. CASE Sweep
  BY <1>0, <1>2, <1>11, <1>18 DEF Sweep, FilesTyped
<1>12. CASE Discard
  <2>1. /\ parent.n \in Attempts
        /\ outcome' = [outcome EXCEPT ![parent.n] = parent.verdict]
        /\ parent.verdict \in {"success", "failed", "broken", "interrupted"}
    BY <1>2, <1>12 DEF Discard, ParentTyped
  <2>2. outcome' \in [Attempts -> {"none", "running", "success", "refused", "failed",
                               "broken", "interrupted", "killed"}]
    BY <1>2, <2>1 DEF FilesTyped
  <2>3. Range(fragments') \subseteq Fragment /\ tmps' \subseteq tmps
    BY <1>2, <1>12, <1>18 DEF Discard, FilesTyped
  <2> QED
    BY <1>0, <1>2, <1>12, <2>2, <2>3 DEF Discard, FilesTyped
<1>13. CASE Interrupt \/ Killed
  <2>1. deaths' \in 0 .. setup.deaths
    BY <1>1, <1>2, <1>13 DEF Interrupt, Killed, FilesTyped
  <2>2. outcome' \in [Attempts -> {"none", "running", "success", "refused", "failed",
                               "broken", "interrupted", "killed"}]
    BY <1>2, <1>13 DEF Interrupt, Killed, FilesTyped
  <2> QED
    BY <1>0, <1>2, <1>13, <2>1, <2>2 DEF Interrupt, Killed, FilesTyped, files
<1>14. CASE WritePanel
  BY <1>0, <1>1, <1>2, <1>14 DEF WritePanel, FilesTyped, files
<1>15. ASSUME NEW a \in Attempts, WorkerStep(a) PROVE FilesTyped'
  <2>1. worker[a].cell \in Nat /\ worker[a].src \in Nat
    BY <1>2 DEF WorkerTyped
  <2>2. CASE Predict(a)
    <3>1. tmps' \subseteq Attempts \X Nat
      BY <1>2, <2>1, <2>2 DEF Predict, FilesTyped
    <3> QED
      BY <1>0, <1>2, <2>2, <3>1 DEF Predict, FilesTyped
  <2>3. CASE Rename(a)
    <3> DEFINE written == [by |-> a, src |-> worker[a].src,
                           rows |-> Expected(worker[a].of, worker[a].cell), last |-> LastTrained(a)]
    <3>1. CASE UNCHANGED <<tmps, fragments>>
      BY <1>0, <1>2, <2>3, <3>1 DEF Rename, FilesTyped
    <3>2. CASE ~UNCHANGED <<tmps, fragments>>
      <4>1. written \in Fragment
        <5>1. /\ worker[a].of \in DOMAIN setup.dates
              /\ worker[a].cell \in 1 .. CellCount(worker[a].of)
              /\ LastTrained(a) >= 0
          BY <1>2, <2>3 DEF Rename, WorkerTyped
        <5>2. /\ Expected(worker[a].of, worker[a].cell) \in Nat
              /\ TestStart(setup.dates[worker[a].of], setup.folds, FoldAt(a)) \in Nat
          BY <1>2, <5>1, CellFacts DEF FilesTyped, FoldAt
        <5>3. setup.horizon \in Nat
          BY <1>2, SetupFacts DEF FilesTyped
        <5>4. LastTrained(a) \in Nat
          BY <5>1, <5>2, <5>3 DEF LastTrained, TrainEnd, GreaterOf
        <5>5. a \in Nat
          BY <1>1
        <5> QED
          BY <2>1, <5>2, <5>4, <5>5 DEF Fragment
      <4>2. fragments' = With(fragments, worker[a].cell, written) /\ tmps' \subseteq tmps
        BY <2>3, <3>2 DEF Rename
      <4>3. Range(fragments') \subseteq Range(fragments) \cup {written}
        BY ONLY <4>2, FileAdded
      <4> HIDE DEF written
      <4> QED
        BY <1>0, <1>2, <2>3, <4>1, <4>2, <4>3 DEF Rename, FilesTyped
    <3> QED
      BY <3>1, <3>2
  <2>4. CASE ReportOk(a) \/ ReportFailed(a)
    <3>1. PICK ok \in BOOLEAN : statuses' = With(statuses, worker[a].cell, ok)
      BY <2>4 DEF ReportOk, ReportFailed
    <3>2. Range(statuses') \subseteq Range(statuses) \cup {ok}
      BY ONLY <3>1, FileAdded
    <3> QED
      BY <1>0, <1>2, <2>4, <3>2 DEF ReportOk, ReportFailed, FilesTyped
  <2>5. CASE Unlink(a)
    <3>1. Range(fragments') \subseteq Range(fragments) /\ tmps' \subseteq tmps
      BY <2>5, FileRemoved DEF Unlink
    <3> QED
      BY <1>0, <1>2, <2>5, <3>1 DEF Unlink, FilesTyped
  <2>6. CASE Open(a) \/ Fit(a) \/ Exit0(a) \/ WorkerRaises(a) \/ WorkerDies(a)
    BY <1>3, <2>6 DEF Open, Fit, Exit0, WorkerRaises, WorkerDies, OnlyWorker
  <2> QED
    BY <1>15, <2>2, <2>3, <2>4, <2>5, <2>6 DEF WorkerStep
<1>16. CASE Spawn \/ TimesOut \/ ExceedsMemory \/ Join \/ CountRows \/ Assembled \/ Verify
            \/ Diagnose \/ Raise \/ CloseWriter
  BY <1>3, <1>16 DEF Spawn, TimesOut, ExceedsMemory, Join, CountRows, Assembled, Verify,
     Diagnose, Raise, CloseWriter, OnlyParent
<1> QED
  BY <1>3, <1>6, <1>7, <1>8, <1>9, <1>10, <1>11, <1>12, <1>13, <1>14, <1>15, <1>16, <1>17
     DEF Next, ParentStep, vars

\* The types, in every state.
THEOREM TypeCorrect == Spec => []TypeOK
<1>1. Typed /\ [Next]_vars => Typed'
  BY ParentTypedStep, WorkerTypedStep, FilesTypedStep DEF Typed
<1>2. Typed => TypeOK
  BY DEF Typed, ParentTyped, WorkerTyped, FilesTyped, TypeOK
<1> QED
  BY TypedInit, <1>1, <1>2, PTL DEF Spec

-----------------------------------------------------------------------------
\* An attempt that did not begin has no worker; one that runs has none while its parent is
\* not in the polling loop, unless its parent was interrupted.
Reaped ==
  /\ \A a \in Attempts : a > parent.n => outcome[a] = "none" /\ worker[a].at = "none"
  /\ ~Resting => outcome[parent.n] = "running"
  /\ parent.at \in Trying \cup {"closing", "withdraw"} => parent.verdict = "failed"
  /\ (~Resting /\ Alive(parent.n)) => parent.at = "polling" \/ parent.verdict = "interrupted"
  /\ WorkersReaped

\* What every step of a worker leaves alone.
LEMMA WorkerActs ==
  ASSUME WorkerTyped, NEW a \in Attempts, WorkerStep(a)
  PROVE  /\ UNCHANGED <<canonical, parent, scratch, draft, panel, report, outcome, deaths, setup>>
         /\ Alive(a) /\ worker'[a].at \in Working \cup {"gone"}
         /\ worker'[a].cell = worker[a].cell /\ worker'[a].of = worker[a].of
         /\ \A b \in Attempts : b # a => worker'[b] = worker[b]
<1>1. /\ worker \in [Attempts -> [at : Working \cup {"none", "gone"}, cell : Nat, of : Nat,
                                 src : Nat, ok : BOOLEAN]]
  BY DEF WorkerTyped
<1>2. UNCHANGED <<canonical, parent, scratch, draft, panel, report, outcome, deaths, setup>>
  BY DEF WorkerStep, Open, Fit, Predict, Rename, ReportOk, Exit0, WorkerRaises, Unlink,
     ReportFailed, WorkerDies, OnlyWorker, files
<1>3. ASSUME NEW at \in Working \cup {"gone"}, Becomes(a, at)
      PROVE  /\ worker'[a].at = at /\ worker'[a].cell = worker[a].cell
             /\ worker'[a].of = worker[a].of
             /\ \A b \in Attempts : b # a => worker'[b] = worker[b]
  BY <1>1, <1>3 DEF Becomes
<1>4. ASSUME NEW ok \in BOOLEAN, Ends(a, ok)
      PROVE  /\ worker'[a].at = "gone" /\ worker'[a].cell = worker[a].cell
             /\ worker'[a].of = worker[a].of
             /\ \A b \in Attempts : b # a => worker'[b] = worker[b]
  BY <1>1, <1>4 DEF Ends
<1>5. CASE Open(a)
  <2>1. CASE Becomes(a, "failing")
    BY <1>2, <1>3, <1>5, <2>1 DEF Open, Alive, Working
  <2>2. CASE worker' = [worker EXCEPT ![a].at = "opened", ![a].src = scratch.src]
    BY <1>1, <1>2, <1>5, <2>2 DEF Open, Alive, Working
  <2> QED
    BY <1>5, <2>1, <2>2 DEF Open
<1>6. CASE Fit(a)
  <2>1. PICK at \in Working : Becomes(a, at)
    BY <1>6 DEF Fit, Working
  <2> QED
    BY <1>2, <1>3, <1>6, <2>1 DEF Fit, Alive, Working
<1>7. CASE Predict(a) \/ Rename(a) \/ ReportOk(a) \/ WorkerRaises(a) \/ Unlink(a)
  <2>1. (\E at \in Working : Becomes(a, at)) /\ Alive(a)
    BY <1>7 DEF Predict, Rename, ReportOk, WorkerRaises, Unlink, Working, Alive
  <2> QED
    BY <1>2, <1>3, <2>1
<1>8. CASE Exit0(a) \/ ReportFailed(a) \/ WorkerDies(a)
  <2>1. (\E ok \in BOOLEAN : Ends(a, ok)) /\ Alive(a)
    BY <1>8 DEF Exit0, ReportFailed, WorkerDies, Working, Alive
  <2> QED
    BY <1>2, <1>4, <2>1
<1> QED
  BY <1>5, <1>6, <1>7, <1>8 DEF WorkerStep

LEMMA ReapedStep == ASSUME Typed, Reaped, [Next]_vars PROVE Reaped'
<1>0. Attempts' = Attempts
  BY SetupStays
<1>1. /\ Attempts = 1 .. setup.attempts
      /\ parent.n \in 0 .. setup.attempts /\ parent.verdict \in {"success", "failed", "broken", "interrupted"}
      /\ ~Resting => parent.n \in Attempts
      /\ worker \in [Attempts -> [at : Working \cup {"none", "gone"}, cell : Nat, of : Nat,
                              src : Nat, ok : BOOLEAN]]
      /\ outcome \in [Attempts -> {"none", "running", "success", "refused", "failed",
                               "broken", "interrupted", "killed"}]
      /\ parent \in [at : Trying \cup {"resting", "closing", "withdraw", "release", "removing", "discard"},
                     n : 0 .. setup.attempts, src : 0 .. Len(setup.dates),
                     cell : Nat, loaded : BOOLEAN, haunted : BOOLEAN,
                     verdict : {"success", "failed", "broken", "interrupted"}]
  <2>1. parent \in [at : Trying \cup {"resting", "closing", "withdraw", "release", "removing", "discard"},
                     n : 0 .. setup.attempts, src : 0 .. Len(setup.dates),
                     cell : Nat, loaded : BOOLEAN, haunted : BOOLEAN,
                     verdict : {"success", "failed", "broken", "interrupted"}]
    BY DEF Typed, ParentTyped
  <2>2. Attempts = 1 .. setup.attempts /\ (~Resting => parent.n \in Attempts)
    BY DEF Typed, ParentTyped, Attempts, Resting
  <2>3. /\ worker \in [Attempts -> [at : Working \cup {"none", "gone"}, cell : Nat, of : Nat,
                              src : Nat, ok : BOOLEAN]]
        /\ outcome \in [Attempts -> {"none", "running", "success", "refused", "failed",
                               "broken", "interrupted", "killed"}]
    BY DEF Typed, WorkerTyped, FilesTyped
  <2> QED
    BY <2>1, <2>2, <2>3
\* The worker of an attempt starts in Spawn only.
<1>2. ASSUME parent'.n = parent.n, outcome' = outcome, parent'.at # "resting", parent.at # "resting",
             parent'.at \in Trying \cup {"closing", "withdraw"} => parent'.verdict = "failed",
             \A a \in Attempts : worker'[a].at = "none" <=> worker[a].at = "none",
             \A a \in Attempts : Alive(a)' => Alive(a),
             Alive(parent.n)' => parent'.at = "polling" \/ parent'.verdict = "interrupted"
      PROVE  Reaped'
  BY <1>0, <1>2 DEF Reaped, WorkersReaped, Resting
<1>3. ASSUME UNCHANGED <<worker, outcome>>, parent.at # "resting",
             NEW at \in Trying \cup {"release", "removing", "discard"},
             parent'.at = at, parent'.n = parent.n, parent'.verdict = parent.verdict,
             at \in Trying => parent.at \in Trying,
             at = "polling" <=> parent.at = "polling"
      PROVE  Reaped'
  <2>1. /\ parent.at \in Trying \cup {"closing", "withdraw"} => parent.verdict = "failed"
        /\ Alive(parent.n) => parent.at = "polling" \/ parent.verdict = "interrupted"
    BY <1>3 DEF Reaped, Resting
  <2>2. /\ parent'.at # "resting"
        /\ parent'.at \in Trying \cup {"closing", "withdraw"} => parent'.verdict = "failed"
    BY <1>3, <2>1 DEF Trying
  <2>3. /\ \A a \in Attempts : Alive(a)' => Alive(a)
        /\ Alive(parent.n)' => parent'.at = "polling" \/ parent'.verdict = "interrupted"
    BY <1>3, <2>1 DEF Alive
  <2> QED
    BY <1>2, <1>3, <2>2, <2>3
<1>4. ASSUME Raises \/ RaisesWriting, outcome' = outcome, parent.at \in Trying, ~Alive(parent.n)',
             \A a \in Attempts : worker'[a].at = "none" <=> worker[a].at = "none",
             \A a \in Attempts : Alive(a)' => Alive(a)
      PROVE  Reaped'
  BY <1>1, <1>2, <1>4 DEF Raises, RaisesWriting, Trying
<1>5. CASE Begin
  <2>1. /\ parent'.n = parent.n + 1 /\ parent.n + 1 \in Attempts /\ parent'.at = "prepare"
        /\ parent'.verdict = "failed" /\ outcome' = [outcome EXCEPT ![parent.n + 1] = "running"]
        /\ worker' = worker
    <3>1. parent.n + 1 \in Attempts
      <4>1. setup.attempts \in Nat
        BY SetupFacts DEF Typed, FilesTyped
      <4>2. parent.n \in 0 .. setup.attempts /\ parent.n < setup.attempts
        BY <1>1, <1>5 DEF Begin
      <4>3. parent.n + 1 \in 1 .. setup.attempts
        BY <4>1, <4>2
      <4> QED
        BY <1>1, <4>3
    <3> QED
      BY <1>5, <3>1 DEF Begin
  <2>2. outcome[parent.n + 1] = "none" /\ ~Alive(parent.n + 1)
    BY <1>1, <2>1 DEF Reaped, Alive, Working
  <2> QED
    BY <1>0, <1>1, <2>1, <2>2 DEF Reaped, WorkersReaped, Resting, Alive, Trying
<1>6. CASE UNCHANGED <<parent, worker, outcome>>
  BY <1>0, <1>6 DEF Reaped, WorkersReaped, Resting, Alive
<1>7. CASE InitScratch \/ WriteReport \/ Publish \/ Diagnose \/ Withdraw \/ Release \/ RemoveScratch
  BY <1>1, <1>3, <1>7 DEF InitScratch, WriteReport, Publish, Diagnose, Withdraw, Release,
     RemoveScratch, Goes, Trying, OnlyParent
<1>20. CASE BeginRaises
  <2>1. /\ parent'.n = parent.n + 1 /\ parent'.at = "resting" /\ worker' = worker
        /\ outcome' = [outcome EXCEPT ![parent.n + 1] = "refused"] /\ parent'.verdict = "failed"
    BY <1>20 DEF BeginRaises
  <2>2. parent.n + 1 \in Attempts /\ parent.n \in Nat
    <3>1. setup.attempts \in Nat
      BY SetupFacts DEF Typed, FilesTyped
    <3>2. parent.n \in 0 .. setup.attempts /\ parent.n < setup.attempts
      BY <1>1, <1>20 DEF BeginRaises
    <3> QED
      BY <1>1, <3>1, <3>2
  <2>3. ~Alive(parent.n + 1)
    BY <1>1, <2>2 DEF Reaped, Alive, Working
  <2> QED
    BY <1>0, <1>1, <2>1, <2>2, <2>3 DEF Reaped, WorkersReaped, Resting, Alive, Trying
<1>21. CASE CloseWriter \/ WithdrawRaises
  <2>1. /\ parent.at \in {"closing", "withdraw"} /\ parent'.n = parent.n
        /\ worker' = worker /\ outcome' = outcome
        /\ \/ parent'.at = "withdraw" /\ parent'.verdict = parent.verdict
           \/ parent'.at = "release"
    BY <1>1, <1>21 DEF CloseWriter, WithdrawRaises, Goes, OnlyParent
  <2>2. parent.verdict = "failed" /\ ~Alive(parent.n)
    BY <2>1 DEF Reaped, Resting
  <2> QED
    BY <1>2, <2>1, <2>2 DEF Alive, Trying
<1>9. CASE Spawn
  <2>1. CASE worker' = worker
    <3>1. /\ parent.at = "spawn" /\ parent'.at \in {"assemble", "polling"}
          /\ parent'.n = parent.n /\ parent'.verdict = parent.verdict /\ outcome' = outcome
      BY <1>1, <1>9 DEF Spawn, Goes
    <3>2. parent.verdict = "failed" /\ ~Alive(parent.n)
      BY <1>1, <3>1 DEF Reaped, Resting, Trying
    <3>3. \A a \in Attempts : Alive(a)' => Alive(a)
      BY <2>1 DEF Alive
    <3>4. ~Alive(parent.n)'
      BY <2>1, <3>1, <3>2 DEF Alive
    <3> QED
      BY <1>2, <2>1, <3>1, <3>2, <3>3, <3>4
  <2>2. CASE worker' # worker
    <3>1. /\ parent.at = "spawn" /\ parent.n \in Attempts /\ parent'.at = "polling" /\ parent'.n = parent.n
          /\ parent'.verdict = parent.verdict /\ outcome' = outcome
          /\ \A b \in Attempts : b # parent.n => worker'[b] = worker[b]
      BY <1>1, <1>9, <2>2 DEF Spawn, Goes, Resting
    <3>2. outcome[parent.n] = "running"
      BY <3>1 DEF Reaped, Resting
    <3> QED
      BY <1>0, <3>1, <3>2 DEF Reaped, WorkersReaped, Resting, Alive, Trying
  <2> QED
    BY <2>1, <2>2
<1>10. CASE TimesOut \/ ExceedsMemory
  <2>1. /\ parent.at \in Trying /\ parent.n \in Attempts /\ Alive(parent.n) /\ Raises
        /\ worker' = [worker EXCEPT ![parent.n].at = "gone", ![parent.n].ok = FALSE]
        /\ outcome' = outcome
    BY <1>1, <1>10 DEF TimesOut, ExceedsMemory, Terminates, Trying, Resting
  <2>2. /\ worker'[parent.n].at = "gone" /\ worker[parent.n].at # "none"
        /\ \A b \in Attempts : b # parent.n => worker'[b] = worker[b]
    BY <1>1, <2>1 DEF Alive, Working
  <2>3. ~Alive(parent.n)'
    BY <1>1, <2>1, <2>2 DEF Alive, Working, Raises
  <2> QED
    BY <1>4, <2>1, <2>2, <2>3 DEF Alive, Working
<1>11. ASSUME Raises \/ RaisesWriting, worker' = worker, outcome' = outcome,
              parent.at \in Trying, parent.at = "polling" => Exited(parent.n)
       PROVE  Reaped'
  <2>1. ~Alive(parent.n) /\ parent'.n = parent.n
    BY <1>1, <1>11 DEF Reaped, Alive, Working, Exited, Resting, Trying, Raises, RaisesWriting
  <2> QED
    BY <1>4, <1>11, <2>1 DEF Alive
<1>8. CASE Scan
  <2>1. CASE Raises
    BY <1>11, <1>8, <2>1 DEF Scan, Trying
  <2>2. CASE ~Raises
    <3>1. /\ parent.at = "scan" /\ worker' = worker /\ outcome' = outcome
          /\ parent'.at \in {"withdraw", "spawn"} /\ parent'.n = parent.n
          /\ parent'.verdict = parent.verdict
      BY <1>1, <1>8, <2>2 DEF Scan
    <3> QED
      BY <1>2, <3>1 DEF Reaped, Alive, Resting, Trying
  <2> QED
    BY <2>1, <2>2
<1>12. CASE Join
  <2>1. ~Alive(parent.n) /\ Exited(parent.n) /\ parent.at = "polling"
    BY <1>12 DEF Join, Exited, Alive, Working
  <2>2. CASE Goes("count")
    BY <1>1, <1>2, <1>12, <2>1, <2>2 DEF Join, Goes, Trying, Reaped, Alive, Resting, OnlyParent
  <2> QED
    BY <1>11, <1>12, <2>1, <2>2 DEF Join, OnlyParent, Trying
<1>13. CASE CountRows \/ AppendFragment \/ Assembled \/ Verify
  <2>1. /\ parent.at \in {"count", "assemble", "verify"} /\ worker' = worker /\ outcome' = outcome
        /\ \/ Raises \/ RaisesWriting
           \/ /\ parent'.at \in {"spawn", "assemble", "verify", "publish"}
              /\ parent'.n = parent.n /\ parent'.verdict = parent.verdict
    BY <1>1, <1>13 DEF CountRows, AppendFragment, Assembled, Verify, OnlyParent, Goes
  <2>2. CASE Raises \/ RaisesWriting
    BY <1>11, <2>1, <2>2 DEF Trying
  <2>3. CASE ~(Raises \/ RaisesWriting)
    BY <1>2, <2>1, <2>3 DEF Reaped, Alive, Resting, Trying
  <2> QED
    BY <2>2, <2>3
<1>14. CASE Sweep \/ Interrupt
  <2>1. /\ parent.at \in Trying \cup {"closing", "withdraw"} /\ worker' = worker /\ outcome' = outcome
        /\ parent'.at = "release" /\ parent'.n = parent.n
        /\ \/ parent'.verdict = "interrupted"
           \/ parent.at = "sweep"
    BY <1>1, <1>14 DEF Sweep, Interrupt, Trying
  <2> QED
    BY <1>2, <2>1 DEF Reaped, Alive, Resting, Trying
<1>15. CASE Raise
  BY <1>11, <1>15 DEF Raise, OnlyParent
<1>16. CASE Discard
  <2>1. /\ parent.n \in Attempts /\ parent'.at = "resting" /\ parent'.n = parent.n
        /\ worker' = worker /\ outcome' = [outcome EXCEPT ![parent.n] = parent.verdict]
        /\ parent.at = "discard" /\ parent'.verdict = parent.verdict
    BY <1>1, <1>16 DEF Discard, Resting, Goes
  <2> QED
    BY <1>0, <1>1, <2>1 DEF Reaped, WorkersReaped, Resting, Alive, Trying
<1>17. CASE Killed
  <2>1. /\ parent.n \in Attempts /\ parent'.at = "resting" /\ parent'.n = parent.n
        /\ worker' = worker /\ outcome' = [outcome EXCEPT ![parent.n] = "killed"]
        /\ parent'.verdict = parent.verdict
    BY <1>1, <1>17 DEF Killed, Resting, Goes
  <2> QED
    BY <1>0, <1>1, <2>1 DEF Reaped, WorkersReaped, Resting, Alive, Trying
<1>18. ASSUME NEW a \in Attempts, WorkerStep(a) PROVE Reaped'
  <2>1. /\ UNCHANGED <<parent, outcome>> /\ Alive(a) /\ worker'[a].at # "none"
        /\ \A c \in Attempts : c # a => worker'[c] = worker[c]
    BY <1>18, WorkerActs DEF Typed, Working
  <2>2. \A c \in Attempts : /\ worker[c].at = "none" => worker'[c].at = "none"
                            /\ Alive(c)' => Alive(c)
    BY <1>0, <2>1 DEF Alive, Working
  <2>3. WorkersReaped'
    BY <1>0, <2>1, <2>2 DEF Reaped, WorkersReaped
  <2>4. \A c \in Attempts : c > parent.n => outcome[c] = "none" /\ worker'[c].at = "none"
    BY <2>2 DEF Reaped
  <2>5. (~Resting /\ Alive(parent.n)') => parent.at = "polling" \/ parent.verdict = "interrupted"
    BY <1>1, <2>1, <2>2 DEF Reaped
  <2> QED
    BY <1>0, <2>1, <2>3, <2>4, <2>5 DEF Reaped, Resting
<1>19. CASE WritePanel
  BY <1>6, <1>19 DEF WritePanel
<1> QED
  BY <1>5, <1>6, <1>7, <1>8, <1>9, <1>10, <1>12, <1>13, <1>14, <1>15, <1>16, <1>17, <1>18, <1>19,
     <1>20, <1>21 DEF Next, ParentStep, vars

LEMMA ReapedInit == Init => Reaped
BY DEF Init, Reaped, WorkersReaped, Resting, Alive, Working, Trying

\* No attempt that ended by itself leaves its worker running.
THEOREM NoWorkerLeft == Spec => []WorkersReaped
<1>1. Typed /\ [Next]_vars => Typed'
  BY ParentTypedStep, WorkerTypedStep, FilesTypedStep DEF Typed
<1>2. Reaped => WorkersReaped
  BY DEF Reaped
<1> QED
  BY TypedInit, <1>1, ReapedInit, ReapedStep, <1>2, PTL DEF Spec

\* The steps that do not end the attempt, and where they lead.
LEMMA EarlierPhases ==
  ASSUME Typed,
         \/ Begin \/ InitScratch \/ Scan \/ Spawn \/ TimesOut \/ Join \/ CountRows \/ AppendFragment
         \/ Assembled \/ Verify \/ Publish \/ WriteReport \/ Diagnose \/ Sweep \/ CloseWriter
         \/ Withdraw \/ WithdrawRaises \/ Raise \/ ExceedsMemory \/ Interrupt
  PROVE  /\ parent'.at \notin {"removing", "discard", "resting"}
         /\ (\/ Begin \/ InitScratch \/ Scan \/ Spawn \/ TimesOut \/ Join \/ CountRows
             \/ AppendFragment \/ Assembled \/ Verify \/ Raise \/ ExceedsMemory) =>
              parent'.at \in {"prepare", "scan", "spawn", "polling", "count", "assemble", "verify",
                              "publish", "closing", "withdraw"}
<1>1. parent \in [at : Trying \cup {"resting", "closing", "withdraw", "release", "removing", "discard"},
                  n : 0 .. setup.attempts, src : 0 .. Len(setup.dates),
                  cell : Nat, loaded : BOOLEAN, haunted : BOOLEAN,
                  verdict : {"success", "failed", "broken", "interrupted"}]
  BY DEF Typed, ParentTyped
<1>2. ASSUME Raises \/ RaisesWriting PROVE parent'.at \in {"closing", "withdraw"}
  BY <1>1, <1>2 DEF Raises, RaisesWriting
<1>3. CASE Begin
  BY <1>3 DEF Begin
<1>4. CASE InitScratch \/ Scan
  BY <1>1, <1>2, <1>4 DEF InitScratch, Scan, Goes
<1>5. CASE Spawn
  BY <1>1, <1>5 DEF Spawn, Goes
<1>6. CASE TimesOut \/ ExceedsMemory \/ Raise
  BY <1>2, <1>6 DEF TimesOut, ExceedsMemory, Raise, Terminates
<1>7. CASE Join \/ CountRows
  BY <1>1, <1>2, <1>7 DEF Join, CountRows, Goes
<1>12. CASE AppendFragment
  BY <1>1, <1>2, <1>12 DEF AppendFragment
<1>8. CASE Assembled \/ Verify
  BY <1>1, <1>2, <1>8 DEF Assembled, Verify, Goes
<1>9. ASSUME Publish \/ WriteReport \/ Diagnose \/ Withdraw
      PROVE  parent'.at \notin {"removing", "discard", "resting"}
  BY <1>1, <1>9 DEF Publish, WriteReport, Diagnose, Withdraw, Goes
<1>10. ASSUME Sweep \/ Interrupt \/ CloseWriter \/ WithdrawRaises
       PROVE  parent'.at \notin {"removing", "discard", "resting"}
  BY <1>1, <1>10 DEF Sweep, Interrupt, CloseWriter, WithdrawRaises, Goes
<1> QED
  BY <1>3, <1>4, <1>5, <1>6, <1>7, <1>8, <1>9, <1>10, <1>12

\* Nobody else's worker runs beside an attempt that is not haunted.
Alone == (~Resting /\ ~parent.haunted) => \A a \in Attempts \ {parent.n} : ~Alive(a)

LEMMA AloneStep == ASSUME Typed, Alone, [Next]_vars PROVE Alone'
<1>0. Attempts' = Attempts
  BY SetupStays
<1>1. /\ parent \in [at : Trying \cup {"resting", "closing", "withdraw", "release", "removing", "discard"},
                     n : 0 .. setup.attempts, src : 0 .. Len(setup.dates),
                     cell : Nat, loaded : BOOLEAN, haunted : BOOLEAN,
                     verdict : {"success", "failed", "broken", "interrupted"}]
      /\ worker \in [Attempts -> [at : Working \cup {"none", "gone"}, cell : Nat, of : Nat,
                                  src : Nat, ok : BOOLEAN]]
      /\ ~Resting => parent.n \in Attempts
  BY DEF Typed, WorkerTyped, ParentTyped, Resting
<1>2. ASSUME parent'.at = "resting" \/ (/\ parent.at # "resting" /\ parent'.n = parent.n
                                        /\ parent'.haunted = parent.haunted),
             \A b \in Attempts \ {parent.n} : worker'[b] = worker[b]
      PROVE  Alone'
  BY <1>0, <1>2 DEF Alone, Resting, Alive
<1>3. CASE Begin
  <2>1. worker' = worker /\ (~parent'.haunted => \A a \in Attempts : ~Alive(a))
    BY <1>3 DEF Begin
  <2> QED
    BY <1>0, <2>1 DEF Alone, Alive
<1>7. CASE BeginRaises
  BY <1>2, <1>7 DEF BeginRaises
<1>4. CASE UNCHANGED <<parent, worker>>
  BY <1>0, <1>4 DEF Alone, Resting, Alive
<1>5. ASSUME NEW a \in Attempts, WorkerStep(a) PROVE Alone'
  <2>1. UNCHANGED parent /\ Alive(a) /\ \A b \in Attempts : b # a => worker'[b] = worker[b]
    BY <1>5, WorkerActs DEF Typed
  <2> QED
    BY <1>0, <1>2, <2>1 DEF Alone, Resting, Alive
<1>6. CASE ParentStep \/ Raise \/ ExceedsMemory \/ Interrupt \/ Killed
  <2>1. parent.at # "resting" /\ parent'.n = parent.n /\ parent'.haunted = parent.haunted
    <3>1. ASSUME NEW at, Goes(at) PROVE parent'.n = parent.n /\ parent'.haunted = parent.haunted
      BY <1>1, <3>1 DEF Goes
    <3>2. ASSUME Raises \/ RaisesWriting
          PROVE  parent'.n = parent.n /\ parent'.haunted = parent.haunted
      BY <1>1, <3>2 DEF Raises, RaisesWriting
    <3>3. CASE InitScratch \/ Join \/ Assembled \/ Verify \/ Publish \/ WriteReport \/ Diagnose
      BY <3>1, <3>2, <3>3 DEF InitScratch, Join, Assembled, Verify, Publish, WriteReport, Diagnose
    <3>4. CASE Withdraw \/ Release \/ RemoveScratch \/ Discard \/ Killed
      BY <3>1, <3>4 DEF Withdraw, Release, RemoveScratch, Discard, Killed
    <3>10. CASE CloseWriter \/ WithdrawRaises
      BY <1>1, <3>1, <3>10 DEF CloseWriter, WithdrawRaises
    <3>5. CASE Scan
      BY <1>1, <3>2, <3>5 DEF Scan
    <3>6. CASE Spawn
      BY <1>1, <3>1, <3>6 DEF Spawn
    <3>7. CASE CountRows \/ AppendFragment
      BY <1>1, <3>2, <3>7 DEF CountRows, AppendFragment
    <3>8. CASE TimesOut \/ ExceedsMemory \/ Raise
      BY <3>2, <3>8 DEF TimesOut, ExceedsMemory, Raise, Terminates, Trying
    <3>9. CASE Sweep \/ Interrupt
      BY <1>1, <3>9 DEF Sweep, Interrupt, Trying
    <3> QED
      BY <1>6, <3>3, <3>4, <3>5, <3>6, <3>7, <3>8, <3>9, <3>10
         DEF ParentStep
  <2>2. \A b \in Attempts \ {parent.n} : worker'[b] = worker[b]
    <3>1. CASE worker' = worker
      BY <3>1
    <3>2. CASE Spawn \/ TimesOut \/ ExceedsMemory
      BY <1>1, <3>2 DEF Spawn, TimesOut, ExceedsMemory, Terminates
    <3> QED
      BY <1>6, <3>1, <3>2 DEF ParentStep, InitScratch, Scan, Join, CountRows, AppendFragment, Assembled,
         Verify, Publish, WriteReport, Diagnose, Sweep, CloseWriter, Withdraw, WithdrawRaises, Release,
         RemoveScratch, Discard, Raise, Interrupt, Killed, OnlyParent
  <2> QED
    BY <1>2, <2>1, <2>2
<1> QED
  BY <1>3, <1>4, <1>5, <1>6, <1>7 DEF Next, vars, WritePanel

\* The scratch files of an attempt are removed, in two steps, before its fragments; then
\* nobody is left that could write in their directory.
Removes == parent.loaded /\ (parent.verdict = "success" \/ ~setup.keepScratch)
Released ==
  /\ parent.at = "removing" => Removes
  /\ (/\ parent.at = "discard" /\ Removes /\ parent.verdict # "interrupted"
      /\ ~parent.haunted /\ ~setup.faulty) => scratch.state = "none"
  /\ ScratchReleased

LEMMA ReleasedStep == ASSUME Typed, Reaped, Alone, Released, [Next]_vars PROVE Released'
<1>0. setup' = setup /\ setup.faulty \in BOOLEAN
  BY SetupStays, SetupFacts, SetupAssumption DEF Typed, FilesTyped
<1>1. /\ parent \in [at : Trying \cup {"resting", "closing", "withdraw", "release", "removing", "discard"},
                     n : 0 .. setup.attempts, src : 0 .. Len(setup.dates),
                     cell : Nat, loaded : BOOLEAN, haunted : BOOLEAN,
                     verdict : {"success", "failed", "broken", "interrupted"}]
      /\ outcome \in [Attempts -> {"none", "running", "success", "refused", "failed",
                               "broken", "interrupted", "killed"}]
      /\ ~Resting => parent.n \in Attempts
  BY DEF Typed, FilesTyped, ParentTyped, Resting
<1>2. ASSUME parent'.at \notin {"removing", "discard", "resting"} PROVE Released'
  BY <1>2 DEF Released, ScratchReleased, Resting
<1>3. CASE UNCHANGED <<parent, scratch, outcome>>
  BY <1>0, <1>3 DEF Released, Removes, ScratchReleased, Resting
<1>9. CASE BeginRaises
  <2>1. parent' = [at |-> "resting", n |-> parent.n + 1, src |-> canonical, cell |-> 1,
                   loaded |-> FALSE, haunted |-> \E a \in Attempts : Alive(a),
                   verdict |-> "failed"]
    BY <1>9 DEF BeginRaises
  <2>2. parent'.at = "resting" /\ parent'.loaded = FALSE
    BY <2>1
  <2> QED
    BY <2>2 DEF Released, ScratchReleased
<1>4. CASE Release
  <2>1. CASE Goes("removing")
    <3>1. parent'.at = "removing" /\ parent'.loaded = parent.loaded /\ parent'.verdict = parent.verdict
      BY <1>1, <2>1 DEF Goes
    <3>2. ~Goes("discard")
      BY <1>1, <2>1 DEF Goes
    <3>3. Removes
      BY <1>4, <3>2 DEF Release, Removes, Kept
    <3> QED
      BY <1>0, <3>1, <3>3 DEF Released, Removes, ScratchReleased, Resting
  <2>2. CASE Goes("discard")
    <3>1. /\ parent'.at = "discard" /\ parent'.loaded = parent.loaded
          /\ parent'.verdict = parent.verdict /\ parent'.haunted = parent.haunted
      BY <1>1, <2>2 DEF Goes
    <3>2. ~Goes("removing")
      BY <1>1, <2>2 DEF Goes
    <3>3. Removes => setup.faulty
      BY <1>4, <3>2 DEF Release, Removes, Kept
    <3> QED
      BY <1>0, <3>1, <3>3 DEF Released, Removes, ScratchReleased, Resting
  <2> QED
    BY <1>4, <2>1, <2>2 DEF Release
<1>10. CASE RemoveScratch
  <2>1. /\ parent.at = "removing" /\ parent'.at = "discard" /\ parent'.loaded = parent.loaded
        /\ parent'.verdict = parent.verdict /\ parent'.haunted = parent.haunted
    BY <1>1, <1>10 DEF RemoveScratch, Goes
  <2>2. (parent.verdict # "interrupted" /\ ~parent.haunted) => \A a \in Attempts : ~Alive(a)
    BY <2>1 DEF Alone, Reaped, Resting
  <2>3. (parent.verdict # "interrupted" /\ ~parent.haunted /\ ~setup.faulty)
           => scratch'.state = "none"
    BY <1>10, <2>2 DEF RemoveScratch
  <2> QED
    BY <1>0, <2>1, <2>3 DEF Released, Removes, ScratchReleased, Resting
<1>5. CASE Discard
  <2>1. /\ parent.at = "discard" /\ parent'.at = "resting" /\ parent'.loaded = parent.loaded
        /\ parent'.n = parent.n /\ scratch' = scratch /\ outcome'[parent.n] = parent.verdict
        /\ parent'.haunted = parent.haunted
    BY <1>1, <1>5 DEF Discard, Goes, Resting
  <2> QED
    BY <1>0, <2>1 DEF Released, Removes, ScratchReleased, Resting
<1>6. CASE Killed
  <2>1. parent'.at = "resting" /\ parent'.n = parent.n /\ outcome'[parent.n] = "killed"
    BY <1>1, <1>6 DEF Killed, Goes, Resting
  <2> QED
    BY <2>1 DEF Released, ScratchReleased, Resting
<1>7. CASE Begin \/ InitScratch \/ Scan \/ Spawn \/ TimesOut \/ Join \/ CountRows \/ AppendFragment
           \/ Assembled \/ Verify \/ Publish \/ WriteReport \/ Diagnose \/ Sweep \/ CloseWriter
           \/ Withdraw \/ WithdrawRaises \/ Raise \/ ExceedsMemory \/ Interrupt
  <2>1. parent'.at \notin {"removing", "discard", "resting"}
    BY <1>7, EarlierPhases
  <2> QED
    BY <1>2, <2>1
<1>8. CASE WritePanel \/ \E a \in Attempts : WorkerStep(a)
  BY <1>3, <1>8, WorkerActs DEF WritePanel, Typed, files
<1> QED
  BY <1>3, <1>4, <1>5, <1>6, <1>7, <1>8, <1>9, <1>10 DEF Next, ParentStep, vars, files

\* Scratch files are removed by every attempt that ended by itself and was not told to keep
\* them, if no worker of an earlier one was running and no file resists: when the removal
\* begins, the worker of the attempt has been reaped.
THEOREM NoScratchLeft == Spec => []ScratchReleased
<1>1. Typed /\ [Next]_vars => Typed'
  BY ParentTypedStep, WorkerTypedStep, FilesTypedStep DEF Typed
<1>2. Init => Released
  BY DEF Init, Released, ScratchReleased
<1>3. Released => ScratchReleased
  BY DEF Released
<1>4. Init => Alone
  BY DEF Init, Alone, Resting
<1> QED
  BY TypedInit, <1>1, ReapedInit, ReapedStep, <1>2, <1>4, AloneStep, ReleasedStep, <1>3, PTL DEF Spec

\* The new panel grows by one cell at a time.
DraftGrows ==
  /\ draft = [c \in DOMAIN draft |-> draft[c]]
  /\ parent.at \in {"prepare", "scan", "spawn", "polling", "count"} => DOMAIN draft = {}
  /\ parent.at = "assemble" => DOMAIN draft = 1 .. parent.cell - 1
  /\ parent.at \in {"verify", "publish"} => DOMAIN draft = 1 .. CellCount(parent.src)

LEMMA DraftGrowsStep == ASSUME Typed, DraftGrows, [Next]_vars PROVE DraftGrows'
<1>0. \A v : CellCount(v)' = CellCount(v)
  BY SetupStays
<1>1. parent \in [at : Trying \cup {"resting", "closing", "withdraw", "release", "removing", "discard"},
                  n : 0 .. setup.attempts, src : 0 .. Len(setup.dates),
                  cell : Nat, loaded : BOOLEAN, haunted : BOOLEAN,
                  verdict : {"success", "failed", "broken", "interrupted"}]
  BY DEF Typed, ParentTyped
<1>2. CASE UNCHANGED <<parent, draft>>
  BY <1>0, <1>2 DEF DraftGrows
<1>3. ASSUME draft' = draft \/ draft' = EmptyDir,
             parent'.at \in {"resting", "closing", "withdraw", "release", "removing", "discard", "report", "diagnose", "sweep"}
      PROVE  DraftGrows'
  <2>1. draft' = [c \in DOMAIN draft' |-> draft'[c]]
    <3>1. CASE draft' = draft
      BY <3>1 DEF DraftGrows
    <3>2. CASE draft' = EmptyDir
      BY <3>2, EmptyDirectory DEF EmptyDir
    <3> QED
      BY <1>3, <3>1, <3>2
  <2> QED
    BY <1>3, <2>1 DEF DraftGrows
<1>4. ASSUME draft' = draft, parent.at \in {"prepare", "scan", "spawn", "polling", "count"},
             parent'.at \in {"scan", "spawn", "polling", "count"}
      PROVE  DraftGrows'
  BY <1>3, <1>4 DEF DraftGrows
<1>5. ASSUME Raises \/ RaisesWriting, draft' = draft PROVE DraftGrows'
  BY <1>1, <1>3, <1>5 DEF Raises, RaisesWriting
<1>6. CASE Begin
  BY <1>6, EmptyDirectory DEF Begin, DraftGrows, EmptyDir
<1>17. CASE BeginRaises
  BY <1>3, <1>17 DEF BeginRaises, files
<1>7. CASE InitScratch \/ Scan
  <2>1. draft' = draft /\ parent.at \in {"prepare", "scan"}
    BY <1>7 DEF InitScratch, Scan
  <2>2. CASE Raises
    BY <1>5, <2>1, <2>2
  <2>3. CASE ~Raises
    <3>1. parent'.at \in {"scan", "spawn", "withdraw"}
      BY <1>1, <1>7, <2>3 DEF InitScratch, Scan, Goes
    <3> QED
      BY <1>3, <1>4, <2>1, <3>1
  <2> QED
    BY <2>2, <2>3
<1>8. CASE Spawn
  <2>1. CASE parent' = [parent EXCEPT !.at = "assemble", !.cell = 1]
    <3>1. parent'.at = "assemble" /\ parent'.cell = 1 /\ DOMAIN draft = {} /\ draft' = draft
      BY <1>1, <1>8, <2>1 DEF Spawn, DraftGrows, files
    <3> QED
      BY <3>1 DEF DraftGrows
  <2>2. CASE Goes("polling")
    BY <1>1, <1>4, <1>8, <2>2 DEF Spawn, Goes, files
  <2> QED
    BY <1>8, <2>1, <2>2 DEF Spawn
<1>9. CASE TimesOut \/ ExceedsMemory \/ Raise
  BY <1>5, <1>9 DEF TimesOut, ExceedsMemory, Raise, Terminates, OnlyParent, files
<1>10. CASE Join \/ CountRows
  BY <1>1, <1>4, <1>5, <1>10 DEF Join, CountRows, Goes, OnlyParent, files
<1>11. CASE AppendFragment
  <2>1. CASE RaisesWriting
    BY <1>5, <1>11, <2>1, <1>1 DEF AppendFragment, RaisesWriting
  <2>2. CASE ~RaisesWriting
    <3>1. /\ parent.at = "assemble" /\ parent'.at = "assemble" /\ parent'.cell = parent.cell + 1
          /\ draft' = With(draft, parent.cell, fragments[parent.cell])
          /\ parent.cell \in Nat \ {0}
      <4>1. parent.cell \in 1 .. CellCount(parent.src) + 1 /\ parent.cell \in Nat
        BY <1>11 DEF AppendFragment, Typed, ParentTyped
      <4>2. parent.cell # 0
        BY <4>1
      <4> QED
        BY <1>1, <1>11, <2>2, <4>1, <4>2 DEF AppendFragment
    <3>2. DOMAIN draft' = DOMAIN draft \cup {parent.cell}
      BY <3>1 DEF With
    <3>3. DOMAIN draft = 1 .. parent.cell - 1
      BY <3>1 DEF DraftGrows
    <3>4. DOMAIN draft' = 1 .. parent'.cell - 1
      BY <3>1, <3>2, <3>3
    <3>5. draft' = [c \in DOMAIN draft' |-> draft'[c]]
      BY <3>1 DEF With
    <3> QED
      BY <3>1, <3>4, <3>5 DEF DraftGrows
  <2> QED
    BY <2>1, <2>2
<1>12. CASE Assembled
  <2>1. CASE Goes("verify")
    <3>1. /\ parent.at = "assemble" /\ parent'.at = "verify" /\ parent'.src = parent.src
          /\ draft' = draft /\ DOMAIN draft = 1 .. parent.cell - 1
      BY <1>1, <1>12, <2>1 DEF Assembled, Goes, DraftGrows, OnlyParent, files
    <3>2. parent.cell = CellCount(parent.src) + 1
      <4>1. /\ parent.src \in DOMAIN setup.dates /\ parent.cell \in 1 .. CellCount(parent.src) + 1
            /\ parent.cell > CellCount(parent.src)
        BY <1>12 DEF Assembled, Typed, ParentTyped
      <4>2. CellCount(parent.src) \in Nat
        BY <4>1, CellFacts DEF Typed, FilesTyped
      <4> QED
        BY <4>1, <4>2
    <3>3. CellCount(parent.src) \in Nat
      BY <1>12, CellFacts DEF Assembled, Typed, FilesTyped, ParentTyped
    <3> QED
      BY <1>0, <3>1, <3>2, <3>3 DEF DraftGrows
  <2> QED
    BY <1>5, <1>12, <2>1 DEF Assembled, OnlyParent, files
<1>13. CASE Verify
  <2>1. CASE Goes("publish")
    <3>1. /\ parent.at = "verify" /\ parent'.at = "publish" /\ parent'.src = parent.src
          /\ draft' = draft
      BY <1>1, <1>13, <2>1 DEF Verify, Goes, OnlyParent, files
    <3> QED
      BY <1>0, <3>1 DEF DraftGrows
  <2> QED
    BY <1>5, <1>13, <2>1 DEF Verify, OnlyParent, files
<1>14. CASE Publish \/ WriteReport \/ Diagnose \/ Withdraw \/ Release \/ RemoveScratch \/ Discard
            \/ Killed
  BY <1>1, <1>3, <1>14 DEF Publish, WriteReport, Diagnose, Withdraw, Release, RemoveScratch, Discard,
     Killed, Goes, OnlyParent, files
<1>15. CASE Sweep \/ Interrupt \/ CloseWriter \/ WithdrawRaises
  BY <1>1, <1>3, <1>15 DEF Sweep, Interrupt, CloseWriter, WithdrawRaises, Goes, OnlyParent, files
<1>16. CASE WritePanel \/ \E a \in Attempts : WorkerStep(a)
  BY <1>2, <1>16, WorkerActs DEF WritePanel, Typed, files
<1> QED
  BY <1>2, <1>6, <1>7, <1>8, <1>9, <1>10, <1>11, <1>12, <1>13, <1>14, <1>15, <1>16,
     <1>17
     DEF Next, ParentStep, vars, files

\* What replaces the panel is a file.
LEMMA DraftIsPanel ==
  ASSUME Typed, DraftGrows, parent.at = "publish"
  PROVE  [by |-> parent.n, src |-> parent.src, rows |-> draft, haunted |-> parent.haunted] # NoFile
<1>1. CellCount(parent.src) \in Nat
  BY CellFacts DEF Typed, FilesTyped, ParentTyped
<1>2. DOMAIN draft = 1 .. CellCount(parent.src) /\ draft = [c \in DOMAIN draft |-> draft[c]]
  BY DEF DraftGrows
<1>3. \A c \in DOMAIN draft : draft[c] \in Fragment
  BY DEF Typed, FilesTyped, Range
<1>4. draft \in Seq(Fragment)
  BY <1>1, <1>2, <1>3, SeqDef
<1>5. parent.n \in Nat /\ parent.src \in Nat /\ parent.haunted \in BOOLEAN
  BY SetupFacts DEF Typed, FilesTyped, ParentTyped
<1> QED
  BY <1>4, <1>5, NoFileAssumption

OwnPanel == panel # NoFile /\ panel.by = parent.n
\* Whose panel may be there: that of an attempt that ended well or by a death, or that of the
\* running one while it has not failed.
Publishing == {"report", "diagnose", "sweep", "withdraw", "release", "removing", "discard"}
Published(a) ==
  \/ outcome[a] \in {"success", "interrupted", "killed"}
  \/ a = parent.n /\ parent.at \in Publishing /\ parent.verdict # "broken"
PanelOwner == (panel # NoFile /\ ~setup.faulty) => Published(panel.by)
\* What is published by the attempt that runs, and what it withdraws.
FilesFollow ==
  /\ parent.at = "report" => OwnPanel
  /\ parent.at \in {"diagnose", "sweep"} => OwnPanel /\ report = parent.n
  /\ parent.at \in {"release", "removing", "discard"} =>
       /\ parent.verdict = "success" => OwnPanel /\ report = parent.n
       /\ parent.verdict = "failed" => panel = NoFile
  /\ PanelOwner
  /\ OutcomeMatchesFiles

\* The panel stays with its owner: through steps that leave the panel and the outcomes alone
\* and fail in no other way than by the except clause.
LEMMA OwnerStays ==
  ASSUME Typed, Reaped, PanelOwner, setup' = setup, UNCHANGED <<panel, outcome>>,
         \/ UNCHANGED parent
         \/ /\ parent'.n = parent.n /\ parent'.verdict # "broken"
            /\ parent.at \in Publishing => parent'.at \in Publishing
  PROVE  PanelOwner'
<1>1. panel = NoFile \/ panel.by \in Attempts
  BY DEF Typed, FilesTyped
<1> QED
  BY <1>1 DEF PanelOwner, Published

LEMMA NextAttempt ==
  ASSUME Typed, parent.n < setup.attempts
  PROVE  parent.n + 1 \in Attempts /\ parent.n + 1 > parent.n
BY SetupFacts DEF Typed, FilesTyped, ParentTyped, Attempts

LEMMA FilesFollowStep ==
  ASSUME Typed, Reaped, DraftGrows, FilesFollow, [Next]_vars PROVE FilesFollow'
<1>0. setup' = setup /\ Attempts' = Attempts
  BY SetupStays
<1>1. /\ parent \in [at : Trying \cup {"resting", "closing", "withdraw", "release", "removing", "discard"},
                     n : 0 .. setup.attempts, src : 0 .. Len(setup.dates),
                     cell : Nat, loaded : BOOLEAN, haunted : BOOLEAN,
                     verdict : {"success", "failed", "broken", "interrupted"}]
      /\ outcome \in [Attempts -> {"none", "running", "success", "refused", "failed",
                               "broken", "interrupted", "killed"}]
      /\ ~Resting => parent.n \in Attempts /\ outcome[parent.n] = "running"
      /\ panel = NoFile \/ panel.by \in Attempts
      /\ PanelOwner
  BY DEF Typed, FilesTyped, ParentTyped, Resting, Reaped, FilesFollow
<1>2. ASSUME PanelOwner',
             parent'.at \notin {"report", "diagnose", "sweep", "release", "removing", "discard",
                                "resting"}
      PROVE  FilesFollow'
  BY <1>2 DEF FilesFollow, OutcomeMatchesFiles, Resting
<1>14. ASSUME NEW n, NEW result, parent'.at = "resting", parent'.n = n, n \in Attempts,
              outcome' = [outcome EXCEPT ![n] = result],
              panel' = panel, report' = report, PanelOwner',
              result = "success" => panel # NoFile /\ panel.by = n /\ report = n,
              result = "failed" => panel = NoFile
       PROVE  FilesFollow'
  <2>1. outcome'[n] = result
    BY <1>1, <1>14
  <2>2. (panel # NoFile /\ ~setup.faulty) => outcome'[panel.by] \in {"success", "interrupted", "killed"}
    BY <1>0, <1>14 DEF PanelOwner, Published, Publishing
  <2> QED
    BY <1>0, <1>14, <2>1, <2>2 DEF FilesFollow, OutcomeMatchesFiles, Resting
<1>3. CASE UNCHANGED <<parent, panel, report, outcome>>
  <2>1. PanelOwner'
    BY <1>0, <1>1, <1>3, OwnerStays
  <2> QED
    BY <1>0, <1>3, <2>1 DEF FilesFollow, OutcomeMatchesFiles, Resting, OwnPanel
<1>15. CASE Begin
  <2>1. /\ parent'.at = "prepare" /\ parent'.n = parent.n + 1 /\ Resting /\ panel' = panel
        /\ outcome' = [outcome EXCEPT ![parent.n + 1] = "running"]
    BY <1>15 DEF Begin, Resting
  <2>2. outcome[parent.n + 1] = "none"
    BY <2>1, NextAttempt, <1>15 DEF Begin, Reaped
  <2>3. PanelOwner'
    BY <1>0, <1>1, <2>1, <2>2 DEF PanelOwner, Published, Publishing, Resting
  <2> QED
    BY <1>2, <2>1, <2>3
<1>16. CASE BeginRaises
  <2>1. /\ parent'.at = "resting" /\ parent'.n = parent.n + 1 /\ Resting
        /\ outcome' = [outcome EXCEPT ![parent.n + 1] = "refused"]
        /\ panel' = panel /\ report' = report
    BY <1>16 DEF BeginRaises, Resting, files
  <2>2. outcome[parent.n + 1] = "none" /\ parent.n + 1 \in Attempts
    BY <2>1, NextAttempt, <1>16 DEF BeginRaises, Reaped
  <2>3. PanelOwner'
    BY <1>0, <1>1, <2>1, <2>2 DEF PanelOwner, Published, Publishing, Resting
  <2> QED
    BY <1>14, <2>1, <2>2, <2>3
<1>4. CASE Publish
  <2>1. /\ parent.at = "publish" /\ parent'.at = "report" /\ parent'.n = parent.n
        /\ parent'.verdict = parent.verdict /\ parent.verdict = "failed"
        /\ panel' = [by |-> parent.n, src |-> parent.src, rows |-> draft, haunted |-> parent.haunted]
    BY <1>1, <1>4 DEF Publish, Goes, Reaped, Trying
  <2>2. OwnPanel' /\ panel'.by = parent.n
    BY <2>1, DraftIsPanel DEF OwnPanel
  <2>3. PanelOwner'
    BY <2>1, <2>2 DEF PanelOwner, Published, Publishing
  <2> QED
    BY <2>1, <2>2, <2>3 DEF FilesFollow, OutcomeMatchesFiles, Resting
<1>5. CASE WriteReport \/ Diagnose
  <2>1. /\ parent'.at \in {"diagnose", "sweep"} /\ parent'.n = parent.n /\ panel' = panel
        /\ report' = parent.n /\ OwnPanel /\ parent'.verdict = "failed" /\ outcome' = outcome
    BY <1>1, <1>5 DEF WriteReport, Diagnose, Goes, FilesFollow, OnlyParent, files, Reaped, Trying
  <2>2. PanelOwner'
    BY <1>0, <1>1, <2>1, OwnerStays DEF Publishing
  <2> QED
    BY <2>1, <2>2 DEF FilesFollow, OutcomeMatchesFiles, Resting, OwnPanel
<1>6. CASE Sweep
  <2>1. /\ parent'.at = "release" /\ parent'.n = parent.n /\ panel' = panel /\ parent'.verdict = "success"
        /\ report' = report /\ report = parent.n /\ OwnPanel /\ outcome' = outcome
    BY <1>1, <1>6 DEF Sweep, FilesFollow
  <2>2. PanelOwner'
    BY <1>0, <1>1, <2>1, OwnerStays DEF Publishing
  <2> QED
    BY <2>1, <2>2 DEF FilesFollow, OutcomeMatchesFiles, Resting, OwnPanel
<1>7. CASE Interrupt
  <2>1. /\ parent'.at = "release" /\ parent'.verdict = "interrupted" /\ parent'.n = parent.n
        /\ panel' = panel /\ outcome' = outcome
    BY <1>1, <1>7 DEF Interrupt, files
  <2>2. PanelOwner'
    BY <1>0, <1>1, <2>1, OwnerStays DEF Publishing
  <2> QED
    BY <2>1, <2>2 DEF FilesFollow, OutcomeMatchesFiles, Resting
<1>8. CASE Withdraw
  <2>1. parent'.at = "release" /\ parent'.verdict = "failed" /\ panel' = NoFile
    BY <1>1, <1>8 DEF Withdraw, Goes, Reaped
  <2> QED
    BY <2>1 DEF FilesFollow, OutcomeMatchesFiles, Resting, PanelOwner
<1>17. CASE WithdrawRaises
  <2>1. parent'.at = "release" /\ parent'.verdict = "broken" /\ setup.faulty
    BY <1>1, <1>17 DEF WithdrawRaises
  <2> QED
    BY <1>0, <2>1 DEF FilesFollow, OutcomeMatchesFiles, Resting, PanelOwner
<1>18. CASE CloseWriter
  <2>1. panel' = panel /\ outcome' = outcome /\ parent.at = "closing" /\ parent.verdict = "failed"
    BY <1>18 DEF CloseWriter, OnlyParent, files, Reaped
  <2>2. CASE Goes("withdraw")
    <3>1. parent'.at = "withdraw" /\ parent'.n = parent.n /\ parent'.verdict = "failed"
      BY <1>1, <2>1, <2>2 DEF Goes
    <3>2. PanelOwner'
      BY <1>0, <1>1, <2>1, <3>1, OwnerStays DEF Publishing
    <3> QED
      BY <1>2, <3>1, <3>2
  <2>3. CASE parent' = [parent EXCEPT !.at = "release", !.verdict = "broken"]
    <3>1. parent'.at = "release" /\ parent'.verdict = "broken"
      BY <1>1, <2>3
    <3>2. (panel # NoFile /\ ~setup.faulty) => outcome[panel.by] \in {"success", "interrupted", "killed"}
      BY <1>1, <2>1 DEF PanelOwner, Published, Publishing
    <3>3. PanelOwner'
      BY <1>0, <2>1, <3>2 DEF PanelOwner, Published
    <3> QED
      BY <3>1, <3>3 DEF FilesFollow, OutcomeMatchesFiles, Resting
  <2> QED
    BY <1>18, <2>2, <2>3 DEF CloseWriter
<1>9. CASE Release \/ RemoveScratch
  <2>1. /\ parent.at \in {"release", "removing"} /\ parent'.at \in {"removing", "discard"}
        /\ parent'.n = parent.n
        /\ parent'.verdict = parent.verdict /\ panel' = panel /\ report' = report /\ outcome' = outcome
    BY <1>1, <1>9 DEF Release, RemoveScratch, Goes
  <2>2. PanelOwner'
    BY <1>0, <1>1, <2>1 DEF PanelOwner, Published, Publishing
  <2> QED
    BY <2>1, <2>2 DEF FilesFollow, OutcomeMatchesFiles, Resting, OwnPanel
<1>10. CASE Discard
  <2>1. /\ parent.at = "discard" /\ parent'.at = "resting" /\ parent'.n = parent.n
        /\ parent.n \in Attempts /\ panel' = panel /\ report' = report
        /\ outcome' = [outcome EXCEPT ![parent.n] = parent.verdict]
    BY <1>1, <1>10 DEF Discard, Goes, Resting
  <2>2. /\ parent.verdict = "success" => OwnPanel /\ report = parent.n
        /\ parent.verdict = "failed" => panel = NoFile
    BY <2>1 DEF FilesFollow
  <2>3. \A a \in Attempts : outcome'[a] = IF a = parent.n THEN parent.verdict ELSE outcome[a]
    BY <1>1, <2>1
  <2>4. parent.verdict \in {"success", "failed", "broken", "interrupted"}
    BY <1>1
  <2>5. ASSUME panel # NoFile, ~setup.faulty
        PROVE  outcome'[panel.by] \in {"success", "interrupted", "killed"}
    <3>1. panel.by \in Attempts /\ Published(panel.by) /\ outcome[parent.n] = "running"
      BY <1>1, <2>1, <2>5 DEF PanelOwner, Resting
    <3>2. CASE panel.by = parent.n
      BY <2>2, <2>3, <2>4, <2>5, <3>1, <3>2 DEF Published
    <3>3. CASE panel.by # parent.n
      BY <2>3, <3>1, <3>3 DEF Published
    <3> QED
      BY <3>2, <3>3
  <2>6. PanelOwner'
    BY <1>0, <2>1, <2>5 DEF PanelOwner, Published
  <2> QED
    BY <1>14, <2>1, <2>2, <2>6 DEF OwnPanel
<1>11. CASE Killed
  <2>1. /\ ~Resting /\ parent'.at = "resting" /\ parent'.n = parent.n /\ parent.n \in Attempts
        /\ panel' = panel /\ report' = report /\ outcome' = [outcome EXCEPT ![parent.n] = "killed"]
    BY <1>1, <1>11 DEF Killed, Goes, Resting, files
  <2>2. PanelOwner'
    BY <1>0, <1>1, <2>1 DEF PanelOwner, Published
  <2> QED
    BY <1>14, <2>1, <2>2
<1>12. CASE InitScratch \/ Scan \/ Spawn \/ TimesOut \/ Join \/ CountRows \/ AppendFragment
           \/ Assembled \/ Verify \/ Raise \/ ExceedsMemory
  <2>1. /\ panel' = panel /\ outcome' = outcome
        /\ parent.at \in {"prepare", "scan", "spawn", "polling", "count", "assemble", "verify",
                          "publish"} \/ Raise
    BY <1>12 DEF InitScratch, Scan, Spawn, TimesOut, Join, CountRows, AppendFragment, Assembled,
       Verify, Raise, ExceedsMemory, OnlyParent, files
  <2>2. CASE Raise
    <3>1. /\ parent'.n = parent.n /\ parent'.verdict = "failed"
          /\ parent'.at = "withdraw" \/ (parent.at = "assemble" /\ parent'.at = "closing")
      BY <1>1, <2>2 DEF Raise, Raises, RaisesWriting
    <3>2. PanelOwner'
      BY <1>0, <1>1, <2>1, <3>1, OwnerStays DEF Publishing
    <3> QED
      BY <1>2, <3>1, <3>2
  <2>3. CASE ~Raise
    <3>1. parent.at \notin Publishing /\ ~Resting
      BY <2>1, <2>3 DEF Publishing, Resting
    <3>2. (panel # NoFile /\ ~setup.faulty) => outcome[panel.by] \in {"success", "interrupted", "killed"}
      BY <1>1, <3>1 DEF PanelOwner, Published
    <3>3. PanelOwner'
      BY <1>0, <2>1, <3>2 DEF PanelOwner, Published
    <3>4. parent'.at \notin {"report", "diagnose", "sweep", "release", "removing", "discard",
                             "resting"}
      BY <1>12, <2>1, EarlierPhases
    <3> QED
      BY <1>2, <3>3, <3>4
  <2> QED
    BY <2>2, <2>3
<1>13. CASE WritePanel \/ \E a \in Attempts : WorkerStep(a)
  BY <1>3, <1>13, WorkerActs DEF WritePanel, Typed, files
<1> QED
  BY <1>3, <1>4, <1>5, <1>6, <1>7, <1>8, <1>9, <1>10, <1>11, <1>12, <1>13, <1>15, <1>16, <1>17,
     <1>18 DEF Next, ParentStep, vars, files

\* What an attempt leaves agrees with how it ended.
THEOREM FilesMatchOutcome == Spec => []OutcomeMatchesFiles
<1>1. Typed /\ [Next]_vars => Typed'
  BY ParentTypedStep, WorkerTypedStep, FilesTypedStep DEF Typed
<1>2. Init => DraftGrows /\ FilesFollow
  BY DEF Init, DraftGrows, FilesFollow, PanelOwner, OutcomeMatchesFiles, Resting, EmptyDir
<1>3. FilesFollow => OutcomeMatchesFiles
  BY DEF FilesFollow
<1> QED
  BY TypedInit, <1>1, ReapedInit, ReapedStep, <1>2, DraftGrowsStep, FilesFollowStep, <1>3, PTL DEF Spec

\* Between the scan and the report the scratch files are complete.  They are of a version
\* between the one that was opened and the one that is there now, with the same dates.
Scanned == {"spawn", "polling", "count", "assemble", "verify", "publish"}
SourceKnown ==
  /\ ~Resting => parent.src <= canonical
  /\ parent.at \in Scanned =>
       /\ scratch.state = "complete" /\ scratch.src \in parent.src .. canonical
       /\ setup.dates[scratch.src] = setup.dates[parent.src]
  /\ parent.at = "publish" => scratch.src = parent.src

\* The worker that the parent waits for works on its cell and reads its scratch files.
AtWork ==
  parent.at = "polling" =>
    /\ worker[parent.n].at # "none"
    /\ worker[parent.n].cell = parent.cell /\ worker[parent.n].of = parent.src
    /\ worker[parent.n].at \in {"opened", "fitted", "written", "renamed", "reported"} =>
         worker[parent.n].src = scratch.src

LEMMA SourceKnownStep == ASSUME Typed, SourceKnown, [Next]_vars PROVE SourceKnown'
<1>0. setup' = setup
  BY SetupStays
<1>1. /\ parent \in [at : Trying \cup {"resting", "closing", "withdraw", "release", "removing", "discard"},
                     n : 0 .. setup.attempts, src : 0 .. Len(setup.dates),
                     cell : Nat, loaded : BOOLEAN, haunted : BOOLEAN,
                     verdict : {"success", "failed", "broken", "interrupted"}]
      /\ canonical \in Nat /\ parent.src \in Nat
  BY SetupFacts DEF Typed, FilesTyped, ParentTyped
<1>2. ASSUME UNCHANGED <<canonical, scratch>>, parent'.src = parent.src, parent.at # "resting",
             parent'.at \in Scanned => parent.at \in Scanned,
             parent'.at = "publish" => scratch.src = parent.src
      PROVE  SourceKnown'
  BY <1>0, <1>2 DEF SourceKnown, Resting
<1>3. ASSUME UNCHANGED canonical, parent'.src = parent.src, parent.at # "resting",
             parent'.at \notin Scanned
      PROVE  SourceKnown'
  BY <1>3 DEF SourceKnown, Resting, Scanned
<1>4. ASSUME NEW at, Goes(at) PROVE parent'.src = parent.src /\ parent'.at = at
  BY <1>1, <1>4 DEF Goes
<1>5. ASSUME Raises \/ RaisesWriting
      PROVE  parent'.src = parent.src /\ parent'.at \in {"closing", "withdraw"}
  BY <1>1, <1>5 DEF Raises, RaisesWriting
<1>6. CASE UNCHANGED <<canonical, parent, scratch>>
  BY <1>0, <1>6 DEF SourceKnown, Resting
<1>7. CASE Begin
  BY <1>0, <1>1, <1>7 DEF Begin, SourceKnown, Resting, Scanned
<1>18. CASE BeginRaises
  BY <1>0, <1>1, <1>18 DEF BeginRaises, SourceKnown, Resting, Scanned
<1>8. CASE InitScratch \/ Publish \/ WriteReport \/ Diagnose \/ Withdraw \/ Release
           \/ RemoveScratch \/ Discard \/ Killed
  <2>1. UNCHANGED canonical /\ parent.at # "resting" /\ parent'.src = parent.src /\ parent'.at \notin Scanned
    BY <1>4, <1>8 DEF InitScratch, Publish, WriteReport, Diagnose, Withdraw, Release,
       RemoveScratch, Discard, Killed, OnlyParent, Scanned
  <2> QED
    BY <1>3, <2>1
<1>9. CASE Scan
  <2>1. CASE Raises
    BY <1>3, <1>5, <1>9, <2>1 DEF Scan, Scanned
  <2>2. CASE ~Raises
    <3>1. /\ parent.at = "scan" /\ parent'.at \in {"withdraw", "spawn"} /\ parent'.src = parent.src
          /\ scratch' = [state |-> "complete", src |-> canonical] /\ canonical' = canonical
          /\ setup.dates[canonical] = setup.dates[parent.src]
      BY <1>1, <1>9, <2>2 DEF Scan
    <3>2. parent.src <= canonical
      BY <3>1 DEF SourceKnown, Resting
    <3> QED
      BY <1>0, <1>1, <3>1, <3>2 DEF SourceKnown, Resting
  <2> QED
    BY <2>1, <2>2
<1>10. CASE Spawn
  <2>1. parent'.at \in {"polling", "assemble"} /\ parent'.src = parent.src
    BY <1>1, <1>4, <1>10 DEF Spawn
  <2> QED
    BY <1>2, <1>10, <2>1 DEF Spawn, Scanned, files
<1>11. CASE TimesOut \/ ExceedsMemory \/ Raise
  BY <1>3, <1>5, <1>11 DEF TimesOut, ExceedsMemory, Raise, Terminates, OnlyParent, Trying, Scanned
<1>12. CASE Join \/ Assembled
  <2>1. parent'.at \in {"count", "verify", "closing", "withdraw"} /\ parent'.src = parent.src
    BY <1>4, <1>5, <1>12 DEF Join, Assembled
  <2> QED
    BY <1>2, <1>12, <2>1 DEF Join, Assembled, OnlyParent, Scanned, files
<1>13. CASE CountRows \/ AppendFragment
  <2>1. parent'.at \in {"spawn", "assemble", "closing", "withdraw"} /\ parent'.src = parent.src
    BY <1>1, <1>5, <1>13 DEF CountRows, AppendFragment
  <2> QED
    BY <1>2, <1>13, <2>1 DEF CountRows, AppendFragment, OnlyParent, Scanned, files
<1>14. CASE Verify
  <2>1. CASE Raises
    BY <1>3, <1>5, <1>14, <2>1 DEF Verify, Scanned, OnlyParent
  <2>2. CASE ~Raises
    <3>1. canonical = parent.src /\ Goes("publish") /\ parent.at = "verify"
      BY <1>14, <2>2 DEF Verify
    <3>2. scratch.src = parent.src
      BY <1>1, <3>1 DEF SourceKnown, Scanned
    <3> QED
      BY <1>2, <1>4, <1>14, <3>1, <3>2 DEF Verify, OnlyParent, files, Scanned
  <2> QED
    BY <2>1, <2>2
<1>15. CASE Sweep \/ Interrupt \/ WithdrawRaises
  BY <1>1, <1>3, <1>15 DEF Sweep, Interrupt, WithdrawRaises, Trying, Scanned
<1>19. CASE CloseWriter
  <2>1. /\ UNCHANGED canonical /\ parent.at # "resting" /\ parent'.src = parent.src
        /\ parent'.at \in {"withdraw", "release"}
    BY <1>1, <1>19 DEF CloseWriter, Goes, OnlyParent
  <2> QED
    BY <1>3, <2>1 DEF Scanned
<1>16. CASE WritePanel
  BY <1>0, <1>1, <1>16 DEF WritePanel, SourceKnown, Resting, files
<1>17. CASE \E a \in Attempts : WorkerStep(a)
  BY <1>6, <1>17, WorkerActs DEF Typed
<1> QED
  BY <1>6, <1>7, <1>8, <1>9, <1>10, <1>11, <1>12, <1>13, <1>14, <1>15, <1>16, <1>17,
     <1>18, <1>19
     DEF Next, ParentStep, vars, files

LEMMA AtWorkStep == ASSUME Typed, AtWork, [Next]_vars PROVE AtWork'
<1>1. /\ parent \in [at : Trying \cup {"resting", "closing", "withdraw", "release", "removing", "discard"},
                     n : 0 .. setup.attempts, src : 0 .. Len(setup.dates),
                     cell : Nat, loaded : BOOLEAN, haunted : BOOLEAN,
                     verdict : {"success", "failed", "broken", "interrupted"}]
      /\ worker \in [Attempts -> [at : Working \cup {"none", "gone"}, cell : Nat, of : Nat,
                                  src : Nat, ok : BOOLEAN]]
      /\ ~Resting => parent.n \in Attempts
  BY DEF Typed, WorkerTyped, ParentTyped, Resting
<1>2. CASE parent'.at # "polling"
  BY <1>2 DEF AtWork
<1>3. CASE UNCHANGED <<parent, worker, scratch>>
  BY <1>3 DEF AtWork
<1>4. CASE Spawn /\ parent'.at = "polling"
  <2>1. /\ parent' = [parent EXCEPT !.at = "polling"] /\ parent.n \in Attempts
        /\ worker' = [worker EXCEPT ![parent.n] =
                        [at |-> "spawned", cell |-> parent.cell, of |-> parent.src,
                         src |-> 0, ok |-> FALSE]]
    BY <1>1, <1>4 DEF Spawn, Goes, Resting
  <2>2. /\ parent'.n = parent.n /\ parent'.cell = parent.cell /\ parent'.src = parent.src
        /\ worker'[parent.n] = [at |-> "spawned", cell |-> parent.cell, of |-> parent.src,
                                src |-> 0, ok |-> FALSE]
    BY <1>1, <2>1
  <2> QED
    BY <2>2 DEF AtWork
<1>5. ASSUME NEW a \in Attempts, WorkerStep(a) PROVE AtWork'
  <2>1. /\ UNCHANGED <<parent, scratch>> /\ Alive(a) /\ worker'[a].at \in Working \cup {"gone"}
        /\ worker'[a].cell = worker[a].cell /\ worker'[a].of = worker[a].of
        /\ \A b \in Attempts : b # a => worker'[b] = worker[b]
    BY <1>5, WorkerActs DEF Typed
  <2>2. CASE parent.at # "polling"
    BY <2>1, <2>2 DEF AtWork
  <2>3. CASE parent.at = "polling" /\ a # parent.n
    BY <1>1, <2>1, <2>3 DEF AtWork, Resting
  <2>4. CASE parent.at = "polling" /\ a = parent.n
    <3>1. worker'[a].at \in {"opened", "fitted", "written", "renamed", "reported"} =>
            worker'[a].src = scratch.src
      <4>1. ASSUME NEW at \in Working, Becomes(a, at)
            PROVE  worker'[a].at = at /\ worker'[a].src = worker[a].src
        BY <1>1, <4>1 DEF Becomes
      <4>2. CASE Open(a)
        <5>1. CASE Becomes(a, "failing")
          BY <4>1, <5>1 DEF Working
        <5>2. CASE worker' = [worker EXCEPT ![a].at = "opened", ![a].src = scratch.src]
          BY <1>1, <5>2
        <5> QED
          BY <4>2, <5>1, <5>2 DEF Open
      <4>3. CASE \E ok : Ends(a, ok)
        BY <1>1, <4>3 DEF Ends
      <4>4. CASE Fit(a) \/ Predict(a) \/ Rename(a) \/ ReportOk(a) \/ WorkerRaises(a) \/ Unlink(a)
        <5>1. PICK at \in Working : /\ Becomes(a, at)
                                    /\ \/ at \in {"failing", "unlinked"}
                                       \/ worker[a].at \in {"opened", "fitted", "written", "renamed"}
          BY <4>4 DEF Fit, Predict, Rename, ReportOk, WorkerRaises, Unlink, Working
        <5> QED
          BY <2>4, <4>1, <5>1 DEF AtWork
      <4> QED
        BY <1>5, <4>2, <4>3, <4>4 DEF WorkerStep, Exit0, ReportFailed, WorkerDies
    <3>2. worker'[a].at # "none"
      BY <2>1 DEF Working
    <3> QED
      BY <2>1, <2>4, <3>1, <3>2 DEF AtWork
  <2> QED
    BY <2>2, <2>3, <2>4
<1>6. CASE Begin \/ BeginRaises \/ InitScratch \/ Scan \/ TimesOut \/ Join \/ CountRows
           \/ AppendFragment \/ Assembled \/ Verify \/ Publish \/ WriteReport \/ Diagnose
           \/ Sweep \/ CloseWriter \/ Withdraw \/ WithdrawRaises \/ Raise \/ ExceedsMemory
           \/ Interrupt \/ Release \/ RemoveScratch \/ Discard \/ Killed
  <2>1. parent'.at # "polling"
    <3>1. CASE Begin \/ BeginRaises
      BY <3>1 DEF Begin, BeginRaises
    <3>2. ASSUME Raises \/ RaisesWriting PROVE parent'.at \in {"closing", "withdraw"}
      BY <1>1, <3>2 DEF Raises, RaisesWriting
    <3>3. CASE InitScratch \/ Scan \/ Release \/ RemoveScratch \/ Discard \/ Killed
      BY <1>1, <3>2, <3>3 DEF InitScratch, Scan, Release, RemoveScratch, Discard, Killed, Goes
    <3>4. CASE TimesOut \/ ExceedsMemory \/ Raise
      BY <3>2, <3>4 DEF TimesOut, ExceedsMemory, Raise, Terminates
    <3>5. CASE Join \/ CountRows \/ AppendFragment
      BY <1>1, <3>2, <3>5 DEF Join, CountRows, AppendFragment, Goes
    <3>6. CASE Assembled \/ Verify \/ Publish \/ WriteReport \/ Diagnose \/ Withdraw
      BY <1>1, <3>2, <3>6 DEF Assembled, Verify, Publish, WriteReport, Diagnose, Withdraw, Goes
    <3>7. CASE Sweep \/ Interrupt \/ CloseWriter \/ WithdrawRaises
      BY <1>1, <3>7 DEF Sweep, Interrupt, CloseWriter, WithdrawRaises, Goes
    <3> QED
      BY <1>6, <3>1, <3>3, <3>4, <3>5, <3>6, <3>7
  <2> QED
    BY <1>2, <2>1
<1>7. CASE WritePanel
  BY <1>3, <1>7 DEF WritePanel, files
<1> QED
  BY <1>2, <1>3, <1>4, <1>5, <1>6, <1>7 DEF Next, ParentStep, vars, files

\* Versions with as many dates have the same cells.
LEMMA SameDates ==
  ASSUME NEW v, NEW w, setup.dates[v] = setup.dates[w]
  PROVE  /\ CellCount(v) = CellCount(w)
         /\ \A c : FoldOf(v, c) = FoldOf(w, c) /\ Expected(v, c) = Expected(w, c)
<1>1. FoldsOf(v) = FoldsOf(w)
  BY DEF FoldsOf
<1> QED
  BY <1>1 DEF CellCount, FoldOf, Expected

\* A model that had training rows knew their labels before its test window.
LEMMA TrainedBefore ==
  ASSUME setup \in Setups, NEW a, LastTrained(a) >= 0, worker[a].of \in DOMAIN setup.dates,
         worker[a].cell \in 1 .. CellCount(worker[a].of)
  PROVE  LastTrained(a) + setup.horizon
           < TestStart(setup.dates[worker[a].of], setup.folds, FoldOf(worker[a].of, worker[a].cell))
<1>1. TestStart(setup.dates[worker[a].of], setup.folds, FoldAt(a)) \in Nat
  BY CellFacts DEF FoldAt
<1> QED
  BY <1>1, SetupFacts DEF LastTrained, TrainEnd, GreaterOf, FoldAt

\* The fragment of a cell of a panel: of one attempt and one version, with the rows of its
\* test window, and of a model trained before it.
IsOf(fragment, n, v, c) ==
  /\ fragment.by = n /\ fragment.src = v /\ fragment.rows = Expected(v, c)
  /\ fragment.last + setup.horizon < TestStart(setup.dates[v], setup.folds, FoldOf(v, c))
Holds(dir, c) == c \in DOMAIN dir /\ IsOf(dir[c], parent.n, scratch.src, c)

\* The cells whose fragments the attempt has completed.
HasWritten(a) == worker[a].at \in {"renamed", "reported"} \/ (worker[a].at = "gone" /\ worker[a].ok)
Completed ==
  CASE parent.at = "spawn" -> 1 .. parent.cell - 1
    [] parent.at = "polling" ->
         IF HasWritten(parent.n) THEN 1 .. parent.cell ELSE 1 .. parent.cell - 1
    [] parent.at = "count" -> 1 .. parent.cell
    [] parent.at = "assemble" -> 1 .. CellCount(parent.src)
    [] OTHER -> {}
Assembling == parent.at \in {"assemble", "verify", "publish"}

Sourced ==
  ~parent.haunted =>
    /\ \A c \in Completed : Holds(fragments, c)
    /\ Assembling => \A c \in DOMAIN draft : Holds(draft, c)

PanelSourced ==
  panel # NoFile =>
    /\ DOMAIN panel.rows = 1 .. CellCount(panel.src)
    /\ ~panel.haunted => \A c \in DOMAIN panel.rows : IsOf(panel.rows[c], panel.by, panel.src, c)

\* A worker step of an attempt that is not haunted completes a fragment or leaves it.
LEMMA SourcedByWorker ==
  ASSUME Typed, Reaped, Alone, SourceKnown, AtWork, Sourced,
         NEW a \in Attempts, WorkerStep(a), setup' = setup
  PROVE  Sourced'
<1>1. /\ UNCHANGED <<parent, scratch, draft, setup>> /\ Alive(a)
      /\ \A b \in Attempts : b # a => worker'[b] = worker[b]
  BY WorkerActs DEF Typed
<1>2. /\ \A v, c : FoldOf(v, c)' = FoldOf(v, c) /\ Expected(v, c)' = Expected(v, c)
      /\ \A v : CellCount(v)' = CellCount(v)
  BY <1>1 DEF FoldOf, FoldsOf, Expected, CellCount
<1>3. \A c : Holds(draft, c)' <=> Holds(draft, c)
  BY <1>1, <1>2 DEF IsOf, Holds
<1>4. \A c : (/\ Holds(fragments, c) /\ c \in DOMAIN fragments' /\ fragments'[c] = fragments[c])
             => Holds(fragments, c)'
  BY <1>1, <1>2 DEF IsOf, Holds
<1>5. CASE parent.haunted
  BY <1>1, <1>5 DEF Sourced
<1>6. CASE ~parent.haunted /\ parent.at # "polling"
  <2>1. parent.at \notin {"spawn", "count", "assemble", "verify", "publish"}
    <3>1. SUFFICES ASSUME parent.at \in {"spawn", "count", "assemble", "verify", "publish"} PROVE FALSE
      OBVIOUS
    <3>2. a = parent.n /\ parent.verdict = "failed"
      BY <1>1, <1>6, <3>1 DEF Alone, Reaped, Resting, Trying
    <3> QED
      BY <1>1, <1>6, <3>1, <3>2 DEF Reaped, Resting
  <2>2. Completed' = {} /\ ~Assembling'
    BY <1>1, <1>6, <2>1 DEF Completed, Assembling
  <2> QED
    BY <2>2 DEF Sourced
<1>7. CASE ~parent.haunted /\ parent.at = "polling"
  <2>1. /\ a = parent.n /\ worker[a].cell = parent.cell /\ worker[a].of = parent.src
        /\ parent.cell \in 1 .. CellCount(parent.src) /\ parent.src \in DOMAIN setup.dates
        /\ parent.cell \in Nat
    <3>1. a = parent.n
      BY <1>1, <1>7 DEF Alone, Resting
    <3>2. worker[a].cell = parent.cell /\ worker[a].of = parent.src /\ worker[a].at # "none"
      BY <1>7, <3>1 DEF AtWork
    <3> QED
      BY <1>7, <3>1, <3>2 DEF Typed, ParentTyped, WorkerTyped
  <2>2. ~Assembling'
    BY <1>1, <1>7 DEF Assembling
  <2>3. \A c \in 1 .. parent.cell - 1 : Holds(fragments, c)
    BY <1>7, <2>1 DEF Sourced, Completed
  <2>4. worker \in [Attempts -> [at : Working \cup {"none", "gone"}, cell : Nat, of : Nat,
                                 src : Nat, ok : BOOLEAN]]
    BY DEF Typed, WorkerTyped
  <2>5. ASSUME NEW at, Becomes(a, at) PROVE worker'[a].at = at
    BY <2>4, <2>5 DEF Becomes
  <2>6. ASSUME NEW ok, Ends(a, ok) PROVE worker'[a].at = "gone" /\ worker'[a].ok = ok
    BY <2>4, <2>6 DEF Ends
  <2>7. /\ HasWritten(a)' => Completed' = 1 .. parent.cell
        /\ ~HasWritten(a)' => Completed' = 1 .. parent.cell - 1
    BY <1>1, <1>7, <2>1 DEF Completed, HasWritten
  <2>8. CASE Rename(a)
    <3>1. CASE UNCHANGED fragments /\ Becomes(a, "failing")
      <4>1. Completed' = 1 .. parent.cell - 1
        BY <2>5, <2>7, <3>1 DEF HasWritten
      <4> QED
        BY <1>4, <2>2, <2>3, <3>1, <4>1 DEF Sourced, Holds
    <3>2. CASE ~(UNCHANGED fragments /\ Becomes(a, "failing"))
      <4> DEFINE written == [by |-> a, src |-> worker[a].src,
                             rows |-> Expected(worker[a].of, worker[a].cell), last |-> LastTrained(a)]
      <4>1. /\ fragments' = With(fragments, parent.cell, written) /\ Becomes(a, "renamed")
            /\ worker[a].at = "written"
        BY <2>1, <2>8, <3>2 DEF Rename
      <4>2. worker[a].src = scratch.src /\ LastTrained(a) >= 0
        BY <1>7, <2>1, <4>1 DEF AtWork, Typed, WorkerTyped
      <4>3. setup.dates[scratch.src] = setup.dates[parent.src]
        BY <1>7 DEF SourceKnown, Scanned
      <4>4. LastTrained(a) + setup.horizon
              < TestStart(setup.dates[parent.src], setup.folds, FoldOf(parent.src, parent.cell))
        BY <2>1, <4>2, TrainedBefore DEF Typed, FilesTyped
      <4>5. /\ FoldOf(scratch.src, parent.cell) = FoldOf(parent.src, parent.cell)
            /\ Expected(scratch.src, parent.cell) = Expected(parent.src, parent.cell)
        BY <4>3, SameDates
      <4>6. IsOf(written, parent.n, scratch.src, parent.cell)
        BY <2>1, <4>2, <4>3, <4>4, <4>5 DEF IsOf
      <4> HIDE DEF written
      <4>7. /\ parent.cell \in DOMAIN fragments' /\ fragments'[parent.cell] = written
            /\ \A c \in DOMAIN fragments \ {parent.cell} :
                 c \in DOMAIN fragments' /\ fragments'[c] = fragments[c]
        BY <4>1 DEF With
      <4>8. \A c : c = parent.cell => Holds(fragments, c)'
        BY <1>1, <1>2, <4>6, <4>7 DEF Holds, IsOf
      <4>9. \A c \in 1 .. parent.cell - 1 : Holds(fragments, c)'
        BY <1>4, <2>1, <2>3, <4>7 DEF Holds
      <4>10. Completed' = 1 .. parent.cell
        BY <2>5, <2>7, <4>1 DEF HasWritten
      <4>11. \A c \in Completed' : c = parent.cell \/ c \in 1 .. parent.cell - 1
        BY <2>1, <4>10
      <4> QED
        BY <2>2, <4>8, <4>9, <4>11 DEF Sourced
    <3> QED
      BY <3>1, <3>2
  <2>9. CASE Unlink(a)
    <3>1. fragments' = Without(fragments, parent.cell) /\ Completed' = 1 .. parent.cell - 1
      BY <2>1, <2>5, <2>7, <2>9 DEF Unlink, HasWritten
    <3>2. \A c \in DOMAIN fragments \ {parent.cell} :
            c \in DOMAIN fragments' /\ fragments'[c] = fragments[c]
      BY <3>1, FileRemoved
    <3>3. \A c \in 1 .. parent.cell - 1 : Holds(fragments, c)'
      BY <1>4, <2>1, <2>3, <3>2 DEF Holds
    <3> QED
      BY <2>2, <3>1, <3>3 DEF Sourced
  <2>10. CASE UNCHANGED fragments /\ Completed' \subseteq Completed
    BY <1>4, <1>7, <2>2, <2>10 DEF Sourced, Holds
  <2>11. CASE Open(a) \/ Fit(a) \/ Predict(a) \/ WorkerRaises(a) \/ ReportFailed(a) \/ WorkerDies(a)
    <3>1. UNCHANGED fragments
      BY <2>11 DEF Open, Fit, Predict, WorkerRaises, ReportFailed, WorkerDies, OnlyWorker, files
    <3>2. ~HasWritten(a)'
      <4>1. CASE Open(a)
        BY <2>4, <2>5, <4>1 DEF Open, HasWritten
      <4>2. CASE Fit(a) \/ Predict(a) \/ WorkerRaises(a)
        BY <2>5, <4>2 DEF Fit, Predict, WorkerRaises, HasWritten
      <4>3. CASE ReportFailed(a) \/ WorkerDies(a)
        BY <2>6, <4>3 DEF ReportFailed, WorkerDies, HasWritten
      <4> QED
        BY <2>11, <4>1, <4>2, <4>3
    <3>3. Completed' = 1 .. parent.cell - 1
      BY <2>7, <3>2
    <3> QED
      BY <1>4, <2>2, <2>3, <3>1, <3>3 DEF Sourced, Holds
  <2>12. CASE ReportOk(a) \/ Exit0(a)
    <3>1. UNCHANGED fragments /\ worker[a].at \in {"renamed", "reported"}
      BY <2>12 DEF ReportOk, Exit0, OnlyWorker, files
    <3>2. HasWritten(a)'
      BY <2>5, <2>6, <2>12 DEF ReportOk, Exit0, HasWritten
    <3>3. Completed' = 1 .. parent.cell
      BY <2>7, <3>2
    <3>4. Completed = 1 .. parent.cell
      BY <1>7, <2>1, <3>1 DEF Completed, HasWritten
    <3> QED
      BY <2>10, <3>1, <3>3, <3>4
  <2> QED
    BY <2>8, <2>9, <2>11, <2>12 DEF WorkerStep
<1> QED
  BY <1>5, <1>6, <1>7

LEMMA SourcedStep ==
  ASSUME Typed, Reaped, DraftGrows, Alone, SourceKnown, AtWork, Sourced, [Next]_vars
  PROVE  Sourced'
<1>0. /\ setup' = setup /\ \A v : CellCount(v)' = CellCount(v)
      /\ \A v, c : FoldOf(v, c)' = FoldOf(v, c) /\ Expected(v, c)' = Expected(v, c)
  BY SetupStays
<1>1. parent \in [at : Trying \cup {"resting", "closing", "withdraw", "release", "removing", "discard"},
                  n : 0 .. setup.attempts, src : 0 .. Len(setup.dates),
                  cell : Nat, loaded : BOOLEAN, haunted : BOOLEAN,
                  verdict : {"success", "failed", "broken", "interrupted"}]
  BY DEF Typed, ParentTyped
<1>2. ASSUME parent'.at \notin {"spawn", "polling", "count", "assemble", "verify", "publish"}
      PROVE  Sourced'
  BY <1>2 DEF Sourced, Completed, Assembling
<1>3. CASE \E a \in Attempts : WorkerStep(a)
  BY <1>0, <1>3, SourcedByWorker
\* The parent goes on with the same fragments and the same scratch files.
<1>4. ASSUME UNCHANGED <<scratch, fragments>>, parent'.n = parent.n,
             parent'.haunted = parent.haunted, Completed' \subseteq Completed
      PROVE  ~parent'.haunted => \A c \in Completed' : Holds(fragments, c)'
  BY <1>0, <1>4 DEF Sourced, Holds, IsOf
<1>5. ASSUME UNCHANGED <<scratch, draft>>, parent'.n = parent.n, parent'.haunted = parent.haunted,
             Assembling' => Assembling \/ DOMAIN draft = {}
      PROVE  ~parent'.haunted => (Assembling' => \A c \in DOMAIN draft' : Holds(draft, c)')
  BY <1>0, <1>5 DEF Sourced, Holds, IsOf
<1>6. ASSUME UNCHANGED <<scratch, fragments, draft>>, parent'.n = parent.n,
             parent'.haunted = parent.haunted, Completed' \subseteq Completed,
             Assembling' => Assembling \/ DOMAIN draft = {}
      PROVE  Sourced'
  BY <1>4, <1>5, <1>6 DEF Sourced
<1>7. CASE UNCHANGED <<parent, worker, scratch, fragments, draft>>
  BY <1>0, <1>6, <1>7 DEF Completed, Assembling, HasWritten
<1>8. ASSUME Raises \/ RaisesWriting PROVE Sourced'
  BY <1>1, <1>2, <1>8 DEF Raises, RaisesWriting
<1>9. CASE Scan
  <2>1. CASE Raises
    BY <1>8, <2>1
  <2>2. CASE ~Raises
    <3>1. parent'.at \in {"withdraw", "spawn"} /\ parent'.cell = parent.cell /\ parent.cell = 1
      BY <1>1, <1>9, <2>2 DEF Scan, Typed, ParentTyped
    <3>2. Completed' = {} /\ ~Assembling'
      BY <3>1 DEF Completed, Assembling
    <3> QED
      BY <3>2 DEF Sourced
  <2> QED
    BY <2>1, <2>2
<1>10. CASE Spawn
  <2>1. /\ parent.at = "spawn" /\ UNCHANGED <<scratch, fragments, draft>> /\ DOMAIN draft = {}
        /\ Completed = 1 .. parent.cell - 1 /\ parent.n \in Attempts
        /\ parent.src \in DOMAIN setup.dates /\ parent.cell \in Nat
    BY <1>1, <1>10 DEF Spawn, files, DraftGrows, Completed, Typed, ParentTyped
  <2>2. CASE parent.cell <= CellCount(parent.src)
    <3>1. /\ parent'.at = "polling" /\ parent'.n = parent.n /\ parent'.cell = parent.cell
          /\ parent'.haunted = parent.haunted
      BY <1>1, <1>10, <2>2 DEF Spawn, Goes
    <3>2. worker'[parent.n].at = "spawned"
      BY <1>10, <2>1, <2>2 DEF Spawn, Typed, WorkerTyped
    <3>3. Completed' = 1 .. parent.cell - 1
      BY <3>1, <3>2 DEF Completed, HasWritten
    <3> QED
      BY <1>6, <2>1, <3>1, <3>3
  <2>3. CASE ~(parent.cell <= CellCount(parent.src))
    <3>1. /\ parent'.at = "assemble" /\ parent'.n = parent.n /\ parent'.src = parent.src
          /\ parent'.haunted = parent.haunted
      BY <1>1, <1>10, <2>3 DEF Spawn
    <3>2. Completed' = 1 .. CellCount(parent.src)
      BY <1>0, <3>1 DEF Completed
    <3>3. CellCount(parent.src) \in Nat
      BY <2>1, CellFacts DEF Typed, FilesTyped
    <3>4. Completed' \subseteq Completed
      BY <2>1, <2>3, <3>2, <3>3
    <3> QED
      BY <1>6, <2>1, <3>1, <3>4
  <2> QED
    BY <2>2, <2>3
<1>11. CASE TimesOut \/ ExceedsMemory \/ Raise
  BY <1>8, <1>11 DEF TimesOut, ExceedsMemory, Raise, Terminates
<1>12. CASE Join
  <2>1. CASE Goes("count")
    <3>1. /\ parent.at = "polling" /\ parent'.at = "count" /\ parent'.n = parent.n
          /\ parent'.haunted = parent.haunted /\ parent'.cell = parent.cell
          /\ UNCHANGED <<scratch, fragments, draft>>
      BY <1>1, <1>12, <2>1 DEF Join, Goes, OnlyParent, files
    <3>2. HasWritten(parent.n)
      BY <1>1, <1>12, <2>1 DEF Join, HasWritten, Exited, Goes, Raises
    <3>3. Completed' = Completed /\ ~Assembling'
      BY <3>1, <3>2 DEF Completed, Assembling
    <3> QED
      BY <1>6, <3>1, <3>3
  <2> QED
    BY <1>8, <1>12, <2>1 DEF Join
<1>13. CASE CountRows
  <2>1. CASE Raises
    BY <1>8, <2>1
  <2>2. CASE ~Raises
    <3>1. /\ parent.at = "count" /\ parent'.at = "spawn" /\ parent'.n = parent.n
          /\ parent'.haunted = parent.haunted /\ parent'.cell = parent.cell + 1 /\ parent.cell \in Nat
          /\ UNCHANGED <<scratch, fragments, draft>>
      BY <1>1, <1>13, <2>2 DEF CountRows, OnlyParent, files
    <3>2. Completed' = Completed /\ ~Assembling'
      BY <3>1 DEF Completed, Assembling
    <3> QED
      BY <1>6, <3>1, <3>2
  <2> QED
    BY <2>1, <2>2
<1>14. CASE AppendFragment
  <2>1. CASE RaisesWriting
    BY <1>8, <2>1
  <2>2. CASE ~RaisesWriting
    <3>1. /\ parent.at = "assemble" /\ parent'.at = "assemble" /\ parent'.n = parent.n
          /\ parent'.haunted = parent.haunted /\ parent'.src = parent.src
          /\ UNCHANGED <<scratch, fragments>> /\ parent.cell \in 1 .. CellCount(parent.src)
          /\ draft' = With(draft, parent.cell, fragments[parent.cell])
      BY <1>1, <1>14, <2>2 DEF AppendFragment, Typed, ParentTyped
    <3>2. Completed' = Completed /\ parent.cell \in Completed
      BY <1>0, <3>1 DEF Completed
    <3>3. ASSUME ~parent.haunted, NEW c \in DOMAIN draft' PROVE Holds(draft, c)'
      <4>1. IsOf(draft'[c], parent.n, scratch.src, c)
        <5>1. CASE c = parent.cell
          <6>1. draft'[c] = fragments[c]
            BY <3>1, <5>1 DEF With
          <6> QED
            BY <3>2, <3>3, <5>1, <6>1 DEF Sourced, Holds
        <5>2. CASE c # parent.cell
          <6>1. c \in DOMAIN draft /\ draft'[c] = draft[c]
            BY <3>1, <3>3, <5>2 DEF With
          <6> QED
            BY <3>1, <3>3, <6>1 DEF Sourced, Holds, Assembling
        <5> QED
          BY <5>1, <5>2
      <4> QED
        BY <1>0, <3>1, <3>3, <4>1 DEF Holds, IsOf
    <3> QED
      BY <1>4, <3>1, <3>2, <3>3 DEF Sourced
  <2> QED
    BY <2>1, <2>2
<1>15. CASE Assembled \/ Verify
  <2>1. CASE Raises
    BY <1>8, <2>1
  <2>2. CASE ~Raises
    <3>1. /\ parent.at \in {"assemble", "verify"} /\ parent'.at \in {"verify", "publish"}
          /\ parent'.n = parent.n /\ parent'.haunted = parent.haunted
          /\ UNCHANGED <<scratch, fragments, draft>>
      BY <1>1, <1>15, <2>2 DEF Assembled, Verify, OnlyParent, files, Goes
    <3>2. Completed' = {} /\ Assembling
      BY <3>1 DEF Completed, Assembling
    <3> QED
      BY <1>6, <3>1, <3>2
  <2> QED
    BY <2>1, <2>2
<1>16. CASE InitScratch \/ Publish \/ WriteReport \/ Diagnose \/ Withdraw \/ Release
            \/ RemoveScratch \/ Discard \/ Killed
  BY <1>1, <1>2, <1>16 DEF InitScratch, Publish, WriteReport, Diagnose, Withdraw, Release,
     RemoveScratch, Discard, Killed, Goes
<1>17. CASE Begin \/ BeginRaises \/ Sweep \/ CloseWriter \/ WithdrawRaises \/ Interrupt
  <2>1. CASE Begin \/ BeginRaises
    BY <1>2, <2>1 DEF Begin, BeginRaises
  <2>2. CASE Sweep \/ CloseWriter \/ WithdrawRaises \/ Interrupt
    <3>1. parent'.at \in {"withdraw", "release"}
      BY <1>1, <2>2 DEF Sweep, CloseWriter, WithdrawRaises, Interrupt, Goes
    <3> QED
      BY <1>2, <3>1
  <2> QED
    BY <1>17, <2>1, <2>2
<1>18. CASE WritePanel
  BY <1>7, <1>18 DEF WritePanel, files
<1> QED
  BY <1>3, <1>7, <1>9, <1>10, <1>11, <1>12, <1>13, <1>14, <1>15, <1>16, <1>17, <1>18
     DEF Next, ParentStep, vars, files

LEMMA PanelSourcedStep ==
  ASSUME Typed, DraftGrows, SourceKnown, Sourced, PanelSourced, [Next]_vars
  PROVE  PanelSourced'
<1>0. /\ setup' = setup /\ \A v : CellCount(v)' = CellCount(v)
      /\ \A v, c : FoldOf(v, c)' = FoldOf(v, c) /\ Expected(v, c)' = Expected(v, c)
  BY SetupStays
<1>1. CASE UNCHANGED panel
  BY <1>0, <1>1 DEF PanelSourced, IsOf
<1>2. CASE panel' = NoFile
  BY <1>2 DEF PanelSourced
<1>3. CASE Publish
  <2>1. /\ panel' = [by |-> parent.n, src |-> parent.src, rows |-> draft, haunted |-> parent.haunted]
        /\ parent.at = "publish"
    BY <1>3 DEF Publish
  <2>2. DOMAIN draft = 1 .. CellCount(parent.src) /\ scratch.src = parent.src
    BY <2>1 DEF DraftGrows, SourceKnown
  <2>3. ~parent.haunted => \A c \in DOMAIN draft : IsOf(draft[c], parent.n, parent.src, c)
    BY <2>1, <2>2 DEF Sourced, Assembling, Holds
  <2> QED
    BY <1>0, <2>1, <2>2, <2>3 DEF PanelSourced, IsOf
<1>4. CASE \E a \in Attempts : WorkerStep(a)
  BY <1>1, <1>4, WorkerActs DEF Typed
<1> QED
  BY <1>1, <1>2, <1>3, <1>4 DEF Next, vars, files, Begin, BeginRaises, ParentStep, InitScratch, Scan, Spawn,
     TimesOut, Join, CountRows, AppendFragment, Assembled, Verify, WriteReport, Diagnose, Sweep,
     CloseWriter, Withdraw, WithdrawRaises, Release, RemoveScratch, Discard, OnlyParent, Raise, ExceedsMemory, Interrupt, Killed, WritePanel

\* The whole of what the steps preserve.
PanelInv ==
  Typed /\ Reaped /\ DraftGrows /\ Alone /\ SourceKnown /\ AtWork /\ Sourced /\ PanelSourced

LEMMA PanelInvariant == Spec => []PanelInv
<1>1. Init => PanelInv
  <2> SUFFICES ASSUME Init PROVE PanelInv
    OBVIOUS
  <2>1. Typed /\ Reaped
    BY TypedInit, ReapedInit
  <2>2. DraftGrows /\ Alone /\ SourceKnown /\ AtWork
    BY DEF Init, DraftGrows, Alone, SourceKnown, AtWork, Resting, EmptyDir, Scanned
  <2>3. Sourced /\ PanelSourced
    BY DEF Init, Sourced, PanelSourced, Completed, Assembling
  <2> QED
    BY <2>1, <2>2, <2>3 DEF PanelInv
<1>2. PanelInv /\ [Next]_vars => PanelInv'
  BY ParentTypedStep, WorkerTypedStep, FilesTypedStep, ReapedStep, DraftGrowsStep, AloneStep,
     SourceKnownStep, AtWorkStep, SourcedStep, PanelSourcedStep DEF PanelInv, Typed
<1> QED
  BY <1>1, <1>2, PTL DEF Spec

\* A published panel has a fragment for every cell; if no worker was left over, each has the
\* rows of its test window and comes from a model trained before it.
THEOREM PanelsAreComplete == Spec => []PanelComplete
<1>1. PanelInv => PanelComplete
  BY DEF PanelInv, PanelSourced, PanelComplete, IsOf
<1> QED
  BY PanelInvariant, <1>1, PTL

\* The rows of a panel are of its own attempt and of the version it names.
THEOREM PanelsAreFromSource == Spec => []PublishedFromSource
<1>1. PanelInv => PublishedFromSource
  BY DEF PanelInv, PanelSourced, PublishedFromSource, IsOf
<1> QED
  BY PanelInvariant, <1>1, PTL

-----------------------------------------------------------------------------
(* What a strategy may know and when: the views of the past that DataView  *)
(* and Universe give (PointInTime), and the splits of a time series into   *)
(* training and test rows (PurgedSplits, CombinatorialSplits).             *)

\* A set of numbers that is not empty has a least one.
LEMMA LeastNumber ==
  ASSUME NEW N \in SUBSET Nat, N # {}
  PROVE  \E m \in N : \A k \in N : m <= k
<1>1. PICK m \in N : \A k \in N : ~ (<<k, m>> \in OpToRel(<, Nat))
  BY NatLessThanWellFounded, WFMin
<1>2. \A k \in N : ~ (k < m)
  BY <1>1 DEF OpToRel
<1>3. QED
  BY <1>2

-----------------------------------------------------------------------------
(* Point-in-time views                                                     *)
\* Seen on a day T, a non-empty part of a store has a newest row.
LEMMA FirstExists ==
  ASSUME NEW store, IsStore(store), NEW T \in Int,
         NEW rows \in SUBSET store, rows # {},
         \A r \in rows : r.valid <= T /\ r.know <= T
  PROVE  IsFirst(First(rows), rows)
<1>1. \A r \in rows : /\ r.valid \in Int /\ r.know \in Int /\ r.at \in Nat
                      /\ T - r.valid \in Nat /\ T - r.know \in Nat
  BY DEF IsStore
<1>2. PICK a \in rows : \A r \in rows : r.valid <= a.valid
  <2> DEFINE N == {T - r.valid : r \in rows}
  <2>1. N \in SUBSET Nat /\ N # {}
    BY <1>1
  <2>2. PICK m \in N : \A k \in N : m <= k
    BY <2>1, LeastNumber
  <2>3. PICK a \in rows : m = T - a.valid
    BY <2>2
  <2>4. ASSUME NEW r \in rows PROVE r.valid <= a.valid
    <3>1. m <= T - r.valid
      BY <2>2
    <3>2. QED
      BY <1>1, <2>3, <3>1
  <2>5. QED
    BY <2>4
<1>3. PICK b \in rows : /\ b.valid = a.valid
                        /\ \A r \in rows : r.valid = a.valid => r.know <= b.know
  <2> DEFINE newest == {r \in rows : r.valid = a.valid}
             N == {T - r.know : r \in newest}
  <2>1. N \in SUBSET Nat /\ N # {}
    BY <1>1
  <2>2. PICK m \in N : \A k \in N : m <= k
    BY <2>1, LeastNumber
  <2>3. PICK b \in newest : m = T - b.know
    BY <2>2
  <2>4. ASSUME NEW r \in rows, r.valid = a.valid PROVE r.know <= b.know
    <3>1. m <= T - r.know
      BY <2>2, <2>4
    <3>2. QED
      BY <1>1, <2>3, <3>1
  <2>5. QED
    BY <2>4
<1>4. PICK c \in rows : /\ c.valid = a.valid /\ c.know = b.know
                        /\ \A r \in rows : r.valid = a.valid /\ r.know = b.know => c.at <= r.at
  <2> DEFINE newest == {r \in rows : r.valid = a.valid /\ r.know = b.know}
             N == {r.at : r \in newest}
  <2>1. N \in SUBSET Nat /\ N # {}
    BY <1>1, <1>3
  <2>2. PICK m \in N : \A k \in N : m <= k
    BY <2>1, LeastNumber
  <2>3. QED
    BY <2>2
<1>5. ASSUME NEW r \in rows \ {c} PROVE Before(c, r)
  <2>1. r.at # c.at
    BY DEF IsStore
  <2>2. r.valid <= c.valid /\ (r.valid = c.valid => r.know <= c.know)
    BY <1>2, <1>3, <1>4
  <2>3. r.valid = c.valid /\ r.know = c.know => c.at <= r.at
    BY <1>4
  <2>4. QED
    BY <1>1, <2>1, <2>2, <2>3 DEF Before
<1>6. IsFirst(c, rows)
  BY <1>5 DEF IsFirst
<1>7. QED
  BY <1>6 DEF First, IsFirst

LEMMA FirstUnique ==
  ASSUME NEW store, IsStore(store), NEW rows \in SUBSET store,
         NEW r, IsFirst(r, rows)
  PROVE  First(rows) = r
<1>1. IsFirst(First(rows), rows)
  BY DEF First, IsFirst
<1>2. r \in store /\ First(rows) \in store
  BY <1>1 DEF IsFirst
<1>3. First(rows) # r => Before(r, First(rows)) /\ Before(First(rows), r)
  BY <1>1 DEF IsFirst
<1>4. QED
  BY <1>2, <1>3 DEF Before, IsStore

-----------------------------------------------------------------------------
(* DataView.                                                               *)

\* What becomes known after T, corrections of older days and data of later ones,
\* changes no answer of as_of(T), not even the StalenessError it may be.
THEOREM PastUnchanged ==
  ASSUME NEW store, NEW later, NEW T \in Int,
         \A r \in later : r.know \in Int /\ r.know > T,
         NEW symbols, NEW fields, NEW policy
  PROVE  AsOf(store \cup later, symbols, fields, policy, T)
           = AsOf(store, symbols, fields, policy, T)
<1>1. \A s : Visible(store \cup later, s, T) = Visible(store, s, T)
  BY DEF Visible
<1>2. \A s : /\ Refused(Visible(store \cup later, s, T), fields, policy, T)
                  <=> Refused(Visible(store, s, T), fields, policy, T)
            /\ Snapshot(Visible(store \cup later, s, T), fields, policy, T)
                  = Snapshot(Visible(store, s, T), fields, policy, T)
  BY <1>1
<1>3. QED
  BY <1>1, <1>2 DEF AsOf

\* Every value of a snapshot is one that a row of the symbol bears that speaks of
\* a day not after T, was known not after T and is not older than the field's ttl,
\* also when the value is carried forward from an older row.
THEOREM NothingFromTheFuture ==
  ASSUME NEW store, IsStore(store), NEW T \in Int, NEW s, NEW f, NEW policy,
         policy[f].ttl \in Int, Visible(store, s, T) # {},
         Cell(Visible(store, s, T), f, policy, T) # Missing
  PROVE  \E r \in store : /\ r.symbol = s /\ r.valid <= T /\ r.know <= T
                          /\ T - r.know <= policy[f].ttl
                          /\ Cell(Visible(store, s, T), f, policy, T) = r.vals[f]
<1> DEFINE rows == Visible(store, s, T)
           r == Observation(rows, f, policy[f].fill)
<1>1. /\ rows \in SUBSET store
      /\ \A q \in rows : q.symbol = s /\ q.valid <= T /\ q.know <= T
  BY DEF Visible
<1>2. r \in rows
  <2>1. ASSUME NEW part \in SUBSET rows, part # {} PROVE First(part) \in part
    BY <1>1, <2>1, FirstExists DEF IsFirst
  <2>2. QED
    BY <2>1 DEF Observation
<1>3. r.know \in Int
  BY <1>1, <1>2 DEF IsStore
<1>4. ~ Lacking(rows, f, policy, T) /\ Cell(rows, f, policy, T) = r.vals[f]
  BY DEF Cell
<1>5. ~ (T - r.know > policy[f].ttl)
  BY <1>4 DEF Lacking
<1> HIDE DEF r
<1>6. QED
  BY <1>1, <1>2, <1>3, <1>4, <1>5

\* On a later day no symbol disappears, and the day its snapshot speaks of never
\* goes back, whatever was corrected in between.
THEOREM SnapshotsAdvance ==
  ASSUME NEW store, IsStore(store), NEW S \in Int, NEW T \in Int, S <= T,
         NEW s, Visible(store, s, S) # {}
  PROVE  /\ Visible(store, s, T) # {}
         /\ First(Visible(store, s, S)).valid <= First(Visible(store, s, T)).valid
<1>1. Visible(store, s, S) \subseteq Visible(store, s, T)
  BY DEF Visible, IsStore
<1>2. /\ IsFirst(First(Visible(store, s, S)), Visible(store, s, S))
      /\ IsFirst(First(Visible(store, s, T)), Visible(store, s, T))
  <2>1. ASSUME NEW D \in Int, Visible(store, s, D) # {}
        PROVE  IsFirst(First(Visible(store, s, D)), Visible(store, s, D))
    <3>1. /\ Visible(store, s, D) \in SUBSET store
          /\ \A r \in Visible(store, s, D) : r.valid <= D /\ r.know <= D
      BY DEF Visible
    <3>2. QED
      BY <2>1, <3>1, FirstExists
  <2>2. QED
    BY <1>1, <2>1
<1> DEFINE a == First(Visible(store, s, S))
           b == First(Visible(store, s, T))
<1>3. a \in store /\ b \in store /\ (a # b => Before(b, a))
  BY <1>1, <1>2 DEF IsFirst, Visible
<1> HIDE DEF a, b
<1>4. a.valid <= b.valid
  BY <1>3 DEF Before, IsStore
<1>5. QED
  BY <1>1, <1>4 DEF a, b

\* Rows that speak of the same day and were known on the same day as earlier rows are never
\* seen, if those lack none of the fields asked for: of two such corrections on one day the
\* first counts.
THEOREM SameDayCorrectionUnseen ==
  ASSUME NEW store, NEW more, IsStore(store \cup more), NEW T \in Int,
         NEW symbols, NEW fields, NEW policy,
         \A m \in more : \E r \in store :
           /\ r.symbol = m.symbol /\ r.valid = m.valid /\ r.know = m.know /\ r.at < m.at
           /\ \A f \in fields : r.vals[f] # Missing
  PROVE  AsOf(store \cup more, symbols, fields, policy, T)
           = AsOf(store, symbols, fields, policy, T)
<1> DEFINE all == store \cup more
<1>1. ASSUME NEW rows \in SUBSET all, NEW old \in SUBSET store, old \subseteq rows,
             old # {}, \A r \in rows : r.valid <= T /\ r.know <= T,
             \A m \in rows \ old : \E r \in old :
               r.valid = m.valid /\ r.know = m.know /\ r.at < m.at
      PROVE  First(rows) = First(old)
  <2>1. IsFirst(First(old), old)
    <3>1. IsStore(store)
      BY DEF IsStore
    <3>2. QED
      BY <1>1, <3>1, FirstExists
  <2> DEFINE a == First(old)
  <2> HIDE DEF a
  <2>2. a \in old /\ \A r \in old \ {a} : Before(a, r)
    BY <2>1 DEF a, IsFirst
  <2>3. ASSUME NEW m \in rows \ {a} PROVE Before(a, m)
    <3>1. CASE m \in old
      BY <2>2, <3>1
    <3>2. CASE m \notin old
      <4>1. PICK r \in old : r.valid = m.valid /\ r.know = m.know /\ r.at < m.at
        BY <1>1, <3>2
      <4>2. r \in all /\ a \in all /\ m \in all
        BY <1>1, <2>2
      <4>3. r = a \/ Before(a, r)
        BY <2>2
      <4>4. QED
        BY <4>1, <4>2, <4>3 DEF Before, IsStore
    <3>3. QED
      BY <3>1, <3>2
  <2>4. IsFirst(a, rows)
    BY <1>1, <2>2, <2>3 DEF IsFirst
  <2>5. QED
    BY <1>1, <2>4, FirstUnique DEF a
<1>2. ASSUME NEW s PROVE /\ Visible(store, s, T) \subseteq Visible(all, s, T)
                         /\ Visible(all, s, T) \in SUBSET all
                         /\ Visible(store, s, T) \in SUBSET store
                         /\ \A r \in Visible(all, s, T) : r.valid <= T /\ r.know <= T
                         /\ \A m \in Visible(all, s, T) \ Visible(store, s, T) :
                              \E r \in Visible(store, s, T) :
                                /\ r.valid = m.valid /\ r.know = m.know /\ r.at < m.at
                                /\ \A f \in fields : r.vals[f] # Missing
  BY DEF Visible
<1>3. ASSUME NEW s, Visible(store, s, T) # {}, NEW f \in fields, NEW fill
      PROVE  Observation(Visible(all, s, T), f, fill) = Observation(Visible(store, s, T), f, fill)
  <2> DEFINE rows == Visible(all, s, T)
             old  == Visible(store, s, T)
             holders    == {r \in rows : r.vals[f] # Missing}
             oldHolders == {r \in old : r.vals[f] # Missing}
  <2>1. First(rows) = First(old)
    BY <1>1, <1>2, <1>3
  <2>2. oldHolders # {} => First(holders) = First(oldHolders)
    <3>1. /\ holders \in SUBSET all /\ oldHolders \in SUBSET store
          /\ oldHolders \subseteq holders
          /\ \A r \in holders : r.valid <= T /\ r.know <= T
      BY <1>2
    <3>2. \A m \in holders \ oldHolders : \E r \in oldHolders :
            r.valid = m.valid /\ r.know = m.know /\ r.at < m.at
      BY <1>2, <1>3
    <3> HIDE DEF holders, oldHolders
    <3>3. QED
      BY <1>1, <3>1, <3>2
  <2>3. oldHolders = {} => holders = {}
    <3>1. ASSUME NEW m \in holders PROVE oldHolders # {}
      <4>1. CASE m \in old
        BY <4>1
      <4>2. CASE m \notin old
        <5>1. m \in rows \ old
          BY <4>2
        <5>2. PICK r \in old : \A g \in fields : r.vals[g] # Missing
          BY <1>2, <5>1
        <5>3. r.vals[f] # Missing
          BY <1>3, <5>2
        <5>4. QED
          BY <5>3
      <4>3. QED
        BY <4>1, <4>2
    <3>2. QED
      BY <3>1
  <2>4. oldHolders # {} => holders # {}
    BY <1>2
  <2>5. QED
    BY <2>1, <2>2, <2>3, <2>4 DEF Observation
<1>4. ASSUME NEW s
      PROVE  Visible(store, s, T) = {} <=> Visible(all, s, T) = {}
  BY <1>2
<1>5. ASSUME NEW s, Visible(store, s, T) # {}
      PROVE  /\ Refused(Visible(all, s, T), fields, policy, T)
                  <=> Refused(Visible(store, s, T), fields, policy, T)
             /\ Snapshot(Visible(all, s, T), fields, policy, T)
                  = Snapshot(Visible(store, s, T), fields, policy, T)
  <2>1. First(Visible(all, s, T)) = First(Visible(store, s, T))
    BY <1>1, <1>2, <1>5
  <2>2. \A f \in fields : Lacking(Visible(all, s, T), f, policy, T)
                            <=> Lacking(Visible(store, s, T), f, policy, T)
    BY <1>3, <1>5, ZenonT(60) DEF Lacking
  <2>3. \A f \in fields : Cell(Visible(all, s, T), f, policy, T)
                            = Cell(Visible(store, s, T), f, policy, T)
    BY <1>3, <1>5, <2>2 DEF Cell
  <2>4. QED
    BY <2>1, <2>2, <2>3 DEF Refused, Snapshot
<1>6. QED
  BY <1>4, <1>5 DEF AsOf

-----------------------------------------------------------------------------
(* Universe.                                                               *)

\* Events of days after T do not change who is a member at T.
THEOREM LaterEventsIgnored ==
  ASSUME NEW events, NEW later, NEW T \in Int,
         \A e \in later : e.date \in Int /\ e.date > T
  PROVE  MembersAsOf(events \cup later, T) = MembersAsOf(events, T)
<1>1. ASSUME NEW s
      PROVE  {e \in events \cup later : e.symbol = s /\ e.date <= T}
               = {e \in events : e.symbol = s /\ e.date <= T}
  OBVIOUS
<1>2. \A s : IsActive(events \cup later, s, T) <=> IsActive(events, s, T)
  BY <1>1 DEF IsActive
<1>3. \A s : IsActive(events, s, T) => s \in {e.symbol : e \in events}
  BY DEF IsActive
<1>4. QED
  BY <1>2, <1>3 DEF MembersAsOf

\* A delisted symbol is out from the day of the event, until it is listed again on
\* a later day: a listing of the same day, made before or after, does not count.
THEOREM DelistedStaysOut ==
  ASSUME NEW events, \A e \in events : e.date \in Int,
         NEW s, NEW day \in Int, NEW T \in Int, day <= T,
         s \in MembersAsOf(Delist(events, s, day), T)
  PROVE  \E e \in events : /\ e.symbol = s /\ e.kind = "list"
                           /\ day < e.date /\ e.date <= T
<1> DEFINE d == [symbol |-> s, date |-> day, kind |-> "delist"]
<1>1. PICK e \in Delist(events, s, day) :
        /\ e.symbol = s /\ e.date <= T /\ e.kind = "list"
        /\ \A f \in Delist(events, s, day) : f.symbol = s /\ f.date <= T => NotAfter(f, e)
  BY DEF MembersAsOf, IsActive
<1>2. /\ d \in Delist(events, s, day)
      /\ d.symbol = s /\ d.date = day /\ d.kind = "delist"
  BY DEF Delist
<1> HIDE DEF d
<1>3. NotAfter(d, e)
  BY <1>1, <1>2
<1>4. e # d /\ e \in events
  BY <1>1, <1>2 DEF Delist, d
<1>5. QED
  BY <1>1, <1>2, <1>3, <1>4 DEF NotAfter

\* Seeding makes the symbol a member from the first day of its rows on, until the first day
\* from there that bears a delist event.
THEOREM SeedCounts ==
  ASSUME NEW events, \A e \in events : e.date \in Int /\ e.kind \in {"list", "delist"},
         NEW s, NEW first \in Int, NEW T \in Int, first <= T,
         \A e \in events : (e.symbol = s /\ first <= e.date /\ e.date <= T) => e.kind = "list"
  PROVE  s \in MembersAsOf(Seed(events, s, first), T)
<1> DEFINE all == Seed(events, s, first)
           seen == {e \in all : e.symbol = s /\ e.date <= T}
           ages == {T - e.date : e \in seen}
<1>1. /\ \A e \in all : e.date \in Int /\ e.kind \in {"list", "delist"}
      /\ \A e \in all : (e.symbol = s /\ first <= e.date /\ e.date <= T) => e.kind = "list"
  BY DEF Seed, Register
\* On the first day there is a list event that no other one follows.
<1>2. PICK l \in all : /\ l.symbol = s /\ l.date <= first /\ l.kind = "list"
                       /\ \A f \in all : (f.symbol = s /\ f.date <= first) => NotAfter(f, l)
  <2>1. CASE IsActive(events, s, first)
    <3>1. all = events
      BY <2>1 DEF Seed
    <3> QED
      BY <2>1, <3>1 DEF IsActive
  <2>2. CASE ~ IsActive(events, s, first)
    <3> DEFINE e == [symbol |-> s, date |-> first, kind |-> "list"]
    <3>1. /\ e.symbol = s /\ e.date = first /\ e.kind = "list"
          /\ all = events \cup {e}
      BY <2>2 DEF Seed, Register
    <3> HIDE DEF e, all
    <3>2. \A f \in all : f.symbol = s /\ f.date <= first => NotAfter(f, e)
      BY <3>1 DEF NotAfter
    <3> QED
      BY <3>1, <3>2
  <2> QED
    BY <2>1, <2>2
<1> HIDE DEF all
<1>3. l \in seen
  BY <1>1, <1>2
\* The last day with an event decides.
<1>4. ages \subseteq Nat /\ T - l.date \in ages
  BY <1>1, <1>3
<1>5. PICK age \in ages : \A o \in ages : age <= o
  <2> HIDE DEF ages
  <2> QED
    BY <1>4, LeastNumber
<1>6. PICK d \in seen : \A f \in seen : f.date <= d.date
  <2>1. PICK d \in seen : age = T - d.date
    BY <1>5
  <2>2. \A f \in seen : T - d.date <= T - f.date
    BY <1>5, <2>1
  <2> QED
    BY <1>1, <2>1, <2>2
<1>7. \E e \in seen : e.kind = "list" /\ \A f \in seen : NotAfter(f, e)
  <2>1. CASE d.date <= first
    <3>1. \A f \in seen : f.date <= first
      BY <1>1, <1>6, <2>1
    <3> QED
      BY <1>2, <1>3, <3>1
  <2>2. CASE ~(d.date <= first)
    <3>1. d.kind = "list" /\ \A f \in seen : f.date = d.date => f.kind = "list"
      BY <1>1, <1>6, <2>2
    <3>2. \A f \in seen : NotAfter(f, d)
      BY <1>1, <1>6, <3>1 DEF NotAfter
    <3> QED
      BY <3>1, <3>2
  <2> QED
    BY <2>1, <2>2
<1> QED
  BY <1>3, <1>7 DEF MembersAsOf, IsActive, all

\* Membership has no knowledge day: a frame that is registered at any later time,
\* of rows known later still, makes its symbol a member of all days since the
\* first one it speaks of, on which it was none before.
THEOREM SeedIsBackdated ==
  ASSUME NEW events, NEW s, \A e \in events : e.symbol # s,
         NEW first \in Int, NEW T \in Int, first <= T
  PROVE  /\ s \notin MembersAsOf(events, T)
         /\ s \in MembersAsOf(Seed(events, s, first), T)
<1> DEFINE e == [symbol |-> s, date |-> first, kind |-> "list"]
<1>1. e.symbol = s /\ e.date = first /\ e.kind = "list"
  OBVIOUS
<1>2. ~ IsActive(events, s, first) /\ s \notin MembersAsOf(events, T)
  BY DEF IsActive, MembersAsOf
<1>3. Seed(events, s, first) = events \cup {e}
  BY <1>2 DEF Seed, Register
<1> HIDE DEF e
<1>4. {f \in events \cup {e} : f.symbol = s /\ f.date <= T} = {e}
  BY <1>1
<1>5. NotAfter(e, e)
  BY <1>1 DEF NotAfter
<1>6. IsActive(events \cup {e}, s, T)
  BY <1>1, <1>4, <1>5 DEF IsActive
<1>7. QED
  BY <1>1, <1>2, <1>3, <1>6 DEF MembersAsOf

-----------------------------------------------------------------------------
(* Splits                                                                  *)
\* Monotonicity of multiplication, which the provers do not find by themselves.
LEMMA TimesMonotone ==
  ASSUME NEW a \in Nat, NEW b \in Nat, NEW c \in Nat, a <= b
  PROVE  a * c <= b * c /\ a * c \in Nat /\ b * c \in Nat
<1>1. PICK d \in Nat : b = a + d
  BY b - a \in Nat
<1>2. (a + d) * c = a * c + d * c /\ d * c \in Nat /\ a * c \in Nat
  OBVIOUS
<1>3. QED
  BY <1>1, <1>2

LEMMA TimesNext ==
  ASSUME NEW a \in Nat, NEW c \in Nat
  PROVE  (a + 1) * c = a * c + c
OBVIOUS

\* A number lies in the block of its quotient.
LEMMA Quotient ==
  ASSUME NEW r \in Nat, NEW c \in Nat \ {0}
  PROVE  /\ r \div c \in Nat
         /\ (r \div c) * c <= r
         /\ r < (r \div c + 1) * c
<1> DEFINE q == r \div c
<1>1. q \in Nat /\ q * c <= r /\ r < q * c + c
  BY SMTT(30)
<1> HIDE DEF q
<1>2. (q + 1) * c = q * c + c
  BY <1>1, TimesNext
<1>3. QED
  BY <1>1, <1>2 DEF q

-----------------------------------------------------------------------------
\* Where the test windows of TimeSeriesSplitter lie.
LEMMA ForwardBounds ==
  ASSUME NEW n \in Nat, NEW folds \in Nat \ {0}, NEW size \in Nat \ {0},
         NEW least \in Nat \ {0}, n >= RequiredRows(folds, size, least),
         NEW i \in 0 .. folds - 1
  PROVE  /\ ForwardStart(n, folds, size, i) \in Nat
         /\ ForwardEnd(n, folds, size, i) \in Nat
         /\ ForwardStart(n, folds, size, i) >= least
         /\ ForwardEnd(n, folds, size, i) = ForwardStart(n, folds, size, i) + size
         /\ ForwardEnd(n, folds, size, i) <= n
<1> DEFINE back == folds - 1 - i
<1>1. back \in Nat /\ back + 1 <= folds
  OBVIOUS
<1>2. /\ (back + 1) * size <= folds * size
      /\ back * size \in Nat
      /\ (back + 1) * size = back * size + size
      /\ folds * size \in Nat
  BY <1>1, TimesMonotone, TimesNext
<1>3. ForwardEnd(n, folds, size, i) = n - back * size
  BY DEF ForwardEnd
<1> HIDE DEF back
<1>4. QED
  BY <1>2, <1>3 DEF ForwardStart, RequiredRows

(* TimeSeriesSplitter (splits.py:307-311): each fold tests rows of the     *)
(* frame with at least min_train_size rows before them, and a later fold   *)
(* tests later rows.                                                       *)
THEOREM ForwardTestsFollow ==
  ASSUME NEW n \in Nat, NEW folds \in Nat \ {0}, NEW size \in Nat \ {0},
         NEW least \in Nat \ {0}, n >= RequiredRows(folds, size, least),
         NEW i \in 0 .. folds - 1
  PROVE  /\ ForwardTest(n, folds, size, i) # {}
         /\ ForwardTest(n, folds, size, i) \subseteq Rows(n) \ (0 .. least - 1)
         /\ \A j \in 0 .. folds - 1 : i < j =>
              \A r \in ForwardTest(n, folds, size, i), s \in ForwardTest(n, folds, size, j) :
                r < s
<1>1. /\ ForwardStart(n, folds, size, i) \in Nat
      /\ ForwardStart(n, folds, size, i) >= least
      /\ ForwardEnd(n, folds, size, i) = ForwardStart(n, folds, size, i) + size
      /\ ForwardEnd(n, folds, size, i) <= n
  BY ForwardBounds
<1>2. ForwardStart(n, folds, size, i) \in ForwardTest(n, folds, size, i)
  BY <1>1 DEF ForwardTest
<1>3. ForwardTest(n, folds, size, i) \subseteq Rows(n) \ (0 .. least - 1)
  BY <1>1 DEF ForwardTest, Rows
<1>4. ASSUME NEW j \in 0 .. folds - 1, i < j
      PROVE  ForwardEnd(n, folds, size, i) <= ForwardStart(n, folds, size, j)
  <2> DEFINE near == folds - 1 - j
             far  == folds - 1 - i
  <2>1. near \in Nat /\ far \in Nat /\ near + 1 <= far
    BY <1>4
  <2>2. (near + 1) * size <= far * size /\ (near + 1) * size = near * size + size
    BY <2>1, TimesMonotone, TimesNext
  <2>3. near * size \in Nat /\ far * size \in Nat
    BY <2>1
  <2>4. /\ ForwardEnd(n, folds, size, i) = n - far * size
        /\ ForwardStart(n, folds, size, j) = n - near * size - size
    BY DEF ForwardEnd, ForwardStart
  <2> HIDE DEF near, far
  <2>5. QED
    BY <2>2, <2>3, <2>4
<1>5. ASSUME NEW j \in 0 .. folds - 1, i < j,
             NEW r \in ForwardTest(n, folds, size, i), NEW s \in ForwardTest(n, folds, size, j)
      PROVE  r < s
  <2>1. ForwardStart(n, folds, size, j) \in Nat /\ ForwardEnd(n, folds, size, i) \in Nat
    BY ForwardBounds
  <2>2. ForwardEnd(n, folds, size, i) <= ForwardStart(n, folds, size, j)
    BY <1>4, <1>5
  <2>3. QED
    BY <1>1, <2>1, <2>2, <1>5 DEF ForwardTest
<1>6. QED
  BY <1>2, <1>3, <1>5

(* TimeSeriesSplitter (splits.py:321-333): every training row stands       *)
(* before every test row, and its timestamp the purge window before; with  *)
(* a window of 0 the two may be equal.                                     *)
THEOREM ForwardNoLookAhead ==
  ASSUME NEW n \in Nat, NEW folds \in Nat \ {0}, NEW size \in Nat \ {0},
         NEW least \in Nat \ {0}, n >= RequiredRows(folds, size, least),
         NEW ts \in [Rows(n) -> Int], Sorted(ts, n), NEW purge \in Nat,
         NEW i \in 0 .. folds - 1,
         NEW r \in ForwardTrain(ts, n, folds, size, purge, i),
         NEW t \in ForwardTest(n, folds, size, i)
  PROVE  r < t /\ ts[r] + purge <= ts[t]
<1> DEFINE start == ForwardStart(n, folds, size, i)
<1>1. start \in Nat /\ ForwardEnd(n, folds, size, i) \in Nat /\ ForwardEnd(n, folds, size, i) <= n
  BY ForwardBounds
<1>2. r \in 0 .. start - 1 /\ (purge > 0 => ts[r] <= ts[start] - purge)
  BY DEF ForwardTrain
<1>3. t \in Rows(n) /\ start <= t
  BY <1>1 DEF ForwardTest, Rows
<1> HIDE DEF start
<1>4. r \in Rows(n) /\ start \in Rows(n) /\ r < t
  BY <1>1, <1>2, <1>3 DEF Rows
<1>5. ts[r] <= ts[start] /\ ts[start] <= ts[t] /\ ts[r] \in Int /\ ts[start] \in Int /\ ts[t] \in Int
  BY <1>1, <1>2, <1>3, <1>4 DEF Sorted
<1>6. QED
  BY <1>2, <1>4, <1>5

(* validate_no_leakage accepts each fold of a TimeSeriesSplitter with a    *)
(* purge window.                                                           *)
THEOREM ForwardAccepted ==
  ASSUME NEW n \in Nat, NEW folds \in Nat \ {0}, NEW size \in Nat \ {0},
         NEW least \in Nat \ {0}, n >= RequiredRows(folds, size, least),
         NEW ts \in [Rows(n) -> Int], Sorted(ts, n), NEW purge \in Nat \ {0},
         NEW embargo \in Nat, NEW i \in 0 .. folds - 1
  PROVE  NoLeakage(ts, ts, ForwardTrain(ts, n, folds, size, purge, i),
                   ForwardTest(n, folds, size, i), purge, embargo)
<1> DEFINE train == ForwardTrain(ts, n, folds, size, purge, i)
           test  == ForwardTest(n, folds, size, i)
<1>1. test # {} /\ test \subseteq Rows(n)
  BY ForwardTestsFollow
<1>2. train \subseteq Rows(n)
  BY ForwardBounds DEF ForwardTrain, Rows
<1>3. \A r \in train, t \in test : ts[r] + purge <= ts[t]
  BY ForwardNoLookAhead
<1> HIDE DEF train, test
<1>4. \A r \in train, t \in test : ts[r] \in Int /\ ts[t] \in Int /\ ts[r] + purge <= ts[t]
  BY <1>1, <1>2, <1>3
<1>5. ~ KeysOverlap(ts, train, test) /\ ~ TrainReachesTest(ts, train, test, purge)
  BY <1>4 DEF KeysOverlap, TrainReachesTest
<1>6. ~ EmbargoBroken(ts, train, test, embargo)
  BY <1>1, <1>4 DEF EmbargoBroken
<1>7. QED
  BY <1>5, <1>6 DEF NoLeakage, train, test

\* A set of rows that is not empty has a last one.
LEMMA LastRowExists ==
  ASSUME NEW top \in Int, NEW rows \in SUBSET Nat, rows # {}, \A r \in rows : r <= top
  PROVE  LastRow(rows) \in rows /\ \A r \in rows : r <= LastRow(rows)
<1> DEFINE N == {top - r : r \in rows}
<1>1. N \in SUBSET Nat /\ N # {}
  <2>1. \A r \in rows : r \in Int /\ top - r \in Nat
    OBVIOUS
  <2>2. QED
    BY <2>1
<1> HIDE DEF N
<1>2. PICK m \in N : \A k \in N : m <= k
  BY <1>1, LeastNumber
<1>3. PICK r \in rows : m = top - r
  BY <1>2 DEF N
<1>4. ASSUME NEW s \in rows PROVE s <= r
  <2>1. m <= top - s
    BY <1>2 DEF N
  <2>2. QED
    BY <1>3, <2>1
<1>5. QED
  BY <1>4 DEF LastRow

\* What validate_no_leakage says of rows that are trained on before all tested ones.
LEMMA NoLeakageBefore ==
  ASSUME NEW n \in Nat, NEW ts \in [Rows(n) -> Int], Sorted(ts, n), NEW purge \in Nat,
         NEW embargo \in Nat, NEW train \in SUBSET Rows(n), NEW test \in SUBSET Rows(n),
         NEW start \in test, \A t \in test : start <= t, \A r \in train : r < start,
         NEW last \in train, \A r \in train : r <= last
  PROVE  NoLeakage(ts, ts, train, test, purge, embargo)
           <=> ts[start] > ts[last] /\ ts[start] - ts[last] >= purge
<1>1. /\ \A t \in test : ts[t] \in Int /\ ts[start] <= ts[t]
      /\ \A r \in train : ts[r] \in Int /\ ts[r] <= ts[last] /\ ts[last] <= ts[start]
  BY DEF Sorted, Rows
<1>2. ~ EmbargoBroken(ts, train, test, embargo)
  <2>1. ASSUME NEW r \in train, \A t \in test : ts[r] > ts[t] PROVE FALSE
    <3>1. ts[r] > ts[start] /\ ts[r] <= ts[last] /\ ts[last] <= ts[start]
      BY <1>1, <2>1
    <3>2. QED
      BY <1>1, <3>1
  <2>2. QED
    BY <2>1 DEF EmbargoBroken
<1>3. ASSUME NEW r \in train, NEW t \in test, ts[r] >= ts[t] \/ ts[t] - ts[r] < purge
      PROVE  ~ (ts[start] > ts[last] /\ ts[start] - ts[last] >= purge)
  BY <1>1, <1>3
<1>4. KeysOverlap(ts, train, test) => TrainReachesTest(ts, train, test, purge)
  BY <1>1 DEF KeysOverlap, TrainReachesTest
<1>5. TrainReachesTest(ts, train, test, purge)
        <=> ~ (ts[start] > ts[last] /\ ts[start] - ts[last] >= purge)
  <2>1. ts[start] \in Int /\ ts[last] \in Int
    BY <1>1
  <2>2. QED
    BY <1>3, <2>1 DEF TrainReachesTest
<1>6. QED
  BY <1>2, <1>4, <1>5 DEF NoLeakage

\* Of a walk-forward fold the gate, which sees two timestamps, says the same as
\* validate_no_leakage, which sees all rows; also of a fold whose training rows
\* were all purged, which both let pass.
THEOREM GateAgrees ==
  ASSUME NEW n \in Nat, NEW folds \in Nat \ {0}, NEW size \in Nat \ {0},
         NEW least \in Nat \ {0}, n >= RequiredRows(folds, size, least),
         NEW ts \in [Rows(n) -> Int], Sorted(ts, n), NEW purge \in Nat,
         NEW embargo \in Nat, NEW i \in 0 .. folds - 1
  PROVE  GateRefuses(ForwardBoundary(ts, n, folds, size, purge, i), purge)
           <=> ~ NoLeakage(ts, ts, ForwardTrain(ts, n, folds, size, purge, i),
                           ForwardTest(n, folds, size, i), purge, embargo)
<1>1. PICK start : start = ForwardStart(n, folds, size, i)
  OBVIOUS
<1>2. PICK train : train = ForwardTrain(ts, n, folds, size, purge, i)
  OBVIOUS
<1>3. PICK test : test = ForwardTest(n, folds, size, i)
  OBVIOUS
<1>4. PICK b : b = ForwardBoundary(ts, n, folds, size, purge, i)
  OBVIOUS
<1>5. /\ start \in Nat /\ start >= least /\ start \in test
      /\ test \in SUBSET Rows(n) /\ \A t \in test : start <= t
  <2>1. /\ start \in Nat /\ start >= least
        /\ ForwardEnd(n, folds, size, i) = start + size
        /\ ForwardEnd(n, folds, size, i) <= n
    BY <1>1, ForwardBounds
  <2>2. test = start .. start + size - 1
    BY <1>1, <1>3, <2>1 DEF ForwardTest
  <2>3. QED
    BY <2>1, <2>2 DEF Rows
<1>6. train = {r \in 0 .. start - 1 : purge > 0 => ts[r] <= ts[start] - purge}
  BY <1>1, <1>2 DEF ForwardTrain
<1>7. train \in SUBSET Rows(n) /\ \A r \in train : r < start
  BY <1>5, <1>6 DEF Rows
<1>8. /\ ~ b.non_contiguous_train /\ b.test_start = ts[start]
      /\ b.train_end = IF train = {} THEN ts[start] - purge ELSE ts[LastRow(train)]
  BY <1>1, <1>2, <1>4 DEF ForwardBoundary
<1>9. ts[start] \in Int
  BY <1>5
<1>10. CASE train = {}
  <2>1. purge > 0
    BY <1>5, <1>6, <1>10
  <2>2. ~ GateRefuses(b, purge)
    BY <1>8, <1>9, <1>10, <2>1 DEF GateRefuses
  <2>3. NoLeakage(ts, ts, train, test, purge, embargo)
    BY <1>10 DEF NoLeakage, KeysOverlap, TrainReachesTest, EmbargoBroken
  <2>4. QED
    BY <2>2, <2>3, <1>2, <1>3, <1>4
<1>11. CASE train # {}
  <2>1. LastRow(train) \in train /\ \A r \in train : r <= LastRow(train)
    <3>1. start \in Int /\ train \in SUBSET Nat /\ \A r \in train : r <= start
      BY <1>5, <1>7 DEF Rows
    <3>2. QED
      BY ONLY <1>11, <3>1, LastRowExists
  <2>2. NoLeakage(ts, ts, train, test, purge, embargo)
          <=> ts[start] > ts[LastRow(train)] /\ ts[start] - ts[LastRow(train)] >= purge
    <3> DEFINE last == LastRow(train)
    <3>1. last \in train /\ \A r \in train : r <= last
      BY <2>1
    <3> HIDE DEF last
    <3>2. NoLeakage(ts, ts, train, test, purge, embargo)
            <=> ts[start] > ts[last] /\ ts[start] - ts[last] >= purge
      BY <1>5, <1>7, <3>1, NoLeakageBefore, SMTT(60)
    <3>3. QED
      BY <3>2 DEF last
  <2>3. ts[LastRow(train)] \in Int /\ b.train_end = ts[LastRow(train)]
    BY <1>7, <1>8, <1>11, <2>1
  <2>4. GateRefuses(b, purge)
          <=> ~ (ts[start] > ts[LastRow(train)] /\ ts[start] - ts[LastRow(train)] >= purge)
    BY <1>8, <1>9, <2>3 DEF GateRefuses
  <2>5. QED
    BY <2>2, <2>4, <1>2, <1>3, <1>4
<1>12. QED
  BY <1>10, <1>11

-----------------------------------------------------------------------------
\* Where the test folds of PurgedKFold lie.
LEMMA KFoldBounds ==
  ASSUME NEW n \in Nat, NEW folds \in Nat \ {0, 1}, n >= folds, NEW i \in 0 .. folds - 1
  PROVE  /\ n \div folds \in Nat \ {0}
         /\ KStart(n, folds, i) \in Nat
         /\ KEnd(n, folds, i) \in Nat
         /\ KStart(n, folds, i) < KEnd(n, folds, i)
         /\ KEnd(n, folds, i) <= n
<1> DEFINE size == n \div folds
<1>1. size \in Nat /\ size * folds <= n /\ n < (size + 1) * folds
  BY Quotient
<1>2. size # 0
  <2> SUFFICES ASSUME size = 0 PROVE FALSE
    OBVIOUS
  <2>1. (size + 1) * folds = folds
    OBVIOUS
  <2>2. QED
    BY <1>1, <2>1
<1>3. size * folds = folds * size
  BY <1>1
<1> HIDE DEF size
<1>4. /\ i * size \in Nat
      /\ (i + 1) * size = i * size + size
      /\ (i + 1) * size <= folds * size
      /\ (i + 1) * size \in Nat
  BY <1>1, TimesNext, TimesMonotone
<1>5. KStart(n, folds, i) = i * size /\ KEnd(n, folds, i) \in {(i + 1) * size, n}
  BY DEF KStart, KEnd, size
<1>6. QED
  BY <1>1, <1>2, <1>3, <1>4, <1>5 DEF size

(* PurgedKFold (splits.py:474-475): every row is tested in exactly one     *)
(* fold, the rows that are left over in the last.                          *)
THEOREM KFoldTestsOnce ==
  ASSUME NEW n \in Nat, NEW folds \in Nat \ {0, 1}, n >= folds, NEW r \in Rows(n)
  PROVE  \E i \in 0 .. folds - 1 :
           /\ r \in KTest(n, folds, i)
           /\ \A j \in (0 .. folds - 1) \ {i} : r \notin KTest(n, folds, j)
<1> DEFINE size == n \div folds
<1>1. size \in Nat \ {0}
  BY KFoldBounds
<1>2. r \in Nat /\ r < n
  BY DEF Rows
<1>3. \E i \in 0 .. folds - 1 : r \in KTest(n, folds, i)
  <2>1. CASE r < (folds - 1) * size
    <3> DEFINE i == r \div size
    <3>1. i \in Nat /\ i * size <= r /\ r < (i + 1) * size
      BY <1>1, <1>2, Quotient
    <3> HIDE DEF i, size
    <3>2. i < folds - 1
      <4> SUFFICES ASSUME folds - 1 <= i PROVE FALSE
        BY <3>1
      <4>1. (folds - 1) * size <= i * size
        BY <1>1, <3>1, TimesMonotone
      <4>2. (folds - 1) * size \in Nat /\ i * size \in Nat
        BY <1>1, <3>1
      <4>3. QED
        BY <1>2, <2>1, <3>1, <4>1, <4>2
    <3>3. KStart(n, folds, i) = i * size /\ KEnd(n, folds, i) = (i + 1) * size
      BY <3>2 DEF KStart, KEnd, size
    <3>4. i * size \in Nat /\ (i + 1) * size \in Nat
      BY <1>1, <3>1
    <3>5. r \in KTest(n, folds, i)
      BY <1>2, <3>1, <3>3, <3>4 DEF KTest
    <3>6. QED
      BY <3>1, <3>2, <3>5
  <2>2. CASE (folds - 1) * size <= r
    <3>1. KStart(n, folds, folds - 1) = (folds - 1) * size /\ KEnd(n, folds, folds - 1) = n
      BY DEF KStart, KEnd
    <3> HIDE DEF size
    <3>2. (folds - 1) * size \in Nat
      BY <1>1
    <3>3. QED
      BY <1>2, <2>2, <3>1, <3>2 DEF KTest
  <2> HIDE DEF size
  <2>3. (folds - 1) * size \in Nat
    BY <1>1
  <2>4. QED
    BY <1>2, <2>1, <2>2, <2>3
<1> HIDE DEF size
<1>4. ASSUME NEW i \in 0 .. folds - 1, NEW j \in 0 .. folds - 1, i < j
      PROVE  KEnd(n, folds, i) <= KStart(n, folds, j)
  <2>1. KEnd(n, folds, i) = (i + 1) * size /\ KStart(n, folds, j) = j * size
    BY <1>4 DEF KStart, KEnd, size
  <2>2. QED
    BY <1>1, <1>4, <2>1, TimesMonotone
<1>5. ASSUME NEW i \in 0 .. folds - 1, NEW j \in 0 .. folds - 1, i < j,
             r \in KTest(n, folds, i), r \in KTest(n, folds, j)
      PROVE  FALSE
  <2>1. KEnd(n, folds, i) \in Nat /\ KStart(n, folds, j) \in Nat
    BY KFoldBounds
  <2>2. QED
    BY <1>2, <1>4, <1>5, <2>1 DEF KTest
<1>6. PICK i \in 0 .. folds - 1 : r \in KTest(n, folds, i)
  BY <1>3
<1>7. ASSUME NEW j \in (0 .. folds - 1) \ {i} PROVE r \notin KTest(n, folds, j)
  BY <1>5, <1>6
<1>8. QED
  BY <1>6, <1>7

(* PurgedKFold (splits.py:482-503): a training row stands before all test  *)
(* rows by more than the purge window, or after all of them by more than   *)
(* the embargo window, rows that share a day with a test row included.     *)
THEOREM KFoldClear ==
  ASSUME NEW n \in Nat, NEW folds \in Nat \ {0, 1}, n >= folds,
         NEW ts \in [Rows(n) -> Int], Sorted(ts, n), NEW purge \in Nat, NEW embargo \in Nat,
         NEW i \in 0 .. folds - 1, NEW r \in KTrain(ts, n, folds, purge, embargo, i)
  PROVE  \/ \A t \in KTest(n, folds, i) : ts[r] + purge < ts[t]
         \/ \A t \in KTest(n, folds, i) : ts[r] > ts[t] + embargo
<1> DEFINE first == KStart(n, folds, i)
           last  == KEnd(n, folds, i) - 1
<1>1. first \in Nat /\ last \in Nat /\ first <= last /\ last < n
  BY KFoldBounds
<1>2. r \in Rows(n) /\ (ts[r] < ts[first] - purge \/ ts[r] > ts[last] + embargo)
  BY DEF KTrain, KPurged
<1>3. KTest(n, folds, i) = first .. last
  BY <1>1 DEF KTest
<1> HIDE DEF first, last
<1>4. \A t \in first .. last : t \in Rows(n) /\ ts[first] <= ts[t] /\ ts[t] <= ts[last]
  BY <1>1 DEF Rows, Sorted
<1>5. first \in Rows(n) /\ last \in Rows(n)
  BY <1>1 DEF Rows
<1>6. QED
  BY <1>2, <1>3, <1>4, <1>5

(* validate_no_leakage (splits.py:639-641) refuses every fold of a         *)
(* PurgedKFold that trains on rows after its test rows, whatever gap lies  *)
(* between them: its check of the embargo gap, which is meant for such     *)
(* folds, never decides anything.                                          *)
THEOREM KFoldRefused ==
  ASSUME NEW n \in Nat, NEW folds \in Nat \ {0, 1}, n >= folds,
         NEW ts \in [Rows(n) -> Int], Sorted(ts, n), NEW purge \in Nat, NEW embargo \in Nat,
         NEW key, NEW i \in 0 .. folds - 1,
         NEW r \in KTrain(ts, n, folds, purge, embargo, i),
         NEW t \in KTest(n, folds, i), t < r
  PROVE  ~ NoLeakage(ts, key, KTrain(ts, n, folds, purge, embargo, i),
                     KTest(n, folds, i), purge, embargo)
<1>1. KEnd(n, folds, i) \in Nat /\ KEnd(n, folds, i) <= n /\ KStart(n, folds, i) \in Nat
  BY KFoldBounds
<1>2. r \in Rows(n) /\ t \in Rows(n)
  BY <1>1 DEF KTrain, KPurged, KTest, Rows
<1>3. ts[r] >= ts[t]
  BY <1>2 DEF Sorted, Rows
<1>4. QED
  BY <1>3 DEF NoLeakage, TrainReachesTest

-----------------------------------------------------------------------------
\* The groups of array_split follow each other from row 0 to row n - 1.
LEMMA GroupBounds ==
  ASSUME NEW n \in Nat, NEW groups \in Nat \ {0}
  PROVE  /\ \A g \in 0 .. groups : GroupStart(n, groups, g) \in Nat
         /\ GroupStart(n, groups, 0) = 0
         /\ GroupStart(n, groups, groups) = n
         /\ \A g, h \in 0 .. groups : g <= h => GroupStart(n, groups, g) <= GroupStart(n, groups, h)
<1> DEFINE q == n \div groups
           m == n % groups
<1>1. q \in Nat /\ m \in 0 .. groups - 1 /\ n = q * groups + m
  BY SMTT(30)
<1>2. \A g : GroupStart(n, groups, g) = g * q + SmallerOf(g, m)
  BY DEF GroupStart
<1> HIDE DEF q, m
<1>3. ASSUME NEW g \in 0 .. groups PROVE GroupStart(n, groups, g) \in Nat
  <2>1. g * q \in Nat /\ SmallerOf(g, m) \in Nat
    BY <1>1 DEF SmallerOf
  <2>2. QED
    BY <1>2, <2>1
<1>4. 0 * q = 0 /\ SmallerOf(0, m) = 0
  BY <1>1 DEF SmallerOf
<1>5. groups * q = q * groups /\ SmallerOf(groups, m) = m
  BY <1>1 DEF SmallerOf
<1>6. ASSUME NEW g \in 0 .. groups, NEW h \in 0 .. groups, g <= h
      PROVE  GroupStart(n, groups, g) <= GroupStart(n, groups, h)
  <2>1. g * q <= h * q /\ g * q \in Nat /\ h * q \in Nat
    BY <1>1, <1>6, TimesMonotone
  <2>2. SmallerOf(g, m) <= SmallerOf(h, m) /\ SmallerOf(g, m) \in Nat /\ SmallerOf(h, m) \in Nat
    BY <1>1, <1>6 DEF SmallerOf
  <2>3. QED
    BY <1>2, <2>1, <2>2
<1>7. GroupStart(n, groups, 0) = 0 /\ GroupStart(n, groups, groups) = n
  BY <1>1, <1>2, <1>4, <1>5
<1>8. QED
  BY <1>3, <1>6, <1>7

\* No row falls between the groups.
LEMMA RowHasGroup ==
  ASSUME NEW n \in Nat, NEW groups \in Nat \ {0}, NEW r \in 0 .. n - 1
  PROVE  \E g \in 0 .. groups - 1 : r \in Group(n, groups, g)
<1> DEFINE q == n \div groups
           m == n % groups
<1>1. q \in Nat /\ m \in 0 .. groups - 1 /\ n = q * groups + m
  BY SMTT(30)
<1>2. \A g : GroupStart(n, groups, g) = g * q + SmallerOf(g, m)
  BY DEF GroupStart
<1> HIDE DEF q, m
<1>3. m * (q + 1) \in Nat /\ m * (q + 1) = m * q + m /\ m * q \in Nat
  BY <1>1
<1>4. CASE r < m * (q + 1)
  <2> DEFINE g == r \div (q + 1)
  <2>1. g \in Nat /\ g * (q + 1) <= r /\ r < (g + 1) * (q + 1)
    <3>1. q + 1 \in Nat \ {0} /\ r \in Nat
      BY <1>1
    <3>2. QED
      BY <3>1, Quotient
  <2> HIDE DEF g
  <2>2. g < m
    <3> SUFFICES ASSUME m <= g PROVE FALSE
      BY <1>1, <2>1
    <3>1. m * (q + 1) <= g * (q + 1) /\ g * (q + 1) \in Nat
      BY <1>1, <2>1, TimesMonotone
    <3>2. QED
      BY <1>3, <1>4, <2>1, <3>1
  <2>3. g * (q + 1) = g * q + g /\ (g + 1) * (q + 1) = (g + 1) * q + (g + 1)
    BY <1>1, <2>1
  <2>4. SmallerOf(g, m) = g /\ SmallerOf(g + 1, m) = g + 1
    BY <1>1, <2>1, <2>2 DEF SmallerOf
  <2>5. /\ GroupStart(n, groups, g) = g * (q + 1)
        /\ GroupStart(n, groups, g + 1) = (g + 1) * (q + 1)
    BY <1>2, <2>3, <2>4
  <2>6. g * (q + 1) \in Nat /\ (g + 1) * (q + 1) \in Nat
    BY <1>1, <2>1
  <2>7. r \in Group(n, groups, g)
    BY <2>1, <2>5, <2>6 DEF Group
  <2>8. QED
    BY <1>1, <2>1, <2>2, <2>7
<1>5. CASE m * (q + 1) <= r
  <2>1. q # 0
    <3> SUFFICES ASSUME q = 0 PROVE FALSE
      OBVIOUS
    <3>1. q * groups = 0 /\ m * q = 0
      BY <1>1
    <3>2. QED
      BY <1>1, <1>3, <1>5, <3>1
  <2> DEFINE d == (r - m * (q + 1)) \div q
             g == m + d
  <2>2. r - m * (q + 1) \in Nat /\ q \in Nat \ {0}
    BY <1>1, <1>3, <1>5, <2>1
  <2>3. d \in Nat /\ d * q <= r - m * (q + 1) /\ r - m * (q + 1) < (d + 1) * q
    BY <2>2, Quotient
  <2> HIDE DEF d
  <2>4. g * q = m * q + d * q /\ (g + 1) * q = m * q + (d + 1) * q
    BY <1>1, <2>3
  <2>5. g \in Nat /\ m <= g
    BY <1>1, <2>3
  <2> HIDE DEF g
  <2>6. /\ g * q \in Nat /\ (g + 1) * q \in Nat /\ d * q \in Nat /\ (d + 1) * q \in Nat
    BY <1>1, <2>3, <2>5
  <2>7. g * q + m <= r /\ r < (g + 1) * q + m
    BY <1>1, <1>3, <2>3, <2>4, <2>6
  <2>8. g < groups
    <3> SUFFICES ASSUME groups <= g PROVE FALSE
      BY <2>5
    <3>1. groups * q <= g * q /\ groups * q = q * groups
      BY <1>1, <2>5, TimesMonotone
    <3>2. QED
      BY <1>1, <2>6, <2>7, <3>1
  <2>9. SmallerOf(g, m) = m /\ SmallerOf(g + 1, m) = m
    BY <1>1, <2>5 DEF SmallerOf
  <2>10. GroupStart(n, groups, g) = g * q + m /\ GroupStart(n, groups, g + 1) = (g + 1) * q + m
    BY <1>2, <2>9
  <2>11. r \in Group(n, groups, g)
    BY <1>1, <2>6, <2>7, <2>10 DEF Group
  <2>12. QED
    BY <2>5, <2>8, <2>11
<1>6. QED
  BY <1>3, <1>4, <1>5

(* CPCVSplitter (cpcv.py:148-150): every row is in exactly one group, also *)
(* when there are fewer rows than groups.                                  *)
THEOREM GroupsPartition ==
  ASSUME NEW n \in Nat, NEW groups \in Nat \ {0}, NEW r \in 0 .. n - 1
  PROVE  \E g \in Groups(n, groups) :
           /\ r \in Group(n, groups, g)
           /\ \A h \in Groups(n, groups) \ {g} : r \notin Group(n, groups, h)
<1>1. PICK g \in 0 .. groups - 1 : r \in Group(n, groups, g)
  BY RowHasGroup
<1>2. ASSUME NEW x \in 0 .. groups - 1, NEW y \in 0 .. groups - 1, x < y,
             r \in Group(n, groups, x), r \in Group(n, groups, y)
      PROVE  FALSE
  <2>1. x + 1 \in 0 .. groups /\ y \in 0 .. groups /\ x + 1 <= y
    BY <1>2
  <2>2. /\ GroupStart(n, groups, x + 1) \in Nat /\ GroupStart(n, groups, y) \in Nat
        /\ GroupStart(n, groups, x + 1) <= GroupStart(n, groups, y)
    BY <2>1, GroupBounds
  <2>3. r < GroupStart(n, groups, x + 1) /\ GroupStart(n, groups, y) <= r
    BY <1>2, <2>2 DEF Group
  <2>4. QED
    BY <2>2, <2>3
<1>3. g \in Groups(n, groups)
  BY <1>1 DEF Groups
<1>4. ASSUME NEW h \in Groups(n, groups) \ {g} PROVE r \notin Group(n, groups, h)
  <2>1. h \in 0 .. groups - 1 /\ (h < g \/ g < h)
    BY <1>4 DEF Groups
  <2>2. QED
    BY <1>1, <1>2, <2>1
<1>5. QED
  BY <1>1, <1>3, <1>4

(* _apply_purge_embargo (cpcv.py:262-277): in every split that is yielded  *)
(* a test row is more than purge rows before the next training row and     *)
(* more than embargo rows after the last one, also across several groups.  *)
THEOREM CombinatorialGap ==
  ASSUME NEW n \in Nat, NEW groups \in Nat \ {0}, NEW k \in Nat,
         NEW purge \in Nat, NEW embargo \in Nat, NEW least \in Nat,
         NEW s \in Splits(n, groups, k, purge, embargo, least),
         NEW t \in s.test, NEW r \in s.train
  PROVE  r - t > purge \/ t - r > embargo
<1>1. PICK chosen \in SUBSET Groups(n, groups) :
        /\ s.train = RowsOf(n, groups, Groups(n, groups) \ chosen)
        /\ s.test = Clean(RowsOf(n, groups, chosen), s.train, purge, embargo)
  BY SMTT(60) DEF Splits
<1>2. r \in 0 .. n - 1 /\ t \in 0 .. n - 1
  <2>1. \A g \in Groups(n, groups) : Group(n, groups, g) \subseteq 0 .. n - 1
    <3> SUFFICES ASSUME NEW g \in 0 .. groups - 1 PROVE Group(n, groups, g) \subseteq 0 .. n - 1
      BY DEF Groups
    <3>1. g \in 0 .. groups /\ g + 1 \in 0 .. groups /\ groups \in 0 .. groups
      OBVIOUS
    <3>2. /\ GroupStart(n, groups, g) \in Nat
          /\ GroupStart(n, groups, g + 1) \in Nat
          /\ GroupStart(n, groups, g + 1) <= n
      BY <3>1, GroupBounds
    <3>3. QED
      BY <3>2 DEF Group
  <2>2. QED
    BY <1>1, <2>1 DEF RowsOf, Clean
<1>3. t # r
  <2> SUFFICES ASSUME t = r PROVE FALSE
    OBVIOUS
  <2>1. PICK g \in chosen, h \in Groups(n, groups) \ chosen :
          t \in Group(n, groups, g) /\ t \in Group(n, groups, h)
    BY <1>1 DEF RowsOf, Clean
  <2>2. QED
    BY <1>2, <2>1, GroupsPartition
<1>4. CASE t < r
  <2> SUFFICES ASSUME r - t \in 1 .. purge PROVE FALSE
    BY <1>2, <1>4
  <2>1. t + (r - t) \notin s.train
    BY <1>1 DEF Clean
  <2>2. t + (r - t) = r
    BY <1>2
  <2>3. QED
    BY <2>1, <2>2
<1>5. CASE r < t
  <2> SUFFICES ASSUME t - r \in 1 .. embargo PROVE FALSE
    BY <1>2, <1>5
  <2>1. t - (t - r) \notin s.train
    BY <1>1 DEF Clean
  <2>2. t - (t - r) = r
    BY <1>2
  <2>3. QED
    BY <2>1, <2>2
<1>6. QED
  BY <1>2, <1>3, <1>4, <1>5
=============================================================================
