------------------------- MODULE DayAggsLoader_proofs -------------------------
(***************************************************************************)
(* Theorems about the loader of daily data, for every range of dates, any  *)
(* number of loads, threads, kills and publications.                       *)
(***************************************************************************)
EXTENDS DayAggsLoader, FiniteSetTheorems, TLAPS

-----------------------------------------------------------------------------
(* Types, with what TypeOK leaves out: the histories and the domains.      *)
Tasks == [at : InPool \cup {"queued", "done", "raised"}, src : Nat, status : Statuses]
Phases == {"none", "loading", "reporting", "ended", "crashed", "killed"}
Entries == [Dates -> [status : Statuses, hash : Nat]]
Directory == [Dates -> Files \cup {NoFile}]
Busy(l) == {d \in Dates : task[l][d].at \in InPool}

DataTyped ==
  /\ object \in [Dates -> [version : Nat, bad : BOOLEAN]]
  /\ tmp \in Directory /\ out \in Directory
  /\ before \in [Loads -> Directory]
LoadsTyped ==
  /\ setup \in Setups
  /\ load \in [Loads -> Phases]
  /\ task \in [Loads -> [Dates -> Tasks]]
  /\ manifest \in [Loads -> Entries \cup {NoFile}]
CountersTyped ==
  /\ overlapped \in BOOLEAN
  /\ published \in 0 .. setup.publications /\ kills \in 0 .. setup.kills
Threads == \A l \in Loads : Cardinality(Busy(l)) <= setup.workers
Typed == DataTyped /\ LoadsTyped /\ CountersTyped /\ Threads

-----------------------------------------------------------------------------
(* What holds as long as no two loads ran at once.                         *)

\* Loads begin in order, and none begins before the one in front of it is over.
InOrder ==
  \A l \in Loads :
    (Running(l) \/ load[l] = "none") => \A k \in Loads : k > l => load[k] = "none"

\* A task has the status "failed" until it has returned.
Fresh ==
  \A l \in Loads, d \in Dates :
    /\ task[l][d].at # "done" => task[l][d].status = "failed"
    /\ load[l] = "none" => task[l][d].at = "queued"

\* A temporary file is held open by nobody but the task that writes it; when that task is
\* about to rename the file, the file is whole and holds the object the task has read.
TmpOwned ==
  \A d \in Dates :
    tmp[d] # NoFile =>
      /\ \A l \in tmp[d].writers : load[l] = "loading" /\ task[l][d].at = "write"
      /\ \A l \in Loads :
           load[l] = "loading" =>
             /\ task[l][d].at = "write" => l \in tmp[d].writers /\ ~tmp[d].torn
             /\ task[l][d].at = "replace" =>
                  tmp[d].whole /\ tmp[d].writers = {} /\ tmp[d].src = task[l][d].src

OutWhole == \A d \in Dates : out[d] # NoFile => out[d].whole /\ out[d].writers = {}

\* What the tasks of the last load say of the directory.
Last(l) == load[l] # "none" /\ \A k \in Loads : k > l => load[k] = "none"
Says(l, d) ==
  /\ task[l][d].status = "downloaded" => out[d] # NoFile /\ out[d].src = task[l][d].src
  /\ task[l][d].status = "skipped_existing" => out[d] # NoFile
  /\ task[l][d].status # "downloaded" => out[d] = before[l][d]
TasksTrue == \A l \in Loads : Last(l) => \A d \in Dates : Says(l, d)
Reported ==
  \A l \in Loads :
    load[l] = "ended" =>
      manifest[l] = [d \in Dates |-> [status |-> task[l][d].status, hash |-> task[l][d].src]]

\* A load that does not overwrite works only on dates that have no file.
Resuming ==
  \A l \in Loads, d \in Dates :
    (load[l] = "loading" /\ ~setup.loads[l] /\ task[l][d].at \in InPool) => out[d] = NoFile

Orderly == InOrder /\ Fresh /\ TmpOwned /\ OutWhole /\ TasksTrue /\ Reported /\ Resuming
DirectoryInv == ~overlapped => Orderly

-----------------------------------------------------------------------------
\* setup does not change, so neither do the loads.
LEMMA SetupFacts ==
  ASSUME NEW s \in Setups
  PROVE  /\ s.loads \in Seq(BOOLEAN) /\ DOMAIN s.loads = 1 .. Len(s.loads)
         /\ Len(s.loads) \in Nat
         /\ s.workers \in Nat \ {0} /\ s.publications \in Nat /\ s.kills \in Nat
         /\ s.objects \in [Dates -> {0, 1}]
<1>1. s \in [loads : Seq(BOOLEAN), together : BOOLEAN, workers : Nat \ {0},
            objects : [Dates -> {0, 1}], publications : Nat, kills : Nat]
  BY SetupAssumption
<1> QED
  BY <1>1

LEMMA InitTyped == Init => Typed
<1> SUFFICES ASSUME Init PROVE Typed
  OBVIOUS
<1>1. setup \in Setups /\ setup.workers \in Nat \ {0} /\ setup.publications \in Nat
      /\ setup.kills \in Nat /\ setup.objects \in [Dates -> {0, 1}]
  BY SetupFacts DEF Init
<1>2. DataTyped
  <2>1. object = [d \in Dates |-> [version |-> setup.objects[d], bad |-> FALSE]]
        /\ tmp = [d \in Dates |-> NoFile] /\ out = [d \in Dates |-> NoFile]
        /\ before = [l \in Loads |-> out]
    BY DEF Init
  <2>2. object \in [Dates -> [version : Nat, bad : BOOLEAN]]
    BY <1>1, <2>1
  <2> QED
    BY <2>1, <2>2 DEF DataTyped, Directory
<1>3. LoadsTyped
  <2>1. Idle \in Tasks
    BY DEF Idle, Tasks, Statuses
  <2>2. load \in [Loads -> Phases] /\ manifest \in [Loads -> Entries \cup {NoFile}]
    BY DEF Init, Phases
  <2>3. [d \in Dates |-> Idle] \in [Dates -> Tasks]
    BY <2>1
  <2>4. task \in [Loads -> [Dates -> Tasks]]
    BY <2>3 DEF Init
  <2> QED
    BY <1>1, <2>2, <2>4 DEF LoadsTyped
<1>4. CountersTyped
  <2>1. 0 \in 0 .. setup.publications /\ 0 \in 0 .. setup.kills
    BY <1>1
  <2>2. overlapped = FALSE /\ published = 0 /\ kills = 0
    BY DEF Init
  <2> QED
    BY <2>1, <2>2 DEF CountersTyped
<1>5. \A l \in Loads : Busy(l) = {}
  BY DEF Init, Busy, Idle, InPool
<1>6. Threads
  <2>1. Cardinality({}) = 0
    BY FS_EmptySet
  <2>2. \A l \in Loads : Cardinality(Busy(l)) = 0
    BY <1>5, <2>1
  <2> QED
    BY <1>1, <2>2 DEF Threads
<1> QED
  BY <1>2, <1>3, <1>4, <1>6 DEF Typed

\* A file that is opened, closed or abandoned is a file.
LEMMA FileTypes ==
  ASSUME NEW file \in Files \cup {NoFile}, NEW l \in Loads, NEW src \in Nat
  PROVE  /\ Opened(file, l, src) \in Files
         /\ Closed(file, l, src) \in Files \cup {NoFile}
         /\ Abandoned(file, l) \in Files \cup {NoFile}
<1>1. CASE file = NoFile
  BY <1>1 DEF Opened, Closed, Abandoned, Files
<1>2. CASE file # NoFile
  <2> file \in Files
    BY <1>2
  <2>1. Opened(file, l, src) \in Files
    BY <1>2 DEF Opened, Files
  <2>2. [file EXCEPT !.whole = ~file.torn, !.src = src, !.writers = @ \ {l}] \in Files
    BY DEF Files
  <2>3. [file EXCEPT !.writers = @ \ {l}] \in Files
    BY DEF Files
  <2> QED
    BY <2>1, <2>2, <2>3 DEF Closed, Abandoned
<1> QED
  BY <1>1, <1>2

\* One call of download_and_convert_one changes, and what becomes of it.
Moves(l, d, value) == task' = [task EXCEPT ![l][d] = value]
LEMMA TaskMoves ==
  ASSUME LoadsTyped, NEW l \in Loads, NEW d \in Dates, NEW value \in Tasks,
         Moves(l, d, value)
  PROVE  /\ task' \in [Loads -> [Dates -> Tasks]]
         /\ task'[l][d] = value
         /\ \A k \in Loads, c \in Dates : (k # l \/ c # d) => task'[k][c] = task[k][c]
<1>1. task \in [Loads -> [Dates -> Tasks]]
  BY DEF LoadsTyped
<1>2. task' = [task EXCEPT ![l] = [task[l] EXCEPT ![d] = value]]
  BY DEF Moves
<1>3. [task[l] EXCEPT ![d] = value] \in [Dates -> Tasks]
  BY <1>1
<1>4. task' \in [Loads -> [Dates -> Tasks]] /\ task'[l] = [task[l] EXCEPT ![d] = value]
      /\ \A k \in Loads : k # l => task'[k] = task[k]
  BY <1>1, <1>2, <1>3
<1>5. task'[l][d] = value /\ \A c \in Dates : c # d => task'[l][c] = task[l][c]
  BY <1>1, <1>4
<1> QED
  BY <1>4, <1>5

LEMMA TaskGoes ==
  ASSUME LoadsTyped, NEW l \in Loads, NEW d \in Dates,
         NEW at \in InPool \cup {"queued", "done", "raised"}, Goes(l, d, at)
  PROVE  /\ task' \in [Loads -> [Dates -> Tasks]]
         /\ task'[l][d] = [at |-> at, src |-> task[l][d].src, status |-> task[l][d].status]
         /\ \A k \in Loads, c \in Dates : (k # l \/ c # d) => task'[k][c] = task[k][c]
<1> DEFINE value == [at |-> at, src |-> task[l][d].src, status |-> task[l][d].status]
<1>1. task \in [Loads -> [Dates -> Tasks]] /\ task[l][d] \in Tasks
  BY DEF LoadsTyped
<1>2. [task[l][d] EXCEPT !.at = at] = value /\ value \in Tasks
  BY <1>1 DEF Tasks
<1>3. task' = [task EXCEPT ![l][d] = [task[l][d] EXCEPT !.at = at]]
  BY <1>1 DEF Goes
<1>4. Moves(l, d, value)
  BY <1>2, <1>3 DEF Moves
<1> HIDE DEF value
<1>5. /\ task' \in [Loads -> [Dates -> Tasks]]
      /\ task'[l][d] = value
      /\ \A k \in Loads, c \in Dates : (k # l \/ c # d) => task'[k][c] = task[k][c]
  BY <1>2, <1>4, TaskMoves
<1> QED
  BY <1>5 DEF value

LEMMA TaskReturns ==
  ASSUME LoadsTyped, NEW l \in Loads, NEW d \in Dates, NEW status \in Statuses,
         Returns(l, d, status)
  PROVE  /\ task' \in [Loads -> [Dates -> Tasks]]
         /\ task'[l][d] = [at |-> "done", src |-> task[l][d].src, status |-> status]
         /\ \A k \in Loads, c \in Dates : (k # l \/ c # d) => task'[k][c] = task[k][c]
<1> DEFINE value == [at |-> "done", src |-> task[l][d].src, status |-> status]
<1>1. task \in [Loads -> [Dates -> Tasks]] /\ task[l][d] \in Tasks
  BY DEF LoadsTyped
<1>2. value \in Tasks
  BY <1>1 DEF Tasks
<1>3. Moves(l, d, value)
  BY <1>1 DEF Returns, Moves
<1> HIDE DEF value
<1>4. /\ task' \in [Loads -> [Dates -> Tasks]]
      /\ task'[l][d] = value
      /\ \A k \in Loads, c \in Dates : (k # l \/ c # d) => task'[k][c] = task[k][c]
  BY <1>2, <1>3, TaskMoves
<1> QED
  BY <1>4 DEF value

-----------------------------------------------------------------------------
LEMMA LoadsFixed ==
  ASSUME setup' = setup
  PROVE  Loads' = Loads
BY DEF Loads

LEMMA LoadMoves ==
  ASSUME LoadsTyped, NEW l \in Loads, NEW phase \in Phases,
         load' = [load EXCEPT ![l] = phase]
  PROVE  /\ load' \in [Loads -> Phases] /\ load'[l] = phase
         /\ \A k \in Loads : k # l => load'[k] = load[k]
BY DEF LoadsTyped

\* The number of busy threads grows only where a task is taken.
LEMMA ThreadsKept ==
  ASSUME Typed, setup' = setup, \A l \in Loads : Busy(l)' \subseteq Busy(l)
  PROVE  Threads'
<1>1. Loads' = Loads
  BY LoadsFixed
<1>2. setup.workers \in Nat
  BY SetupFacts DEF Typed, LoadsTyped
<1>3. ASSUME NEW l \in Loads PROVE Cardinality(Busy(l)') <= setup.workers
  <2>1. IsFiniteSet(Dates) /\ Busy(l) \subseteq Dates
    BY SetupAssumption DEF Busy
  <2>2. IsFiniteSet(Busy(l))
    BY <2>1, FS_Subset
  <2>3. /\ Cardinality(Busy(l)') <= Cardinality(Busy(l))
        /\ IsFiniteSet(Busy(l)')
    BY <2>2, FS_Subset
  <2>4. Cardinality(Busy(l)') \in Nat /\ Cardinality(Busy(l)) \in Nat
    BY <2>2, <2>3, FS_CardinalityType
  <2>5. Cardinality(Busy(l)) <= setup.workers
    BY DEF Typed, Threads
  <2> QED
    BY <1>2, <2>3, <2>4, <2>5
<1> QED
  BY <1>1, <1>3 DEF Threads

LEMMA ThreadsSame ==
  ASSUME Typed, setup' = setup, task' = task
  PROVE  Threads'
<1>1. \A l \in Loads : Busy(l)' = Busy(l)
  BY DEF Busy
<1> QED
  BY <1>1, ThreadsKept

\* The task of one date changes, and no thread is taken for it.
LEMMA ThreadsLeft ==
  ASSUME Typed, setup' = setup, NEW l \in Loads, NEW d \in Dates,
         \A k \in Loads, c \in Dates : (k # l \/ c # d) => task'[k][c] = task[k][c],
         task'[l][d].at \in InPool => task[l][d].at \in InPool
  PROVE  Threads'
<1>1. \A k \in Loads : Busy(k)' \subseteq Busy(k)
  BY DEF Busy
<1> QED
  BY <1>1, ThreadsKept

\* A free thread takes one more date.
LEMMA ThreadTaken ==
  ASSUME Typed, setup' = setup, NEW l \in Loads, NEW d \in Dates, FreeThread(l),
         \A k \in Loads, c \in Dates : (k # l \/ c # d) => task'[k][c] = task[k][c]
  PROVE  Threads'
<1>1. Loads' = Loads
  BY LoadsFixed
<1>2. setup.workers \in Nat
  BY SetupFacts DEF Typed, LoadsTyped
<1>3. Busy(l)' \subseteq Busy(l) \cup {d} /\ \A k \in Loads : k # l => Busy(k)' = Busy(k)
  BY DEF Busy
<1>4. IsFiniteSet(Busy(l)) /\ Cardinality(Busy(l)) < setup.workers
  <2>1. IsFiniteSet(Dates) /\ Busy(l) \subseteq Dates
    BY SetupAssumption DEF Busy
  <2>2. Cardinality(Busy(l)) < setup.workers
    BY DEF FreeThread, Busy
  <2> QED
    BY <2>1, <2>2, FS_Subset
<1>5. /\ IsFiniteSet(Busy(l) \cup {d})
      /\ Cardinality(Busy(l)) \in Nat
      /\ \/ Cardinality(Busy(l) \cup {d}) = Cardinality(Busy(l))
         \/ Cardinality(Busy(l) \cup {d}) = Cardinality(Busy(l)) + 1
  <2>1. Cardinality(Busy(l)) \in Nat
    BY <1>4, FS_CardinalityType
  <2>2. /\ IsFiniteSet(Busy(l) \cup {d})
        /\ Cardinality(Busy(l) \cup {d}) =
             IF d \in Busy(l) THEN Cardinality(Busy(l)) ELSE Cardinality(Busy(l)) + 1
    BY <1>4, FS_AddElement
  <2> QED
    BY <2>1, <2>2
<1>6. /\ IsFiniteSet(Busy(l)')
      /\ Cardinality(Busy(l)') <= Cardinality(Busy(l) \cup {d})
  BY <1>3, <1>5, FS_Subset
<1>7. Cardinality(Busy(l)') \in Nat
  BY <1>6, FS_CardinalityType
<1>8. Cardinality(Busy(l)') <= setup.workers
  BY <1>2, <1>4, <1>5, <1>6, <1>7
<1>9. \A k \in Loads : Cardinality(Busy(k)') <= setup.workers
  BY <1>3, <1>8 DEF Typed, Threads
<1> QED
  BY <1>1, <1>9 DEF Threads

\* What a step of one task does to the types, given what it does to the files.
LEMMA TaskStepTyped ==
  ASSUME Typed, NEW l \in Loads, NEW d \in Dates,
         task' \in [Loads -> [Dates -> Tasks]],
         \A k \in Loads, c \in Dates : (k # l \/ c # d) => task'[k][c] = task[k][c],
         tmp' \in Directory, out' \in Directory,
         (task'[l][d].at \in InPool => task[l][d].at \in InPool) \/ FreeThread(l),
         OnlyFiles
  PROVE  Typed'
<1>1. /\ setup' = setup /\ object' = object /\ load' = load /\ manifest' = manifest
      /\ before' = before /\ overlapped' = overlapped /\ published' = published
      /\ kills' = kills
  BY DEF OnlyFiles
<1>2. Loads' = Loads /\ Files' = Files
  BY <1>1, LoadsFixed DEF Files
<1>3. Directory' = Directory
  BY <1>2 DEF Directory
<1>4. DataTyped'
  BY <1>1, <1>2, <1>3 DEF Typed, DataTyped
<1>5. LoadsTyped'
  BY <1>1, <1>2 DEF Typed, LoadsTyped
<1>6. CountersTyped'
  BY <1>1 DEF Typed, CountersTyped
<1>7. Threads'
  BY <1>1, ThreadsLeft, ThreadTaken
<1> QED
  BY <1>4, <1>5, <1>6, <1>7 DEF Typed

-----------------------------------------------------------------------------
(* What each step of a task does, in terms of the task and of its two files. *)
Step(l, d, at, src, status) ==
  /\ load[l] = "loading" /\ OnlyFiles
  /\ task' \in [Loads -> [Dates -> Tasks]]
  /\ task'[l][d] = [at |-> at, src |-> src, status |-> status]
  /\ \A k \in Loads, c \in Dates : (k # l \/ c # d) => task'[k][c] = task[k][c]
Touches(d, tmpfile, outfile) ==
  /\ tmp' \in Directory /\ out' \in Directory
  /\ tmp'[d] = tmpfile /\ out'[d] = outfile
  /\ \A c \in Dates : c # d => tmp'[c] = tmp[c] /\ out'[c] = out[c]

LEMMA TouchesNone ==
  ASSUME Typed, NEW d \in Dates, tmp' = tmp, out' = out
  PROVE  Touches(d, tmp[d], out[d])
BY DEF Touches, Typed, DataTyped

LEMMA TouchesBoth ==
  ASSUME Typed, NEW d \in Dates, NEW f \in Files \cup {NoFile}, NEW g \in Files \cup {NoFile},
         tmp' = [tmp EXCEPT ![d] = f], out' = [out EXCEPT ![d] = g]
  PROVE  Touches(d, f, g)
<1>1. tmp \in Directory /\ out \in Directory
  BY DEF Typed, DataTyped
<1>2. tmp' \in Directory /\ tmp'[d] = f /\ \A c \in Dates : c # d => tmp'[c] = tmp[c]
  BY <1>1 DEF Directory
<1>3. out' \in Directory /\ out'[d] = g /\ \A c \in Dates : c # d => out'[c] = out[c]
  BY <1>1 DEF Directory
<1> QED
  BY <1>2, <1>3 DEF Touches

LEMMA Same ==
  ASSUME Typed, NEW d \in Dates
  PROVE  tmp[d] \in Files \cup {NoFile} /\ out[d] \in Files \cup {NoFile}
         /\ tmp = [tmp EXCEPT ![d] = tmp[d]] /\ out = [out EXCEPT ![d] = out[d]]
BY DEF Typed, DataTyped, Directory

LEMMA TaskType ==
  ASSUME Typed, NEW l \in Loads, NEW d \in Dates
  PROVE  /\ task[l][d] \in Tasks
         /\ task[l][d].src \in Nat /\ task[l][d].status \in Statuses
BY DEF Typed, LoadsTyped, Tasks

LEMMA TakeStep ==
  ASSUME Typed, NEW l \in Loads, NEW d \in Dates, Take(l, d)
  PROVE  /\ task[l][d].at = "queued" /\ FreeThread(l) /\ Touches(d, tmp[d], out[d])
         /\ \/ /\ out[d] # NoFile
               /\ Step(l, d, "done", task[l][d].src, "skipped_existing")
            \/ /\ out[d] = NoFile \/ setup.loads[l]
               /\ Step(l, d, "get", task[l][d].src, task[l][d].status)
<1>1. LoadsTyped
  BY DEF Typed
<1>2. OnlyFiles /\ tmp' = tmp /\ out' = out
  BY DEF Take, OnlyTask, OnlyFiles
<1>3. load[l] = "loading" /\ task[l][d].at = "queued" /\ FreeThread(l)
  BY DEF Take
<1>4. CASE out[d] # NoFile /\ ~setup.loads[l]
  <2>1. Returns(l, d, "skipped_existing") /\ "skipped_existing" \in Statuses
    BY <1>4 DEF Take, Statuses
  <2>2. Step(l, d, "done", task[l][d].src, "skipped_existing")
    BY <1>1, <1>2, <1>3, <2>1, TaskReturns DEF Step
  <2> QED
    BY <1>2, <1>3, <1>4, <2>2, TouchesNone
<1>5. CASE ~(out[d] # NoFile /\ ~setup.loads[l])
  <2>1. Goes(l, d, "get") /\ "get" \in InPool \cup {"queued", "done", "raised"}
    BY <1>5 DEF Take, InPool
  <2>2. Step(l, d, "get", task[l][d].src, task[l][d].status)
    BY <1>1, <1>2, <1>3, <2>1, TaskGoes DEF Step
  <2> QED
    BY <1>2, <1>3, <1>5, <2>2, TouchesNone
<1> QED
  BY <1>4, <1>5

LEMMA GetStep ==
  ASSUME Typed, NEW l \in Loads, NEW d \in Dates, Get(l, d)
  PROVE  /\ task[l][d].at = "get" /\ Touches(d, tmp[d], out[d])
         /\ \/ \E at \in {"convert", "open"} :
                 Step(l, d, at, object[d].version, task[l][d].status)
            \/ \E status \in {"missing", "failed"} :
                 Step(l, d, "done", task[l][d].src, status)
<1>1. LoadsTyped
  BY DEF Typed
<1>2. OnlyFiles /\ tmp' = tmp /\ out' = out
  BY DEF Get, OnlyTask, OnlyFiles
<1>3. load[l] = "loading" /\ task[l][d].at = "get"
  BY DEF Get
<1>4. ASSUME NEW status \in {"missing", "failed"}, Returns(l, d, status)
      PROVE  Step(l, d, "done", task[l][d].src, status)
  <2>1. status \in Statuses
    BY DEF Statuses
  <2> QED
    BY <1>1, <1>2, <1>3, <1>4, <2>1, TaskReturns DEF Step
<1> DEFINE at == IF object[d].bad THEN "convert" ELSE "open"
           value == [at |-> at, src |-> object[d].version, status |-> task[l][d].status]
<1>5. ASSUME task' = [task EXCEPT ![l][d] =
                        [at |-> IF object[d].bad THEN "convert" ELSE "open",
                         src |-> object[d].version, status |-> @.status]]
      PROVE  Step(l, d, at, object[d].version, task[l][d].status)
  <2>1. value \in Tasks
    <3>1. object[d].version \in Nat
      BY DEF Typed, DataTyped
    <3> QED
      BY <3>1, TaskType DEF Tasks, InPool
  <2>2. Moves(l, d, value)
    BY <1>1, <1>5 DEF Moves, LoadsTyped
  <2> HIDE DEF value
  <2>3. /\ task' \in [Loads -> [Dates -> Tasks]] /\ task'[l][d] = value
        /\ \A k \in Loads, c \in Dates : (k # l \/ c # d) => task'[k][c] = task[k][c]
    BY <1>1, <2>1, <2>2, TaskMoves
  <2> QED
    BY <1>2, <1>3, <2>3 DEF Step, value
<1>6. at \in {"convert", "open"}
  OBVIOUS
<1> HIDE DEF at, value
<1>7. Touches(d, tmp[d], out[d])
  BY <1>2, TouchesNone
<1>8. \/ task' = [task EXCEPT ![l][d] =
                    [at |-> IF object[d].bad THEN "convert" ELSE "open",
                     src |-> object[d].version, status |-> @.status]]
      \/ Returns(l, d, "missing") \/ Returns(l, d, "failed")
  BY DEF Get
<1> QED
  BY <1>3, <1>4, <1>5, <1>6, <1>7, <1>8

LEMMA ConversionFailsStep ==
  ASSUME Typed, NEW l \in Loads, NEW d \in Dates, ConversionFails(l, d)
  PROVE  /\ task[l][d].at = "convert" /\ Touches(d, NoFile, out[d])
         /\ Step(l, d, "done", task[l][d].src, "failed")
<1>1. LoadsTyped
  BY DEF Typed
<1>2. /\ OnlyFiles /\ load[l] = "loading" /\ task[l][d].at = "convert"
      /\ Returns(l, d, "failed") /\ "failed" \in Statuses
      /\ tmp' = [tmp EXCEPT ![d] = NoFile] /\ out' = out
  BY DEF ConversionFails, Statuses
<1>3. Step(l, d, "done", task[l][d].src, "failed")
  BY <1>1, <1>2, TaskReturns DEF Step
<1>4. Touches(d, NoFile, out[d])
  BY <1>2, Same, TouchesBoth
<1> QED
  BY <1>2, <1>3, <1>4

LEMMA OpenStep ==
  ASSUME Typed, NEW l \in Loads, NEW d \in Dates, Open(l, d)
  PROVE  /\ task[l][d].at = "open"
         /\ Touches(d, Opened(tmp[d], l, task[l][d].src), out[d])
         /\ Step(l, d, "write", task[l][d].src, task[l][d].status)
<1>1. LoadsTyped
  BY DEF Typed
<1>2. /\ OnlyFiles /\ load[l] = "loading" /\ task[l][d].at = "open"
      /\ Goes(l, d, "write") /\ "write" \in InPool \cup {"queued", "done", "raised"}
      /\ out' = out
  BY DEF Open, InPool
<1>3. tmp' = [tmp EXCEPT ![d] = Opened(tmp[d], l, task[l][d].src)]
  BY DEF Open, Typed, DataTyped, Directory
<1>4. Step(l, d, "write", task[l][d].src, task[l][d].status)
  BY <1>1, <1>2, TaskGoes DEF Step
<1>5. Opened(tmp[d], l, task[l][d].src) \in Files
  BY Same, TaskType, FileTypes
<1>6. Touches(d, Opened(tmp[d], l, task[l][d].src), out[d])
  BY <1>2, <1>3, <1>5, Same, TouchesBoth
<1> QED
  BY <1>2, <1>4, <1>6

LEMMA WriteStep ==
  ASSUME Typed, NEW l \in Loads, NEW d \in Dates, Write(l, d)
  PROVE  /\ task[l][d].at = "write"
         /\ Touches(d, Closed(tmp[d], l, task[l][d].src), Closed(out[d], l, task[l][d].src))
         /\ Step(l, d, "replace", task[l][d].src, task[l][d].status)
<1>1. LoadsTyped
  BY DEF Typed
<1>2. /\ OnlyFiles /\ load[l] = "loading" /\ task[l][d].at = "write"
      /\ Goes(l, d, "replace") /\ "replace" \in InPool \cup {"queued", "done", "raised"}
  BY DEF Write, InPool
<1>3. /\ tmp' = [tmp EXCEPT ![d] = Closed(tmp[d], l, task[l][d].src)]
      /\ out' = [out EXCEPT ![d] = Closed(out[d], l, task[l][d].src)]
  BY DEF Write, Typed, DataTyped, Directory
<1>4. Step(l, d, "replace", task[l][d].src, task[l][d].status)
  BY <1>1, <1>2, TaskGoes DEF Step
<1>5. /\ Closed(tmp[d], l, task[l][d].src) \in Files \cup {NoFile}
      /\ Closed(out[d], l, task[l][d].src) \in Files \cup {NoFile}
  BY Same, TaskType, FileTypes
<1>6. Touches(d, Closed(tmp[d], l, task[l][d].src), Closed(out[d], l, task[l][d].src))
  BY <1>3, <1>5, TouchesBoth
<1> QED
  BY <1>2, <1>4, <1>6

LEMMA RaiseStep ==
  ASSUME Typed, NEW l \in Loads, NEW d \in Dates, Raise(l, d)
  PROVE  /\ task[l][d].at \in {"get", "write"}
         /\ Touches(d, Abandoned(tmp[d], l), Abandoned(out[d], l))
         /\ Step(l, d, "raised", task[l][d].src, task[l][d].status)
<1>1. LoadsTyped
  BY DEF Typed
<1>2. /\ OnlyFiles /\ load[l] = "loading" /\ task[l][d].at \in {"get", "write"}
      /\ Goes(l, d, "raised") /\ "raised" \in InPool \cup {"queued", "done", "raised"}
  BY DEF Raise
<1>3. /\ tmp' = [tmp EXCEPT ![d] = Abandoned(tmp[d], l)]
      /\ out' = [out EXCEPT ![d] = Abandoned(out[d], l)]
  BY DEF Raise, Typed, DataTyped, Directory
<1>4. Step(l, d, "raised", task[l][d].src, task[l][d].status)
  BY <1>1, <1>2, TaskGoes DEF Step
<1>5. /\ Abandoned(tmp[d], l) \in Files \cup {NoFile}
      /\ Abandoned(out[d], l) \in Files \cup {NoFile}
  BY Same, TaskType, FileTypes
<1>6. Touches(d, Abandoned(tmp[d], l), Abandoned(out[d], l))
  BY <1>3, <1>5, TouchesBoth
<1> QED
  BY <1>2, <1>4, <1>6

LEMMA ReplaceStep ==
  ASSUME Typed, NEW l \in Loads, NEW d \in Dates, Replace(l, d)
  PROVE  /\ task[l][d].at = "replace"
         /\ \/ /\ tmp[d] # NoFile /\ Touches(d, NoFile, tmp[d])
               /\ Step(l, d, "done", task[l][d].src, "downloaded")
            \/ /\ Touches(d, tmp[d], out[d])
               /\ Step(l, d, "raised", task[l][d].src, task[l][d].status)
<1>1. LoadsTyped
  BY DEF Typed
<1>2. OnlyFiles /\ load[l] = "loading" /\ task[l][d].at = "replace"
  BY DEF Replace
<1>3. CASE tmp[d] # NoFile
  <2>1. /\ Returns(l, d, "downloaded") /\ "downloaded" \in Statuses
        /\ out' = [out EXCEPT ![d] = tmp[d]] /\ tmp' = [tmp EXCEPT ![d] = NoFile]
    BY <1>3 DEF Replace, Statuses
  <2>2. Step(l, d, "done", task[l][d].src, "downloaded")
    BY <1>1, <1>2, <2>1, TaskReturns DEF Step
  <2>3. Touches(d, NoFile, tmp[d])
    BY <2>1, Same, TouchesBoth
  <2> QED
    BY <1>2, <1>3, <2>2, <2>3
<1>4. CASE tmp[d] = NoFile
  <2>1. /\ Goes(l, d, "raised") /\ "raised" \in InPool \cup {"queued", "done", "raised"}
        /\ out' = out /\ tmp' = tmp
    BY <1>4 DEF Replace
  <2>2. Step(l, d, "raised", task[l][d].src, task[l][d].status)
    BY <1>1, <1>2, <2>1, TaskGoes DEF Step
  <2> QED
    BY <1>2, <2>1, <2>2, TouchesNone
<1> QED
  BY <1>3, <1>4

-----------------------------------------------------------------------------
LEMMA StepTyped ==
  ASSUME Typed, NEW l \in Loads, NEW d \in Dates, NEW at, NEW src, NEW status,
         NEW f, NEW g, Step(l, d, at, src, status), Touches(d, f, g),
         (at \in InPool => task[l][d].at \in InPool) \/ FreeThread(l)
  PROVE  Typed'
<1>1. task'[l][d].at = at
  BY DEF Step
<1> QED
  BY <1>1, TaskStepTyped DEF Step, Touches

LEMMA TasksTyped ==
  ASSUME Typed, NEW l \in Loads, NEW d \in Dates, TaskStep(l, d) \/ Raise(l, d)
  PROVE  Typed'
<1> USE DEF InPool
<1>1. CASE Take(l, d)
  BY <1>1, TakeStep, StepTyped
<1>2. CASE Get(l, d)
  BY <1>2, GetStep, StepTyped
<1>3. CASE ConversionFails(l, d)
  BY <1>3, ConversionFailsStep, StepTyped
<1>4. CASE Open(l, d)
  BY <1>4, OpenStep, StepTyped
<1>5. CASE Write(l, d)
  BY <1>5, WriteStep, StepTyped
<1>6. CASE Replace(l, d)
  BY <1>6, ReplaceStep, StepTyped
<1>7. CASE Raise(l, d)
  BY <1>7, RaiseStep, StepTyped
<1> QED
  BY <1>1, <1>2, <1>3, <1>4, <1>5, <1>6, <1>7 DEF TaskStep

LEMMA AbandonedDirectory ==
  ASSUME NEW dir \in Directory, NEW l \in Loads
  PROVE  [d \in Dates |-> Abandoned(dir[d], l)] \in Directory
<1>1. \A d \in Dates : Abandoned(dir[d], l) \in Files \cup {NoFile}
  BY 0 \in Nat, FileTypes DEF Directory
<1> QED
  BY <1>1 DEF Directory

LEMMA LoadsStepTyped ==
  ASSUME Typed, NEW l \in Loads, Begin(l) \/ EndRun(l) \/ WriteManifest(l) \/ Kill(l)
  PROVE  Typed'
<1>1. setup' = setup /\ object' = object /\ task' = task /\ published' = published
  BY DEF Begin, EndRun, WriteManifest, Kill
<1>2. Loads' = Loads /\ Files' = Files
  BY <1>1, LoadsFixed DEF Files
<1>3. Directory' = Directory
  BY <1>2 DEF Directory
<1>4. Threads'
  BY <1>1, ThreadsSame
<1>5. LoadsTyped /\ DataTyped /\ CountersTyped
  BY DEF Typed
<1>6. CASE Begin(l)
  <2>1. load' = [load EXCEPT ![l] = "loading"] /\ "loading" \in Phases
        /\ before' = [before EXCEPT ![l] = out] /\ manifest' = manifest
        /\ tmp' = tmp /\ out' = out /\ kills' = kills
    BY <1>6 DEF Begin, Phases
  <2>2. load' \in [Loads -> Phases]
    BY <1>5, <2>1, LoadMoves
  <2>3. before' \in [Loads -> Directory]
    BY <1>5, <2>1 DEF DataTyped
  <2>4. overlapped' \in BOOLEAN
    BY <1>6 DEF Begin
  <2> QED
    BY <1>1, <1>2, <1>3, <1>4, <1>5, <2>1, <2>2, <2>3, <2>4
       DEF Typed, LoadsTyped, DataTyped, CountersTyped
<1>7. CASE EndRun(l)
  <2>1. /\ before' = before /\ manifest' = manifest /\ overlapped' = overlapped
        /\ tmp' = tmp /\ out' = out /\ kills' = kills
    BY <1>7 DEF EndRun
  <2>2. PICK phase \in Phases : load' = [load EXCEPT ![l] = phase]
    BY <1>7 DEF EndRun, Phases
  <2>3. load' \in [Loads -> Phases]
    BY <1>5, <2>2, LoadMoves
  <2> QED
    BY <1>1, <1>2, <1>3, <1>4, <1>5, <2>1, <2>3
       DEF Typed, LoadsTyped, DataTyped, CountersTyped
<1>8. CASE WriteManifest(l)
  <2> DEFINE entry == [d \in Dates |-> [status |-> task[l][d].status, hash |-> task[l][d].src]]
  <2>1. /\ before' = before /\ overlapped' = overlapped
        /\ tmp' = tmp /\ out' = out /\ kills' = kills
        /\ load' = [load EXCEPT ![l] = "ended"] /\ "ended" \in Phases
        /\ manifest' = [manifest EXCEPT ![l] = entry]
    BY <1>8 DEF WriteManifest, Phases
  <2>2. load' \in [Loads -> Phases]
    BY <1>5, <2>1, LoadMoves
  <2>3. entry \in Entries
    BY TaskType DEF Entries
  <2> HIDE DEF entry
  <2>4. manifest' \in [Loads -> Entries \cup {NoFile}]
    BY <1>5, <2>1, <2>3 DEF LoadsTyped
  <2> QED
    BY <1>1, <1>2, <1>3, <1>4, <1>5, <2>1, <2>2, <2>4
       DEF Typed, LoadsTyped, DataTyped, CountersTyped
<1>9. CASE Kill(l)
  <2>1. /\ before' = before /\ overlapped' = overlapped /\ manifest' = manifest
        /\ tmp' = [d \in Dates |-> Abandoned(tmp[d], l)]
        /\ out' = [d \in Dates |-> Abandoned(out[d], l)]
        /\ load' = [load EXCEPT ![l] = "killed"] /\ "killed" \in Phases
        /\ kills' = kills + 1 /\ kills < setup.kills
    BY <1>9 DEF Kill, Phases
  <2>2. load' \in [Loads -> Phases]
    BY <1>5, <2>1, LoadMoves
  <2>3. tmp' \in Directory /\ out' \in Directory
    BY <1>5, <2>1, AbandonedDirectory DEF DataTyped
  <2>4. setup.kills \in Nat
    BY <1>5, SetupFacts DEF LoadsTyped
  <2>5. kills' \in 0 .. setup.kills
    BY <1>5, <2>1, <2>4 DEF CountersTyped
  <2> QED
    BY <1>1, <1>2, <1>3, <1>4, <1>5, <2>1, <2>2, <2>3, <2>5
       DEF Typed, LoadsTyped, DataTyped, CountersTyped
<1> QED
  BY <1>6, <1>7, <1>8, <1>9

LEMMA PublishTyped ==
  ASSUME Typed, NEW d \in Dates, Publish(d)
  PROVE  Typed'
<1>1. /\ setup' = setup /\ tmp' = tmp /\ out' = out /\ load' = load /\ task' = task
      /\ manifest' = manifest /\ before' = before /\ overlapped' = overlapped
      /\ kills' = kills
  BY DEF Publish
<1>2. Loads' = Loads /\ Files' = Files
  BY <1>1, LoadsFixed DEF Files
<1>3. Directory' = Directory
  BY <1>2 DEF Directory
<1>4. Threads'
  BY <1>1, ThreadsSame
<1>5. setup.publications \in Nat
  BY SetupFacts DEF Typed, LoadsTyped
<1>6. published \in Nat /\ published' \in 0 .. setup.publications
  BY <1>5 DEF Publish, Typed, CountersTyped
<1>7. PICK bad \in BOOLEAN :
        object' = [object EXCEPT ![d] = [version |-> published + 2, bad |-> bad]]
  BY DEF Publish
<1>8. [version |-> published + 2, bad |-> bad] \in [version : Nat, bad : BOOLEAN]
  BY <1>6
<1>9. object' \in [Dates -> [version : Nat, bad : BOOLEAN]]
  BY <1>7, <1>8 DEF Typed, DataTyped
<1> QED
  BY <1>1, <1>2, <1>3, <1>4, <1>6, <1>9 DEF Typed, DataTyped, LoadsTyped, CountersTyped

LEMMA NextTyped ==
  ASSUME Typed, [Next]_vars
  PROVE  Typed'
<1>1. CASE Next
  BY <1>1, LoadsStepTyped, TasksTyped, PublishTyped DEF Next
<1>2. CASE UNCHANGED vars
  <2>1. setup' = setup /\ task' = task
    BY <1>2 DEF vars
  <2>2. Loads' = Loads /\ Files' = Files
    BY <2>1, LoadsFixed DEF Files
  <2>3. Directory' = Directory
    BY <2>2 DEF Directory
  <2>4. Threads'
    BY <2>1, ThreadsSame
  <2> QED
    BY <1>2, <2>2, <2>3, <2>4 DEF vars, Typed, DataTyped, LoadsTyped, CountersTyped
<1> QED
  BY <1>1, <1>2

\* Types are kept: what a task, a file, a load and a manifest may be, and that no load has
\* more tasks under way than the pool has threads (max_workers), whatever raises, is
\* killed or runs beside it.
THEOREM TypeCorrect == Spec => []TypeOK
<1>1. Typed => TypeOK
  <2> SUFFICES ASSUME Typed PROVE TypeOK
    OBVIOUS
  <2>1. \A l \in Loads : Cardinality({d \in Dates : task[l][d].at \in InPool}) <= setup.workers
    BY DEF Typed, Threads, Busy
  <2>2. /\ setup \in Setups
        /\ load \in [Loads -> {"none", "loading", "reporting", "ended", "crashed", "killed"}]
        /\ task \in [Loads -> [Dates -> [at : InPool \cup {"queued", "done", "raised"},
                                         src : Nat, status : Statuses]]]
    BY DEF Typed, LoadsTyped, Phases, Tasks
  <2>3. \A l \in Loads : manifest[l] \in [Dates -> [status : Statuses, hash : Nat]] \cup {NoFile}
    BY DEF Typed, LoadsTyped, Entries
  <2>4. /\ object \in [Dates -> [version : Nat, bad : BOOLEAN]]
        /\ tmp \in [Dates -> Files \cup {NoFile}] /\ out \in [Dates -> Files \cup {NoFile}]
    BY DEF Typed, DataTyped, Directory
  <2>5. /\ overlapped \in BOOLEAN
        /\ published \in 0 .. setup.publications /\ kills \in 0 .. setup.kills
    BY DEF Typed, CountersTyped
  <2> QED
    BY <2>1, <2>2, <2>3, <2>4, <2>5 DEF TypeOK
<1> QED
  BY <1>1, InitTyped, NextTyped, PTL DEF Spec

-----------------------------------------------------------------------------
(* Nothing runs beside a load that runs, as long as no two loads overlap.  *)
LEMMA LoadsAreNumbers ==
  ASSUME Typed, NEW l \in Loads
  PROVE  l \in Nat
BY SetupFacts DEF Typed, LoadsTyped, Loads

LEMMA OnlyRunning ==
  ASSUME Typed, InOrder, NEW l \in Loads, Running(l)
  PROVE  Last(l) /\ \A k \in Loads : k # l => ~Running(k) /\ ~Last(k)
<1>1. load[l] # "none" /\ \A k \in Loads : k > l => load[k] = "none"
  BY DEF InOrder, Running
<1>2. ASSUME NEW k \in Loads, k # l PROVE ~Running(k) /\ ~Last(k)
  <2>1. k \in Nat /\ l \in Nat
    BY LoadsAreNumbers
  <2>2. CASE k > l
    BY <1>1, <2>2 DEF Running, Last
  <2>3. CASE l > k
    BY <1>1, <2>3 DEF InOrder, Last
  <2> QED
    BY <1>2, <2>1, <2>2, <2>3
<1> QED
  BY <1>1, <1>2 DEF Last

\* A file that nobody holds open is left alone by who closes or abandons it.
LEMMA Untouched ==
  ASSUME NEW file \in Files \cup {NoFile}, NEW l, NEW src,
         file # NoFile => l \notin file.writers
  PROVE  Closed(file, l, src) = file /\ Abandoned(file, l) = file
<1>1. CASE file = NoFile
  BY <1>1 DEF Closed, Abandoned
<1>2. CASE file # NoFile
  <2>1. file \in Files /\ file.writers \ {l} = file.writers
    BY <1>2
  <2>2. [file EXCEPT !.writers = @ \ {l}] = file
    BY <2>1 DEF Files
  <2> QED
    BY <1>2, <2>2 DEF Closed, Abandoned
<1> QED
  BY <1>1, <1>2

\* What a step of a task has to bring along, for the file it writes, the file of the date
\* and what it says of them.
FileOwned(l, at, src, f) ==
  f # NoFile =>
    /\ \A k \in f.writers : k = l /\ at = "write"
    /\ at = "write" => l \in f.writers /\ ~f.torn
    /\ at = "replace" => f.whole /\ f.writers = {} /\ f.src = src
SaysOf(l, d, src, status, g) ==
  /\ status = "downloaded" => g # NoFile /\ g.src = src
  /\ status = "skipped_existing" => g # NoFile
  /\ status # "downloaded" => g = before[l][d]

LEMMA StepOrderly ==
  ASSUME Typed, Orderly, NEW l \in Loads, NEW d \in Dates, NEW at, NEW src, NEW status,
         NEW f, NEW g, Step(l, d, at, src, status), Touches(d, f, g),
         at # "done" => status = "failed",
         FileOwned(l, at, src, f),
         g # NoFile => g.whole /\ g.writers = {},
         SaysOf(l, d, src, status, g),
         (at \in InPool /\ ~setup.loads[l]) => g = NoFile
  PROVE  Orderly'
<1>1. /\ setup' = setup /\ load' = load /\ manifest' = manifest /\ before' = before
  BY DEF Step, OnlyFiles
<1>2. Loads' = Loads
  BY <1>1, LoadsFixed
<1>3. load[l] = "loading" /\ Running(l)
  BY DEF Step, Running
<1>4. Last(l) /\ \A k \in Loads : k # l => ~Running(k) /\ ~Last(k)
  BY <1>3, OnlyRunning DEF Orderly
<1>5. \A k \in Loads : k # l => load[k] # "loading"
  BY <1>4 DEF Running
<1>6. /\ task'[l][d].at = at /\ task'[l][d].src = src /\ task'[l][d].status = status
      /\ \A k \in Loads, c \in Dates : (k # l \/ c # d) => task'[k][c] = task[k][c]
  BY DEF Step
<1>7. /\ tmp'[d] = f /\ out'[d] = g
      /\ \A c \in Dates : c # d => tmp'[c] = tmp[c] /\ out'[c] = out[c]
  BY DEF Touches
<1>8. InOrder'
  BY <1>1, <1>2 DEF Orderly, InOrder, Running
<1>9. Fresh'
  BY <1>1, <1>2, <1>3, <1>6 DEF Orderly, Fresh
<1>10. TmpOwned'
  <2>1. ASSUME NEW c \in Dates, c # d, tmp[c] # NoFile
        PROVE  /\ \A k \in tmp[c].writers : load[k] = "loading" /\ task'[k][c].at = "write"
               /\ \A k \in Loads : load[k] = "loading" =>
                    /\ task'[k][c].at = "write" => k \in tmp[c].writers /\ ~tmp[c].torn
                    /\ task'[k][c].at = "replace" =>
                         tmp[c].whole /\ tmp[c].writers = {} /\ tmp[c].src = task'[k][c].src
    <3>1. \A k \in Loads : task'[k][c] = task[k][c]
      BY <1>6, <2>1
    <3>2. tmp[c].writers \subseteq Loads
      BY <2>1, Same DEF Files
    <3> QED
      BY <2>1, <3>1, <3>2 DEF Orderly, TmpOwned
  <2>2. ASSUME f # NoFile
        PROVE  /\ \A k \in f.writers : load[k] = "loading" /\ task'[k][d].at = "write"
               /\ \A k \in Loads : load[k] = "loading" =>
                    /\ task'[k][d].at = "write" => k \in f.writers /\ ~f.torn
                    /\ task'[k][d].at = "replace" =>
                         f.whole /\ f.writers = {} /\ f.src = task'[k][d].src
    BY <1>3, <1>5, <1>6, <2>2 DEF FileOwned
  <2> QED
    BY <1>1, <1>2, <1>7, <2>1, <2>2 DEF TmpOwned
<1>11. OutWhole'
  BY <1>7 DEF Orderly, OutWhole
<1>12. TasksTrue'
  <2>1. ASSUME NEW k \in Loads, Last(k), NEW c \in Dates PROVE Says(k, c)'
    <3>1. k = l
      BY <1>4, <2>1
    <3>2. CASE c = d
      BY <1>1, <1>6, <1>7, <3>1, <3>2 DEF Says, SaysOf
    <3>3. CASE c # d
      <4>1. Says(k, c)
        BY <2>1 DEF Orderly, TasksTrue
      <4>2. task'[k][c] = task[k][c] /\ out'[c] = out[c]
        BY <1>6, <1>7, <3>3
      <4> QED
        BY <1>1, <4>1, <4>2 DEF Says
    <3> QED
      BY <3>2, <3>3
  <2>2. \A k \in Loads : Last(k)' => Last(k)
    BY <1>1, <1>2 DEF Last
  <2> QED
    BY <1>2, <2>1, <2>2 DEF TasksTrue
<1>13. Reported'
  <2>1. \A k \in Loads : load[k] = "ended" => \A c \in Dates : task'[k][c] = task[k][c]
    BY <1>3, <1>6
  <2> QED
    BY <1>1, <1>2, <2>1 DEF Orderly, Reported
<1>14. Resuming'
  <2>1. ASSUME NEW k \in Loads, NEW c \in Dates, load[k] = "loading", ~setup.loads[k],
               task'[k][c].at \in InPool
        PROVE  out'[c] = NoFile
    <3>1. k = l
      BY <1>5, <2>1
    <3>2. CASE c = d
      BY <1>6, <1>7, <2>1, <3>1, <3>2
    <3>3. CASE c # d
      BY <1>6, <1>7, <2>1, <3>3 DEF Orderly, Resuming
    <3> QED
      BY <3>2, <3>3
  <2> QED
    BY <1>1, <1>2, <2>1 DEF Resuming
<1> QED
  BY <1>8, <1>9, <1>10, <1>11, <1>12, <1>13, <1>14 DEF Orderly

\* What holds of the task and the files of a date while the task is under way.
LEMMA UnderWay ==
  ASSUME Typed, Orderly, NEW l \in Loads, NEW d \in Dates, load[l] = "loading",
         task[l][d].at # "done"
  PROVE  /\ task[l][d].status = "failed" /\ out[d] = before[l][d]
         /\ out[d] # NoFile => out[d].whole /\ out[d].writers = {}
         /\ tmp[d] # NoFile => \A k \in tmp[d].writers : k = l /\ task[l][d].at = "write"
         /\ FileOwned(l, task[l][d].at, task[l][d].src, tmp[d])
         /\ (task[l][d].at \in InPool /\ ~setup.loads[l]) => out[d] = NoFile
<1>1. task[l][d].status = "failed"
  BY DEF Orderly, Fresh
<1>2. Running(l)
  BY DEF Running
<1>3. Last(l) /\ \A k \in Loads : k # l => load[k] # "loading"
  BY <1>2, OnlyRunning DEF Orderly, Running
<1>4. out[d] = before[l][d]
  BY <1>1, <1>3 DEF Orderly, TasksTrue, Says
<1>5. tmp[d] # NoFile => \A k \in tmp[d].writers : k = l /\ task[l][d].at = "write"
  <2>1. tmp[d] # NoFile => tmp[d].writers \subseteq Loads
    BY Same DEF Files
  <2> QED
    BY <1>3, <2>1 DEF Orderly, TmpOwned
<1>6. FileOwned(l, task[l][d].at, task[l][d].src, tmp[d])
  BY <1>5 DEF FileOwned, Orderly, TmpOwned
<1> QED
  BY <1>1, <1>4, <1>5, <1>6 DEF Orderly, OutWhole, Resuming

LEMMA OutputsOrderly ==
  ASSUME Typed, Orderly, NEW l \in Loads, NEW d \in Dates, TaskStep(l, d) \/ Raise(l, d)
  PROVE  Orderly'
<1> DEFINE src == task[l][d].src
           status == task[l][d].status
<1> USE DEF InPool
<1>1. load[l] = "loading" /\ task[l][d].at # "done"
  BY DEF TaskStep, Take, Get, ConversionFails, Open, Write, Replace, Raise
<1>2. /\ status = "failed" /\ out[d] = before[l][d]
      /\ out[d] # NoFile => out[d].whole /\ out[d].writers = {}
      /\ tmp[d] # NoFile => \A k \in tmp[d].writers : k = l /\ task[l][d].at = "write"
      /\ FileOwned(l, task[l][d].at, src, tmp[d])
      /\ (task[l][d].at \in InPool /\ ~setup.loads[l]) => out[d] = NoFile
  BY <1>1, UnderWay
<1>3. SaysOf(l, d, src, "failed", out[d])
  BY <1>2 DEF SaysOf
<1>4. tmp[d] \in Files \cup {NoFile} /\ out[d] \in Files \cup {NoFile} /\ src \in Nat
  BY Same, TaskType
<1>5. CASE Take(l, d)
  <2>1. task[l][d].at = "queued" /\ Touches(d, tmp[d], out[d])
    BY <1>5, TakeStep
  <2>2. ASSUME out[d] # NoFile, Step(l, d, "done", src, "skipped_existing") PROVE Orderly'
    <3>1. SaysOf(l, d, src, "skipped_existing", out[d])
      BY <1>2, <2>2 DEF SaysOf
    <3>2. FileOwned(l, "done", src, tmp[d])
      BY <1>2, <2>1 DEF FileOwned
    <3> QED
      BY <1>2, <2>1, <2>2, <3>1, <3>2, StepOrderly
  <2>3. ASSUME out[d] = NoFile \/ setup.loads[l], Step(l, d, "get", src, status)
        PROVE  Orderly'
    <3>1. FileOwned(l, "get", src, tmp[d])
      BY <1>2, <2>1 DEF FileOwned
    <3> QED
      BY <1>2, <1>3, <2>1, <2>3, <3>1, StepOrderly
  <2> QED
    BY <1>5, <2>2, <2>3, TakeStep
<1>6. CASE Get(l, d)
  <2>1. task[l][d].at = "get" /\ Touches(d, tmp[d], out[d])
    BY <1>6, GetStep
  <2>2. ASSUME NEW at \in {"convert", "open"}, NEW version, Step(l, d, at, version, status)
        PROVE  Orderly'
    <3>1. FileOwned(l, at, version, tmp[d])
      BY <1>2, <2>1 DEF FileOwned
    <3>2. SaysOf(l, d, version, status, out[d])
      BY <1>2 DEF SaysOf
    <3> QED
      BY <1>2, <2>1, <2>2, <3>1, <3>2, StepOrderly
  <2>3. ASSUME NEW result \in {"missing", "failed"}, Step(l, d, "done", src, result)
        PROVE  Orderly'
    <3>1. FileOwned(l, "done", src, tmp[d])
      BY <1>2, <2>1 DEF FileOwned
    <3>2. SaysOf(l, d, src, result, out[d])
      BY <1>2 DEF SaysOf
    <3> QED
      BY <1>2, <2>1, <2>3, <3>1, <3>2, StepOrderly
  <2> QED
    BY <1>6, <2>2, <2>3, GetStep
<1>7. CASE ConversionFails(l, d)
  <2>1. Touches(d, NoFile, out[d]) /\ Step(l, d, "done", src, "failed")
    BY <1>7, ConversionFailsStep
  <2>2. FileOwned(l, "done", src, NoFile)
    BY DEF FileOwned
  <2> QED
    BY <1>2, <1>3, <2>1, <2>2, StepOrderly
<1>8. CASE Open(l, d)
  <2>1. /\ task[l][d].at = "open" /\ Touches(d, Opened(tmp[d], l, src), out[d])
        /\ Step(l, d, "write", src, status)
    BY <1>8, OpenStep
  <2>2. FileOwned(l, "write", src, Opened(tmp[d], l, src))
    <3>1. CASE tmp[d] = NoFile
      BY <3>1 DEF Opened, FileOwned
    <3>2. CASE tmp[d] # NoFile
      <4>1. tmp[d].writers = {}
        BY <1>2, <2>1, <3>2
      <4>2. /\ Opened(tmp[d], l, src).writers = {l} /\ Opened(tmp[d], l, src).torn = FALSE
        BY <3>2, <4>1 DEF Opened
      <4> QED
        BY <4>2 DEF FileOwned
    <3> QED
      BY <3>1, <3>2
  <2> QED
    BY <1>2, <1>3, <2>1, <2>2, StepOrderly
<1>9. CASE Write(l, d)
  <2>1. /\ task[l][d].at = "write" /\ Touches(d, Closed(tmp[d], l, src), Closed(out[d], l, src))
        /\ Step(l, d, "replace", src, status)
    BY <1>9, WriteStep
  <2>2. Closed(out[d], l, src) = out[d]
    BY <1>2, <1>4, Untouched
  <2>3. FileOwned(l, "replace", src, Closed(tmp[d], l, src))
    <3>1. CASE tmp[d] = NoFile
      BY <3>1 DEF Closed, FileOwned
    <3>2. CASE tmp[d] # NoFile
      <4>1. l \in tmp[d].writers /\ ~tmp[d].torn /\ \A k \in tmp[d].writers : k = l
        BY <1>2, <2>1, <3>2 DEF FileOwned
      <4>2. tmp[d] \in Files /\ tmp[d].writers \ {l} = {}
        BY <1>4, <3>2, <4>1
      <4>3. Closed(tmp[d], l, src) =
              [tmp[d] EXCEPT !.whole = ~tmp[d].torn, !.src = src, !.writers = @ \ {l}]
        BY <3>2, <4>1 DEF Closed
      <4>4. /\ Closed(tmp[d], l, src).whole /\ Closed(tmp[d], l, src).writers = {}
            /\ Closed(tmp[d], l, src).src = src
        BY <4>1, <4>2, <4>3 DEF Files
      <4> QED
        BY <4>4 DEF FileOwned
    <3> QED
      BY <3>1, <3>2
  <2> QED
    BY <1>2, <1>3, <2>1, <2>2, <2>3, StepOrderly
<1>10. CASE Replace(l, d)
  <2>1. task[l][d].at = "replace"
    BY <1>10, ReplaceStep
  <2>2. ASSUME tmp[d] # NoFile, Touches(d, NoFile, tmp[d]), Step(l, d, "done", src, "downloaded")
        PROVE  Orderly'
    <3>1. tmp[d].whole /\ tmp[d].writers = {} /\ tmp[d].src = src
      BY <1>2, <2>1, <2>2 DEF FileOwned
    <3>2. SaysOf(l, d, src, "downloaded", tmp[d])
      BY <2>2, <3>1 DEF SaysOf
    <3>3. FileOwned(l, "done", src, NoFile)
      BY DEF FileOwned
    <3> QED
      BY <2>2, <3>1, <3>2, <3>3, StepOrderly
  <2>3. ASSUME Touches(d, tmp[d], out[d]), Step(l, d, "raised", src, status)
        PROVE  Orderly'
    <3>1. FileOwned(l, "raised", src, tmp[d])
      BY <1>2, <2>1 DEF FileOwned
    <3> QED
      BY <1>2, <1>3, <2>3, <3>1, StepOrderly
  <2> QED
    BY <1>10, <2>2, <2>3, ReplaceStep
<1>11. CASE Raise(l, d)
  <2>1. /\ Touches(d, Abandoned(tmp[d], l), Abandoned(out[d], l))
        /\ Step(l, d, "raised", src, status)
    BY <1>11, RaiseStep
  <2>2. Abandoned(out[d], l) = out[d]
    BY <1>2, <1>4, Untouched
  <2>3. FileOwned(l, "raised", src, Abandoned(tmp[d], l))
    <3>1. CASE tmp[d] = NoFile
      BY <3>1 DEF Abandoned, FileOwned
    <3>2. CASE tmp[d] # NoFile
      <4>1. tmp[d] \in Files /\ tmp[d].writers \ {l} = {}
        BY <1>2, <1>4, <3>2
      <4>2. Abandoned(tmp[d], l).writers = {}
        BY <3>2, <4>1 DEF Abandoned, Files
      <4> QED
        BY <4>2 DEF FileOwned
    <3> QED
      BY <3>1, <3>2
  <2> QED
    BY <1>2, <1>3, <2>1, <2>2, <2>3, StepOrderly
<1> QED
  BY <1>5, <1>6, <1>7, <1>8, <1>9, <1>10, <1>11 DEF TaskStep

-----------------------------------------------------------------------------
LEMMA BeginOrderly ==
  ASSUME Typed, Orderly, NEW l \in Loads, Begin(l), ~overlapped'
  PROVE  Orderly'
<1>1. /\ setup' = setup /\ task' = task /\ tmp' = tmp /\ out' = out /\ manifest' = manifest
      /\ load[l] = "none" /\ load' = [load EXCEPT ![l] = "loading"]
      /\ before' = [before EXCEPT ![l] = out]
      /\ \A k \in Loads : k < l => load[k] # "none"
      /\ \A k \in Loads : ~Running(k)
  BY DEF Begin
<1>2. Loads' = Loads
  BY <1>1, LoadsFixed
<1>3. load'[l] = "loading" /\ \A k \in Loads : k # l => load'[k] = load[k]
  BY <1>1, LoadMoves DEF Typed, Phases
<1>4. before'[l] = out /\ \A k \in Loads : k # l => before'[k] = before[k]
  BY <1>1 DEF Typed, DataTyped
<1>5. \A k \in Loads : k > l => load[k] = "none"
  BY <1>1 DEF Orderly, InOrder
<1>6. \A k \in Loads : load[k] # "loading" /\ (k # l => ~Running(k)')
  BY <1>1, <1>3 DEF Running
<1>7. \A d \in Dates : task[l][d].at = "queued" /\ task[l][d].status = "failed"
  BY <1>1 DEF Orderly, Fresh
<1>8. \A k \in Loads : k \in Nat
  BY LoadsAreNumbers
<1>9. InOrder'
  <2>1. ASSUME NEW j \in Loads, Running(j)' \/ load'[j] = "none", NEW k \in Loads, k > j
        PROVE  load'[k] = "none"
    <3>1. CASE j = l
      BY <1>3, <1>5, <1>8, <2>1, <3>1
    <3>2. CASE j # l
      <4>1. load[j] = "none"
        BY <1>3, <1>6, <2>1, <3>2
      <4>2. j > l
        BY <1>1, <1>8, <3>2, <4>1
      <4> QED
        BY <1>3, <1>5, <1>8, <2>1, <4>2
    <3> QED
      BY <3>1, <3>2
  <2> QED
    BY <1>2, <2>1 DEF InOrder
<1>10. Fresh'
  BY <1>1, <1>2, <1>3 DEF Orderly, Fresh
<1>11. TmpOwned'
  <2>1. ASSUME NEW d \in Dates, tmp[d] # NoFile PROVE tmp[d].writers = {}
    <3>1. tmp[d].writers \subseteq Loads
      BY <2>1, Same DEF Files
    <3> QED
      BY <1>6, <2>1, <3>1 DEF Orderly, TmpOwned
  <2>2. \A k \in Loads : load'[k] = "loading" => k = l
    BY <1>3, <1>6
  <2> QED
    BY <1>1, <1>2, <1>7, <2>1, <2>2 DEF TmpOwned
<1>12. OutWhole'
  BY <1>1 DEF Orderly, OutWhole
<1>13. TasksTrue'
  <2>1. ASSUME NEW k \in Loads, Last(k)' PROVE k = l
    <3>1. ~(l > k) /\ load'[k] # "none"
      BY <1>2, <1>3, <2>1 DEF Last
    <3> QED
      BY <1>3, <1>5, <1>8, <3>1
  <2>2. \A d \in Dates : Says(l, d)'
    BY <1>1, <1>4, <1>7 DEF Says
  <2> QED
    BY <1>2, <2>1, <2>2 DEF TasksTrue
<1>14. Reported'
  BY <1>1, <1>2, <1>3 DEF Orderly, Reported
<1>15. Resuming'
  <2>1. \A k \in Loads : load'[k] = "loading" => k = l
    BY <1>3, <1>6
  <2> QED
    BY <1>1, <1>2, <1>7, <2>1 DEF Resuming, InPool
<1> QED
  BY <1>9, <1>10, <1>11, <1>12, <1>13, <1>14, <1>15 DEF Orderly

\* A load that runs comes to an end, in whatever way.
LEMMA OverOrderly ==
  ASSUME Typed, Orderly, NEW l \in Loads, Running(l),
         NEW phase \in {"crashed", "reporting", "ended", "killed"},
         load' = [load EXCEPT ![l] = phase], setup' = setup, task' = task,
         before' = before, out' = out,
         \A k \in Loads : k # l => manifest'[k] = manifest[k],
         phase = "ended" => manifest'[l] =
             [d \in Dates |-> [status |-> task[l][d].status, hash |-> task[l][d].src]],
         \A d \in Dates : tmp'[d] # NoFile =>
             tmp[d] # NoFile /\ tmp'[d].writers = tmp[d].writers \ {l}
  PROVE  Orderly'
<1>1. Loads' = Loads
  BY LoadsFixed
<1>2. load'[l] = phase /\ \A k \in Loads : k # l => load'[k] = load[k]
  BY LoadMoves DEF Typed, Phases
<1>3. load[l] # "none" /\ Last(l) /\ \A k \in Loads : k # l => ~Running(k)
  BY OnlyRunning DEF Orderly, Running
<1>4. \A k \in Loads : load'[k] # "loading" /\ (load'[k] = "none" <=> load[k] = "none")
  BY <1>2, <1>3 DEF Running
<1>5. InOrder'
  <2>1. ASSUME NEW j \in Loads, Running(j)' \/ load'[j] = "none" 
        PROVE  Running(j) \/ load[j] = "none"
    BY <1>2, <1>4, <2>1 DEF Running
  <2> QED
    BY <1>1, <1>4, <2>1 DEF Orderly, InOrder
<1>6. Fresh'
  BY <1>1, <1>4 DEF Orderly, Fresh
<1>7. TmpOwned'
  <2>1. ASSUME NEW d \in Dates, tmp'[d] # NoFile PROVE tmp'[d].writers = {}
    <3>1. tmp[d] # NoFile /\ tmp'[d].writers = tmp[d].writers \ {l}
      BY <2>1
    <3>2. tmp[d].writers \subseteq Loads
      BY <3>1, Same DEF Files
    <3>3. \A k \in tmp[d].writers : k = l
      BY <1>3, <3>1, <3>2 DEF Orderly, TmpOwned, Running
    <3> QED
      BY <3>1, <3>3
  <2> QED
    BY <1>1, <1>4, <2>1 DEF TmpOwned
<1>8. OutWhole'
  BY DEF Orderly, OutWhole
<1>9. TasksTrue'
  <2>1. \A k \in Loads : Last(k)' <=> Last(k)
    BY <1>1, <1>4 DEF Last
  <2>2. \A k \in Loads, d \in Dates : Says(k, d)' <=> Says(k, d)
    BY DEF Says
  <2> QED
    BY <1>1, <2>1, <2>2 DEF Orderly, TasksTrue
<1>10. Reported'
  <2>1. ASSUME NEW k \in Loads, load'[k] = "ended"
        PROVE  manifest'[k] =
                 [d \in Dates |-> [status |-> task[k][d].status, hash |-> task[k][d].src]]
    <3>1. CASE k = l
      BY <1>2, <2>1, <3>1
    <3>2. CASE k # l
      BY <1>2, <2>1, <3>2 DEF Orderly, Reported
    <3> QED
      BY <3>1, <3>2
  <2>2. ASSUME NEW k \in Loads
        PROVE  [d \in Dates |-> [status |-> task[k][d].status, hash |-> task[k][d].src]]
                 = [d \in Dates |-> [status |-> task'[k][d].status, hash |-> task'[k][d].src]]
    <3>1. task' = task
      OBVIOUS
    <3> QED
      BY <3>1, Zenon
  <2>3. ASSUME NEW k \in Loads, load'[k] = "ended"
        PROVE  manifest'[k] =
                 [d \in Dates |-> [status |-> task'[k][d].status, hash |-> task'[k][d].src]]
    BY <2>1, <2>2, <2>3, Zenon
  <2> QED
    BY <1>1, <2>3 DEF Reported
<1>11. Resuming'
  BY <1>1, <1>4 DEF Resuming
<1> QED
  BY <1>5, <1>6, <1>7, <1>8, <1>9, <1>10, <1>11 DEF Orderly

LEMMA LoadsOrderly ==
  ASSUME Typed, Orderly, NEW l \in Loads, EndRun(l) \/ WriteManifest(l) \/ Kill(l)
  PROVE  Orderly'
<1>1. /\ setup' = setup /\ task' = task /\ before' = before /\ Running(l)
  BY DEF EndRun, WriteManifest, Kill, Running
<1>2. CASE EndRun(l)
  <2>1. PICK phase \in {"crashed", "reporting"} : load' = [load EXCEPT ![l] = phase]
    BY <1>2 DEF EndRun
  <2>2. /\ manifest' = manifest /\ tmp' = tmp /\ out' = out
        /\ \A d \in Dates : task[l][d].at \in {"done", "raised"}
    BY <1>2 DEF EndRun
  <2>3. ASSUME NEW d \in Dates, tmp[d] # NoFile PROVE tmp[d].writers = tmp[d].writers \ {l}
    BY <2>2, <2>3 DEF Orderly, TmpOwned
  <2> QED
    BY <1>1, <2>1, <2>2, <2>3, OverOrderly
<1>3. CASE WriteManifest(l)
  <2> DEFINE entry == [d \in Dates |-> [status |-> task[l][d].status, hash |-> task[l][d].src]]
  <2>1. /\ load[l] = "reporting" /\ load' = [load EXCEPT ![l] = "ended"]
        /\ manifest' = [manifest EXCEPT ![l] = entry] /\ tmp' = tmp /\ out' = out
    BY <1>3 DEF WriteManifest
  <2> HIDE DEF entry
  <2>2. manifest'[l] = entry /\ \A k \in Loads : k # l => manifest'[k] = manifest[k]
    BY <2>1 DEF Typed, LoadsTyped
  <2>3. ASSUME NEW d \in Dates, tmp[d] # NoFile PROVE tmp[d].writers = tmp[d].writers \ {l}
    BY <2>1, <2>3 DEF Orderly, TmpOwned
  <2> QED
    BY <1>1, <2>1, <2>2, <2>3, OverOrderly DEF entry
<1>4. CASE Kill(l)
  <2>1. /\ load' = [load EXCEPT ![l] = "killed"] /\ manifest' = manifest
        /\ tmp' = [d \in Dates |-> Abandoned(tmp[d], l)]
        /\ out' = [d \in Dates |-> Abandoned(out[d], l)]
    BY <1>4 DEF Kill
  <2>2. \A d \in Dates : Abandoned(out[d], l) = out[d]
    BY Same, Untouched DEF Orderly, OutWhole
  <2>3. out' = out
    BY <2>1, <2>2 DEF Typed, DataTyped, Directory
  <2>4. ASSUME NEW d \in Dates, tmp'[d] # NoFile
        PROVE  tmp[d] # NoFile /\ tmp'[d].writers = tmp[d].writers \ {l}
    <3>1. tmp[d] # NoFile /\ tmp[d] \in Files
      BY <2>1, <2>4, Same DEF Abandoned
    <3>2. tmp'[d] = [tmp[d] EXCEPT !.writers = @ \ {l}]
      BY <2>1, <3>1 DEF Abandoned
    <3> QED
      BY <3>1, <3>2 DEF Files
  <2> QED
    BY <1>1, <2>1, <2>3, <2>4, OverOrderly
<1> QED
  BY <1>2, <1>3, <1>4

LEMMA NothingOrderly ==
  ASSUME Orderly, UNCHANGED <<setup, tmp, out, load, task, manifest, before>>
  PROVE  Orderly'
<1>1. Loads' = Loads
  BY LoadsFixed
<1>2. /\ \A l \in Loads : (Running(l)' <=> Running(l)) /\ (Last(l)' <=> Last(l))
      /\ \A l \in Loads, d \in Dates : Says(l, d)' <=> Says(l, d)
  BY <1>1 DEF Running, Last, Says
<1>3. InOrder' /\ Fresh' /\ TmpOwned'
  BY <1>1, <1>2 DEF Orderly, InOrder, Fresh, TmpOwned
<1>4. OutWhole' /\ TasksTrue' /\ Reported' /\ Resuming'
  BY <1>1, <1>2 DEF Orderly, OutWhole, TasksTrue, Reported, Resuming
<1> QED
  BY <1>3, <1>4 DEF Orderly

LEMMA InitOrderly == Init => DirectoryInv
<1> SUFFICES ASSUME Init PROVE Orderly
  BY DEF DirectoryInv
<1>1. /\ load = [l \in Loads |-> "none"] /\ task = [l \in Loads |-> [d \in Dates |-> Idle]]
      /\ tmp = [d \in Dates |-> NoFile] /\ out = [d \in Dates |-> NoFile]
  BY DEF Init
<1>2. InOrder /\ TasksTrue /\ Reported
  BY <1>1 DEF InOrder, TasksTrue, Reported, Last
<1>3. \A l \in Loads, d \in Dates :
        load[l] = "none" /\ task[l][d].at = "queued" /\ task[l][d].status = "failed"
  BY <1>1 DEF Idle
<1>4. Fresh /\ TmpOwned /\ OutWhole /\ Resuming
  BY <1>1, <1>3 DEF Fresh, TmpOwned, OutWhole, Resuming
<1> QED
  BY <1>2, <1>4 DEF Orderly

LEMMA NextOrderly ==
  ASSUME Typed, DirectoryInv, [Next]_vars
  PROVE  DirectoryInv'
<1> SUFFICES ASSUME ~overlapped' PROVE Orderly'
  BY DEF DirectoryInv
<1>1. Orderly
  <2>1. ASSUME NEW l \in Loads, Begin(l) PROVE ~overlapped
    BY <2>1 DEF Begin
  <2>2. ASSUME NEW l \in Loads, EndRun(l) \/ WriteManifest(l) \/ Kill(l) PROVE ~overlapped
    BY <2>2 DEF EndRun, WriteManifest, Kill
  <2>3. ASSUME NEW l \in Loads, NEW d \in Dates, TaskStep(l, d) \/ Raise(l, d)
        PROVE  ~overlapped
    BY <2>3 DEF TaskStep, Take, Get, ConversionFails, Open, Write, Replace, Raise, OnlyTask,
                OnlyFiles
  <2>4. ASSUME NEW d \in Dates, Publish(d) PROVE ~overlapped
    BY <2>4 DEF Publish
  <2>5. ASSUME UNCHANGED vars PROVE ~overlapped
    <3>1. overlapped' = overlapped
      BY <2>5 DEF vars
    <3> QED
      BY <3>1
  <2>6. ASSUME Next PROVE ~overlapped
    BY <2>1, <2>2, <2>3, <2>4, <2>6 DEF Next
  <2>7. ~overlapped
    BY <2>5, <2>6
  <2> QED
    BY <2>7 DEF DirectoryInv
<1>2. ASSUME NEW l \in Loads, Begin(l) PROVE Orderly'
  BY <1>1, <1>2, BeginOrderly
<1>3. ASSUME NEW l \in Loads, EndRun(l) \/ WriteManifest(l) \/ Kill(l) PROVE Orderly'
  BY <1>1, <1>3, LoadsOrderly
<1>4. ASSUME NEW l \in Loads, NEW d \in Dates, TaskStep(l, d) \/ Raise(l, d) PROVE Orderly'
  BY <1>1, <1>4, OutputsOrderly
<1>5. ASSUME NEW d \in Dates, Publish(d) PROVE Orderly'
  BY <1>1, <1>5, NothingOrderly DEF Publish
<1>6. CASE UNCHANGED vars
  BY <1>1, <1>6, NothingOrderly DEF vars
<1> QED
  BY <1>2, <1>3, <1>4, <1>5, <1>6 DEF Next

LEMMA DirectoryKept == Spec => [](Typed /\ DirectoryInv)
BY InitTyped, NextTyped, InitOrderly, NextOrderly, PTL DEF Spec

-----------------------------------------------------------------------------
\* As long as no two loads ran at once, a Parquet file under a date's final name is whole,
\* though loads are killed and tasks fail between any two steps: the temporary file and
\* os.replace of download_and_convert_one.
THEOREM FilesAreWhole == Spec => []PublishedWhole
<1>1. DirectoryInv => PublishedWhole
  BY DEF DirectoryInv, Orderly, OutWhole, PublishedWhole
<1> QED
  BY <1>1, DirectoryKept, PTL

\* The manifest of the last load that ended is true of the directory, whatever earlier
\* loads left there: the record that download_and_convert_one returns is the file's.
THEOREM ManifestsMatch == Spec => []ManifestMatches
<1>1. DirectoryInv => ManifestMatches
  <2> SUFFICES ASSUME Orderly, NEW l \in Loads, load[l] = "ended",
                      \A k \in Loads : k > l => load[k] = "none", NEW d \in Dates
               PROVE  LET entry == manifest[l][d] IN
                        /\ entry.status = "downloaded" =>
                             out[d] # NoFile /\ out[d].src = entry.hash
                        /\ entry.status = "skipped_existing" => out[d] # NoFile
                        /\ entry.status # "downloaded" => out[d] = before[l][d]
    BY DEF DirectoryInv, ManifestMatches
  <2>1. Says(l, d)
    BY DEF Orderly, TasksTrue, Last
  <2>2. manifest[l][d] = [status |-> task[l][d].status, hash |-> task[l][d].src]
    BY DEF Orderly, Reported
  <2> QED
    BY <2>1, <2>2 DEF Says
<1> QED
  BY <1>1, DirectoryKept, PTL

\* A load without overwrite touches no file that is there: only one that overwrites, or one
\* that runs beside another, replaces the file of a date.
THEOREM ResumingKeeps == Spec => ResumeKeeps
<1> DEFINE Keeps ==
      \A d \in Dates :
        (out[d] # NoFile /\ out'[d] # out[d]) =>
          \/ overlapped
          \/ \E l \in Loads : setup.loads[l] /\ Running(l)
<1>1. ASSUME Typed, DirectoryInv, [Next]_vars PROVE [Keeps]_vars
  <2> SUFFICES ASSUME ~overlapped, \A l \in Loads : ~(setup.loads[l] /\ Running(l)),
                      NEW d \in Dates, out[d] # NoFile
               PROVE  out'[d] = out[d]
    OBVIOUS
  <2>1. Orderly
    BY <1>1 DEF DirectoryInv
  <2>2. out[d].writers = {} /\ out[d] \in Files \cup {NoFile}
    BY <1>1, <2>1, Same DEF Orderly, OutWhole
  <2>3. \A l : \A src : Abandoned(out[d], l) = out[d] /\ Closed(out[d], l, src) = out[d]
    BY <2>2, Untouched
  <2>4. ASSUME NEW l \in Loads, NEW c \in Dates, TaskStep(l, c) \/ Raise(l, c)
        PROVE  out'[d] = out[d]
    <3>1. load[l] = "loading" /\ ~setup.loads[l]
      BY <2>4 DEF TaskStep, Take, Get, ConversionFails, Open, Write, Replace, Raise, Running
    <3>2. task[l][d].at \notin InPool
      BY <2>1, <3>1 DEF Orderly, Resuming
    <3>3. CASE c # d
      <4>1. out \in Directory
        BY <1>1 DEF Typed, DataTyped
      <4> QED
        BY <1>1, <2>4, <3>3, TakeStep, GetStep, ConversionFailsStep, OpenStep, WriteStep,
           ReplaceStep, RaiseStep DEF TaskStep, Touches
    <3>4. CASE c = d
      <4>1. Take(l, d)
        BY <2>4, <3>2, <3>4
           DEF TaskStep, Take, Get, ConversionFails, Open, Write, Replace, Raise, InPool
      <4> QED
        BY <4>1 DEF Take, OnlyTask
    <3> QED
      BY <3>3, <3>4
  <2>5. ASSUME NEW l \in Loads, Begin(l) \/ EndRun(l) \/ WriteManifest(l)
        PROVE  out'[d] = out[d]
    BY <2>5 DEF Begin, EndRun, WriteManifest
  <2>6. ASSUME NEW l \in Loads, Kill(l) PROVE out'[d] = out[d]
    BY <2>3, <2>6 DEF Kill
  <2>7. ASSUME NEW c \in Dates, Publish(c) PROVE out'[d] = out[d]
    BY <2>7 DEF Publish
  <2>8. CASE UNCHANGED vars
    BY <2>8 DEF vars
  <2> QED
    BY <1>1, <2>4, <2>5, <2>6, <2>7, <2>8 DEF Next
<1>2. Spec => [][Keeps]_vars
  BY <1>1, DirectoryKept, PTL DEF Spec
<1> QED
  BY <1>2 DEF ResumeKeeps
=============================================================================
