----------------------- MODULE ArtifactRegistry_proofs -----------------------
(***************************************************************************)
(* Proofs about ArtifactRegistry for every set of processes, runs, roles   *)
(* and blobs, any number of runs to keep and every scenario.               *)
(***************************************************************************)
EXTENDS ArtifactRegistry, FiniteSetTheorems, TLAPS

-----------------------------------------------------------------------------
(* Each dictionary operation of run_registry.py yields a dictionary of run *)
(* records and leaves every other run as it was.                           *)
LEMMA BegunType ==
  ASSUME NEW D \in Runs, NEW r \in RunIds, NEW meta \in Metas
  PROVE  /\ Begun(D, r, meta) \in Runs
         /\ \A s \in RunIds \ {r} : Begun(D, r, meta)[s] = D[s]
         /\ Begun(D, r, meta)[r] # NoRun
         /\ Begun(D, r, meta)[r].status = "REGISTERING"
         /\ Begun(D, r, meta)[r].metadata = meta
         /\ \A role \in Roles : Begun(D, r, meta)[r].artifacts[role] = NoHash
<1> DEFINE rec == [status    |-> "REGISTERING",
                   artifacts |-> [role \in Roles |-> NoHash],
                   metadata  |-> meta]
<1>1. rec \in RunRecord
  BY DEF RunRecord, RunStatus
<1>2. rec # NoRun
  BY <1>1, NoRunAssumption
<1>3. Begun(D, r, meta) = [D EXCEPT ![r] = rec]
  BY DEF Begun
<1> HIDE DEF rec
<1>4. /\ Begun(D, r, meta) \in Runs
      /\ Begun(D, r, meta)[r] = rec
      /\ \A s \in RunIds \ {r} : Begun(D, r, meta)[s] = D[s]
  BY <1>1, <1>3 DEF Runs
<1>5. /\ rec.status = "REGISTERING" /\ rec.metadata = meta
      /\ \A role \in Roles : rec.artifacts[role] = NoHash
  BY DEF rec
<1>6. QED
  BY <1>2, <1>4, <1>5

(* add_artifact: the record stays a record and the bound roles stay bound. *)
LEMMA BoundType ==
  ASSUME NEW D \in Runs, NEW r \in RunIds, NEW role \in Roles, NEW hash \in Hashes,
         IsRegistering(D, r)
  PROVE  /\ Bound(D, r, role, hash) \in Runs
         /\ \A s \in RunIds \ {r} : Bound(D, r, role, hash)[s] = D[s]
         /\ Bound(D, r, role, hash)[r] # NoRun
         /\ Bound(D, r, role, hash)[r].status = "REGISTERING"
         /\ \A x \in Roles : D[r].artifacts[x] # NoHash
                               => Bound(D, r, role, hash)[r].artifacts[x] # NoHash
<1> DEFINE rec == [D[r] EXCEPT !.artifacts = [@ EXCEPT ![role] = hash]]
<1>1. D[r] \in RunRecord
  BY DEF Runs, IsRegistering
<1>2. rec \in RunRecord /\ rec.status = D[r].status
  BY <1>1 DEF RunRecord
<1>3. \A x \in Roles : D[r].artifacts[x] # NoHash => rec.artifacts[x] # NoHash
  BY <1>1, NoHashAssumption DEF RunRecord
<1>4. rec # NoRun
  BY <1>2, NoRunAssumption
<1>5. Bound(D, r, role, hash) = [D EXCEPT ![r] = rec]
  BY DEF Bound, Runs
<1> HIDE DEF rec
<1>6. /\ Bound(D, r, role, hash) \in Runs
      /\ Bound(D, r, role, hash)[r] = rec
      /\ \A s \in RunIds \ {r} : Bound(D, r, role, hash)[s] = D[s]
  BY <1>2, <1>5 DEF Runs
<1>7. QED
  BY <1>2, <1>3, <1>4, <1>6 DEF IsRegistering

(* ... and nothing but the one role changes.                               *)
LEMMA BoundRecord ==
  ASSUME NEW D \in Runs, NEW r \in RunIds, NEW role \in Roles, NEW hash \in Hashes,
         IsRegistering(D, r)
  PROVE  /\ Bound(D, r, role, hash)[r].metadata = D[r].metadata
         /\ Bound(D, r, role, hash)[r].artifacts[role] = hash
         /\ \A x \in Roles \ {role} :
              Bound(D, r, role, hash)[r].artifacts[x] = D[r].artifacts[x]
<1>1. D[r] \in RunRecord
  BY DEF Runs, IsRegistering
<1>2. Bound(D, r, role, hash)[r] = [D[r] EXCEPT !.artifacts = [@ EXCEPT ![role] = hash]]
  BY DEF Bound, Runs
<1> QED
  BY <1>1, <1>2 DEF RunRecord

(* finalize_run: only the status of the one record changes.                *)
LEMMA FinalizedType ==
  ASSUME NEW D \in Runs, NEW r \in RunIds, NEW status \in FinalStatuses,
         IsRegistering(D, r)
  PROVE  /\ Finalized(D, r, status) \in Runs
         /\ \A s \in RunIds \ {r} : Finalized(D, r, status)[s] = D[s]
         /\ Finalized(D, r, status)[r] # NoRun
         /\ Finalized(D, r, status)[r].status = status
         /\ Finalized(D, r, status)[r].artifacts = D[r].artifacts
         /\ Finalized(D, r, status)[r].metadata = D[r].metadata
<1> DEFINE rec == [D[r] EXCEPT !.status = status]
<1>1. D[r] \in RunRecord
  BY DEF Runs, IsRegistering
<1>2. /\ rec \in RunRecord /\ rec.status = status
      /\ rec.artifacts = D[r].artifacts /\ rec.metadata = D[r].metadata
  BY <1>1 DEF RunRecord, RunStatus
<1>3. rec # NoRun
  BY <1>2, NoRunAssumption
<1>4. Finalized(D, r, status) = [D EXCEPT ![r] = rec]
  BY DEF Finalized, Runs
<1> HIDE DEF rec
<1>5. QED
  BY <1>2, <1>3, <1>4 DEF Runs

(* delete_run: the run is gone, every other run is untouched.              *)
LEMMA DeletedType ==
  ASSUME NEW D \in Runs, NEW r \in RunIds
  PROVE  /\ Deleted(D, r) \in Runs
         /\ \A s \in RunIds \ {r} : Deleted(D, r)[s] = D[s]
         /\ Deleted(D, r)[r] = NoRun
BY DEF Deleted, Runs

LEMMA NoRunsType == NoRuns \in Runs /\ \A r \in RunIds : NoRuns[r] = NoRun
BY DEF NoRuns, Runs

-----------------------------------------------------------------------------
(* What the operations do to the blobs that are referred to (_cas_for).    *)
LEMMA CasForBegun ==
  ASSUME NEW D \in Runs, NEW r \in RunIds, NEW meta \in Metas, D[r] = NoRun
  PROVE  \A ids \in SUBSET RunIds : CasFor(Begun(D, r, meta), ids) = CasFor(D, ids)
<1> DEFINE new == Begun(D, r, meta)
<1>1. /\ \A s \in RunIds \ {r} : new[s] = D[s]
      /\ \A role \in Roles : new[r].artifacts[role] = NoHash
  BY BegunType
<1> HIDE DEF new
<1>2. \A ids \in SUBSET RunIds : CasFor(new, ids) = CasFor(D, ids)
  BY <1>1, NoHashAssumption DEF CasFor
<1> QED
  BY <1>2 DEF new

LEMMA CasForBound ==
  ASSUME NEW D \in Runs, NEW r \in RunIds, NEW role \in Roles, NEW hash \in Hashes,
         IsRegistering(D, r)
  PROVE  /\ hash \in CasFor(Bound(D, r, role, hash), RunIds)
         /\ CasFor(Bound(D, r, role, hash), RunIds) \subseteq CasFor(D, RunIds) \cup {hash}
         /\ CasFor(D, RunIds) \subseteq CasFor(Bound(D, r, role, hash), RunIds)
                                          \cup {D[r].artifacts[role]}
<1> DEFINE new == Bound(D, r, role, hash)
<1>1. /\ \A s \in RunIds \ {r} : new[s] = D[s]
      /\ new[r] # NoRun
  BY BoundType
<1>2. new[r].artifacts[role] = hash
  BY BoundRecord
<1>3. \A x \in Roles \ {role} : new[r].artifacts[x] = D[r].artifacts[x]
  BY BoundRecord
<1> HIDE DEF new
<1>4. hash \in CasFor(new, RunIds)
  BY <1>1, <1>2 DEF CasFor
<1>5. CasFor(new, RunIds) \subseteq CasFor(D, RunIds) \cup {hash}
  BY <1>1, <1>2, <1>3 DEF CasFor, IsRegistering
<1>6. CasFor(D, RunIds) \subseteq CasFor(new, RunIds) \cup {D[r].artifacts[role]}
  BY <1>1, <1>2, <1>3 DEF CasFor, IsRegistering
<1> QED
  BY <1>4, <1>5, <1>6 DEF new

LEMMA CasForFinalized ==
  ASSUME NEW D \in Runs, NEW r \in RunIds, NEW status \in FinalStatuses,
         IsRegistering(D, r)
  PROVE  CasFor(Finalized(D, r, status), RunIds) = CasFor(D, RunIds)
<1> DEFINE new == Finalized(D, r, status)
<1>1. /\ \A s \in RunIds \ {r} : new[s] = D[s]
      /\ new[r] # NoRun /\ new[r].artifacts = D[r].artifacts
  BY FinalizedType
<1> HIDE DEF new
<1>2. CasFor(new, RunIds) = CasFor(D, RunIds)
  BY <1>1 DEF CasFor, IsRegistering
<1> QED
  BY <1>2 DEF new

LEMMA CasForDeleted ==
  ASSUME NEW D \in Runs, NEW r \in RunIds, NEW ids \in SUBSET RunIds
  PROVE  CasFor(Deleted(D, r), ids) = CasFor(D, ids \ {r})
<1> DEFINE new == Deleted(D, r)
<1>1. (\A s \in RunIds \ {r} : new[s] = D[s]) /\ new[r] = NoRun
  BY DeletedType
<1> HIDE DEF new
<1>2. CasFor(new, ids) = CasFor(D, ids \ {r})
  BY <1>1 DEF CasFor
<1> QED
  BY <1>2 DEF new

\* The blobs of some runs are those of a part of them and those of the rest.
LEMMA CasForParts ==
  ASSUME NEW D, NEW ids, NEW part \in SUBSET ids
  PROVE  CasFor(D, ids) = CasFor(D, part) \cup CasFor(D, ids \ part)
BY DEF CasFor

-----------------------------------------------------------------------------
(* What a process inside a call holds: the arguments its place calls for.  *)
InCall ==
  \A i \in Procs :
    /\ pc[i] = "making_dirs" => mine[i] \in RunIds
    /\ pc[i] \in {"aliasing", "binding", "materializing"}
         => job[i] \in [run : RunIds, role : Roles, hash : Hashes]
    /\ pc[i] = "dropping" => job[i].run \in victims[i]

Typed == TypeOK /\ InCall

\* What a process alone knows of are blobs (register_payload, cleanup).
LEMMA LostType == ASSUME TypeOK, NEW i \in Procs PROVE Lost(i) \subseteq Hashes
BY DEF TypeOK, Lost

\* _flush writes records whenever it is given records.
LEMMA FlushType ==
  ASSUME TypeOK, NEW changed \in Runs, FlushIndex(changed)
  PROVE  index' \in Runs
BY DEF TypeOK, FlushIndex

\* The lock only ever has a process for a holder.
LEMMA LockType ==
  ASSUME TypeOK, NEW i \in Procs, Enter(i) \/ Return
  PROVE  holder' \in Procs \cup {NoProc}
BY DEF TypeOK, Enter, Return

LEMMA NoFilesType == NoFiles \in [Roles -> Hashes \cup {NoHash}]
BY DEF NoFiles

LEMMA NoJobType == NoJob \in [run  : RunIds \cup {NoRun},
                              role : Roles \cup {NoHash},
                              hash : Hashes \cup {NoHash}]
BY DEF NoJob

LEMMA TypedInit == Init => Typed
BY NoRunsType, NoFilesType, NoJobType DEF Init, Typed, TypeOK, InCall, Phases

LEMMA TypedStep == ASSUME Typed, [Next]_vars PROVE Typed'
<1> USE DEF Typed, TypeOK, InCall, Phases, disk, history, local, Goto
<1>1. ASSUME NEW i \in Procs, Open(i) PROVE Typed'
  BY <1>1 DEF Open
<1>2. ASSUME NEW i \in Procs, Exit(i) \/ Kill(i) PROVE Typed'
  <2>1. End(i)
    BY <1>2 DEF Exit, Kill
  <2> QED
    BY <2>1, LostType, NoJobType DEF End
<1>3. ASSUME NEW i \in Procs, NEW r \in RunIds, NEW meta \in Metas, BeginRun(i, r, meta)
      PROVE  Typed'
  <2>1. index' \in Runs
    BY <1>3, BegunType, FlushType DEF BeginRun
  <2> QED
    BY <1>3, <2>1, LockType DEF BeginRun
<1>4. ASSUME NEW i \in Procs, MakeRunDir(i) PROVE Typed'
  BY <1>4, LockType DEF MakeRunDir
<1>5. ASSUME NEW i \in Procs, NEW role \in Roles, NEW hash \in Hashes, PutBlob(i, role, hash)
      PROVE  Typed'
  BY <1>5, LockType DEF PutBlob
<1>6. ASSUME NEW i \in Procs, RecordAlias(i) PROVE Typed'
  <2>1. aliases[i] \cup {job[i].hash} \subseteq Hashes
    BY <1>6 DEF RecordAlias
  <2> QED
    BY <1>6, <2>1 DEF RecordAlias
<1>7. ASSUME NEW i \in Procs, AddArtifact(i) PROVE Typed'
  <2>1. job[i] \in [run : RunIds, role : Roles, hash : Hashes]
    BY <1>7 DEF AddArtifact
  <2>2. index' \in Runs
    BY <1>7, <2>1, BoundType, FlushType DEF AddArtifact
  <2>3. index[job[i].run] \in RunRecord
    BY <1>7, <2>1 DEF AddArtifact, IsRegistering, Runs
  <2>4. orphans' \subseteq Hashes
    BY <1>7, <2>1, <2>3 DEF AddArtifact, RunRecord
  <2> QED
    BY <1>7, <2>2, <2>4 DEF AddArtifact
<1>8. ASSUME NEW i \in Procs, Materialize(i) PROVE Typed'
  <2>1. job[i] \in [run : RunIds, role : Roles, hash : Hashes]
    BY <1>8 DEF Materialize
  <2>2. files' \in [RunIds -> [Roles -> Hashes \cup {NoHash}]]
    BY <1>8, <2>1 DEF Materialize
  <2> QED
    BY <1>8, <2>1, <2>2, LockType, NoJobType DEF Materialize
<1>9. ASSUME NEW i \in Procs, RegisterRaises(i) PROVE Typed'
  <2>1. /\ pc' = [pc EXCEPT ![i] = "raised"] /\ job' = [job EXCEPT ![i] = NoJob]
        /\ Return /\ orphans' = orphans \cup Lost(i)
        /\ UNCHANGED <<disk, removed, aliases, mine, victims, doomed>>
    BY <1>9 DEF RegisterRaises
  <2> QED
    BY <2>1, LostType, LockType, NoJobType
<1>10. ASSUME NEW i \in Procs, NEW status \in FinalStatuses, FinalizeRun(i, status)
       PROVE  Typed'
  <2>1. mine[i] \in RunIds /\ index' \in Runs
    BY <1>10, FinalizedType, FlushType DEF FinalizeRun
  <2> QED
    BY <1>10, <2>1 DEF FinalizeRun
<1>11. ASSUME NEW i \in Procs, FinalizeRaises(i) PROVE Typed'
  BY <1>11 DEF FinalizeRaises
<1>12. ASSUME NEW i \in Procs, PlanCleanup(i) PROVE Typed'
  <2>1. Known \ Retained \in SUBSET RunIds
    BY DEF Known
  <2>2. CasFor(index, Known \ Retained) \ CasFor(index, Retained) \in SUBSET Hashes
    BY DEF CasFor
  <2> QED
    BY <1>12, <2>1, <2>2, LockType DEF PlanCleanup
<1>13. ASSUME NEW i \in Procs, NEW r \in RunIds, RemoveRunDir(i, r) PROVE Typed'
  BY <1>13, NoFilesType, ZenonT(60) DEF RemoveRunDir
<1>14. ASSUME NEW i \in Procs, DropRun(i) PROVE Typed'
  <2>1. job[i].run \in RunIds /\ index' \in Runs
    BY <1>14, DeletedType, FlushType DEF DropRun
  <2> QED
    BY <1>14, <2>1, NoJobType DEF DropRun
<1>15. ASSUME NEW i \in Procs, DropRaises(i) PROVE Typed'
  BY <1>15, LostType, LockType, NoJobType DEF DropRaises
<1>16. ASSUME NEW i \in Procs, NEW hash \in Hashes, DeleteBlob(i, hash) PROVE Typed'
  BY <1>16 DEF DeleteBlob
<1>17. ASSUME NEW i \in Procs, EndCleanup(i) PROVE Typed'
  BY <1>17, LockType DEF EndCleanup
<1>18. ASSUME NEW r \in RunIds, PinRun(r) PROVE Typed'
  BY <1>18 DEF PinRun
<1>19. CASE UNCHANGED vars
  BY <1>19 DEF vars
<1> QED
  BY <1>1, <1>2, <1>3, <1>4, <1>5, <1>6, <1>7, <1>8, <1>9, <1>10, <1>11, <1>12, <1>13,
     <1>14, <1>15, <1>16, <1>17, <1>18, <1>19 DEF Next

LEMMA TypedAlways == Spec => []Typed
BY TypedInit, TypedStep, PTL DEF Spec

(* Files, index and the memory of every process only ever hold what        *)
(* TypeOK says, in every scenario (ArtifactRegistry, LocalCAS).            *)
THEOREM TypeCorrect == Spec => []TypeOK
BY TypedAlways, PTL DEF Typed

-----------------------------------------------------------------------------
(* What a step does to the runs the index holds: they and what is said of  *)
(* them stay, a run that was never used is added, or a process in cleanup  *)
(* drops the run whose directory it has removed.                           *)
KeepsMetadata(ids) ==
  \A r \in ids : index'[r] # NoRun /\ index'[r].metadata = index[r].metadata

RunsStay == Known' = Known /\ KeepsMetadata(Known)

RunAdded ==
  \E r \in RunIds \ used : /\ Known' = Known \cup {r} /\ r \in used'
                          /\ KeepsMetadata(Known \ {r})

RunDropped ==
  \E i \in Procs : /\ pc[i] = "dropping" /\ IsFinal(index, job[i].run)
                   /\ Known' = Known \ {job[i].run}
                   /\ KeepsMetadata(Known \ {job[i].run})

\* add_artifact is of the first kind.
LEMMA BoundStay ==
  ASSUME index \in Runs, NEW r \in RunIds, NEW role \in Roles, NEW hash \in Hashes,
         IsRegistering(index, r)
  PROVE  index' = Bound(index, r, role, hash) => RunsStay
<1> DEFINE new == Bound(index, r, role, hash)
<1>1. \A s \in RunIds \ {r} : new[s] = index[s]
  BY BoundType
<1>2. new[r] # NoRun
  BY BoundType
<1>3. new[r].metadata = index[r].metadata
  BY BoundRecord
<1> HIDE DEF new
<1>4. index' = new => RunsStay
  BY <1>1, <1>2, <1>3 DEF RunsStay, KeepsMetadata, Known, IsRegistering
<1> QED
  BY <1>4 DEF new

LEMMA IndexStep ==
  ASSUME Typed, [Next]_vars
  PROVE  RunsStay \/ RunAdded \/ RunDropped
<1> USE DEF Typed, KeepsMetadata, Known
<1>1. index' = index => RunsStay
  BY DEF RunsStay
<1>2. ASSUME NEW i \in Procs, NEW r \in RunIds, NEW meta \in Metas, BeginRun(i, r, meta)
      PROVE  RunsStay \/ RunAdded
  <2>1. CASE index' = index
    BY <1>1, <2>1
  <2>2. CASE index' = Begun(index, r, meta)
    <3>1. /\ \A s \in RunIds \ {r} : index'[s] = index[s]
          /\ index'[r] # NoRun
      BY <2>2, BegunType DEF TypeOK
    <3>2. r \in RunIds \ used /\ r \in used'
      BY <1>2 DEF BeginRun
    <3>3. Known' = Known \cup {r} /\ KeepsMetadata(Known \ {r})
      BY <3>1
    <3> QED
      BY <3>2, <3>3 DEF RunAdded
  <2> QED
    BY <1>2, <2>1, <2>2 DEF BeginRun, FlushIndex
<1>3. ASSUME NEW i \in Procs, AddArtifact(i) PROVE RunsStay
  <2> DEFINE r == job[i].run
  <2>1. r \in RunIds /\ job[i].role \in Roles /\ job[i].hash \in Hashes
    BY <1>3 DEF AddArtifact, Goto, InCall
  <2>2. IsRegistering(index, r)
    BY <1>3 DEF AddArtifact
  <2>3. CASE index' = index
    BY <1>1, <2>3
  <2>4. CASE index' = Bound(index, r, job[i].role, job[i].hash)
    BY <2>1, <2>2, <2>4, BoundStay DEF TypeOK
  <2> QED
    BY <1>3, <2>3, <2>4 DEF AddArtifact, FlushIndex
<1>4. ASSUME NEW i \in Procs, NEW status \in FinalStatuses, FinalizeRun(i, status)
      PROVE  RunsStay
  <2>1. mine[i] \in RunIds /\ IsRegistering(index, mine[i])
    BY <1>4 DEF FinalizeRun, TypeOK
  <2>2. CASE index' = index
    BY <1>1, <2>2
  <2>3. CASE index' = Finalized(index, mine[i], status)
    <3>1. /\ \A s \in RunIds \ {mine[i]} : index'[s] = index[s]
          /\ index'[mine[i]] # NoRun
          /\ index'[mine[i]].metadata = index[mine[i]].metadata
      BY <2>1, <2>3, FinalizedType DEF TypeOK
    <3> QED
      BY <2>1, <3>1 DEF RunsStay, IsRegistering
  <2> QED
    BY <1>4, <2>2, <2>3 DEF FinalizeRun, FlushIndex
<1>5. ASSUME NEW i \in Procs, DropRun(i) PROVE RunsStay \/ RunDropped
  <2> DEFINE r == job[i].run
  <2>1. r \in RunIds /\ pc[i] = "dropping" /\ IsFinal(index, r)
    BY <1>5 DEF DropRun, Goto, InCall, TypeOK
  <2>2. CASE index' = index
    BY <1>1, <2>2
  <2>3. CASE index' = Deleted(index, r)
    <3>1. (\A s \in RunIds \ {r} : index'[s] = index[s]) /\ index'[r] = NoRun
      BY <2>1, <2>3, DeletedType DEF TypeOK
    <3> QED
      BY <2>1, <3>1 DEF RunDropped
  <2> QED
    BY <1>5, <2>2, <2>3 DEF DropRun, FlushIndex
<1>6. ASSUME NEW i \in Procs,
             \/ Open(i) \/ Exit(i) \/ Kill(i) \/ MakeRunDir(i)
             \/ \E role \in Roles, hash \in Hashes : PutBlob(i, role, hash)
             \/ RecordAlias(i) \/ Materialize(i) \/ RegisterRaises(i) \/ FinalizeRaises(i)
             \/ PlanCleanup(i) \/ \E r \in RunIds : RemoveRunDir(i, r)
             \/ DropRaises(i) \/ EndCleanup(i) \/ \E hash \in Hashes : DeleteBlob(i, hash)
      PROVE  index' = index
  BY <1>6 DEF Open, Exit, Kill, End, MakeRunDir, PutBlob, RecordAlias, Materialize,
     RegisterRaises, FinalizeRaises, PlanCleanup, RemoveRunDir, DropRaises, EndCleanup,
     DeleteBlob, disk
<1>7. ASSUME NEW r \in RunIds, PinRun(r) PROVE index' = index
  BY <1>7 DEF PinRun
<1>8. CASE UNCHANGED vars
  BY <1>1, <1>8 DEF vars, disk
<1> QED
  BY <1>1, <1>2, <1>3, <1>4, <1>5, <1>6, <1>7, <1>8 DEF Next

-----------------------------------------------------------------------------
(* A planned run may go: it is not pinned and enough newer runs exist.     *)
(* This survives what other processes do after the plan was made, also     *)
(* when no lock covers more than a method of the run index: new runs only  *)
(* add to the newer ones, and a run that another cleanup drops has itself  *)
(* enough runs newer than it, all of which are newer than what it was      *)
(* newer than.                                                             *)
Expendable(r) ==
  index[r] # NoRun => /\ ~index[r].metadata.pinned
                      /\ Cardinality(Newer(r)) >= KeepLatest

PlansHold ==
  /\ IsFiniteSet(Known) /\ Known \subseteq used
  /\ \A i \in Procs : victims[i] \subseteq used /\ \A r \in victims[i] : Expendable(r)

\* created_at is a time, for every run the index knows.
LEMMA Created ==
  ASSUME index \in Runs, NEW r \in Known
  PROVE  index[r].metadata.created \in Nat /\ index[r].metadata.pinned \in BOOLEAN
<1>1. index[r] \in RunRecord
  BY DEF Known, Runs
<1> QED
  BY <1>1, MetasAssumption DEF RunRecord

-----------------------------------------------------------------------------
(* A process that comes, goes or only learns that its run is unknown       *)
(* touches nothing others see; every other step of a process is part of a  *)
(* call, and calls exclude each other.                                     *)
ComesOrGoes(i) == Open(i) \/ Exit(i) \/ Kill(i) \/ FinalizeRaises(i)

Calls(i) ==
  \/ \E r \in RunIds, meta \in Metas : BeginRun(i, r, meta)
  \/ MakeRunDir(i)
  \/ \E role \in Roles, hash \in Hashes : PutBlob(i, role, hash)
  \/ RecordAlias(i) \/ AddArtifact(i) \/ Materialize(i) \/ RegisterRaises(i)
  \/ \E status \in FinalStatuses : FinalizeRun(i, status)
  \/ PlanCleanup(i)
  \/ \E r \in RunIds : RemoveRunDir(i, r)
  \/ DropRun(i) \/ DropRaises(i)
  \/ \E hash \in Hashes : DeleteBlob(i, hash)
  \/ EndCleanup(i)

LEMMA WhoActs ==
  ASSUME [Next]_vars
  PROVE  \/ \E i \in Procs : ComesOrGoes(i) \/ Calls(i)
         \/ \E r \in RunIds : PinRun(r)
         \/ UNCHANGED vars
BY DEF Next, ComesOrGoes, Calls

\* The circumstances never change, and run ids that have been used stay used.
LEMMA Unchanging == ASSUME [Next]_vars PROVE scenario' = scenario /\ used \subseteq used'
<1>1. ASSUME NEW i \in Procs, ComesOrGoes(i) PROVE scenario' = scenario /\ used' = used
  BY <1>1 DEF ComesOrGoes, Open, Exit, Kill, End, FinalizeRaises, disk
<1>2. ASSUME NEW i \in Procs, NEW r \in RunIds, NEW meta \in Metas, BeginRun(i, r, meta)
      PROVE  scenario' = scenario /\ used \subseteq used'
  BY <1>2 DEF BeginRun
<1>3. ASSUME NEW i \in Procs,
             \/ MakeRunDir(i) \/ \E role \in Roles, hash \in Hashes : PutBlob(i, role, hash)
             \/ RecordAlias(i) \/ AddArtifact(i) \/ Materialize(i) \/ RegisterRaises(i)
             \/ \E status \in FinalStatuses : FinalizeRun(i, status)
      PROVE  scenario' = scenario /\ used' = used
  BY <1>3 DEF MakeRunDir, PutBlob, RecordAlias, AddArtifact, Materialize, RegisterRaises,
              FinalizeRun, disk
<1>4. ASSUME NEW i \in Procs,
             \/ PlanCleanup(i) \/ \E r \in RunIds : RemoveRunDir(i, r)
             \/ DropRun(i) \/ DropRaises(i)
             \/ \E hash \in Hashes : DeleteBlob(i, hash)
             \/ EndCleanup(i)
      PROVE  scenario' = scenario /\ used' = used
  BY <1>4 DEF PlanCleanup, RemoveRunDir, DropRun, DropRaises, DeleteBlob, EndCleanup, disk
<1>5. ASSUME (\E r \in RunIds : PinRun(r)) \/ UNCHANGED vars
      PROVE  scenario' = scenario /\ used' = used
  BY <1>5 DEF PinRun, vars, disk
<1> QED
  BY <1>1, <1>2, <1>3, <1>4, <1>5, WhoActs DEF Calls

LEMMA NewerCounts ==
  ASSUME IsFiniteSet(Known), NEW r
  PROVE  /\ Newer(r) \subseteq Known /\ IsFiniteSet(Newer(r))
         /\ Cardinality(Newer(r)) \in Nat
BY FS_Subset, FS_CardinalityType DEF Newer

\* Nothing is newer than itself, and what is newer than a newer run is newer.
LEMMA NewerChain ==
  ASSUME index \in Runs, NEW r \in Known, NEW d \in Newer(r)
  PROVE  d \notin Newer(d) /\ Newer(d) \subseteq Newer(r)
<1>1. \A s \in Known : index[s].metadata.created \in Nat
  BY Created
<1> QED
  BY <1>1 DEF Newer

\* The runs the index holds stay finitely many, and have been used.
LEMMA KnownStep ==
  ASSUME Typed, [Next]_vars, IsFiniteSet(Known), Known \subseteq used
  PROVE  IsFiniteSet(Known') /\ Known' \subseteq used' /\ used \subseteq used'
<1>1. used \subseteq used'
  BY Unchanging
<1>2. CASE RunsStay
  BY <1>1, <1>2 DEF RunsStay
<1>3. CASE RunAdded
  BY <1>1, <1>3, FS_AddElement DEF RunAdded
<1>4. CASE RunDropped
  BY <1>1, <1>4, FS_RemoveElement DEF RunDropped
<1> QED
  BY <1>2, <1>3, <1>4, IndexStep

LEMMA ExpendableStays ==
  ASSUME Typed, [Next]_vars, PlansHold, NEW r \in used, Expendable(r)
  PROVE  Expendable(r)'
<1>1. SUFFICES ASSUME index'[r] # NoRun PROVE Expendable(r)'
  BY DEF Expendable
<1>2. /\ index \in Runs /\ r \in RunIds /\ r \in Known' /\ IsFiniteSet(Known)
      /\ IsFiniteSet(Known')
  BY <1>1, KnownStep DEF Typed, TypeOK, Known, PlansHold
<1>3. ASSUME r \in Known, KeepsMetadata({r}),
             NEW N \in SUBSET Known, N \subseteq Newer(r)',
             Cardinality(N) \in Nat, Cardinality(N) >= KeepLatest
      PROVE  Expendable(r)'
  <2>1. /\ IsFiniteSet(Newer(r)') /\ Cardinality(Newer(r)') \in Nat
    BY <1>2, FS_Subset, FS_CardinalityType DEF Newer
  <2>2. Cardinality(N) <= Cardinality(Newer(r)')
    BY <1>3, <2>1, FS_Subset
  <2>3. Cardinality(Newer(r)') >= KeepLatest
    BY <1>3, <2>1, <2>2, KeepAssumption
  <2>4. ~index'[r].metadata.pinned
    BY <1>3 DEF Expendable, KeepsMetadata, Known
  <2> QED
    BY <2>3, <2>4 DEF Expendable
<1>4. r \in Known => /\ Newer(r) \subseteq Known /\ Cardinality(Newer(r)) \in Nat
                    /\ Cardinality(Newer(r)) >= KeepLatest
  BY <1>2, NewerCounts DEF Expendable, Known
<1>5. CASE RunsStay
  <2>1. r \in Known /\ KeepsMetadata({r}) /\ Newer(r) \subseteq Newer(r)'
    BY <1>2, <1>5 DEF RunsStay, KeepsMetadata, Newer
  <2> QED
    BY <1>3, <1>4, <2>1
<1>6. CASE RunAdded
  <2>1. PICK n \in RunIds \ used : Known' = Known \cup {n} /\ KeepsMetadata(Known \ {n})
    BY <1>6 DEF RunAdded
  <2>2. n # r /\ n \notin Known
    BY <2>1 DEF PlansHold
  <2>3. r \in Known /\ KeepsMetadata({r}) /\ Newer(r) \subseteq Newer(r)'
    BY <1>2, <2>1, <2>2 DEF KeepsMetadata, Newer
  <2> QED
    BY <1>3, <1>4, <2>3
<1>7. CASE RunDropped
  <2>1. PICK i \in Procs : /\ pc[i] = "dropping" /\ IsFinal(index, job[i].run)
                          /\ Known' = Known \ {job[i].run}
                          /\ KeepsMetadata(Known \ {job[i].run})
    BY <1>7 DEF RunDropped
  <2> DEFINE d == job[i].run
  <2>2. d \in victims[i] /\ Expendable(d) /\ d \in Known
    BY <2>1 DEF Typed, InCall, PlansHold, TypeOK, IsFinal, Known
  <2> HIDE DEF d
  <2>3. r \in Known \ {d} /\ KeepsMetadata(Known \ {d}) /\ Known' = Known \ {d}
    BY <1>2, <2>1 DEF d
  <2>4. KeepsMetadata({r})
    BY <2>3 DEF KeepsMetadata
  <2>5. CASE d \in Newer(r)
    <3>1. d \notin Newer(d) /\ Newer(d) \subseteq Newer(r)
      BY <1>2, <2>3, <2>5, NewerChain
    <3>2. Newer(d) \subseteq Newer(r)'
      BY <2>3, <3>1 DEF Newer, KeepsMetadata
    <3>3. /\ Newer(d) \subseteq Known /\ Cardinality(Newer(d)) \in Nat
          /\ Cardinality(Newer(d)) >= KeepLatest
      BY <1>2, <2>2, NewerCounts DEF Expendable, Known
    <3> QED
      BY <1>3, <2>3, <2>4, <3>2, <3>3
  <2>6. CASE d \notin Newer(r)
    <3>1. Newer(r) \subseteq Newer(r)'
      BY <2>3, <2>6 DEF Newer, KeepsMetadata
    <3> QED
      BY <1>3, <1>4, <2>3, <2>4, <3>1
  <2> QED
    BY <2>5, <2>6
<1> QED
  BY <1>5, <1>6, <1>7, IndexStep

\* Plans are only carried out or given up, unless they are made in this step.
LEMMA PlanStep ==
  ASSUME Typed, [Next]_vars, NEW i \in Procs
  PROVE  \/ victims'[i] \subseteq victims[i]
         \/ victims'[i] = Known \ Retained /\ index' = index
<1> USE DEF Typed, TypeOK
<1>1. ASSUME NEW j \in Procs, PlanCleanup(j)
      PROVE  victims' = [victims EXCEPT ![j] = Known \ Retained] /\ index' = index
  BY <1>1 DEF PlanCleanup, disk
<1>2. ASSUME NEW j \in Procs, Exit(j) \/ Kill(j) \/ DropRaises(j)
      PROVE  victims' = [victims EXCEPT ![j] = {}]
  BY <1>2 DEF Exit, Kill, End, DropRaises
<1>3. ASSUME NEW j \in Procs, DropRun(j)
      PROVE  victims' = [victims EXCEPT ![j] = victims[j] \ {job[j].run}]
  BY <1>3 DEF DropRun
<1>4. ASSUME NEW j \in Procs, Open(j) \/ MakeRunDir(j) \/ RecordAlias(j) \/ AddArtifact(j)
                               \/ Materialize(j) \/ RegisterRaises(j) \/ FinalizeRaises(j)
                               \/ EndCleanup(j)
      PROVE  victims' = victims
  BY <1>4 DEF Open, MakeRunDir, RecordAlias, AddArtifact, Materialize, RegisterRaises,
     FinalizeRaises, EndCleanup
<1>5. ASSUME NEW j \in Procs,
             \/ \E r \in RunIds, meta \in Metas : BeginRun(j, r, meta)
             \/ \E role \in Roles, hash \in Hashes : PutBlob(j, role, hash)
             \/ \E status \in FinalStatuses : FinalizeRun(j, status)
             \/ \E r \in RunIds : RemoveRunDir(j, r)
             \/ \E hash \in Hashes : DeleteBlob(j, hash)
      PROVE  victims' = victims
  BY <1>5 DEF BeginRun, PutBlob, FinalizeRun, RemoveRunDir, DeleteBlob
<1>6. ASSUME (\E r \in RunIds : PinRun(r)) \/ UNCHANGED vars PROVE victims' = victims
  BY <1>6 DEF PinRun, vars, local
<1> QED
  BY <1>1, <1>2, <1>3, <1>4, <1>5, <1>6 DEF Next

\* What cleanup plans to remove may go.
LEMMA PlannedExpendable ==
  ASSUME Typed, PlansHold, NEW r \in Known \ Retained
  PROVE  Expendable(r) /\ r \in used
<1>1. ~index[r].metadata.pinned /\ ~(Cardinality(Newer(r)) < KeepLatest)
  BY DEF Retained, Pinned
<1>2. Cardinality(Newer(r)) \in Nat
  BY NewerCounts DEF PlansHold
<1> QED
  BY <1>1, <1>2, KeepAssumption DEF Expendable, PlansHold

LEMMA PlansHoldAlways == Spec => []PlansHold
<1>1. Init => PlansHold
  <2>1. Init => Known = {}
    BY NoRunsType DEF Init, Known
  <2> QED
    BY <2>1, FS_EmptySet DEF Init, PlansHold
<1>2. Typed /\ PlansHold /\ [Next]_vars => PlansHold'
  <2> SUFFICES ASSUME Typed, PlansHold, [Next]_vars PROVE PlansHold'
    OBVIOUS
  <2>1. IsFiniteSet(Known') /\ Known' \subseteq used' /\ used \subseteq used'
    BY KnownStep DEF PlansHold
  <2>2. ASSUME NEW i \in Procs, NEW r \in victims'[i]
        PROVE  r \in used' /\ Expendable(r)'
    <3>1. r \in used /\ Expendable(r)
      BY <2>2, PlanStep, PlannedExpendable DEF PlansHold
    <3> QED
      BY <2>1, <3>1, ExpendableStays
  <2> QED
    BY <2>1, <2>2 DEF PlansHold
<1> QED
  BY <1>1, <1>2, TypedAlways, PTL DEF Spec

(* The newest and the pinned runs stay in the index, and a run leaves it   *)
(* only once finalized (ArtifactRegistry.cleanup, RunRegistry.delete_run): *)
(* as long as the methods of RunRegistry exclude each other, with cleanups *)
(* on different snapshots, processes that die anywhere and writes that are *)
(* lost.                                                                   *)
THEOREM RetentionHolds == Spec => RetentionRespected
<1>1. Typed /\ PlansHold /\ [Next]_vars =>
        [\A r \in RunIds : (index[r] # NoRun /\ index'[r] = NoRun) =>
            /\ IsFinal(index, r)
            /\ ~index[r].metadata.pinned
            /\ Cardinality(Newer(r)) >= KeepLatest]_vars
  <2> SUFFICES ASSUME Typed, PlansHold, [Next]_vars, NEW r \in RunIds,
                      index[r] # NoRun, index'[r] = NoRun
               PROVE  /\ IsFinal(index, r)
                      /\ ~index[r].metadata.pinned
                      /\ Cardinality(Newer(r)) >= KeepLatest
    OBVIOUS
  <2>1. RunDropped
    BY IndexStep DEF RunsStay, RunAdded, Known
  <2>2. PICK i \in Procs : /\ pc[i] = "dropping" /\ IsFinal(index, job[i].run)
                          /\ Known' = Known \ {job[i].run}
    BY <2>1 DEF RunDropped
  <2>3. r = job[i].run
    BY <2>2 DEF Known
  <2>4. Expendable(r)
    BY <2>2, <2>3 DEF Typed, InCall, PlansHold
  <2> QED
    BY <2>2, <2>3, <2>4 DEF Expendable
<1> QED
  BY <1>1, TypedAlways, PlansHoldAlways, PTL DEF Spec, RetentionRespected

-----------------------------------------------------------------------------
(* With a lock around each call, whoever is inside one holds the lock, and *)
(* with one around the whole session, whoever has opened the registry.     *)
Outside == {"down", "idle", "raised"}

Exclusive ==
  /\ scenario.lock = "operation" => \A i \in Procs : pc[i] \notin Outside => holder = i
  /\ scenario.lock = "session" => \A i \in Procs : pc[i] # "down" => holder = i

OthersOutside(i) == \A j \in Procs \ {i} : pc[j] \in Outside

LEMMA ScenarioType ==
  ASSUME TypeOK
  PROVE  scenario.lock \in {"session", "operation", "method"} /\ scenario.faulty \in BOOLEAN
BY ScenarioAssumption DEF TypeOK

\* A process that holds the lock, finds it free, or is in a call, is alone in one.
LEMMA Alone ==
  ASSUME TypeOK, Exclusive, scenario.lock # "method", NEW i \in Procs,
         holder \in {NoProc, i} \/ pc[i] \notin Outside
  PROVE  OthersOutside(i)
BY ScenarioType, NoProcAssumption DEF TypeOK, Exclusive, Outside, OthersOutside

LEMMA ExclusiveStep == ASSUME TypeOK, Exclusive, [Next]_vars PROVE Exclusive'
<1> USE DEF TypeOK, Exclusive, Outside, Goto, disk
<1>1. scenario' = scenario
  BY Unchanging
<1>2. ASSUME NEW i \in Procs, Open(i) PROVE Exclusive'
  BY <1>1, <1>2, NoProcAssumption DEF Open
<1>3. ASSUME NEW i \in Procs, Exit(i) \/ Kill(i) PROVE Exclusive'
  <2>1. /\ pc' = [pc EXCEPT ![i] = "down"]
        /\ holder' = IF holder = i THEN NoProc ELSE holder
    BY <1>3 DEF Exit, Kill, End
  <2> QED
    BY <1>1, <2>1, NoProcAssumption
<1>4. ASSUME NEW i \in Procs, Enter(i), NEW at \in Phases, pc' = [pc EXCEPT ![i] = at],
             pc[i] # "down"
      PROVE  Exclusive'
  BY <1>1, <1>4, NoProcAssumption, ScenarioType DEF Enter
<1>5. ASSUME NEW i \in Procs, Return, NEW at \in {"idle", "raised"},
             pc' = [pc EXCEPT ![i] = at], pc[i] \notin Outside
      PROVE  Exclusive'
  BY <1>1, <1>5, NoProcAssumption, ScenarioType DEF Return
<1>6. ASSUME NEW i \in Procs, UNCHANGED holder, NEW at \in Phases,
             pc' = [pc EXCEPT ![i] = at], pc[i] \notin Outside
      PROVE  Exclusive'
  BY <1>1, <1>6
<1>7. ASSUME NEW i \in Procs, NEW r \in RunIds, NEW meta \in Metas, BeginRun(i, r, meta)
      PROVE  Exclusive'
  BY <1>4, <1>7 DEF BeginRun, Phases
<1>8. ASSUME NEW i \in Procs, NEW role \in Roles, NEW hash \in Hashes, PutBlob(i, role, hash)
      PROVE  Exclusive'
  BY <1>4, <1>8 DEF PutBlob, Phases
<1>9. ASSUME NEW i \in Procs, PlanCleanup(i) PROVE Exclusive'
  BY <1>4, <1>9 DEF PlanCleanup, Phases
<1>10. ASSUME NEW i \in Procs, MakeRunDir(i) \/ Materialize(i) \/ RegisterRaises(i)
                                \/ DropRaises(i) \/ EndCleanup(i)
       PROVE  Exclusive'
  BY <1>5, <1>10 DEF MakeRunDir, Materialize, RegisterRaises, DropRaises, EndCleanup
<1>11. ASSUME NEW i \in Procs, RecordAlias(i) \/ AddArtifact(i) \/ DropRun(i)
       PROVE  Exclusive'
  BY <1>6, <1>11 DEF RecordAlias, AddArtifact, DropRun, Phases
<1>12. ASSUME NEW i \in Procs, NEW r \in RunIds, RemoveRunDir(i, r) PROVE Exclusive'
  BY <1>6, <1>12 DEF RemoveRunDir, Phases
<1>13. ASSUME NEW i \in Procs, FinalizeRaises(i) PROVE Exclusive'
  BY <1>1, <1>13 DEF FinalizeRaises
<1>14. ASSUME UNCHANGED <<pc, holder>> PROVE Exclusive'
  BY <1>1, <1>14
<1>15. ASSUME NEW i \in Procs, NEW status \in FinalStatuses, FinalizeRun(i, status)
       PROVE  Exclusive'
  BY <1>14, <1>15 DEF FinalizeRun
<1>16. ASSUME NEW i \in Procs, NEW hash \in Hashes, DeleteBlob(i, hash) PROVE Exclusive'
  BY <1>14, <1>16 DEF DeleteBlob
<1>17. ASSUME NEW r \in RunIds, PinRun(r) PROVE Exclusive'
  BY <1>14, <1>17 DEF PinRun, local
<1>18. CASE UNCHANGED vars
  BY <1>14, <1>18 DEF vars, local
<1> HIDE DEF TypeOK, Exclusive, Goto, Outside, disk
<1> QED
  BY <1>2, <1>3, <1>7, <1>8, <1>9, <1>10, <1>11, <1>12, <1>13, <1>15, <1>16, <1>17, <1>18
  DEF Next

LEMMA ExclusiveAlways == Spec => []Exclusive
<1>1. Init => Exclusive
  BY DEF Init, Exclusive, Outside
<1> QED
  BY <1>1, ExclusiveStep, TypeCorrect, PTL DEF Spec

\* What a process knows is its own.
LEMMA OthersKnow ==
  ASSUME TypeOK, NEW i \in Procs, ComesOrGoes(i) \/ Calls(i), NEW j \in Procs \ {i}
  PROVE  /\ pc'[j] = pc[j] /\ mine'[j] = mine[j] /\ job'[j] = job[j]
         /\ victims'[j] = victims[j] /\ doomed'[j] = doomed[j] /\ aliases'[j] = aliases[j]
<1> USE DEF TypeOK, Goto
<1>1. CASE ComesOrGoes(i)
  BY <1>1 DEF ComesOrGoes, Open, Exit, Kill, End, FinalizeRaises
<1>2. ASSUME NEW r \in RunIds, NEW meta \in Metas, BeginRun(i, r, meta)
      PROVE  pc'[j] = pc[j] /\ mine'[j] = mine[j] /\ UNCHANGED <<job, victims, doomed, aliases>>
  BY <1>2 DEF BeginRun
<1>3. CASE MakeRunDir(i)
  BY <1>3 DEF MakeRunDir
<1>4. ASSUME NEW role \in Roles, NEW hash \in Hashes, PutBlob(i, role, hash)
      PROVE  pc'[j] = pc[j] /\ job'[j] = job[j] /\ UNCHANGED <<mine, victims, doomed, aliases>>
  BY <1>4 DEF PutBlob
<1>5. CASE RecordAlias(i)
  BY <1>5 DEF RecordAlias
<1>6. CASE AddArtifact(i)
  BY <1>6 DEF AddArtifact
<1>7. CASE Materialize(i) \/ RegisterRaises(i)
  BY <1>7 DEF Materialize, RegisterRaises
<1>8. ASSUME NEW status \in FinalStatuses, FinalizeRun(i, status)
      PROVE  mine'[j] = mine[j] /\ UNCHANGED <<pc, job, victims, doomed, aliases>>
  BY <1>8 DEF FinalizeRun
<1>9. CASE PlanCleanup(i) \/ EndCleanup(i)
  BY <1>9 DEF PlanCleanup, EndCleanup
<1>10. ASSUME NEW r \in RunIds, RemoveRunDir(i, r)
       PROVE  pc'[j] = pc[j] /\ job'[j] = job[j] /\ UNCHANGED <<mine, victims, doomed, aliases>>
  BY <1>10 DEF RemoveRunDir
<1>11. CASE DropRun(i) \/ DropRaises(i)
  BY <1>11 DEF DropRun, DropRaises
<1>12. ASSUME NEW hash \in Hashes, DeleteBlob(i, hash)
       PROVE  doomed'[j] = doomed[j] /\ UNCHANGED <<pc, mine, job, victims, aliases>>
  BY <1>12 DEF DeleteBlob
<1> QED
  BY <1>1, <1>2, <1>3, <1>4, <1>5, <1>6, <1>7, <1>8, <1>9, <1>10, <1>11, <1>12 DEF Calls

LEMMA OnlyOneCalls ==
  ASSUME TypeOK, Exclusive, scenario.lock # "method", NEW i \in Procs, Calls(i)
  PROVE  OthersOutside(i) /\ OthersOutside(i)'
<1>1. holder \in {NoProc, i} \/ pc[i] \notin Outside
  BY DEF Calls, Goto, Outside, Enter, BeginRun, MakeRunDir, PutBlob, RecordAlias, AddArtifact,
     Materialize, RegisterRaises, FinalizeRun, PlanCleanup, RemoveRunDir, DropRun, DropRaises,
     DeleteBlob, EndCleanup
<1>2. OthersOutside(i)
  BY <1>1, Alone
<1> QED
  BY <1>2, OthersKnow DEF OthersOutside

-----------------------------------------------------------------------------
(* Blobs are there before and as long as they are referred to: a process   *)
(* that registers one has put it in the store, and what a cleanup is about *)
(* to delete belongs to runs it has yet to drop and to no other.           *)
Registering == {"aliasing", "binding", "materializing"}
Cleaning == {"cleaning", "dropping"}

StoredFor(i) ==
  /\ pc[i] \in Registering => job[i].hash \in store
  /\ pc[i] \in Cleaning => doomed[i] \cap CasFor(index, RunIds \ victims[i]) = {}

Stored == CasFor(index, RunIds) \subseteq store /\ \A i \in Procs : StoredFor(i)

\* Nothing is planned of the runs that are kept.
LEMMA PlanSpares ==
  CasFor(index, RunIds \ (Known \ Retained)) = CasFor(index, Retained)
BY DEF CasFor, Known, Retained, Pinned

LEMMA StoredCall ==
  ASSUME Typed, Typed', PlansHold, LockedCalls, Stored, NEW i \in Procs, Calls(i)
  PROVE  CasFor(index', RunIds) \subseteq store' /\ StoredFor(i)'
<1> USE DEF Goto, Registering, Cleaning
<1>0. index \in Runs /\ pc \in [Procs -> Phases] /\ pc[i] \in Phases /\ LockedCalls
  BY DEF Typed, TypeOK
<1>1. ASSUME NEW r \in RunIds, NEW meta \in Metas, BeginRun(i, r, meta)
      PROVE  CasFor(index', RunIds) \subseteq store' /\ StoredFor(i)'
  <2>1. index[r] = NoRun
    BY <1>1 DEF BeginRun, PlansHold, Known
  <2>2. index' = Begun(index, r, meta) /\ store' = store /\ pc'[i] = "making_dirs"
    BY <1>0, <1>1 DEF BeginRun, FlushIndex, LockedCalls
  <2>3. CasFor(index', RunIds) = CasFor(index, RunIds)
    BY <1>0, <2>1, <2>2, CasForBegun
  <2> QED
    BY <2>2, <2>3 DEF Stored, StoredFor
<1>2. CASE MakeRunDir(i)
  BY <1>0, <1>2 DEF MakeRunDir, Stored, StoredFor
<1>3. ASSUME NEW role \in Roles, NEW hash \in Hashes, PutBlob(i, role, hash)
      PROVE  CasFor(index', RunIds) \subseteq store' /\ StoredFor(i)'
  BY <1>0, <1>3 DEF PutBlob, Stored, StoredFor, Typed, TypeOK
<1>4. CASE RecordAlias(i)
  BY <1>0, <1>4 DEF RecordAlias, Stored, StoredFor
<1>5. CASE AddArtifact(i)
  <2> DEFINE r == job[i].run  role == job[i].role  hash == job[i].hash
  <2>1. /\ r \in RunIds /\ role \in Roles /\ hash \in Hashes
        /\ IsRegistering(index, r) /\ hash \in store
    BY <1>5 DEF AddArtifact, Typed, InCall, Stored, StoredFor
  <2>2. /\ index' = Bound(index, r, role, hash)
        /\ UNCHANGED <<store, job>> /\ pc'[i] = "materializing"
    BY <1>0, <1>5 DEF AddArtifact, FlushIndex, LockedCalls
  <2> HIDE DEF r, role, hash
  <2>3. CasFor(index', RunIds) \subseteq CasFor(index, RunIds) \cup {hash}
    BY <1>0, <2>1, <2>2, CasForBound
  <2> QED
    BY <2>1, <2>2, <2>3 DEF Stored, StoredFor, hash
<1>6. CASE Materialize(i)
  BY <1>0, <1>6 DEF Materialize, Stored, StoredFor
<1>7. CASE RegisterRaises(i)
  BY <1>0, <1>7 DEF RegisterRaises, Stored, StoredFor, disk
<1>8. ASSUME NEW status \in FinalStatuses, FinalizeRun(i, status)
      PROVE  CasFor(index', RunIds) \subseteq store' /\ StoredFor(i)'
  <2>1. /\ mine[i] \in RunIds /\ IsRegistering(index, mine[i])
        /\ index' = Finalized(index, mine[i], status)
        /\ store' = store /\ pc'[i] \in {"idle", "raised"}
    BY <1>0, <1>8 DEF FinalizeRun, FlushIndex, LockedCalls, Typed, TypeOK
  <2>2. CasFor(index', RunIds) = CasFor(index, RunIds)
    BY <1>0, <2>1, CasForFinalized
  <2> QED
    BY <2>1, <2>2 DEF Stored, StoredFor
<1>9. CASE PlanCleanup(i)
  <2>1. /\ UNCHANGED <<index, store>> /\ pc'[i] = "cleaning"
        /\ victims'[i] = Known \ Retained
        /\ doomed'[i] = CasFor(index, Known \ Retained) \ CasFor(index, Retained)
    BY <1>0, <1>9 DEF PlanCleanup, disk, Typed, TypeOK
  <2> QED
    BY <2>1, PlanSpares DEF Stored, StoredFor
<1>10. ASSUME NEW r \in RunIds, RemoveRunDir(i, r)
       PROVE  CasFor(index', RunIds) \subseteq store' /\ StoredFor(i)'
  BY <1>0, <1>10 DEF RemoveRunDir, Stored, StoredFor
<1>11. CASE DropRun(i)
  <2> DEFINE r == job[i].run
  <2>1. /\ r \in RunIds /\ r \in victims[i] /\ victims[i] \in SUBSET RunIds
        /\ index' = Deleted(index, r) /\ UNCHANGED <<store, doomed>>
        /\ pc[i] \in Cleaning /\ pc'[i] = "cleaning" /\ victims'[i] = victims[i] \ {r}
    BY <1>0, <1>11 DEF DropRun, FlushIndex, LockedCalls, Typed, TypeOK, InCall
  <2>2. RunIds \ victims[i] = (RunIds \ victims'[i]) \ {r}
    BY <2>1
  <2> HIDE DEF r
  <2>3. /\ CasFor(index', RunIds) = CasFor(index, RunIds \ {r})
        /\ CasFor(index', RunIds \ victims'[i]) = CasFor(index, RunIds \ victims[i])
    BY <1>0, <2>1, <2>2, CasForDeleted
  <2>4. CasFor(index, RunIds \ {r}) \subseteq CasFor(index, RunIds)
    BY DEF CasFor
  <2> QED
    BY <2>1, <2>3, <2>4 DEF Stored, StoredFor
<1>12. CASE DropRaises(i)
  BY <1>0, <1>12 DEF DropRaises, Stored, StoredFor, disk
<1>13. ASSUME NEW hash \in Hashes, DeleteBlob(i, hash)
       PROVE  CasFor(index', RunIds) \subseteq store' /\ StoredFor(i)'
  <2>1. /\ victims[i] = {} /\ hash \in doomed[i] /\ doomed[i] \cap CasFor(index, RunIds) = {}
    BY <1>13 DEF DeleteBlob, Stored, StoredFor
  <2>2. /\ store' = store \ {hash} /\ UNCHANGED <<index, pc, victims>>
        /\ doomed'[i] \subseteq doomed[i] /\ pc[i] = "cleaning"
    BY <1>13 DEF DeleteBlob, Typed, TypeOK
  <2> QED
    BY <2>1, <2>2 DEF Stored, StoredFor
<1>14. CASE EndCleanup(i)
  BY <1>0, <1>14 DEF EndCleanup, Stored, StoredFor, disk
<1> QED
  BY <1>1, <1>2, <1>3, <1>4, <1>5, <1>6, <1>7, <1>8, <1>9, <1>10, <1>11, <1>12, <1>13, <1>14
  DEF Calls

LEMMA StoredStep ==
  ASSUME Typed, Typed', PlansHold, Exclusive, LockedCalls, Stored, [Next]_vars
  PROVE  Stored'
<1>1. ASSUME NEW i \in Procs, Calls(i) PROVE Stored'
  <2>1. OthersOutside(i)'
    BY <1>1, OnlyOneCalls DEF Typed, LockedCalls
  <2>2. CasFor(index', RunIds) \subseteq store' /\ StoredFor(i)'
    BY <1>1, StoredCall
  <2>3. \A j \in Procs \ {i} : StoredFor(j)'
    BY <2>1 DEF OthersOutside, Outside, StoredFor, Registering, Cleaning
  <2> QED
    BY <2>2, <2>3 DEF Stored
<1>2. ASSUME NEW i \in Procs, ComesOrGoes(i) PROVE Stored'
  <2>1. UNCHANGED <<index, store>> /\ pc'[i] \in Outside
    BY <1>2 DEF ComesOrGoes, Open, Exit, Kill, End, FinalizeRaises, disk, Goto, Outside,
       Typed, TypeOK
  <2>2. StoredFor(i)'
    BY <2>1 DEF StoredFor, Outside, Registering, Cleaning
  <2>3. \A j \in Procs \ {i} : StoredFor(j)'
    BY <1>2, <2>1, OthersKnow DEF Stored, StoredFor, Typed
  <2> QED
    BY <2>1, <2>2, <2>3 DEF Stored
<1>3. ASSUME UNCHANGED <<index, store, pc, job, victims, doomed>> PROVE Stored'
  BY <1>3 DEF Stored, StoredFor
<1>4. ASSUME NEW r \in RunIds, PinRun(r) PROVE Stored'
  BY <1>3, <1>4 DEF PinRun, local
<1>5. CASE UNCHANGED vars
  BY <1>3, <1>5 DEF vars, local, disk
<1> QED
  BY <1>1, <1>2, <1>4, <1>5, WhoActs

LEMMA StoredAlways == Spec => [](LockedCalls => Stored)
<1>1. Init => Stored
  <2>1. Init => CasFor(index, RunIds) = {}
    BY NoRunsType DEF Init, CasFor
  <2> QED
    BY <2>1 DEF Init, Stored, StoredFor, Registering, Cleaning
<1>2. /\ Typed /\ Typed' /\ PlansHold /\ Exclusive /\ (LockedCalls => Stored) /\ [Next]_vars
      => (LockedCalls => Stored)'
  <2>1. [Next]_vars => (LockedCalls' => LockedCalls)
    BY Unchanging DEF LockedCalls
  <2> QED
    BY <2>1, StoredStep
<1> QED
  BY <1>1, <1>2, TypedAlways, PlansHoldAlways, ExclusiveAlways, PTL DEF Spec

(* Locked calls never leave an index entry without its blob, wherever      *)
(* processes are killed (ArtifactRegistry.register_payload, cleanup).      *)
THEOREM NoDanglingHolds == Spec => []NoDanglingReference
<1>1. (LockedCalls => Stored) => NoDanglingReference
  BY DEF Stored, NoDanglingReference
<1> QED
  BY <1>1, StoredAlways, PTL

-----------------------------------------------------------------------------
(* A run belongs to the process that began it and to no other, as long as  *)
(* that process lives; nothing is written for a run that was never begun.  *)
Owned ==
  /\ \A i \in Procs : mine[i] # NoRun => mine[i] \in used
  /\ \A i, j \in Procs : mine[i] # NoRun /\ mine[i] = mine[j] => i = j
  /\ \A i \in Procs : pc[i] \in Registering => job[i].run = mine[i] /\ mine[i] # NoRun
  /\ \A i \in Procs : pc[i] \in {"down"} \cup Cleaning => mine[i] = NoRun
  /\ \A r \in RunIds \ used : files[r] = NoFiles

LEMMA OwnedStep == ASSUME Typed, Owned, [Next]_vars PROVE Owned'
<1> USE DEF Typed, TypeOK, Owned, Goto, Registering, Cleaning, disk
<1>1. ASSUME NEW i \in Procs, ComesOrGoes(i) PROVE Owned'
  <2>1. /\ UNCHANGED <<used, files>>
        /\ \/ pc' = [pc EXCEPT ![i] = "down"] /\ mine' = [mine EXCEPT ![i] = NoRun]
              /\ job' = [job EXCEPT ![i] = NoJob]
           \/ pc' = [pc EXCEPT ![i] = "idle"] /\ mine' = mine /\ job' = job
           \/ pc' = [pc EXCEPT ![i] = "raised"] /\ mine' = mine /\ job' = job
    BY <1>1 DEF ComesOrGoes, Open, Exit, Kill, End, FinalizeRaises
  <2> QED
    BY <2>1, ZenonT(60)
<1>2. ASSUME NEW i \in Procs, NEW r \in RunIds, NEW meta \in Metas, BeginRun(i, r, meta)
      PROVE  Owned'
  <2>1. /\ r \notin used /\ used' = used \cup {r} /\ files' = files /\ job' = job
        /\ pc' = [pc EXCEPT ![i] = "making_dirs"] /\ mine' = [mine EXCEPT ![i] = r]
    BY <1>2 DEF BeginRun
  <2> QED
    BY <2>1
<1>3. ASSUME NEW i \in Procs, MakeRunDir(i) PROVE Owned'
  BY <1>3 DEF MakeRunDir
<1>4. ASSUME NEW i \in Procs, NEW role \in Roles, NEW hash \in Hashes, PutBlob(i, role, hash)
      PROVE  Owned'
  <2>1. /\ mine[i] # NoRun /\ UNCHANGED <<mine, used, files>>
        /\ pc' = [pc EXCEPT ![i] = "aliasing"]
        /\ job' = [job EXCEPT ![i] = [run |-> mine[i], role |-> role, hash |-> hash]]
    BY <1>4 DEF PutBlob
  <2> QED
    BY <2>1
<1>5. ASSUME NEW i \in Procs, RecordAlias(i) \/ AddArtifact(i) PROVE Owned'
  BY <1>5 DEF RecordAlias, AddArtifact
<1>6. ASSUME NEW i \in Procs, Materialize(i) PROVE Owned'
  <2>1. /\ job[i].run \in used /\ job[i].run \in RunIds
        /\ UNCHANGED <<used, mine>> /\ job' = [job EXCEPT ![i] = NoJob]
        /\ pc' = [pc EXCEPT ![i] = "idle"]
    BY <1>6 DEF Materialize, InCall
  <2>2. \A s \in RunIds \ {job[i].run} : files'[s] = files[s]
    BY <1>6 DEF Materialize
  <2> QED
    BY <2>1, <2>2
<1>7. ASSUME NEW i \in Procs, RegisterRaises(i) PROVE Owned'
  BY <1>7 DEF RegisterRaises
<1>8. ASSUME NEW i \in Procs, NEW status \in FinalStatuses, FinalizeRun(i, status)
      PROVE  Owned'
  BY <1>8 DEF FinalizeRun
<1>9. ASSUME NEW i \in Procs, PlanCleanup(i) PROVE Owned'
  BY <1>9 DEF PlanCleanup
<1>10. ASSUME NEW i \in Procs, NEW r \in RunIds, RemoveRunDir(i, r) PROVE Owned'
  <2>1. /\ UNCHANGED <<used, mine>> /\ pc[i] = "cleaning"
        /\ pc' = [pc EXCEPT ![i] = "dropping"] /\ job' = [job EXCEPT ![i].run = r]
    BY <1>10 DEF RemoveRunDir
  <2>2. files' = [files EXCEPT ![r] = NoFiles]
    BY <1>10 DEF RemoveRunDir
  <2> QED
    BY <2>1, <2>2
<1>11. ASSUME NEW i \in Procs, DropRun(i) \/ DropRaises(i) PROVE Owned'
  <2>1. /\ UNCHANGED <<used, mine, files>> /\ job' = [job EXCEPT ![i] = NoJob]
        /\ \/ pc' = [pc EXCEPT ![i] = "cleaning"]
           \/ pc' = [pc EXCEPT ![i] = "raised"]
    BY <1>11 DEF DropRun, DropRaises
  <2>2. pc[i] \in Cleaning
    BY <1>11 DEF DropRun, DropRaises
  <2> QED
    BY <2>1, <2>2
<1>12. ASSUME UNCHANGED <<pc, mine, job, used, files>> PROVE Owned'
  BY <1>12
<1>13. ASSUME NEW i \in Procs, NEW hash \in Hashes, DeleteBlob(i, hash) PROVE Owned'
  BY <1>12, <1>13 DEF DeleteBlob
<1>14. ASSUME NEW i \in Procs, EndCleanup(i) PROVE Owned'
  BY <1>14 DEF EndCleanup
<1>15. ASSUME NEW r \in RunIds, PinRun(r) PROVE Owned'
  BY <1>12, <1>15 DEF PinRun, local
<1>16. CASE UNCHANGED vars
  BY <1>12, <1>16 DEF vars, local
<1> HIDE DEF Typed, TypeOK, Owned, Goto, Registering, Cleaning, disk
<1>17. ASSUME NEW i \in Procs, Calls(i) PROVE Owned'
  BY <1>2, <1>3, <1>4, <1>5, <1>6, <1>7, <1>8, <1>9, <1>10, <1>11, <1>13, <1>14, <1>17 DEF Calls
<1> QED
  BY <1>1, <1>15, <1>16, <1>17, WhoActs

LEMMA OwnedAlways == Spec => []Owned
<1>1. Init => Owned
  BY DEF Init, Owned, Registering, Cleaning
<1> QED
  BY <1>1, OwnedStep, TypedAlways, PTL DEF Spec

-----------------------------------------------------------------------------
(* The files of a run follow its index entry: they agree when the run is   *)
(* complete and whenever its process could complete it, and between        *)
(* add_artifact and materialize they differ in the one role.               *)
CompleteAgrees(r) ==
  (r \notin removed /\ index[r] # NoRun /\ index[r].status = "COMPLETE")
    => r \in runDirs /\ files[r] = index[r].artifacts

WorkAgrees(i, r) ==
  /\ pc[i] \in {"idle", "aliasing", "binding"}
       => r \in runDirs /\ files[r] = index[r].artifacts
  /\ pc[i] = "making_dirs" => files[r] = index[r].artifacts
  /\ pc[i] = "materializing"
       => /\ r \in runDirs
          /\ index[r].artifacts[job[i].role] = job[i].hash
          /\ \A x \in Roles \ {job[i].role} : files[r][x] = index[r].artifacts[x]

MineAgrees(i) ==
  (mine[i] # NoRun /\ mine[i] \notin removed /\ index[mine[i]] # NoRun)
    => WorkAgrees(i, mine[i])

Agreed == (\A r \in RunIds : CompleteAgrees(r)) /\ (\A i \in Procs : MineAgrees(i))

\* A run that a step leaves as it was, or takes away.
Untouched(r) ==
  \/ index'[r] = NoRun \/ r \in removed'
  \/ index'[r] = index[r] /\ files'[r] = files[r] /\ r \notin removed
     /\ (r \in runDirs => r \in runDirs')

\* A step that touches no run but one can only upset that one and its process.
LEMMA AgreedElsewhere ==
  ASSUME Typed, Agreed, NEW i \in Procs, ComesOrGoes(i) \/ Calls(i), NEW r,
         \A s \in RunIds \ {r} : Untouched(s),
         \A j \in Procs \ {i} : mine[j] # NoRun => Untouched(mine[j]),
         r \in RunIds => CompleteAgrees(r)', MineAgrees(i)'
  PROVE  Agreed'
<1>1. ASSUME NEW s \in RunIds \ {r} PROVE CompleteAgrees(s)'
  BY DEF Untouched, Agreed, CompleteAgrees
<1>2. ASSUME NEW j \in Procs \ {i} PROVE MineAgrees(j)'
  <2>1. pc'[j] = pc[j] /\ mine'[j] = mine[j] /\ job'[j] = job[j]
    BY OthersKnow DEF Typed
  <2>2. CASE mine[j] = NoRun
    BY <2>1, <2>2 DEF MineAgrees
  <2>3. CASE mine[j] # NoRun
    <3>1. Untouched(mine[j]) /\ MineAgrees(j)
      BY <2>3 DEF Agreed
    <3> QED
      BY <2>1, <3>1 DEF Untouched, MineAgrees, WorkAgrees
  <2> QED
    BY <2>2, <2>3
<1> QED
  BY <1>1, <1>2 DEF Agreed

\* So does a step that touches no run at all.
LEMMA AgreedNowhere ==
  ASSUME Typed, Agreed, NEW i \in Procs, ComesOrGoes(i) \/ Calls(i),
         UNCHANGED <<index, files, removed>>, runDirs \subseteq runDirs', MineAgrees(i)'
  PROVE  Agreed'
<1>1. \A s : Untouched(s)
  BY DEF Untouched
<1>2. \A s \in RunIds : CompleteAgrees(s)'
  BY DEF Agreed, CompleteAgrees
<1> QED
  BY <1>1, <1>2, AgreedElsewhere

LEMMA AgreedCall ==
  ASSUME Typed, Typed', PlansHold, Owned, LockedCalls, Agreed, NEW i \in Procs, Calls(i)
  PROVE  Agreed'
<1> USE DEF Goto
<1>0. /\ index \in Runs /\ pc \in [Procs -> Phases] /\ mine \in [Procs -> RunIds \cup {NoRun}]
      /\ files \in [RunIds -> [Roles -> Hashes \cup {NoHash}]] /\ MineAgrees(i)
      /\ \A j \in Procs \ {i} : mine[j] # NoRun => mine[j] \in RunIds
  BY DEF Typed, TypeOK, Agreed
<1>1. ASSUME NEW r \in RunIds, NEW meta \in Metas, BeginRun(i, r, meta) PROVE Agreed'
  <2> DEFINE new == Begun(index, r, meta)
  <2>1. /\ r \notin used /\ index' = new /\ UNCHANGED <<files, removed, runDirs>>
        /\ pc'[i] = "making_dirs" /\ mine'[i] = r
    BY <1>0, <1>1 DEF BeginRun, FlushIndex, LockedCalls, history
  <2>2. /\ \A s \in RunIds \ {r} : new[s] = index[s]
        /\ new[r].status = "REGISTERING" /\ new \in Runs /\ new[r] # NoRun
        /\ \A role \in Roles : new[r].artifacts[role] = NoHash
    BY <1>0, BegunType
  <2> HIDE DEF new
  <2>3. \A s \in RunIds \ {r} : Untouched(s)
    BY <2>1, <2>2 DEF Untouched
  <2>4. \A j \in Procs \ {i} : mine[j] # NoRun => mine[j] \in RunIds \ {r}
    BY <1>0, <2>1 DEF Owned
  <2>5. CompleteAgrees(r)'
    BY <2>1, <2>2 DEF CompleteAgrees
  <2>6. files[r] = NoFiles
    BY <2>1 DEF Owned
  <2>7. new[r].artifacts = NoFiles
    BY <2>2 DEF NoFiles, Runs, RunRecord
  <2>8. MineAgrees(i)'
    BY <2>1, <2>6, <2>7 DEF MineAgrees, WorkAgrees
  <2> QED
    BY <1>1, <2>3, <2>4, <2>5, <2>8, AgreedElsewhere DEF Calls
<1>2. CASE MakeRunDir(i)
  <2>1. /\ UNCHANGED <<index, files, removed, mine>> /\ runDirs' = runDirs \cup {mine[i]}
        /\ pc[i] = "making_dirs" /\ pc'[i] = "idle"
    BY <1>0, <1>2 DEF MakeRunDir, history
  <2>2. MineAgrees(i)'
    BY <1>0, <2>1 DEF MineAgrees, WorkAgrees
  <2> QED
    BY <1>2, <2>1, <2>2, AgreedNowhere DEF Calls
<1>3. ASSUME NEW role \in Roles, NEW hash \in Hashes, PutBlob(i, role, hash) PROVE Agreed'
  <2>1. /\ UNCHANGED <<index, files, removed, mine, runDirs>>
        /\ pc[i] = "idle" /\ pc'[i] = "aliasing"
    BY <1>0, <1>3 DEF PutBlob, history
  <2>2. MineAgrees(i)'
    BY <1>0, <2>1 DEF MineAgrees, WorkAgrees
  <2> QED
    BY <1>3, <2>1, <2>2, AgreedNowhere DEF Calls
<1>4. CASE RecordAlias(i)
  <2>1. /\ UNCHANGED <<index, files, removed, mine, runDirs>>
        /\ pc[i] = "aliasing" /\ pc'[i] = "binding"
    BY <1>0, <1>4 DEF RecordAlias, history
  <2>2. MineAgrees(i)'
    BY <1>0, <2>1 DEF MineAgrees, WorkAgrees
  <2> QED
    BY <1>4, <2>1, <2>2, AgreedNowhere DEF Calls
<1>5. CASE AddArtifact(i)
  <2>0. PICK r \in RunIds, role \in Roles, hash \in Hashes :
          job[i].run = r /\ job[i].role = role /\ job[i].hash = hash
    BY <1>5 DEF AddArtifact, Typed, InCall
  <2> DEFINE new == Bound(index, r, role, hash)
  <2>1. IsRegistering(index, r) /\ mine[i] = r
    BY <1>5, <2>0 DEF AddArtifact, Owned, Registering
  <2>2. /\ index' = new /\ pc[i] = "binding" /\ pc'[i] = "materializing"
        /\ UNCHANGED <<files, job, mine, runDirs, removed>>
    BY <1>0, <1>5, <2>0 DEF AddArtifact, FlushIndex, LockedCalls
  <2>3. \A s \in RunIds \ {r} : new[s] = index[s]
    BY <1>0, <2>1, BoundType
  <2>4. new[r] # NoRun /\ new[r].status = "REGISTERING"
    BY <1>0, <2>1, BoundType
  <2>5. new[r].artifacts[role] = hash
    BY <1>0, <2>1, BoundRecord
  <2>6. \A x \in Roles \ {role} : new[r].artifacts[x] = index[r].artifacts[x]
    BY <1>0, <2>1, BoundRecord
  <2> HIDE DEF new
  <2>7. \A s \in RunIds \ {r} : Untouched(s)
    BY <2>2, <2>3 DEF Untouched
  <2>8. \A j \in Procs \ {i} : mine[j] # NoRun => mine[j] \in RunIds \ {r}
    BY <1>0, <2>1 DEF Owned
  <2>9. CompleteAgrees(r)'
    BY <2>2, <2>4 DEF CompleteAgrees
  <2>10. index[r] # NoRun
    BY <2>1 DEF IsRegistering
  <2>11. WorkAgrees(i, r)' \/ r \in removed' \/ r = NoRun
    <3>1. r \notin removed /\ r # NoRun => r \in runDirs /\ files[r] = index[r].artifacts
      BY <1>0, <2>1, <2>2, <2>10 DEF MineAgrees, WorkAgrees
    <3> QED
      BY <2>0, <2>2, <2>5, <2>6, <3>1 DEF WorkAgrees
  <2>12. MineAgrees(i)'
    BY <2>1, <2>2, <2>11 DEF MineAgrees
  <2> QED
    BY <1>5, <2>7, <2>8, <2>9, <2>12, AgreedElsewhere DEF Calls
<1>6. CASE Materialize(i)
  <2>0. PICK r \in RunIds, role \in Roles, hash \in Hashes :
          job[i].run = r /\ job[i].role = role /\ job[i].hash = hash
    BY <1>6 DEF Materialize, Typed, InCall
  <2>1. mine[i] = r /\ r # NoRun
    BY <1>6, <2>0 DEF Materialize, Owned, Registering
  <2>2. /\ files' = [files EXCEPT ![r][role] = hash] /\ runDirs' = runDirs \cup {r}
        /\ pc[i] = "materializing" /\ pc'[i] = "idle"
        /\ UNCHANGED <<index, mine, removed>>
    BY <1>0, <1>6, <2>0 DEF Materialize, history
  <2>3. \A s \in RunIds \ {r} : Untouched(s)
    BY <2>2 DEF Untouched
  <2>4. \A j \in Procs \ {i} : mine[j] # NoRun => mine[j] \in RunIds \ {r}
    BY <1>0, <2>1 DEF Owned
  <2>5. r \notin removed /\ index[r] # NoRun => files'[r] = index[r].artifacts /\ r \in runDirs'
    <3>1. SUFFICES ASSUME r \notin removed, index[r] # NoRun
                   PROVE  files'[r] = index[r].artifacts /\ r \in runDirs'
      OBVIOUS
    <3>2. index[r].artifacts \in [Roles -> Hashes \cup {NoHash}]
      BY <1>0, <2>1, <3>1 DEF Runs, RunRecord
    <3>3. /\ index[r].artifacts[role] = hash
          /\ \A x \in Roles \ {role} : files[r][x] = index[r].artifacts[x]
      BY <1>0, <2>0, <2>1, <2>2, <3>1 DEF MineAgrees, WorkAgrees
    <3>4. files'[r] = [files[r] EXCEPT ![role] = hash]
      BY <1>0, <2>2
    <3>5. files'[r] \in [Roles -> Hashes \cup {NoHash}]
      BY DEF Typed, TypeOK
    <3>6. \A x \in Roles : files'[r][x] = index[r].artifacts[x]
      BY <1>0, <3>3, <3>4
    <3> QED
      BY <2>2, <3>2, <3>5, <3>6
  <2>6. CompleteAgrees(r)'
    BY <2>2, <2>5 DEF CompleteAgrees
  <2>7. MineAgrees(i)'
    BY <2>1, <2>2, <2>5 DEF MineAgrees, WorkAgrees
  <2> QED
    BY <1>6, <2>3, <2>4, <2>6, <2>7, AgreedElsewhere DEF Calls
<1>7. CASE RegisterRaises(i)
  <2>1. UNCHANGED <<index, files, removed, mine, runDirs>> /\ pc'[i] = "raised"
    BY <1>0, <1>7 DEF RegisterRaises, disk
  <2>2. MineAgrees(i)'
    BY <2>1 DEF MineAgrees, WorkAgrees
  <2> QED
    BY <1>7, <2>1, <2>2, AgreedNowhere DEF Calls
<1>8. ASSUME NEW status \in FinalStatuses, FinalizeRun(i, status) PROVE Agreed'
  <2>0. PICK r \in RunIds : mine[i] = r /\ r # NoRun
    BY <1>0, <1>8 DEF FinalizeRun
  <2> DEFINE new == Finalized(index, r, status)
  <2>1. /\ IsRegistering(index, r) /\ index' = new
        /\ UNCHANGED <<files, removed, runDirs>> /\ mine'[i] = NoRun
        /\ pc[i] = "idle" \/ status = "FAILED"
    BY <1>0, <1>8, <2>0 DEF FinalizeRun, FlushIndex, LockedCalls, history
  <2>2. /\ \A s \in RunIds \ {r} : new[s] = index[s]
        /\ new[r].status = status /\ new[r].artifacts = index[r].artifacts
    BY <1>0, <2>1, FinalizedType
  <2> HIDE DEF new
  <2>3. \A s \in RunIds \ {r} : Untouched(s)
    BY <2>1, <2>2 DEF Untouched
  <2>4. \A j \in Procs \ {i} : mine[j] # NoRun => mine[j] \in RunIds \ {r}
    BY <1>0, <2>0 DEF Owned
  <2>5. pc[i] = "idle" /\ r \notin removed => r \in runDirs /\ files[r] = index[r].artifacts
    BY <1>0, <2>0, <2>1 DEF MineAgrees, WorkAgrees, IsRegistering
  <2>6. CompleteAgrees(r)'
    BY <2>1, <2>2, <2>5 DEF CompleteAgrees
  <2>7. MineAgrees(i)'
    BY <2>1 DEF MineAgrees
  <2> QED
    BY <1>8, <2>3, <2>4, <2>6, <2>7, AgreedElsewhere DEF Calls
<1>9. CASE PlanCleanup(i) \/ DropRaises(i) \/ EndCleanup(i)
  <2>1. /\ UNCHANGED <<index, files, removed, mine, runDirs>>
        /\ mine[i] = NoRun
    BY <1>0, <1>9 DEF PlanCleanup, DropRaises, EndCleanup, disk, history, Owned, Cleaning
  <2>2. MineAgrees(i)'
    BY <2>1 DEF MineAgrees
  <2> QED
    BY <1>9, <2>1, <2>2, AgreedNowhere DEF Calls
<1>10. ASSUME NEW r \in RunIds, RemoveRunDir(i, r) PROVE Agreed'
  <2>1. /\ UNCHANGED <<index, mine>> /\ removed' = removed \cup {r} /\ mine[i] = NoRun
        /\ files' = [files EXCEPT ![r] = NoFiles] /\ runDirs' = runDirs \ {r}
    BY <1>0, <1>10 DEF RemoveRunDir, Owned, Cleaning
  <2>2. \A s \in RunIds : Untouched(s)
    BY <1>0, <2>1 DEF Untouched
  <2>3. CompleteAgrees(r)' /\ MineAgrees(i)'
    BY <2>1 DEF CompleteAgrees, MineAgrees
  <2> QED
    BY <1>0, <1>10, <2>2, <2>3, AgreedElsewhere DEF Calls
<1>11. CASE DropRun(i)
  <2>0. PICK r \in RunIds : job[i].run = r
    BY <1>11 DEF DropRun, Typed, TypeOK, InCall
  <2>1. /\ index' = Deleted(index, r) /\ mine' = mine /\ mine[i] = NoRun
        /\ UNCHANGED <<files, removed, runDirs>>
    BY <1>0, <1>11, <2>0 DEF DropRun, FlushIndex, LockedCalls, history, Owned, Cleaning
  <2>2. (\A s \in RunIds \ {r} : index'[s] = index[s]) /\ index'[r] = NoRun
    BY <1>0, <2>1, DeletedType
  <2>3. \A s \in RunIds : Untouched(s)
    BY <2>1, <2>2 DEF Untouched
  <2>4. CompleteAgrees(r)' /\ MineAgrees(i)'
    BY <2>1, <2>2 DEF CompleteAgrees, MineAgrees
  <2> QED
    BY <1>0, <1>11, <2>3, <2>4, AgreedElsewhere DEF Calls
<1>12. ASSUME NEW hash \in Hashes, DeleteBlob(i, hash) PROVE Agreed'
  <2>1. /\ UNCHANGED <<index, files, removed, mine, runDirs>> /\ mine[i] = NoRun
    BY <1>0, <1>12 DEF DeleteBlob, history, Owned, Cleaning
  <2>2. MineAgrees(i)'
    BY <2>1 DEF MineAgrees
  <2> QED
    BY <1>12, <2>1, <2>2, AgreedNowhere DEF Calls
<1> QED
  BY <1>1, <1>2, <1>3, <1>4, <1>5, <1>6, <1>7, <1>8, <1>9, <1>10, <1>11, <1>12 DEF Calls

LEMMA AgreedStep ==
  ASSUME Typed, Typed', PlansHold, Owned, LockedCalls, Agreed, [Next]_vars
  PROVE  Agreed'
<1>1. ASSUME NEW i \in Procs, ComesOrGoes(i) PROVE Agreed'
  <2>1. UNCHANGED <<index, files, removed, runDirs>>
    BY <1>1 DEF ComesOrGoes, Open, Exit, Kill, End, FinalizeRaises, disk, history
  <2>2. mine'[i] = NoRun \/ pc'[i] = "raised"
    BY <1>1 DEF ComesOrGoes, Open, Exit, Kill, End, FinalizeRaises, Goto, Owned, Typed, TypeOK
  <2>3. MineAgrees(i)'
    BY <2>2 DEF MineAgrees, WorkAgrees
  <2> QED
    BY <1>1, <2>1, <2>3, AgreedNowhere
<1>2. ASSUME UNCHANGED <<index, files, removed, runDirs, pc, mine, job>> PROVE Agreed'
  BY <1>2 DEF Agreed, CompleteAgrees, MineAgrees, WorkAgrees
<1>3. ASSUME NEW r \in RunIds, PinRun(r) PROVE Agreed'
  BY <1>2, <1>3 DEF PinRun, local, history
<1>4. CASE UNCHANGED vars
  BY <1>2, <1>4 DEF vars, local, disk, history
<1> QED
  BY <1>1, <1>3, <1>4, AgreedCall, WhoActs

LEMMA AgreedAlways == Spec => [](LockedCalls => Agreed)
<1>1. Init => Agreed
  BY NoRunsType DEF Init, Agreed, CompleteAgrees, MineAgrees
<1>2. /\ Typed /\ Typed' /\ PlansHold /\ Owned /\ (LockedCalls => Agreed) /\ [Next]_vars
      => (LockedCalls => Agreed)'
  <2>1. [Next]_vars => (LockedCalls' => LockedCalls)
    BY Unchanging DEF LockedCalls
  <2> QED
    BY <2>1, AgreedStep
<1> QED
  BY <1>1, <1>2, TypedAlways, PlansHoldAlways, OwnedAlways, PTL DEF Spec

(* A COMPLETE run that no cleanup has begun to remove has exactly the      *)
(* files its index entry names, although binding and materializing are two *)
(* effects between which a process can die (register_payload).             *)
THEOREM MaterializedHolds == Spec => []CompleteMaterialized
<1>1. (LockedCalls => Agreed) => CompleteMaterialized
  BY DEF Agreed, CompleteAgrees, CompleteMaterialized
<1> QED
  BY <1>1, AgreedAlways, PTL

-----------------------------------------------------------------------------
(* No blob is forgotten: a process that puts one in the store knows it     *)
(* until the index refers to it, and a cleanup knows what the runs it is   *)
(* about to drop referred to and nothing else does.                        *)
Held == UNION {Lost(i) : i \in Procs}

Accounted == store \subseteq CasFor(index, RunIds) \cup orphans \cup Held

TidyFor(i) ==
  /\ pc[i] \notin Registering => job[i].hash = NoHash
  /\ pc[i] \notin Cleaning => doomed[i] = {}
  /\ pc[i] = "materializing" => job[i].hash \in CasFor(index, RunIds)
  /\ pc[i] \in Cleaning
       => CasFor(index, victims[i]) \subseteq doomed[i] \cup CasFor(index, RunIds \ victims[i])

Tidy == Accounted /\ \A i \in Procs : TidyFor(i)

\* It is enough to account for what the acting process held and for what the index held.
LEMMA AccountedBy ==
  ASSUME TypeOK, NEW i \in Procs, ComesOrGoes(i) \/ Calls(i), Accounted,
         orphans \subseteq orphans', store' \subseteq store \cup Lost(i)',
         (CasFor(index, RunIds) \cup Lost(i)) \cap store'
           \subseteq CasFor(index', RunIds) \cup orphans' \cup Lost(i)'
  PROVE  Accounted'
<1>1. \A j \in Procs \ {i} : Lost(j)' = Lost(j)
  BY OthersKnow DEF Lost
<1>2. Held \subseteq Held' \cup Lost(i) /\ Lost(i)' \subseteq Held'
  BY <1>1 DEF Held
<1> QED
  BY <1>2 DEF Accounted

LEMMA TidyCall ==
  ASSUME Typed, Typed', PlansHold, LockedCalls, Tidy, NEW i \in Procs, Calls(i)
  PROVE  Accounted' /\ TidyFor(i)'
<1> USE DEF Goto, Registering, Cleaning
<1>0. /\ index \in Runs /\ pc \in [Procs -> Phases] /\ TidyFor(i) /\ Accounted /\ TypeOK
      /\ doomed \in [Procs -> SUBSET Hashes] /\ victims \in [Procs -> SUBSET RunIds]
  BY DEF Typed, TypeOK, Tidy
<1>1. ASSUME NEW r \in RunIds, NEW meta \in Metas, BeginRun(i, r, meta)
      PROVE  Accounted' /\ TidyFor(i)'
  <2>1. index[r] = NoRun
    BY <1>1 DEF BeginRun, PlansHold, Known
  <2>2. /\ index' = Begun(index, r, meta) /\ UNCHANGED <<store, orphans, job, doomed>>
        /\ pc[i] = "idle" /\ pc'[i] = "making_dirs"
    BY <1>0, <1>1 DEF BeginRun, FlushIndex, LockedCalls, history
  <2>3. CasFor(index', RunIds) = CasFor(index, RunIds)
    BY <1>0, <2>1, <2>2, CasForBegun
  <2>4. Accounted'
    BY <1>0, <1>1, <2>2, <2>3, AccountedBy DEF Calls, Lost
  <2> QED
    BY <1>0, <2>2, <2>4 DEF TidyFor
<1>2. CASE MakeRunDir(i) \/ RecordAlias(i)
  <2>1. /\ UNCHANGED <<index, store, orphans, job, doomed>>
        /\ \/ pc[i] = "making_dirs" /\ pc'[i] = "idle"
           \/ pc[i] = "aliasing" /\ pc'[i] = "binding"
    BY <1>0, <1>2 DEF MakeRunDir, RecordAlias, history
  <2>2. Accounted'
    BY <1>0, <1>2, <2>1, AccountedBy DEF Calls, Lost
  <2> QED
    BY <1>0, <2>1, <2>2 DEF TidyFor
<1>3. ASSUME NEW role \in Roles, NEW hash \in Hashes, PutBlob(i, role, hash)
      PROVE  Accounted' /\ TidyFor(i)'
  <2>1. /\ UNCHANGED <<index, orphans, doomed>> /\ store' = store \cup {hash}
        /\ pc[i] = "idle" /\ pc'[i] = "aliasing" /\ job'[i].hash = hash
    BY <1>0, <1>3 DEF PutBlob, history, TypeOK
  <2>2. Lost(i) = {} /\ hash \in Lost(i)'
    BY <1>0, <2>1, NoHashAssumption DEF TidyFor, Lost
  <2>3. Accounted'
    BY <1>0, <1>3, <2>1, <2>2, AccountedBy DEF Calls
  <2> QED
    BY <1>0, <2>1, <2>3 DEF TidyFor
<1>4. CASE AddArtifact(i)
  <2>0. PICK r \in RunIds, role \in Roles, hash \in Hashes :
          job[i].run = r /\ job[i].role = role /\ job[i].hash = hash
    BY <1>4 DEF AddArtifact, Typed, InCall
  <2>1. /\ IsRegistering(index, r) /\ index' = Bound(index, r, role, hash)
        /\ orphans' = orphans \cup ({index[r].artifacts[role]} \ {NoHash, hash})
        /\ UNCHANGED <<store, job, doomed>> /\ pc[i] = "binding" /\ pc'[i] = "materializing"
    BY <1>0, <1>4, <2>0 DEF AddArtifact, FlushIndex, LockedCalls
  <2>2. /\ hash \in CasFor(index', RunIds)
        /\ CasFor(index, RunIds) \subseteq CasFor(index', RunIds)
                                           \cup {index[r].artifacts[role]}
    BY <1>0, <2>1, CasForBound
  <2>3. CasFor(index, RunIds) \subseteq CasFor(index', RunIds) \cup orphans'
    BY <2>1, <2>2, NoHashAssumption DEF CasFor
  <2>4. Lost(i)' = Lost(i)
    BY <2>1 DEF Lost
  <2>5. Accounted'
    BY <1>0, <1>4, <2>1, <2>3, <2>4, AccountedBy DEF Calls
  <2> QED
    BY <1>0, <2>0, <2>1, <2>2, <2>5 DEF TidyFor
<1>5. CASE Materialize(i)
  <2>1. /\ UNCHANGED <<index, store, orphans, doomed>> /\ job'[i].hash = NoHash
        /\ pc[i] = "materializing" /\ pc'[i] = "idle"
    BY <1>0, <1>5 DEF Materialize, history, NoJob, TypeOK
  <2>2. Lost(i) \subseteq CasFor(index, RunIds)
    BY <1>0, <2>1 DEF TidyFor, Lost
  <2>3. Accounted'
    BY <1>0, <1>5, <2>1, <2>2, AccountedBy DEF Calls
  <2> QED
    BY <1>0, <2>1, <2>3 DEF TidyFor
<1>6. CASE RegisterRaises(i) \/ DropRaises(i)
  <2>1. /\ UNCHANGED <<index, store>> /\ orphans' = orphans \cup Lost(i)
        /\ job'[i].hash = NoHash /\ pc'[i] = "raised"
        /\ doomed'[i] = {} \/ (doomed' = doomed /\ pc[i] \notin Cleaning)
    BY <1>0, <1>6 DEF RegisterRaises, DropRaises, disk, NoJob, TypeOK
  <2>2. Accounted'
    BY <1>0, <1>6, <2>1, AccountedBy DEF Calls
  <2> QED
    BY <1>0, <2>1, <2>2 DEF TidyFor
<1>7. ASSUME NEW status \in FinalStatuses, FinalizeRun(i, status)
      PROVE  Accounted' /\ TidyFor(i)'
  <2>1. /\ mine[i] \in RunIds /\ IsRegistering(index, mine[i])
        /\ index' = Finalized(index, mine[i], status)
        /\ UNCHANGED <<store, orphans, job, doomed, pc>> /\ pc[i] \in {"idle", "raised"}
    BY <1>0, <1>7 DEF FinalizeRun, FlushIndex, LockedCalls, Typed, TypeOK, history
  <2>2. CasFor(index', RunIds) = CasFor(index, RunIds)
    BY <1>0, <2>1, CasForFinalized
  <2>3. Accounted'
    BY <1>0, <1>7, <2>1, <2>2, AccountedBy DEF Calls, Lost
  <2> QED
    BY <1>0, <2>1, <2>3 DEF TidyFor
<1>8. CASE PlanCleanup(i)
  <2> DEFINE planned == Known \ Retained
  <2>1. /\ UNCHANGED <<index, store, orphans, job>> /\ pc[i] = "idle" /\ pc'[i] = "cleaning"
        /\ victims'[i] = planned
        /\ doomed'[i] = CasFor(index, planned) \ CasFor(index, Retained)
    BY <1>0, <1>8 DEF PlanCleanup, disk, history
  <2>2. Lost(i) = {}
    BY <1>0, <2>1 DEF TidyFor, Lost
  <2>3. Accounted'
    BY <1>0, <1>8, <2>1, <2>2, AccountedBy DEF Calls
  <2>4. CasFor(index, planned)
          \subseteq doomed'[i] \cup CasFor(index, RunIds \ planned)
    BY <2>1, PlanSpares
  <2> QED
    BY <1>0, <2>1, <2>3, <2>4 DEF TidyFor
<1>9. ASSUME NEW r \in RunIds, RemoveRunDir(i, r) PROVE Accounted' /\ TidyFor(i)'
  <2>1. /\ UNCHANGED <<index, store, orphans, doomed, victims>> /\ job'[i].hash = job[i].hash
        /\ pc[i] = "cleaning" /\ pc'[i] = "dropping"
    BY <1>0, <1>9 DEF RemoveRunDir, TypeOK
  <2>2. Lost(i)' = Lost(i)
    BY <2>1 DEF Lost
  <2>3. Accounted'
    BY <1>0, <1>9, <2>1, <2>2, AccountedBy DEF Calls
  <2> QED
    BY <1>0, <2>1, <2>3 DEF TidyFor
<1>10. CASE DropRun(i)
  <2>0. PICK r \in RunIds : job[i].run = r /\ r \in victims[i]
    BY <1>0, <1>10 DEF DropRun, Typed, InCall
  <2>1. /\ index' = Deleted(index, r) /\ UNCHANGED <<store, orphans, doomed>>
        /\ job'[i].hash = NoHash /\ victims'[i] = victims[i] \ {r}
        /\ pc[i] = "dropping" /\ pc'[i] = "cleaning" /\ victims[i] \in SUBSET RunIds
    BY <1>0, <1>10, <2>0 DEF DropRun, FlushIndex, LockedCalls, history, NoJob, TypeOK
  <2>2. /\ CasFor(index', RunIds) = CasFor(index, RunIds \ {r})
        /\ CasFor(index', victims'[i]) = CasFor(index, victims'[i] \ {r})
        /\ CasFor(index', RunIds \ victims'[i]) = CasFor(index, (RunIds \ victims'[i]) \ {r})
    BY <1>0, <2>1, CasForDeleted
  <2>3. /\ CasFor(index, RunIds) = CasFor(index, victims[i]) \cup CasFor(index, RunIds \ victims[i])
        /\ CasFor(index, RunIds \ victims[i]) \subseteq CasFor(index, RunIds \ {r})
        /\ CasFor(index, victims'[i] \ {r}) \subseteq CasFor(index, victims[i])
        /\ (RunIds \ victims'[i]) \ {r} = RunIds \ victims[i]
    BY <2>0, <2>1, CasForParts DEF CasFor
  <2>4. CasFor(index, victims[i]) \subseteq doomed[i] \cup CasFor(index, RunIds \ victims[i])
    BY <1>0, <2>1 DEF TidyFor
  <2>5. job[i].hash = NoHash /\ Lost(i) = doomed[i] /\ Lost(i)' = doomed[i]
    BY <1>0, <2>1 DEF TidyFor, Lost
  <2>6. Accounted'
    BY <1>0, <1>10, <2>1, <2>2, <2>3, <2>4, <2>5, AccountedBy, ZenonT(60) DEF Calls
  <2> QED
    BY <1>0, <2>1, <2>2, <2>3, <2>4, <2>6 DEF TidyFor
<1>11. ASSUME NEW hash \in Hashes, DeleteBlob(i, hash) PROVE Accounted' /\ TidyFor(i)'
  <2>1. /\ UNCHANGED <<index, orphans, job, pc, victims>> /\ store' = store \ {hash}
        /\ doomed'[i] = doomed[i] \ {hash} /\ victims[i] = {} /\ pc[i] = "cleaning"
    BY <1>0, <1>11 DEF DeleteBlob, history
  <2>2. Lost(i) \ {hash} \subseteq Lost(i)'
    BY <2>1 DEF Lost
  <2>3. Accounted'
    BY <1>0, <1>11, <2>1, <2>2, AccountedBy DEF Calls
  <2>4. CasFor(index, victims[i]) = {}
    BY <2>1 DEF CasFor
  <2> QED
    BY <1>0, <2>1, <2>3, <2>4 DEF TidyFor
<1>12. CASE EndCleanup(i)
  <2>1. /\ UNCHANGED <<index, store, orphans, job, doomed>> /\ doomed[i] = {}
        /\ pc[i] = "cleaning" /\ pc'[i] = "idle"
    BY <1>0, <1>12 DEF EndCleanup, disk, history
  <2>2. Accounted'
    BY <1>0, <1>12, <2>1, AccountedBy DEF Calls, Lost
  <2> QED
    BY <1>0, <2>1, <2>2 DEF TidyFor
<1> QED
  BY <1>1, <1>2, <1>3, <1>4, <1>5, <1>6, <1>7, <1>8, <1>9, <1>10, <1>11, <1>12 DEF Calls

LEMMA TidyStep ==
  ASSUME Typed, Typed', PlansHold, Exclusive, LockedCalls, Tidy, [Next]_vars
  PROVE  Tidy'
<1>1. ASSUME NEW i \in Procs, Calls(i) PROVE Tidy'
  <2>1. OthersOutside(i)'
    BY <1>1, OnlyOneCalls DEF Typed, LockedCalls
  <2>2. Accounted' /\ TidyFor(i)'
    BY <1>1, TidyCall
  <2>3. ASSUME NEW j \in Procs \ {i} PROVE TidyFor(j)'
    <3>1. /\ pc'[j] = pc[j] /\ job'[j] = job[j] /\ doomed'[j] = doomed[j]
          /\ pc'[j] \in Outside /\ TidyFor(j)
      BY <1>1, <2>1, OthersKnow DEF OthersOutside, Typed, Tidy
    <3> QED
      BY <3>1 DEF TidyFor, Outside, Registering, Cleaning
  <2> QED
    BY <2>2, <2>3 DEF Tidy
<1>2. ASSUME NEW i \in Procs, ComesOrGoes(i) PROVE Tidy'
  <2>1. /\ UNCHANGED <<index, store>> /\ pc'[i] \in Outside
        /\ \/ /\ orphans' = orphans \cup Lost(i) /\ job'[i].hash = NoHash /\ doomed'[i] = {}
           \/ UNCHANGED <<orphans, job, doomed>> /\ pc[i] \in Outside
    BY <1>2 DEF ComesOrGoes, Open, Exit, Kill, End, FinalizeRaises, disk, history, Goto,
       Outside, NoJob, Typed, TypeOK
  <2>2. Accounted'
    BY <1>2, <2>1, AccountedBy DEF Tidy, Typed, Lost
  <2>3. TidyFor(i)'
    BY <2>1 DEF Tidy, TidyFor, Outside, Registering, Cleaning
  <2>4. \A j \in Procs \ {i} : TidyFor(j)'
    BY <1>2, <2>1, OthersKnow DEF Tidy, TidyFor, Typed
  <2> QED
    BY <2>2, <2>3, <2>4 DEF Tidy
<1>3. ASSUME UNCHANGED <<index, store, orphans, pc, job, victims, doomed>> PROVE Tidy'
  BY <1>3 DEF Tidy, Accounted, Held, Lost, TidyFor
<1>4. ASSUME NEW r \in RunIds, PinRun(r) PROVE Tidy'
  BY <1>3, <1>4 DEF PinRun, local, history
<1>5. CASE UNCHANGED vars
  BY <1>3, <1>5 DEF vars, local, disk, history
<1> QED
  BY <1>1, <1>2, <1>4, <1>5, WhoActs

(* Every blob of the store is referred to, or known to the process that    *)
(* registers or deletes it, or was replaced or lost with a process:        *)
(* cleanup leaves nothing behind (ArtifactRegistry.cleanup).               *)
THEOREM NoGarbageHolds == Spec => []NoGarbage
<1>1. Init => Tidy
  BY DEF Init, Tidy, Accounted, TidyFor, Registering, Cleaning, NoJob
<1>2. /\ Typed /\ Typed' /\ PlansHold /\ Exclusive /\ (LockedCalls => Tidy) /\ [Next]_vars
      => (LockedCalls => Tidy)'
  <2>1. [Next]_vars => (LockedCalls' => LockedCalls)
    BY Unchanging DEF LockedCalls
  <2> QED
    BY <2>1, TidyStep
<1>3. (LockedCalls => Tidy) => NoGarbage
  BY DEF Tidy, Accounted, Held, NoGarbage
<1> QED
  BY <1>1, <1>2, <1>3, TypedAlways, PlansHoldAlways, ExclusiveAlways, PTL DEF Spec

-----------------------------------------------------------------------------
(* Processes that take turns: the one that has opened the registry has the *)
(* alias index in memory as it is in the file, and an alias is recorded    *)
(* before its blob is bound.                                               *)
TakeTurns == scenario.lock = "session" /\ ~scenario.faulty

AliasFor(i) ==
  /\ pc[i] \in {"binding", "materializing"} => job[i].hash \in aliasFile
  /\ pc[i] # "down" => aliases[i] = aliasFile

Aliased == CasFor(index, RunIds) \subseteq aliasFile /\ \A i \in Procs : AliasFor(i)

LEMMA OthersDown ==
  ASSUME Typed, Exclusive, TakeTurns, NEW i \in Procs, Open(i) \/ pc[i] # "down",
         NEW j \in Procs \ {i}
  PROVE  pc[j] = "down"
BY NoProcAssumption DEF Exclusive, TakeTurns, Open

LEMMA AliasedStep ==
  ASSUME Typed, Typed', PlansHold, Exclusive, TakeTurns, Aliased, [Next]_vars
  PROVE  Aliased'
<1> USE DEF Goto
<1>0. /\ index \in Runs /\ pc \in [Procs -> Phases] /\ aliases \in [Procs -> SUBSET Hashes]
      /\ scenario.lock = "session" /\ ~scenario.faulty /\ LockedCalls
      /\ \A i \in Procs : AliasFor(i)
  BY DEF Typed, TypeOK, TakeTurns, LockedCalls, Aliased
<1>1. ASSUME NEW i \in Procs, ComesOrGoes(i) \/ Calls(i),
             CasFor(index', RunIds) \subseteq aliasFile', AliasFor(i)'
      PROVE  Aliased'
  <2>1. Open(i) \/ pc[i] # "down"
    BY <1>1 DEF ComesOrGoes, Exit, Kill, FinalizeRaises, Calls, BeginRun, MakeRunDir, PutBlob,
       RecordAlias, AddArtifact, Materialize, RegisterRaises, FinalizeRun, PlanCleanup,
       RemoveRunDir, DropRun, DropRaises, DeleteBlob, EndCleanup
  <2>2. \A j \in Procs \ {i} : pc'[j] = "down"
    BY <1>1, <2>1, OthersDown, OthersKnow DEF Typed
  <2> QED
    BY <1>1, <2>2 DEF Aliased, AliasFor
<1>2. ASSUME NEW i \in Procs, ComesOrGoes(i) PROVE Aliased'
  <2>1. UNCHANGED <<index, aliasFile>> /\ AliasFor(i)'
    BY <1>0, <1>2 DEF ComesOrGoes, Open, Exit, Kill, End, FinalizeRaises, disk, AliasFor
  <2> QED
    BY <1>1, <1>2, <2>1 DEF Aliased
<1>3. ASSUME NEW i \in Procs, NEW r \in RunIds, NEW meta \in Metas, BeginRun(i, r, meta)
      PROVE  Aliased'
  <2>1. index[r] = NoRun
    BY <1>3 DEF BeginRun, PlansHold, Known
  <2>2. /\ index' = Begun(index, r, meta) /\ UNCHANGED <<aliasFile, aliases>>
        /\ pc[i] = "idle" /\ pc'[i] = "making_dirs"
    BY <1>0, <1>3 DEF BeginRun, FlushIndex
  <2>3. CasFor(index', RunIds) = CasFor(index, RunIds)
    BY <1>0, <2>1, <2>2, CasForBegun
  <2>4. AliasFor(i)'
    BY <1>0, <2>2 DEF AliasFor
  <2> QED
    BY <1>1, <1>3, <2>2, <2>3, <2>4 DEF Aliased, Calls
<1>4. ASSUME NEW i \in Procs, RecordAlias(i) PROVE Aliased'
  <2>1. /\ aliases[i] = aliasFile /\ aliasFile' = aliasFile \cup {job[i].hash}
        /\ aliases'[i] = aliasFile' /\ UNCHANGED <<index, job>> /\ pc'[i] = "binding"
    BY <1>0, <1>4 DEF RecordAlias, AliasFor
  <2>2. AliasFor(i)' /\ CasFor(index', RunIds) \subseteq aliasFile'
    BY <2>1 DEF AliasFor, Aliased
  <2> QED
    BY <1>1, <1>4, <2>2 DEF Calls
<1>5. ASSUME NEW i \in Procs, AddArtifact(i) PROVE Aliased'
  <2>0. PICK r \in RunIds, role \in Roles, hash \in Hashes :
          job[i].run = r /\ job[i].role = role /\ job[i].hash = hash
    BY <1>5 DEF AddArtifact, Typed, InCall
  <2>1. /\ IsRegistering(index, r) /\ index' = Bound(index, r, role, hash)
        /\ UNCHANGED <<aliasFile, aliases, job>> /\ hash \in aliasFile
        /\ pc[i] = "binding" /\ pc'[i] = "materializing"
    BY <1>0, <1>5, <2>0 DEF AddArtifact, FlushIndex, AliasFor
  <2>2. CasFor(index', RunIds) \subseteq CasFor(index, RunIds) \cup {hash}
    BY <1>0, <2>1, CasForBound
  <2>3. AliasFor(i)'
    BY <1>0, <2>0, <2>1 DEF AliasFor
  <2> QED
    BY <1>1, <1>5, <2>1, <2>2, <2>3 DEF Aliased, Calls
<1>6. ASSUME NEW i \in Procs, NEW status \in FinalStatuses, FinalizeRun(i, status)
      PROVE  Aliased'
  <2>1. /\ mine[i] \in RunIds /\ IsRegistering(index, mine[i])
        /\ index' = Finalized(index, mine[i], status)
        /\ UNCHANGED <<aliasFile, aliases, job, pc>>
    BY <1>0, <1>6 DEF FinalizeRun, FlushIndex, Typed, TypeOK
  <2>2. CasFor(index', RunIds) = CasFor(index, RunIds)
    BY <1>0, <2>1, CasForFinalized
  <2>3. AliasFor(i)'
    BY <1>0, <2>1 DEF AliasFor
  <2> QED
    BY <1>1, <1>6, <2>1, <2>2, <2>3 DEF Aliased, Calls
<1>7. ASSUME NEW i \in Procs, DropRun(i) PROVE Aliased'
  <2>0. PICK r \in RunIds : job[i].run = r
    BY <1>7 DEF DropRun, Typed, TypeOK, InCall
  <2>1. /\ index' = Deleted(index, r) /\ UNCHANGED <<aliasFile, aliases>>
        /\ pc[i] = "dropping" /\ pc'[i] = "cleaning"
    BY <1>0, <1>7, <2>0 DEF DropRun, FlushIndex
  <2>2. CasFor(index', RunIds) \subseteq CasFor(index, RunIds)
    <3>1. CasFor(index', RunIds) = CasFor(index, RunIds \ {r})
      BY <1>0, <2>1, CasForDeleted
    <3>2. CasFor(index, RunIds \ {r}) \subseteq CasFor(index, RunIds)
      BY DEF CasFor
    <3> QED
      BY <3>1, <3>2
  <2>3. AliasFor(i)'
    BY <1>0, <2>1 DEF AliasFor
  <2> QED
    BY <1>1, <1>7, <2>1, <2>2, <2>3 DEF Aliased, Calls
<1>8. ASSUME NEW i \in Procs, UNCHANGED <<index, aliasFile, aliases>>, Calls(i),
             pc[i] # "down", pc'[i] \in {"binding", "materializing"} => FALSE
      PROVE  Aliased'
  <2>1. AliasFor(i)'
    BY <1>0, <1>8 DEF AliasFor
  <2> QED
    BY <1>1, <1>8, <2>1 DEF Aliased
<1>9. ASSUME NEW i \in Procs, MakeRunDir(i) \/ Materialize(i) \/ RegisterRaises(i)
                               \/ PlanCleanup(i) \/ DropRaises(i) \/ EndCleanup(i)
      PROVE  Aliased'
  BY <1>0, <1>8, <1>9 DEF Calls, MakeRunDir, Materialize, RegisterRaises, PlanCleanup,
     DropRaises, EndCleanup, disk
<1>10. ASSUME NEW i \in Procs, NEW role \in Roles, NEW hash \in Hashes, PutBlob(i, role, hash)
       PROVE  Aliased'
  BY <1>0, <1>8, <1>10 DEF Calls, PutBlob
<1>11. ASSUME NEW i \in Procs, NEW r \in RunIds, RemoveRunDir(i, r) PROVE Aliased'
  BY <1>0, <1>8, <1>11 DEF Calls, RemoveRunDir
<1>12. ASSUME NEW i \in Procs, NEW hash \in Hashes, DeleteBlob(i, hash) PROVE Aliased'
  BY <1>0, <1>8, <1>12 DEF Calls, DeleteBlob
<1>13. ASSUME NEW i \in Procs, Calls(i) PROVE Aliased'
  <2> HIDE DEF Goto
  <2> QED
    BY <1>3, <1>4, <1>5, <1>6, <1>7, <1>9, <1>10, <1>11, <1>12, <1>13 DEF Calls
<1>14. ASSUME UNCHANGED <<index, aliasFile, aliases, pc, job>> PROVE Aliased'
  BY <1>14 DEF Aliased, AliasFor
<1>15. ASSUME NEW r \in RunIds, PinRun(r) PROVE Aliased'
  BY <1>14, <1>15 DEF PinRun, local
<1>16. CASE UNCHANGED vars
  BY <1>14, <1>16 DEF vars, local, disk
<1> QED
  BY <1>2, <1>13, <1>15, <1>16, WhoActs

(* For processes that take turns every artifact of a COMPLETE run resolves *)
(* in the file and in memory, wherever they are killed (resolve,           *)
(* LocalCAS._load_attest_index, _record_attest_alias).                     *)
THEOREM SessionsResolveHolds == Spec => []SessionsResolve
<1>1. Init => Aliased
  <2>1. Init => CasFor(index, RunIds) = {}
    BY NoRunsType DEF Init, CasFor
  <2> QED
    BY <2>1 DEF Init, Aliased, AliasFor
<1>2. /\ Typed /\ Typed' /\ PlansHold /\ Exclusive /\ (TakeTurns => Aliased) /\ [Next]_vars
      => (TakeTurns => Aliased)'
  <2>1. [Next]_vars => (TakeTurns' => TakeTurns)
    BY Unchanging DEF TakeTurns
  <2> QED
    BY <2>1, AliasedStep
<1>3. Typed /\ (LockedCalls => Stored) /\ (TakeTurns => Aliased) => SessionsResolve
  <2> SUFFICES ASSUME Typed, Stored, Aliased, NEW r \in RunIds, NEW role \in Roles,
                      index[r] # NoRun, index[r].artifacts[role] # NoHash
               PROVE  /\ Resolves(aliasFile, index[r].artifacts[role])
                      /\ \A i \in Procs :
                           pc[i] # "down" => Resolves(aliases[i], index[r].artifacts[role])
    BY DEF SessionsResolve, CompleteResolves, TakeTurns, LockedCalls
  <2>1. index[r].artifacts[role] \in Hashes
    BY DEF Typed, TypeOK, Runs, RunRecord
  <2>2. index[r].artifacts[role] \in CasFor(index, RunIds)
    BY <2>1 DEF CasFor
  <2> QED
    BY <2>2 DEF Stored, Aliased, AliasFor, Resolves
<1> QED
  BY <1>1, <1>2, <1>3, TypedAlways, PlansHoldAlways, ExclusiveAlways, StoredAlways, PTL DEF Spec
=============================================================================
