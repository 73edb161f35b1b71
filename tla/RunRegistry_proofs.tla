------------------------- MODULE RunRegistry_proofs -------------------------
(***************************************************************************)
(* Proofs about RunRegistry for every set of processes, runs, roles and    *)
(* hashes.                                                                 *)
(***************************************************************************)
EXTENDS RunRegistry, TLAPS

-----------------------------------------------------------------------------
(* Each dictionary operation of run_registry.py yields a dictionary of run *)
(* records and leaves every other run as it was.                           *)
LEMMA BegunType ==
  ASSUME NEW D \in Runs, NEW r \in RunIds, NEW meta \in Metas
  PROVE  /\ Begun(D, r, meta) \in Runs
         /\ \A s \in RunIds \ {r} : Begun(D, r, meta)[s] = D[s]
         /\ Begun(D, r, meta)[r] # NoRun
         /\ Begun(D, r, meta)[r].status = "REGISTERING"
         /\ Begun(D, r, meta)[r].metadata = meta
         /\ \A role \in Roles : Begun(D, r, meta)[r].artifacts[role] = NoHash
<1> DEFINE rec == [status    |-> "REGISTERING",
                   artifacts |-> [role \in Roles |-> NoHash],
                   metadata  |-> meta]
<1>1. rec \in RunRecord
  BY DEF RunRecord, RunStatus
<1>2. rec # NoRun
  BY <1>1, NoRunAssumption
<1>3. Begun(D, r, meta) = [D EXCEPT ![r] = rec]
  BY DEF Begun
<1> HIDE DEF rec
<1>4. /\ Begun(D, r, meta) \in Runs
      /\ Begun(D, r, meta)[r] = rec
      /\ \A s \in RunIds \ {r} : Begun(D, r, meta)[s] = D[s]
  BY <1>1, <1>3 DEF Runs
<1>5. /\ rec.status = "REGISTERING" /\ rec.metadata = meta
      /\ \A role \in Roles : rec.artifacts[role] = NoHash
  BY DEF rec
<1>6. QED
  BY <1>2, <1>4, <1>5

(* add_artifact: the record stays a record and the bound roles stay bound. *)
LEMMA BoundType ==
  ASSUME NEW D \in Runs, NEW r \in RunIds, NEW role \in Roles, NEW hash \in Hashes,
         IsRegistering(D, r)
  PROVE  /\ Bound(D, r, role, hash) \in Runs
         /\ \A s \in RunIds \ {r} : Bound(D, r, role, hash)[s] = D[s]
         /\ Bound(D, r, role, hash)[r] # NoRun
         /\ Bound(D, r, role, hash)[r].status = "REGISTERING"
         /\ \A x \in Roles : D[r].artifacts[x] # NoHash
                               => Bound(D, r, role, hash)[r].artifacts[x] # NoHash
<1> DEFINE rec == [D[r] EXCEPT !.artifacts = [@ EXCEPT ![role] = hash]]
<1>1. D[r] \in RunRecord
  BY DEF Runs, IsRegistering
<1>2. rec \in RunRecord /\ rec.status = D[r].status
  BY <1>1 DEF RunRecord
<1>3. \A x \in Roles : D[r].artifacts[x] # NoHash => rec.artifacts[x] # NoHash
  BY <1>1, NoHashAssumption DEF RunRecord
<1>4. rec # NoRun
  BY <1>2, NoRunAssumption
<1>5. Bound(D, r, role, hash) = [D EXCEPT ![r] = rec]
  BY DEF Bound, Runs
<1> HIDE DEF rec
<1>6. /\ Bound(D, r, role, hash) \in Runs
      /\ Bound(D, r, role, hash)[r] = rec
      /\ \A s \in RunIds \ {r} : Bound(D, r, role, hash)[s] = D[s]
  BY <1>2, <1>5 DEF Runs
<1>7. QED
  BY <1>2, <1>3, <1>4, <1>6 DEF IsRegistering

(* finalize_run: only the status of the one record changes.                *)
LEMMA FinalizedType ==
  ASSUME NEW D \in Runs, NEW r \in RunIds, NEW status \in FinalStatuses,
         IsRegistering(D, r)
  PROVE  /\ Finalized(D, r, status) \in Runs
         /\ \A s \in RunIds \ {r} : Finalized(D, r, status)[s] = D[s]
         /\ Finalized(D, r, status)[r] # NoRun
         /\ Finalized(D, r, status)[r].status = status
         /\ Finalized(D, r, status)[r].artifacts = D[r].artifacts
         /\ Finalized(D, r, status)[r].metadata = D[r].metadata
<1> DEFINE rec == [D[r] EXCEPT !.status = status]
<1>1. D[r] \in RunRecord
  BY DEF Runs, IsRegistering
<1>2. /\ rec \in RunRecord /\ rec.status = status
      /\ rec.artifacts = D[r].artifacts /\ rec.metadata = D[r].metadata
  BY <1>1 DEF RunRecord, RunStatus
<1>3. rec # NoRun
  BY <1>2, NoRunAssumption
<1>4. Finalized(D, r, status) = [D EXCEPT ![r] = rec]
  BY DEF Finalized, Runs
<1> HIDE DEF rec
<1>5. QED
  BY <1>2, <1>3, <1>4 DEF Runs

(* delete_run: the run is gone, every other run is untouched.              *)
LEMMA DeletedType ==
  ASSUME NEW D \in Runs, NEW r \in RunIds
  PROVE  /\ Deleted(D, r) \in Runs
         /\ \A s \in RunIds \ {r} : Deleted(D, r)[s] = D[s]
         /\ Deleted(D, r)[r] = NoRun
BY DEF Deleted, Runs

LEMMA NoRunsType == NoRuns \in Runs /\ \A r \in RunIds : NoRuns[r] = NoRun
BY DEF NoRuns, Runs

-----------------------------------------------------------------------------
\* Without a file every counter is zero (_load_trial_counters).
LEMMA NoTrialsType == NoTrials \in Counters
BY DEF NoTrials, Counters
-----------------------------------------------------------------------------
(* What a flush does to the state, whatever dictionary it writes.          *)
LEMMA FlushType ==
  ASSUME TypeOK, NEW p \in Procs, NEW changed \in Runs, Flush(p, changed)
  PROVE  /\ index' \in Runs
         /\ mem' \in [Procs -> Runs]
         /\ pc' \in [Procs -> {"idle", "loaded", "counting"}]
         /\ holder' \in Procs \cup {NoProc}
BY DEF TypeOK, Flush, Release

LEMMA AcknowledgeType ==
  ASSUME TypeOK, NEW p \in Procs, NEW r \in RunIds, NEW changed \in Runs,
         Acknowledge(p, r, changed)
  PROVE  acked' \in Runs
BY DEF TypeOK, Acknowledge, Runs

(* Type correctness: the file, every process's dictionary and the history  *)
(* only ever hold run records, whatever fails.                             *)
THEOREM TypeCorrect == Spec => []TypeOK
<1>1. Init => TypeOK
  BY NoRunsType, NoTrialsType DEF Init, TypeOK
<1>2. TypeOK /\ [Next]_vars => TypeOK'
  <2> SUFFICES ASSUME TypeOK, [Next]_vars PROVE TypeOK'
    OBVIOUS
  <2>1. ASSUME NEW p \in Procs, Load(p) PROVE TypeOK'
    BY <2>1, NoRunsType DEF TypeOK, Load, Acquire, trialVars
  <2>2. ASSUME NEW p \in Procs, Leave(p) PROVE TypeOK'
    BY <2>2 DEF TypeOK, Leave, Release, runVars, trialVars
  <2>3. ASSUME NEW p \in Procs, NEW r \in RunIds, NEW meta \in Metas, BeginRun(p, r, meta)
        PROVE  TypeOK'
    <3>1. mem[p] \in Runs
      BY DEF TypeOK
    <3>2. Begun(mem[p], r, meta) \in Runs
      BY <3>1, BegunType
    <3>3. QED
      BY <2>3, <3>2, FlushType, AcknowledgeType DEF TypeOK, BeginRun, trialVars
  <2>4. ASSUME NEW p \in Procs, NEW r \in RunIds, NEW role \in Roles, NEW hash \in Hashes,
               AddArtifact(p, r, role, hash)
        PROVE  TypeOK'
    <3>1. mem[p] \in Runs /\ IsRegistering(mem[p], r)
      BY <2>4 DEF TypeOK, AddArtifact
    <3>2. Bound(mem[p], r, role, hash) \in Runs
      BY <3>1, BoundType
    <3>3. QED
      BY <2>4, <3>2, FlushType, AcknowledgeType DEF TypeOK, AddArtifact, trialVars
  <2>5. ASSUME NEW p \in Procs, NEW r \in RunIds, NEW status \in FinalStatuses,
               FinalizeRun(p, r, status)
        PROVE  TypeOK'
    <3>1. mem[p] \in Runs /\ IsRegistering(mem[p], r)
      BY <2>5 DEF TypeOK, FinalizeRun
    <3>2. Finalized(mem[p], r, status) \in Runs
      BY <3>1, FinalizedType
    <3>3. QED
      BY <2>5, <3>2, FlushType, AcknowledgeType DEF TypeOK, FinalizeRun, trialVars
  <2>6. ASSUME NEW p \in Procs, NEW r \in RunIds, DeleteRun(p, r) PROVE TypeOK'
    <3>1. Deleted(mem[p], r) \in Runs
      BY DeletedType DEF TypeOK
    <3>2. QED
      BY <2>6, <3>1, FlushType DEF TypeOK, DeleteRun, trialVars
  <2>7. ASSUME NEW p \in Procs, LoadTrialCounters(p) PROVE TypeOK'
    <3>1. tally' \in [Procs -> Counters]
      BY <2>7 DEF TypeOK, LoadTrialCounters, Counters, NoTrials
    <3>2. QED
      BY <2>7, <3>1 DEF TypeOK, LoadTrialCounters, Acquire, runVars
  <2>8. ASSUME NEW p \in Procs, NEW f \in Families, RecordTrial(p, f) PROVE TypeOK'
    <3>1. tally' \in [Procs -> Counters] /\ counters' \in Counters /\ recorded' \in Counters
      BY <2>8 DEF TypeOK, RecordTrial, Counters
    <3>2. QED
      BY <2>8, <3>1 DEF TypeOK, RecordTrial, Release, runVars
  <2>9. CASE UNCHANGED vars
    BY <2>9 DEF TypeOK, vars, runVars, trialVars
  <2>10. QED
    BY <2>1, <2>2, <2>3, <2>4, <2>5, <2>6, <2>7, <2>8, <2>9 DEF Next
<1>3. QED
  BY <1>1, <1>2, PTL DEF Spec

-----------------------------------------------------------------------------
(* With the external lock held around each method and a readable index,    *)
(* a process between _load and _flush works on the current file, of runs   *)
(* or of counters: this is the strengthening every safety property of the  *)
(* registry rests on.                                                      *)
SnapshotCurrent ==
  \A p \in Procs :
    /\ pc[p] = "loaded" => (holder = p /\ mem[p] = index)
    /\ pc[p] = "counting" => (holder = p /\ tally[p] = counters)

Guarded == ExternalLock = TRUE /\ ReadMayFail = FALSE

(* Whoever is inside a method holds the lock, so nobody else is.           *)
LEMMA InsideAlone ==
  ASSUME TypeOK, SnapshotCurrent, NEW p \in Procs, pc[p] # "idle"
  PROVE  holder = p /\ \A q \in Procs \ {p} : pc[q] = "idle"
<1>1. \A q \in Procs : pc[q] # "idle" => holder = q
  BY DEF SnapshotCurrent, TypeOK
<1>2. QED
  BY <1>1

(* When the one process inside leaves, no method is under way.             *)
LEMMA LeavingKeepsSnapshots ==
  ASSUME TypeOK, SnapshotCurrent, NEW p \in Procs, pc[p] # "idle",
         pc' = [pc EXCEPT ![p] = "idle"]
  PROVE  SnapshotCurrent'
<1>1. \A q \in Procs : pc'[q] = "idle"
  BY InsideAlone DEF TypeOK
<1>2. QED
  BY <1>1 DEF SnapshotCurrent

(* Nobody is inside when the lock is granted.                              *)
LEMMA EnteringAlone ==
  ASSUME TypeOK, SnapshotCurrent, holder = NoProc
  PROVE  \A q \in Procs : pc[q] = "idle"
BY InsideAlone, NoProcAssumption

LEMMA SnapshotInvariant == ASSUME Guarded PROVE Spec => []SnapshotCurrent
<1>1. Init => SnapshotCurrent
  BY DEF Init, SnapshotCurrent
<1>2. TypeOK /\ SnapshotCurrent /\ [Next]_vars => SnapshotCurrent'
  <2> SUFFICES ASSUME TypeOK, SnapshotCurrent, [Next]_vars PROVE SnapshotCurrent'
    OBVIOUS
  <2>1. ASSUME NEW p \in Procs, Load(p) PROVE SnapshotCurrent'
    <3>1. holder = NoProc /\ holder' = p /\ index' = index
      BY <2>1 DEF Load, Acquire, Guarded
    <3>2. mem' = [mem EXCEPT ![p] = index] /\ pc' = [pc EXCEPT ![p] = "loaded"]
      BY <2>1 DEF Load, Guarded
    <3>3. \A q \in Procs \ {p} : pc'[q] = "idle"
      BY <3>1, <3>2, EnteringAlone DEF TypeOK
    <3>4. QED
      BY <3>1, <3>2, <3>3 DEF SnapshotCurrent, TypeOK
  <2>2. ASSUME NEW p \in Procs, LoadTrialCounters(p) PROVE SnapshotCurrent'
    <3>1. holder = NoProc /\ holder' = p /\ counters' = counters
      BY <2>2 DEF LoadTrialCounters, Acquire, Guarded
    <3>2. tally' = [tally EXCEPT ![p] = counters] /\ pc' = [pc EXCEPT ![p] = "counting"]
      BY <2>2 DEF LoadTrialCounters, Guarded
    <3>3. \A q \in Procs \ {p} : pc'[q] = "idle"
      BY <3>1, <3>2, EnteringAlone DEF TypeOK
    <3>4. QED
      BY <3>1, <3>2, <3>3 DEF SnapshotCurrent, TypeOK
  <2>3. ASSUME NEW p \in Procs, Leave(p) PROVE SnapshotCurrent'
    BY <2>3, LeavingKeepsSnapshots DEF Leave
  <2>4. ASSUME NEW p \in Procs, NEW f \in Families, RecordTrial(p, f)
        PROVE  SnapshotCurrent'
    BY <2>4, LeavingKeepsSnapshots DEF RecordTrial
  <2>5. ASSUME NEW p \in Procs, NEW r \in RunIds, NEW meta \in Metas, BeginRun(p, r, meta)
        PROVE  SnapshotCurrent'
    BY <2>5, LeavingKeepsSnapshots DEF BeginRun, Flush
  <2>6. ASSUME NEW p \in Procs, NEW r \in RunIds, NEW role \in Roles, NEW hash \in Hashes,
               AddArtifact(p, r, role, hash)
        PROVE  SnapshotCurrent'
    BY <2>6, LeavingKeepsSnapshots DEF AddArtifact, Flush
  <2>7. ASSUME NEW p \in Procs, NEW r \in RunIds, NEW status \in FinalStatuses,
               FinalizeRun(p, r, status)
        PROVE  SnapshotCurrent'
    BY <2>7, LeavingKeepsSnapshots DEF FinalizeRun, Flush
  <2>8. ASSUME NEW p \in Procs, NEW r \in RunIds, DeleteRun(p, r) PROVE SnapshotCurrent'
    BY <2>8, LeavingKeepsSnapshots DEF DeleteRun, Flush
  <2>9. CASE UNCHANGED vars
    BY <2>9 DEF SnapshotCurrent, vars, runVars, trialVars
  <2>10. QED
    BY <2>1, <2>2, <2>3, <2>4, <2>5, <2>6, <2>7, <2>8, <2>9 DEF Next
<1>3. QED
  BY <1>1, <1>2, TypeCorrect, PTL DEF Spec

-----------------------------------------------------------------------------
(* Refinement: under the lock, the whole-file protocol implements the      *)
(* atomic run lifecycle, even if flushes fail and processes are killed.    *)
THEOREM RegistryImplementsLifecycle ==
  ASSUME Guarded PROVE Spec => ImplementsLifecycle
<1> USE DEF Lifecycle!Begun, Lifecycle!Bound, Lifecycle!Finalized, Lifecycle!Deleted,
            Begun, Bound, Finalized, Deleted,
            Lifecycle!IsRegistering, Lifecycle!IsFinal, IsRegistering, IsFinal,
            Lifecycle!FinalStatuses, FinalStatuses, Lifecycle!lifecycleVars
<1>1. Init => Lifecycle!Init
  BY DEF Init, Lifecycle!Init, NoRuns, Lifecycle!NoRuns
<1>2. TypeOK /\ SnapshotCurrent /\ [Next]_vars => [Lifecycle!Next]_<<index, used>>
  <2> SUFFICES ASSUME TypeOK, SnapshotCurrent, [Next]_vars
               PROVE  Lifecycle!Next \/ UNCHANGED <<index, used>>
    OBVIOUS
  <2>1. ASSUME NEW p \in Procs, Load(p) PROVE UNCHANGED <<index, used>>
    BY <2>1 DEF Load
  <2>2. ASSUME NEW p \in Procs, Leave(p) PROVE UNCHANGED <<index, used>>
    BY <2>2 DEF Leave, runVars
  <2>3. ASSUME NEW p \in Procs, NEW r \in RunIds, NEW meta \in Metas, BeginRun(p, r, meta)
        PROVE  Lifecycle!Next
    <3>1. mem[p] = index
      BY <2>3 DEF BeginRun, SnapshotCurrent
    <3>2. Lifecycle!Begin(r, meta) \/ Lifecycle!Misbegin(r)
      BY <2>3, <3>1 DEF BeginRun, Flush, Lifecycle!Begin, Lifecycle!Misbegin
    <3>3. QED
      BY <3>2 DEF Lifecycle!Next
  <2>4. ASSUME NEW p \in Procs, NEW r \in RunIds, NEW role \in Roles, NEW hash \in Hashes,
               AddArtifact(p, r, role, hash)
        PROVE  Lifecycle!Next \/ UNCHANGED <<index, used>>
    <3>1. mem[p] = index
      BY <2>4 DEF AddArtifact, SnapshotCurrent
    <3>2. Lifecycle!Bind(r, role, hash) \/ UNCHANGED <<index, used>>
      BY <2>4, <3>1 DEF AddArtifact, Flush, Lifecycle!Bind
    <3>3. QED
      BY <3>2 DEF Lifecycle!Next
  <2>5. ASSUME NEW p \in Procs, NEW r \in RunIds, NEW status \in FinalStatuses,
               FinalizeRun(p, r, status)
        PROVE  Lifecycle!Next \/ UNCHANGED <<index, used>>
    <3>1. mem[p] = index
      BY <2>5 DEF FinalizeRun, SnapshotCurrent
    <3>2. Lifecycle!Finalize(r, status) \/ UNCHANGED <<index, used>>
      BY <2>5, <3>1 DEF FinalizeRun, Flush, Lifecycle!Finalize
    <3>3. QED
      BY <3>2 DEF Lifecycle!Next
  <2>6. ASSUME NEW p \in Procs, NEW r \in RunIds, DeleteRun(p, r)
        PROVE  Lifecycle!Next \/ UNCHANGED <<index, used>>
    <3>1. mem[p] = index
      BY <2>6 DEF DeleteRun, SnapshotCurrent
    <3>2. Lifecycle!Delete(r) \/ UNCHANGED <<index, used>>
      BY <2>6, <3>1 DEF DeleteRun, Flush, Lifecycle!Delete
    <3>3. QED
      BY <3>2 DEF Lifecycle!Next
  <2>7. ASSUME NEW p \in Procs,
               LoadTrialCounters(p) \/ \E f \in Families : RecordTrial(p, f)
        PROVE  UNCHANGED <<index, used>>
    BY <2>7 DEF LoadTrialCounters, RecordTrial, runVars
  <2>8. CASE UNCHANGED vars
    BY <2>8 DEF vars, runVars
  <2>9. QED
    BY <2>1, <2>2, <2>3, <2>4, <2>5, <2>6, <2>7, <2>8 DEF Next
<1>3. QED
  BY <1>1, <1>2, TypeCorrect, SnapshotInvariant, PTL
  DEF Spec, ImplementsLifecycle, Lifecycle!Spec

-----------------------------------------------------------------------------
(* RunsDurable and DeletedStaysDeleted are inductive once it is known that *)
(* a run id which appears anywhere has been drawn before.                  *)
OnlyDrawnIds ==
  \A r \in RunIds : (index[r] # NoRun \/ acked[r] # NoRun \/ r \in deleted) => r \in used

DurableInv == RunsDurable /\ DeletedStaysDeleted /\ OnlyDrawnIds

(* A step that writes the record of one live run keeps DurableInv if it    *)
(* keeps it for that run.                                                  *)
LEMMA OneRunWritten ==
  ASSUME TypeOK, DurableInv, NEW r \in RunIds, r \notin deleted, deleted' = deleted,
         used' = used \cup {r},
         \A s \in RunIds \ {r} : acked'[s] = acked[s] /\ index'[s] = index[s],
         index'[r] # NoRun,
         acked'[r] # NoRun =>
           /\ acked'[r].status \in FinalStatuses => index'[r] = acked'[r]
           /\ \A x \in Roles : acked'[r].artifacts[x] # NoHash
                                  => index'[r].artifacts[x] # NoHash
  PROVE  DurableInv'
<1>1. RunsDurable'
  <2> SUFFICES ASSUME NEW s \in RunIds \ deleted', acked'[s] # NoRun
               PROVE  /\ index'[s] # NoRun
                      /\ acked'[s].status \in FinalStatuses => index'[s] = acked'[s]
                      /\ \A x \in Roles : acked'[s].artifacts[x] # NoHash
                                             => index'[s].artifacts[x] # NoHash
    BY DEF RunsDurable
  <2>1. CASE s = r
    BY <2>1
  <2>2. CASE s # r
    BY <2>2 DEF DurableInv, RunsDurable
  <2>3. QED
    BY <2>1, <2>2
<1>2. DeletedStaysDeleted'
  BY DEF DurableInv, DeletedStaysDeleted, TypeOK
<1>3. OnlyDrawnIds'
  BY DEF DurableInv, OnlyDrawnIds
<1>4. QED
  BY <1>1, <1>2, <1>3 DEF DurableInv

LEMMA DurableInductive ==
  ASSUME Guarded, FlushMayFail = FALSE, TypeOK, SnapshotCurrent, DurableInv, [Next]_vars
  PROVE  DurableInv'
<1> USE DEF DurableInv, RunsDurable, DeletedStaysDeleted, OnlyDrawnIds
<1>1. ASSUME NEW p \in Procs, Load(p) PROVE DurableInv'
  BY <1>1 DEF Load
<1>2. ASSUME NEW p \in Procs, Leave(p) PROVE DurableInv'
  BY <1>2 DEF Leave, runVars
<1>3. ASSUME NEW p \in Procs, NEW r \in RunIds, NEW meta \in Metas, BeginRun(p, r, meta)
      PROVE  DurableInv'
  <2> DEFINE new == Begun(index, r, meta)
  <2>1. mem[p] = index /\ index \in Runs
    BY <1>3 DEF BeginRun, SnapshotCurrent, TypeOK
  <2>2. /\ index' = new /\ used' = used \cup {r} /\ deleted' = deleted
        /\ acked' = [acked EXCEPT ![r] = new[r]] \/ acked' = acked
    BY <1>3, <2>1 DEF BeginRun, Flush, Acknowledge
  <2>3. /\ \A s \in RunIds \ {r} : new[s] = index[s]
        /\ new[r] # NoRun
    BY <2>1, BegunType
  <2>4. acked[r] = NoRun /\ r \notin deleted
    BY <1>3 DEF BeginRun
  <2> HIDE DEF new
  <2>5. /\ \A s \in RunIds \ {r} : acked'[s] = acked[s] /\ index'[s] = index[s]
        /\ acked'[r] \in {NoRun, index'[r]} /\ index'[r] # NoRun
    BY <2>2, <2>3, <2>4 DEF TypeOK, Runs
  <2>6. acked'[r] # NoRun => acked'[r] = index'[r]
    BY <2>5
  <2>7. QED
    BY <2>2, <2>4, <2>5, <2>6, OneRunWritten
<1>4. ASSUME NEW p \in Procs, NEW r \in RunIds, NEW role \in Roles, NEW hash \in Hashes,
             AddArtifact(p, r, role, hash)
      PROVE  DurableInv'
  <2> DEFINE new == Bound(index, r, role, hash)
  <2>1. mem[p] = index /\ index \in Runs /\ IsRegistering(index, r)
    BY <1>4 DEF AddArtifact, SnapshotCurrent, TypeOK
  <2>2. /\ index' = new /\ used' = used /\ deleted' = deleted
        /\ acked' = [acked EXCEPT ![r] = new[r]] \/ acked' = acked
    BY <1>4, <2>1 DEF AddArtifact, Flush, Acknowledge
  <2>3. /\ \A s \in RunIds \ {r} : new[s] = index[s]
        /\ new[r] # NoRun
        /\ \A x \in Roles : index[r].artifacts[x] # NoHash => new[r].artifacts[x] # NoHash
    BY <2>1, BoundType
  <2>4. r \notin deleted /\ (acked[r] # NoRun => acked[r].status \notin FinalStatuses)
    BY <2>1 DEF IsRegistering, FinalStatuses
  <2> HIDE DEF new
  <2>5. /\ \A s \in RunIds \ {r} : acked'[s] = acked[s] /\ index'[s] = index[s]
        /\ acked'[r] = acked[r] \/ acked'[r] = index'[r]
        /\ index'[r] # NoRun
    BY <2>2, <2>3 DEF TypeOK, Runs
  <2>6. index[r] # NoRun
    BY <2>1 DEF IsRegistering
  <2>7. r \in used /\ \A x \in Roles : (acked[r] # NoRun /\ acked[r].artifacts[x] # NoHash)
                                         => index[r].artifacts[x] # NoHash
    BY <2>4, <2>6
  <2>8. acked'[r] # NoRun =>
          /\ acked'[r].status \in FinalStatuses => index'[r] = acked'[r]
          /\ \A x \in Roles : acked'[r].artifacts[x] # NoHash
                                 => index'[r].artifacts[x] # NoHash
    <3>1. CASE acked'[r] = index'[r]
      BY <3>1
    <3>2. CASE acked'[r] = acked[r]
      BY <3>2, <2>2, <2>3, <2>4, <2>7
    <3>3. QED
      BY <3>1, <3>2, <2>5
  <2>9. used' = used \cup {r}
    BY <2>2, <2>7 DEF TypeOK
  <2>10. QED
    BY <2>2, <2>4, <2>5, <2>8, <2>9, OneRunWritten
<1>5. ASSUME NEW p \in Procs, NEW r \in RunIds, NEW status \in FinalStatuses,
             FinalizeRun(p, r, status)
      PROVE  DurableInv'
  <2> DEFINE new == Finalized(index, r, status)
  <2>1. mem[p] = index /\ index \in Runs /\ IsRegistering(index, r)
    BY <1>5 DEF FinalizeRun, SnapshotCurrent, TypeOK
  <2>2. /\ index' = new /\ used' = used /\ deleted' = deleted
        /\ acked' = [acked EXCEPT ![r] = new[r]] \/ acked' = acked
    BY <1>5, <2>1 DEF FinalizeRun, Flush, Acknowledge
  <2>3. /\ \A s \in RunIds \ {r} : new[s] = index[s]
        /\ new[r] # NoRun
        /\ new[r].artifacts = index[r].artifacts
    BY <2>1, FinalizedType
  <2>4. r \notin deleted /\ (acked[r] # NoRun => acked[r].status \notin FinalStatuses)
    BY <2>1 DEF IsRegistering, FinalStatuses
  <2> HIDE DEF new
  <2>5. /\ \A s \in RunIds \ {r} : acked'[s] = acked[s] /\ index'[s] = index[s]
        /\ acked'[r] = acked[r] \/ acked'[r] = index'[r]
        /\ index'[r] # NoRun
    BY <2>2, <2>3 DEF TypeOK, Runs
  <2>6. index[r] # NoRun
    BY <2>1 DEF IsRegistering
  <2>7. r \in used /\ \A x \in Roles : (acked[r] # NoRun /\ acked[r].artifacts[x] # NoHash)
                                         => index[r].artifacts[x] # NoHash
    BY <2>4, <2>6
  <2>8. acked'[r] # NoRun =>
          /\ acked'[r].status \in FinalStatuses => index'[r] = acked'[r]
          /\ \A x \in Roles : acked'[r].artifacts[x] # NoHash
                                 => index'[r].artifacts[x] # NoHash
    <3>1. CASE acked'[r] = index'[r]
      BY <3>1
    <3>2. CASE acked'[r] = acked[r]
      BY <3>2, <2>2, <2>3, <2>4, <2>7
    <3>3. QED
      BY <3>1, <3>2, <2>5
  <2>9. used' = used \cup {r}
    BY <2>2, <2>7 DEF TypeOK
  <2>10. QED
    BY <2>2, <2>4, <2>5, <2>8, <2>9, OneRunWritten
<1>6. ASSUME NEW p \in Procs, NEW r \in RunIds, DeleteRun(p, r) PROVE DurableInv'
  <2>1. mem[p] = index /\ index \in Runs /\ index[r] # NoRun
    BY <1>6 DEF DeleteRun, SnapshotCurrent, TypeOK, IsFinal
  <2>2. /\ index' = Deleted(index, r) /\ used' = used /\ acked' = acked
        /\ deleted' = deleted \cup {r}
    BY <1>6, <2>1 DEF DeleteRun, Flush
  <2>3. /\ \A s \in RunIds \ {r} : index'[s] = index[s]
        /\ index'[r] = NoRun
    BY <2>1, <2>2, DeletedType
  <2>4. QED
    BY <2>1, <2>2, <2>3 DEF TypeOK
<1>7. ASSUME NEW p \in Procs, LoadTrialCounters(p) \/ \E f \in Families : RecordTrial(p, f)
      PROVE  DurableInv'
  BY <1>7 DEF LoadTrialCounters, RecordTrial, runVars
<1>8. CASE UNCHANGED vars
  BY <1>8 DEF vars, runVars
<1>9. QED
  BY <1>1, <1>2, <1>3, <1>4, <1>5, <1>6, <1>7, <1>8 DEF Next

(* record_trial gives out the number after the one on the file.            *)
LEMMA TrialsInductive ==
  ASSUME FlushMayFail = FALSE, TypeOK, SnapshotCurrent, TrialsCounted, [Next]_vars
  PROVE  TrialsCounted'
<1>1. ASSUME NEW p \in Procs, NEW f \in Families, RecordTrial(p, f) PROVE TrialsCounted'
  <2>1. tally[p] = counters /\ counters \in Counters /\ recorded \in Counters
    BY <1>1 DEF RecordTrial, SnapshotCurrent, TypeOK
  <2>2. counters' = [counters EXCEPT ![f] = @ + 1]
    BY <1>1, <2>1 DEF RecordTrial, TypeOK
  <2>3. recorded' = [recorded EXCEPT ![f] = @ + 1] \/ recorded' = recorded
    BY <1>1 DEF RecordTrial
  <2>4. QED
    BY <2>1, <2>2, <2>3 DEF TrialsCounted, Counters
<1>2. ASSUME NEW p \in Procs, LoadTrialCounters(p) PROVE TrialsCounted'
  BY <1>2 DEF LoadTrialCounters, TrialsCounted
<1>3. CASE UNCHANGED trialVars
  BY <1>3 DEF trialVars, TrialsCounted
<1>4. QED
  BY <1>1, <1>2, <1>3
  DEF Next, Load, Leave, BeginRun, AddArtifact, FinalizeRun, DeleteRun, vars

(* Durability: with the lock held, a readable index and no write error,    *)
(* what callers were told of runs and trials stays true, and no deleted    *)
(* run returns.                                                            *)
THEOREM RegistryDurable ==
  ASSUME Guarded, FlushMayFail = FALSE
  PROVE  Spec => [](AckedDurable /\ DeletedStaysDeleted)
<1>1. Init => DurableInv /\ TrialsCounted
  <2>1. ASSUME Init PROVE DurableInv
    BY <2>1, NoRunsType
    DEF Init, DurableInv, RunsDurable, DeletedStaysDeleted, OnlyDrawnIds
  <2>2. ASSUME Init PROVE TrialsCounted
    BY <2>2 DEF Init, TrialsCounted, NoTrials
  <2>3. QED
    BY <2>1, <2>2
<1>2. TypeOK /\ SnapshotCurrent /\ DurableInv /\ TrialsCounted /\ [Next]_vars
        => (DurableInv /\ TrialsCounted)'
  BY DurableInductive, TrialsInductive
<1>3. DurableInv /\ TrialsCounted => AckedDurable /\ DeletedStaysDeleted
  BY DEF DurableInv, AckedDurable
<1>4. QED
  BY <1>1, <1>2, <1>3, TypeCorrect, SnapshotInvariant, PTL DEF Spec

(* A deleted run does not come back (RunRegistry.delete_run): every process *)
(* that writes the index under the lock has read it after the deletion.     *)
THEOREM DeletedNeverReturns ==
  ASSUME Guarded, FlushMayFail = FALSE
  PROVE  Spec => []DeletedStaysDeleted
  BY RegistryDurable, PTL
=============================================================================
