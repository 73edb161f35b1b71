----------------------------- MODULE RunRegistry ----------------------------
(***************************************************************************)
(* RunRegistry (pysrc/artifact_registry/run_registry.py): the run index    *)
(* kept in one JSON file and shared by every process that opens the same   *)
(* root.  Each public method re-reads the whole file (_load), changes the  *)
(* dictionary in memory and writes the whole file back (_flush).  Another  *)
(* process can run between the two, and the process can be killed at any   *)
(* point.  The class docstring asks multi-process writers for external     *)
(* locking: ExternalLock says whether one is held around each method.      *)
(*                                                                         *)
(* _flush swallows OSError (FlushMayFail) and _load turns an unreadable    *)
(* index into an empty one (ReadMayFail); both are switches, so that what  *)
(* holds without a fault and what a fault breaks can be told apart.        *)
(* record_trial keeps its counters in a second file in the same way.       *)
(***************************************************************************)
EXTENDS RunRecords, Naturals

CONSTANTS Procs,         \* processes holding a RunRegistry on the same root
          NoProc,
          ExternalLock,  \* BOOLEAN: a lock is held from _load to _flush
          FlushMayFail,  \* BOOLEAN: atomic_write_json may raise OSError
          ReadMayFail,   \* BOOLEAN: read_text may raise OSError
          Families,      \* families of trials that are counted apart
          MaxTrials      \* bound on each counter

ASSUME NoProcAssumption == NoProc \notin Procs
ASSUME MaxTrialsAssumption == MaxTrials \in Nat
ASSUME SwitchAssumption == {ExternalLock, FlushMayFail, ReadMayFail} \subseteq BOOLEAN

VARIABLES index,    \* the file runs_index.json
          mem,      \* mem[p]: RunRegistry._runs of process p
          pc,       \* pc[p]: "idle", or inside a method: "loaded" after _load,
                    \* "counting" after _load_trial_counters
          holder,   \* who holds the external lock
          used,     \* run ids drawn so far
          acked,    \* history: the record each run had when its last call returned
          deleted,  \* history: runs delete_run has removed
          counters, \* the file trial_counters.json
          tally,    \* tally[p]: RunRegistry._trial_counters of process p
          recorded  \* history: how many calls of record_trial returned

runVars == <<index, mem, used, acked, deleted>>
trialVars == <<counters, tally, recorded>>
vars == <<runVars, trialVars, pc, holder>>

Counters == [Families -> Nat]
NoTrials == [f \in Families |-> 0]

TypeOK ==
  /\ index \in Runs
  /\ mem \in [Procs -> Runs]
  /\ pc \in [Procs -> {"idle", "loaded", "counting"}]
  /\ holder \in Procs \cup {NoProc}
  /\ used \in SUBSET RunIds
  /\ acked \in Runs
  /\ deleted \in SUBSET RunIds
  /\ counters \in Counters
  /\ tally \in [Procs -> Counters]
  /\ recorded \in Counters

Init ==
  /\ index = NoRuns
  /\ mem = [p \in Procs |-> NoRuns]
  /\ pc = [p \in Procs |-> "idle"]
  /\ holder = NoProc
  /\ used = {}
  /\ acked = NoRuns
  /\ deleted = {}
  /\ counters = NoTrials
  /\ tally = [p \in Procs |-> NoTrials]
  /\ recorded = NoTrials

-----------------------------------------------------------------------------
Acquire(p) == IF ExternalLock
                THEN holder = NoProc /\ holder' = p
                ELSE UNCHANGED holder

Release(p) == holder' = IF holder = p THEN NoProc ELSE holder

\* Faulty variant: the file is read by the first call only.
LoadOnce(p) ==
  /\ pc[p] = "idle"
  /\ Acquire(p)
  /\ mem' = IF mem[p] = NoRuns THEN [mem EXCEPT ![p] = index] ELSE mem
  /\ pc' = [pc EXCEPT ![p] = "loaded"]
  /\ UNCHANGED <<index, used, acked, deleted, trialVars>>

\* _load: every public method starts with it.
Load(p) ==
  /\ pc[p] = "idle"
  /\ Acquire(p)
  /\ \E read \in {index} \cup (IF ReadMayFail THEN {NoRuns} ELSE {}) :
       mem' = [mem EXCEPT ![p] = read]
  /\ pc' = [pc EXCEPT ![p] = "loaded"]
  /\ UNCHANGED <<index, used, acked, deleted, trialVars>>

\* _flush, and the return to the caller: the file is replaced by the changed
\* dictionary unless the write failed and was logged.
Flush(p, changed) ==
  /\ mem' = [mem EXCEPT ![p] = changed]
  /\ index' = changed \/ (FlushMayFail /\ UNCHANGED index)
  /\ pc' = [pc EXCEPT ![p] = "idle"]
  /\ Release(p)

\* The caller learns the record, unless its process dies before the return.
Acknowledge(p, r, changed) ==
  acked' = [acked EXCEPT ![r] = changed[r]] \/ UNCHANGED acked

BeginRun(p, r, meta) ==
  /\ pc[p] = "loaded"
  /\ r \notin used
  /\ Flush(p, Begun(mem[p], r, meta))
  /\ Acknowledge(p, r, Begun(mem[p], r, meta))
  /\ used' = used \cup {r}
  /\ UNCHANGED <<deleted, trialVars>>

\* Faulty variant: add_artifact without the REGISTERING check.
AddArtifactAnyState(p, r, role, hash) ==
  /\ pc[p] = "loaded"
  /\ mem[p][r] # NoRun
  /\ Flush(p, Bound(mem[p], r, role, hash))
  /\ Acknowledge(p, r, Bound(mem[p], r, role, hash))
  /\ UNCHANGED <<used, deleted, trialVars>>

AddArtifact(p, r, role, hash) ==
  /\ pc[p] = "loaded"
  /\ IsRegistering(mem[p], r)
  /\ Flush(p, Bound(mem[p], r, role, hash))
  /\ Acknowledge(p, r, Bound(mem[p], r, role, hash))
  /\ UNCHANGED <<used, deleted, trialVars>>

\* Faulty variant: finalize_run that stores whatever status it is given.
FinalizeRunUnchecked(p, r, status) ==
  /\ pc[p] = "loaded"
  /\ IsRegistering(mem[p], r)
  /\ Flush(p, Finalized(mem[p], r, "CANCELLED"))
  /\ Acknowledge(p, r, Finalized(mem[p], r, "CANCELLED"))
  /\ UNCHANGED <<used, deleted, trialVars>>

FinalizeRun(p, r, status) ==
  /\ pc[p] = "loaded"
  /\ IsRegistering(mem[p], r)
  /\ Flush(p, Finalized(mem[p], r, status))
  /\ Acknowledge(p, r, Finalized(mem[p], r, status))
  /\ UNCHANGED <<used, deleted, trialVars>>

DeleteRun(p, r) ==
  /\ pc[p] = "loaded"
  /\ IsFinal(mem[p], r)
  /\ Flush(p, Deleted(mem[p], r))
  /\ deleted' = deleted \cup {r}
  /\ UNCHANGED <<used, acked, trialVars>>

\* _load_trial_counters: record_trial and get_trial_count start with it.
LoadTrialCounters(p) ==
  /\ pc[p] = "idle"
  /\ Acquire(p)
  /\ \E read \in {counters} \cup (IF ReadMayFail THEN {NoTrials} ELSE {}) :
       tally' = [tally EXCEPT ![p] = read]
  /\ pc' = [pc EXCEPT ![p] = "counting"]
  /\ UNCHANGED <<runVars, counters, recorded>>

\* record_trial: the number is returned although the write of the counters may
\* have failed, unless the process dies before the return.
RecordTrial(p, f) ==
  /\ pc[p] = "counting"
  /\ tally[p][f] < MaxTrials
  /\ tally' = [tally EXCEPT ![p][f] = @ + 1]
  /\ counters' = tally'[p] \/ (FlushMayFail /\ UNCHANGED counters)
  /\ recorded' = [recorded EXCEPT ![f] = @ + 1] \/ UNCHANGED recorded
  /\ pc' = [pc EXCEPT ![p] = "idle"]
  /\ Release(p)
  /\ UNCHANGED runVars

\* A method ends without a write: get_run, iter_runs and get_trial_count, a
\* HashContractViolation on an unknown or wrong-state run, or a process killed
\* before os.replace.
Leave(p) ==
  /\ pc[p] # "idle"
  /\ pc' = [pc EXCEPT ![p] = "idle"]
  /\ Release(p)
  /\ UNCHANGED <<runVars, trialVars>>

Next ==
  \E p \in Procs :
    \/ Load(p)
    \/ LoadTrialCounters(p)
    \/ Leave(p)
    \/ \E f \in Families : RecordTrial(p, f)
    \/ \E r \in RunIds :
         \/ \E meta \in Metas : BeginRun(p, r, meta)
         \/ \E role \in Roles, hash \in Hashes : AddArtifact(p, r, role, hash)
         \/ \E status \in FinalStatuses : FinalizeRun(p, r, status)
         \/ DeleteRun(p, r)

Spec == Init /\ [][Next]_vars

-----------------------------------------------------------------------------
\* A run that was begun and not deleted is still there, every role it was told
\* is bound still is, and after finalize_run the record is the finalized one.
RunsDurable ==
  \A r \in RunIds \ deleted :
    acked[r] # NoRun =>
      /\ index[r] # NoRun
      /\ acked[r].status \in FinalStatuses => index[r] = acked[r]
      /\ \A role \in Roles :
           acked[r].artifacts[role] # NoHash => index[r].artifacts[role] # NoHash

\* No trial goes uncounted: a number that was returned is not given out again.
TrialsCounted == \A f \in Families : recorded[f] <= counters[f]

(* What callers were told stays true of the files: of a run that was begun *)
(* and not deleted, of the roles it was told are bound and of what         *)
(* finalize_run made of it (run_registry.py:157-178, "After finalization,  *)
(* the run becomes immutable"), and of the trials that record_trial has    *)
(* numbered (run_registry.py:225-239).  A lost update of another process,  *)
(* or of this one after a swallowed write error, breaks it.                *)
AckedDurable == RunsDurable /\ TrialsCounted

(* A deleted run does not come back: no process writes back a dictionary   *)
(* it read before the deletion (run_registry.py:246-256).                  *)
DeletedStaysDeleted == \A r \in deleted : index[r] = NoRun

\* The file, with the ids drawn, is the abstract set of runs.
Lifecycle == INSTANCE RunLifecycle WITH runs <- index

(* The load / mutate / flush protocol implements RunLifecycle: every write *)
(* of the file is one lawful operation on one run, whatever the            *)
(* interleaving, a kill or a failed flush (which is no step at all).       *)
ImplementsLifecycle == Lifecycle!Spec
=============================================================================
