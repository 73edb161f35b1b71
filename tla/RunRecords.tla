----------------------------- MODULE RunRecords -----------------------------
(***************************************************************************)
(* The data of the run index (pysrc/artifact_registry/run_registry.py):    *)
(* what a run record is, and what each method of RunRegistry does to the   *)
(* in-memory dictionary of records before it flushes it.  Everything here  *)
(* is a pure operator; the modules RunLifecycle, RunRegistry and           *)
(* ArtifactRegistry give them state.                                       *)
(*                                                                         *)
(* A record's artifact list never holds one role twice (add_artifact       *)
(* updates in place), so it is a function from roles to blob identities.   *)
(* cas and attest are both digests of one canonical byte string, so a      *)
(* single hash stands for the pair.  Timestamps are left to Metas.         *)
(***************************************************************************)
CONSTANTS RunIds,   \* the uuid4 strings begin_run can draw
          Roles,    \* logical artifact roles
          Hashes,   \* identities of blobs
          Metas,    \* metadata bags given to begin_run
          NoRun,    \* "run_id is not a key of the dictionary"
          NoHash    \* "no artifact of that role"

ASSUME NoHashAssumption == NoHash \notin Hashes

FinalStatuses == {"COMPLETE", "FAILED"}
RunStatus == {"REGISTERING"} \cup FinalStatuses

RunRecord == [status    : RunStatus,
              artifacts : [Roles -> Hashes \cup {NoHash}],
              metadata  : Metas]

ASSUME NoRunAssumption == NoRun \notin RunRecord

\* The dictionary run_id -> RunRecord, in memory (_runs) or on disk.
Runs == [RunIds -> RunRecord \cup {NoRun}]
NoRuns == [r \in RunIds |-> NoRun]

IsRegistering(runs, r) == runs[r] # NoRun /\ runs[r].status = "REGISTERING"
IsFinal(runs, r) == runs[r] # NoRun /\ runs[r].status \in FinalStatuses

Begun(runs, r, meta) ==
  [runs EXCEPT ![r] = [status    |-> "REGISTERING",
                       artifacts |-> [role \in Roles |-> NoHash],
                       metadata  |-> meta]]

Bound(runs, r, role, hash) == [runs EXCEPT ![r].artifacts[role] = hash]

Finalized(runs, r, status) == [runs EXCEPT ![r].status = status]

Deleted(runs, r) == [runs EXCEPT ![r] = NoRun]

\* Faulty variant: a missing artifact is counted as a blob.
CasForAll(runs, ids) ==
  {h \in Hashes \cup {NoHash} : \E r \in ids, role \in Roles :
                    runs[r] # NoRun /\ runs[r].artifacts[role] = h}

\* _cas_for: the blobs a set of runs refers to.
CasFor(runs, ids) ==
  {h \in Hashes : \E r \in ids, role \in Roles :
                    runs[r] # NoRun /\ runs[r].artifacts[role] = h}
=============================================================================
