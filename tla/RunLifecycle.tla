---------------------------- MODULE RunLifecycle ----------------------------
(***************************************************************************)
(* What RunRegistry promises in its class docstring: a run is created      *)
(* REGISTERING, accepts artifacts only while REGISTERING, is finalized     *)
(* once, and after that can only disappear as a whole, never to return.    *)
(* Each operation is one atomic step on the set of runs.  RunRegistry is   *)
(* the load / mutate / flush protocol that is meant to implement this.     *)
(***************************************************************************)
EXTENDS RunRecords

VARIABLES runs,   \* run_id -> record
          used    \* run ids handed out so far (uuid4 never repeats)

lifecycleVars == <<runs, used>>

Init == runs = NoRuns /\ used = {}

Begin(r, meta) ==
  /\ r \notin used
  /\ runs' = Begun(runs, r, meta)
  /\ used' = used \cup {r}

\* A begin whose record never became durable: the id is spent all the same.
Misbegin(r) ==
  /\ r \notin used
  /\ used' = used \cup {r}
  /\ UNCHANGED runs

Bind(r, role, hash) ==
  /\ IsRegistering(runs, r)
  /\ runs' = Bound(runs, r, role, hash)
  /\ UNCHANGED used

Finalize(r, status) ==
  /\ IsRegistering(runs, r)
  /\ runs' = Finalized(runs, r, status)
  /\ UNCHANGED used

Delete(r) ==
  /\ IsFinal(runs, r)
  /\ runs' = Deleted(runs, r)
  /\ UNCHANGED used

Next == \E r \in RunIds :
          \/ \E meta \in Metas : Begin(r, meta)
          \/ Misbegin(r)
          \/ \E role \in Roles, hash \in Hashes : Bind(r, role, hash)
          \/ \E status \in FinalStatuses : Finalize(r, status)
          \/ Delete(r)

Spec == Init /\ [][Next]_lifecycleVars
=============================================================================
