-------------------------- MODULE ArtifactRegistry --------------------------
(***************************************************************************)
(* ArtifactRegistry (pysrc/artifact_registry/registry.py) over its two     *)
(* stores, the content-addressed LocalCAS (cas.py) and the run index of    *)
(* RunRegistry (run_registry.py), as the command line drives it            *)
(* (pysrc/cli/marketmind.py): every command is a process that opens the    *)
(* registry, allocates a run, registers products and completes it, or      *)
(* cleans up.  One action is one durable effect; between two of them the   *)
(* process can be killed, and another process can run unless a lock says   *)
(* otherwise.  A method of RunRegistry is one action here, for every lock  *)
(* considered covers at least each such method: module RunRegistry shows   *)
(* that its load / change / flush protocol is atomic under the lock that   *)
(* its docstring demands of the callers, and loses updates without it.     *)
(*                                                                         *)
(* A blob and its attestation alias are both named by the blob's hash.     *)
(***************************************************************************)
EXTENDS RunRecords, Naturals, FiniteSets

CONSTANTS Procs,          \* processes that may open the registry
          NoProc,
          KeepLatest,     \* the keep_latest argument of cleanup
          Scenarios,      \* the circumstances the registry may be used under
          KillMayHappen   \* BOOLEAN: a process may end between two effects

ASSUME NoProcAssumption == NoProc \notin Procs
ASSUME KeepAssumption == KeepLatest \in Nat
(* lock: what an external lock covers, the life of a process, each call of *)
(* ArtifactRegistry, or only each method of RunRegistry; faulty: _flush    *)
(* and the write of the attest index may be logged and dropped; pins: runs *)
(* may be pinned, by metadata or by hand; runs: how many begin; blobs:     *)
(* what they register.                                                     *)
ASSUME ScenarioAssumption ==
  Scenarios \subseteq [lock : {"session", "operation", "method"},
                      faulty : BOOLEAN, pins : BOOLEAN,
                      runs : Nat, blobs : SUBSET Hashes]
ASSUME SwitchAssumption == KillMayHappen \in BOOLEAN
\* The metadata bag, as far as cleanup reads it, with the creation time.
ASSUME MetasAssumption == \A m \in Metas : m.pinned \in BOOLEAN /\ m.created \in Nat

VARIABLES index,       \* runs_index.json
          store,       \* the blobs in the CAS directory
          aliasFile,   \* attest_index.json
          runDirs,     \* the directories runs/<run_id>
          files,       \* files[r][role]: what products/<role>.json holds
          pinDirs,     \* the directories pinned/<run_id>
          used, now,   \* run ids drawn; the clock that stamps created_at
          orphans,     \* history: blobs replaced in their role, or lost track of
          removed,     \* history: runs cleanup has begun to remove
          scenario,    \* the circumstances of this behaviour, which never change
          holder,      \* who holds the external lock
          pc,          \* pc[i]: where process i is
          aliases,     \* aliases[i]: LocalCAS._attest_to_cas of process i
          mine,        \* mine[i]: the run process i has begun and not finalized
          job,         \* job[i]: arguments of the call in progress
          victims,     \* victims[i]: planned runs that cleanup has yet to remove
          doomed       \* doomed[i]: planned_cas it has yet to delete

disk == <<index, store, aliasFile, runDirs, files, pinDirs, used, now, scenario>>
history == <<orphans, removed>>
local == <<pc, aliases, mine, job, victims, doomed>>
vars == <<disk, history, holder, local>>

Phases == {"down", "idle", "making_dirs", "aliasing", "binding", "materializing",
           "cleaning", "dropping", "raised"}
NoFiles == [role \in Roles |-> NoHash]
NoJob == [run |-> NoRun, role |-> NoHash, hash |-> NoHash]

TypeOK ==
  /\ index \in Runs
  /\ store \in SUBSET Hashes
  /\ aliasFile \in SUBSET Hashes
  /\ runDirs \in SUBSET RunIds
  /\ files \in [RunIds -> [Roles -> Hashes \cup {NoHash}]]
  /\ pinDirs \in SUBSET RunIds
  /\ used \in SUBSET RunIds
  /\ now \in Nat
  /\ orphans \in SUBSET Hashes
  /\ removed \in SUBSET RunIds
  /\ scenario \in Scenarios
  /\ holder \in Procs \cup {NoProc}
  /\ pc \in [Procs -> Phases]
  /\ aliases \in [Procs -> SUBSET Hashes]
  /\ mine \in [Procs -> RunIds \cup {NoRun}]
  /\ job \in [Procs -> [run  : RunIds \cup {NoRun},
                        role : Roles \cup {NoHash},
                        hash : Hashes \cup {NoHash}]]
  /\ victims \in [Procs -> SUBSET RunIds]
  /\ doomed \in [Procs -> SUBSET Hashes]

Init ==
  /\ index = NoRuns /\ store = {} /\ aliasFile = {}
  /\ runDirs = {} /\ files = [r \in RunIds |-> NoFiles] /\ pinDirs = {}
  /\ used = {} /\ now = 0 /\ orphans = {} /\ removed = {}
  /\ scenario \in Scenarios
  /\ holder = NoProc
  /\ pc = [i \in Procs |-> "down"]
  /\ aliases = [i \in Procs |-> {}]
  /\ mine = [i \in Procs |-> NoRun]
  /\ job = [i \in Procs |-> NoJob]
  /\ victims = [i \in Procs |-> {}]
  /\ doomed = [i \in Procs |-> {}]

-----------------------------------------------------------------------------
\* Blobs process i alone still knows something about.
Lost(i) == ({job[i].hash} \ {NoHash}) \cup doomed[i]

(* The external lock: held for the life of the process, or around each     *)
(* call of ArtifactRegistry; a lock on the methods of RunRegistry is held  *)
(* within one action and leaves the calls free to interleave.  (The CLI    *)
(* takes none of them: see the README.)                                    *)
Enter(i) ==
  IF scenario.lock = "method" THEN UNCHANGED holder
                              ELSE holder \in {NoProc, i} /\ holder' = i

Return == holder' = IF scenario.lock = "operation" THEN NoProc ELSE holder

Goto(i, from, to) == pc[i] = from /\ pc' = [pc EXCEPT ![i] = to]

\* RunRegistry._flush: the new index is written, or the error is only logged.
FlushIndex(changed) == index' = changed \/ (scenario.faulty /\ UNCHANGED index)

-----------------------------------------------------------------------------
\* Faulty variant: LocalCAS starts with an empty alias index.
OpenEmpty(i) ==
  /\ Goto(i, "down", "idle")
  /\ IF scenario.lock = "session" THEN holder = NoProc /\ holder' = i ELSE UNCHANGED holder
  /\ UNCHANGED <<disk, history, aliases, mine, job, victims, doomed>>

(* A process constructs ArtifactRegistry: LocalCAS loads the alias index   *)
(* once and never reads it again.                                          *)
Open(i) ==
  /\ Goto(i, "down", "idle")
  /\ IF scenario.lock = "session" THEN holder = NoProc /\ holder' = i ELSE UNCHANGED holder
  /\ aliases' = [aliases EXCEPT ![i] = aliasFile]
  /\ UNCHANGED <<disk, history, mine, job, victims, doomed>>

\* The process ends: after its work, or (Kill) anywhere, losing what was in memory.
End(i) ==
  /\ pc' = [pc EXCEPT ![i] = "down"]
  /\ holder' = IF holder = i THEN NoProc ELSE holder
  /\ aliases' = [aliases EXCEPT ![i] = {}]
  /\ mine' = [mine EXCEPT ![i] = NoRun]
  /\ job' = [job EXCEPT ![i] = NoJob]
  /\ victims' = [victims EXCEPT ![i] = {}]
  /\ doomed' = [doomed EXCEPT ![i] = {}]
  /\ orphans' = orphans \cup Lost(i)
  /\ UNCHANGED <<disk, removed>>

Exit(i) == /\ pc[i] = "raised" \/ (pc[i] = "idle" /\ mine[i] = NoRun)
           /\ End(i)

Kill(i) == /\ KillMayHappen
           /\ pc[i] # "down"
           /\ End(i)

-----------------------------------------------------------------------------
(* begin_run: the index entry first, then the directories and run_meta.    *)
BeginRun(i, r, meta) ==
  /\ Goto(i, "idle", "making_dirs")
  /\ mine[i] = NoRun
  /\ r \notin used /\ meta.created = now
  /\ now < scenario.runs /\ (meta.pinned => scenario.pins)
  /\ Enter(i)
  /\ FlushIndex(Begun(index, r, meta))
  /\ mine' = [mine EXCEPT ![i] = r]
  /\ used' = used \cup {r} /\ now' = now + 1
  /\ UNCHANGED <<store, aliasFile, runDirs, files, pinDirs, scenario, history,
                 aliases, job, victims, doomed>>

MakeRunDir(i) ==
  /\ Goto(i, "making_dirs", "idle")
  /\ Return
  /\ runDirs' = runDirs \cup {mine[i]}
  /\ UNCHANGED <<index, store, aliasFile, files, pinDirs, used, now, scenario, history,
                 aliases, mine, job, victims, doomed>>

(* register_payload, 1: LocalCAS.put_json writes the blob if it is missing. *)
PutBlob(i, role, hash) ==
  /\ Goto(i, "idle", "aliasing")
  /\ mine[i] # NoRun /\ hash \in scenario.blobs
  /\ Enter(i)
  /\ store' = store \cup {hash}
  /\ job' = [job EXCEPT ![i] = [run |-> mine[i], role |-> role, hash |-> hash]]
  /\ UNCHANGED <<index, aliasFile, runDirs, files, pinDirs, used, now, scenario, history,
                 aliases, mine, victims, doomed>>

(* 2: _record_attest_alias skips an alias it already has in memory, and    *)
(* otherwise replaces the whole index file by its own copy.                *)
RecordAlias(i) ==
  LET known == aliases[i] \cup {job[i].hash} IN
  /\ Goto(i, "aliasing", "binding")
  /\ aliases' = [aliases EXCEPT ![i] = known]
  /\ IF known = aliases[i]
       THEN UNCHANGED aliasFile
       ELSE aliasFile' = known \/ (scenario.faulty /\ UNCHANGED aliasFile)
  /\ UNCHANGED <<index, store, runDirs, files, pinDirs, used, now, scenario, history,
                 holder, mine, job, victims, doomed>>

(* 3: RunRegistry.add_artifact binds the hash to the role.                 *)
AddArtifact(i) ==
  LET r == job[i].run  role == job[i].role IN
  /\ Goto(i, "binding", "materializing")
  /\ IsRegistering(index, r)
  /\ FlushIndex(Bound(index, r, role, job[i].hash))
  /\ orphans' = orphans \cup ({index[r].artifacts[role]} \ {NoHash, job[i].hash})
  /\ UNCHANGED <<store, aliasFile, runDirs, files, pinDirs, used, now, scenario, removed,
                 holder, aliases, mine, job, victims, doomed>>

\* Faulty variant: an existing products/<role>.json is left alone.
MaterializeOnce(i) ==
  LET r == job[i].run IN
  /\ Goto(i, "materializing", "idle")
  /\ job[i].hash \in store
  /\ Return
  /\ files' = [files EXCEPT ![r][job[i].role] = IF @ = NoHash THEN job[i].hash ELSE @]
  /\ runDirs' = runDirs \cup {r}
  /\ job' = [job EXCEPT ![i] = NoJob]
  /\ UNCHANGED <<index, store, aliasFile, pinDirs, used, now, scenario, history,
                 aliases, mine, victims, doomed>>

(* 4: LocalCAS.materialize copies the blob to products/<role>.json.        *)
Materialize(i) ==
  LET r == job[i].run IN
  /\ Goto(i, "materializing", "idle")
  /\ job[i].hash \in store
  /\ Return
  /\ files' = [files EXCEPT ![r][job[i].role] = job[i].hash]
  /\ runDirs' = runDirs \cup {r}
  /\ job' = [job EXCEPT ![i] = NoJob]
  /\ UNCHANGED <<index, store, aliasFile, pinDirs, used, now, scenario, history,
                 aliases, mine, victims, doomed>>

(* add_artifact finds the run gone or final, or get_bytes finds no blob.   *)
RegisterRaises(i) ==
  /\ \/ Goto(i, "binding", "raised") /\ ~IsRegistering(index, job[i].run)
     \/ Goto(i, "materializing", "raised") /\ job[i].hash \notin store
  /\ Return
  /\ orphans' = orphans \cup Lost(i)
  /\ job' = [job EXCEPT ![i] = NoJob]
  /\ UNCHANGED <<disk, removed, aliases, mine, victims, doomed>>

(* complete_run, or fail_run which callers also use on the error path.     *)
FinalizeRun(i, status) ==
  /\ pc[i] = "idle" \/ (pc[i] = "raised" /\ status = "FAILED")
  /\ mine[i] # NoRun /\ IsRegistering(index, mine[i])
  /\ scenario.lock # "method" => holder \in {NoProc, i}
  /\ FlushIndex(Finalized(index, mine[i], status))
  /\ mine' = [mine EXCEPT ![i] = NoRun]
  /\ UNCHANGED <<store, aliasFile, runDirs, files, pinDirs, used, now, scenario, history,
                 holder, pc, aliases, job, victims, doomed>>

\* finalize_run finds its run unknown: the begin was never written.
FinalizeRaises(i) ==
  /\ Goto(i, "idle", "raised")
  /\ mine[i] # NoRun /\ ~IsRegistering(index, mine[i])
  /\ scenario.lock # "method" => holder \in {NoProc, i}
  /\ UNCHANGED <<disk, history, holder, aliases, mine, job, victims, doomed>>

-----------------------------------------------------------------------------
(* An operator pins a run by hand: mkdir pinned/<run_id>.                  *)
PinRun(r) ==
  /\ scenario.pins
  /\ index[r] # NoRun
  /\ pinDirs' = pinDirs \cup {r}
  /\ UNCHANGED <<index, store, aliasFile, runDirs, files, used, now, scenario, history,
                 holder, local>>

Known == {r \in RunIds : index[r] # NoRun}
Newer(r) == {s \in Known : index[s].metadata.created > index[r].metadata.created}
Pinned == {r \in Known : index[r].metadata.pinned \/ r \in pinDirs}
\* Faulty variants: pins are forgotten; the newest runs are.
RetainedPinned == Pinned
RetainedNewest == {r \in Known : Cardinality(Newer(r)) < KeepLatest}
Retained == Pinned \cup {r \in Known : Cardinality(Newer(r)) < KeepLatest}

\* Faulty variants: shared blobs are planned too; blobs of planned runs count as kept.
PlanCleanupShared(i) ==
  /\ Goto(i, "idle", "cleaning")
  /\ mine[i] = NoRun
  /\ Enter(i)
  /\ victims' = [victims EXCEPT ![i] = Known \ Retained]
  /\ doomed' = [doomed EXCEPT ![i] = CasFor(index, Known \ Retained)]
  /\ UNCHANGED <<disk, history, aliases, mine, job>>

PlanCleanupKeepAll(i) ==
  /\ Goto(i, "idle", "cleaning")
  /\ mine[i] = NoRun
  /\ Enter(i)
  /\ victims' = [victims EXCEPT ![i] = Known \ Retained]
  /\ doomed' = [doomed EXCEPT ![i] = CasFor(index, Known \ Retained) \ CasFor(index, Known)]
  /\ UNCHANGED <<disk, history, aliases, mine, job>>

(* cleanup(apply=True), 1: read the index once and decide everything.      *)
PlanCleanup(i) ==
  /\ Goto(i, "idle", "cleaning")
  /\ mine[i] = NoRun
  /\ Enter(i)
  /\ victims' = [victims EXCEPT ![i] = Known \ Retained]
  /\ doomed' = [doomed EXCEPT ![i] =
                  CasFor(index, Known \ Retained) \ CasFor(index, Retained)]
  /\ UNCHANGED <<disk, history, aliases, mine, job>>

(* 2: for each planned run, rmtree its directory ...                       *)
RemoveRunDir(i, r) ==
  /\ Goto(i, "cleaning", "dropping")
  /\ r \in victims[i]
  /\ runDirs' = runDirs \ {r}
  /\ files' = [files EXCEPT ![r] = NoFiles]
  /\ removed' = removed \cup {r}
  /\ job' = [job EXCEPT ![i].run = r]
  /\ UNCHANGED <<index, store, aliasFile, pinDirs, used, now, scenario, orphans,
                 holder, aliases, mine, victims, doomed>>

(* ... then delete_run, which refuses a run that is not finalized.         *)
DropRun(i) ==
  LET r == job[i].run IN
  /\ Goto(i, "dropping", "cleaning")
  /\ IsFinal(index, r)
  /\ FlushIndex(Deleted(index, r))
  /\ victims' = [victims EXCEPT ![i] = @ \ {r}]
  /\ job' = [job EXCEPT ![i] = NoJob]
  /\ UNCHANGED <<store, aliasFile, runDirs, files, pinDirs, used, now, scenario, history,
                 holder, aliases, mine, doomed>>

DropRaises(i) ==
  /\ Goto(i, "dropping", "raised")
  /\ ~IsFinal(index, job[i].run)
  /\ Return
  /\ orphans' = orphans \cup Lost(i)
  /\ job' = [job EXCEPT ![i] = NoJob]
  /\ victims' = [victims EXCEPT ![i] = {}]
  /\ doomed' = [doomed EXCEPT ![i] = {}]
  /\ UNCHANGED <<disk, removed, aliases, mine>>

(* 3: last, the blobs only planned runs referred to.  Their aliases stay.  *)
DeleteBlob(i, hash) ==
  /\ pc[i] = "cleaning" /\ victims[i] = {}
  /\ hash \in doomed[i]
  /\ store' = store \ {hash}
  /\ doomed' = [doomed EXCEPT ![i] = @ \ {hash}]
  /\ UNCHANGED <<index, aliasFile, runDirs, files, pinDirs, used, now, scenario, history,
                 holder, pc, aliases, mine, job, victims>>

EndCleanup(i) ==
  /\ Goto(i, "cleaning", "idle")
  /\ victims[i] = {} /\ doomed[i] = {}
  /\ Return
  /\ UNCHANGED <<disk, history, aliases, mine, job, victims, doomed>>

-----------------------------------------------------------------------------
Next ==
  \/ \E i \in Procs :
       \/ Open(i) \/ Exit(i) \/ Kill(i)
       \/ \E r \in RunIds, meta \in Metas : BeginRun(i, r, meta)
       \/ MakeRunDir(i)
       \/ \E role \in Roles, hash \in Hashes : PutBlob(i, role, hash)
       \/ RecordAlias(i) \/ AddArtifact(i) \/ Materialize(i) \/ RegisterRaises(i)
       \/ \E status \in FinalStatuses : FinalizeRun(i, status)
       \/ FinalizeRaises(i)
       \/ PlanCleanup(i)
       \/ \E r \in RunIds : RemoveRunDir(i, r)
       \/ DropRun(i) \/ DropRaises(i)
       \/ \E hash \in Hashes : DeleteBlob(i, hash)
       \/ EndCleanup(i)
  \/ \E r \in RunIds : PinRun(r)

Spec == Init /\ [][Next]_vars

-----------------------------------------------------------------------------
LockedCalls == scenario.lock # "method" /\ ~scenario.faulty

(* While calls exclude each other and index writes succeed, no index entry *)
(* refers to a blob that is gone, wherever a process dies: the blob is     *)
(* written before the reference and removed after the last one.  A cleanup *)
(* racing a register breaks this (cas.py:272-275 skips the write of a blob *)
(* that a concurrent cleanup has already planned to drop).                 *)
NoDanglingReference == LockedCalls => CasFor(index, RunIds) \subseteq store

\* resolve: the blob verifies and the attest alias leads back to it.
Resolves(known, hash) == hash \in store /\ hash \in known

(* Every artifact of a COMPLETE run can be resolved, by every process that *)
(* is running and by one that starts now (registry.py:88-117).  The alias  *)
(* index is per process and written whole, so this needs more than blobs.  *)
CompleteResolves ==
  \A r \in RunIds, role \in Roles :
    (index[r] # NoRun /\ index[r].status = "COMPLETE") =>
      LET hash == index[r].artifacts[role] IN
      hash # NoHash =>
        /\ Resolves(aliasFile, hash)
        /\ \A i \in Procs : pc[i] # "down" => Resolves(aliases[i], hash)

(* That holds for processes that take turns, wherever they are killed.     *)
SessionsResolve ==
  scenario.lock = "session" /\ ~scenario.faulty => CompleteResolves

(* A COMPLETE run that no cleanup has begun to remove has each of its      *)
(* products in its directory, the same version as the index names: no role *)
(* was bound without its file or materialized without its binding, also    *)
(* when a process died in the middle of register_payload.                  *)
CompleteMaterialized ==
  LockedCalls => \A r \in RunIds \ removed :
    (index[r] # NoRun /\ index[r].status = "COMPLETE")
      => r \in runDirs /\ files[r] = index[r].artifacts

(* Every blob is referenced, on its way in or on its way out, unless it    *)
(* was replaced in its role or its process died or raised while it held    *)
(* it: a cleanup that ends leaves no blob of a removed run behind, and no  *)
(* other step of the registry leaks one (registry.py:141-143, 158-159).    *)
NoGarbage ==
  LockedCalls =>
    store \subseteq CasFor(index, RunIds) \cup orphans \cup UNION {Lost(i) : i \in Procs}

(* With no more than the lock on each RunRegistry method, and however      *)
(* calls interleave, processes die or writes fail: a run leaves the index  *)
(* only once finalized, never when its metadata pins it, and never while   *)
(* fewer than keep_latest newer runs exist (registry.py:129, "Retain       *)
(* pinned/newest runs").  Two concurrent cleanups each plan on their own   *)
(* snapshot, and both must leave the newest runs.  (With no lock at all    *)
(* the stale copy of another writer may drop any run: DeletedStaysDeleted  *)
(* and AckedDurable of RunRegistry are about that.)                        *)
RetentionRespected ==
  [][\A r \in RunIds : (index[r] # NoRun /\ index'[r] = NoRun) =>
        /\ IsFinal(index, r)
        /\ ~index[r].metadata.pinned
        /\ Cardinality(Newer(r)) >= KeepLatest]_vars
=============================================================================
