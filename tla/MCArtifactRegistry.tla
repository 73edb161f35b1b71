------------------------- MODULE MCArtifactRegistry -------------------------
(***************************************************************************)
(* Instances of ArtifactRegistry for TLC.  A scenario bounds the number of *)
(* begin_run calls, and with it the clock; a metadata bag is what cleanup  *)
(* reads of it.                                                            *)
(***************************************************************************)
EXTENDS ArtifactRegistry, TLC

CONSTANTS h1, h2

\* Processes take turns; calls of processes exclude each other; only the
\* methods of the run index do, and writes fail.
Turns == [lock |-> "session", faulty |-> FALSE, pins |-> FALSE,
          runs |-> 3, blobs |-> {h1, h2}]
Calls == [lock |-> "operation", faulty |-> FALSE, pins |-> TRUE,
          runs |-> 2, blobs |-> {h1, h2}]
Methods == [lock |-> "method", faulty |-> TRUE, pins |-> TRUE,
          runs |-> 2, blobs |-> {h1}]

AllScenarios == {Turns, Calls, Methods}
OnlyCalls == {Calls}

Stamps == 0 .. Cardinality(RunIds)
Metadata == [pinned : BOOLEAN, created : Stamps]

\* Run ids and processes are interchangeable: nothing orders them.
Symmetry == Permutations(RunIds) \cup Permutations(Procs)
=============================================================================
