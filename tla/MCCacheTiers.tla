---------------------------- MODULE MCCacheTiers ----------------------------
(***************************************************************************)
(* Instances of CacheTiers for TLC.                                        *)
(*                                                                         *)
(* get and set are the two halves of compute_or_get.                       *)
(***************************************************************************)
EXTENDS CacheTiers, TLC

CONSTANTS c1, c2, k1, k2

\* Two processes and one key, with a Redis that works or one that fails requests; one
\* process with L4; two keys that share one place in L1, under a listener, or used often
\* enough for one to push out the other.
TwoProcesses == [clients |-> {c1, c2}, keys |-> {k1}, l4 |-> FALSE, faulty |-> FALSE,
                 ops |-> 3, lapses |-> 0, calls |-> {"compute_or_get", "invalidate"}]
Faulty == [TwoProcesses EXCEPT !.faulty = TRUE, !.ops = 2]
Persistent == [clients |-> {c1}, keys |-> {k1}, l4 |-> TRUE, faulty |-> FALSE,
               ops |-> 3, lapses |-> 2,
               calls |-> {"get", "compute_or_get", "set", "invalidate"}]
Listening == [clients |-> {c1}, keys |-> {k1, k2}, l4 |-> FALSE, faulty |-> FALSE,
              ops |-> 4, lapses |-> 0, calls |-> {"get", "set", "invalidate"}]
Competing == [Listening EXCEPT !.ops = 5, !.lapses = 1,
                               !.calls = {"get", "set", "invalidate_pattern"}]
AllSetups == {TwoProcesses, Faulty, Persistent, Listening, Competing}
ProcessesOnly == {TwoProcesses}

Versions == 0 .. MaxVersion

\* Processes are interchangeable.
Symmetry == Permutations(Clients)
=============================================================================
