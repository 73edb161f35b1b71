--------------------------- MODULE MCSingleflight ---------------------------
(***************************************************************************)
(* Instances of Singleflight for TLC: an execution of the outer key may    *)
(* ask for the inner one.                                                  *)
(***************************************************************************)
EXTENDS Singleflight

CONSTANTS outer, inner

\* Nested executions wherever do is used ...
NestedThreads(m, k) == IF m = "do" /\ k = outer THEN {inner} ELSE {}

\* ... and nowhere.
NoneNested(m, k) == {}
=============================================================================
