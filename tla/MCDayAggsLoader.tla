--------------------------- MODULE MCDayAggsLoader ---------------------------
(* The loads that are checked. *)
EXTENDS DayAggsLoader

Range2 == 1 .. 2
First2(v, w) == [d \in Range2 |-> IF d = 1 THEN v ELSE w]

\* A load is killed and resumed while an object appears or is corrected.
Resumed ==
  [loads |-> <<FALSE, FALSE>>, together |-> FALSE, workers |-> 2, objects |-> First2(1, 0),
   publications |-> 1, kills |-> 1]
\* The second load overwrites.
Overwritten ==
  [loads |-> <<FALSE, TRUE>>, together |-> FALSE, workers |-> 1, objects |-> First2(1, 1),
   publications |-> 2, kills |-> 0]
\* Two loads at once.
Together ==
  [loads |-> <<FALSE, FALSE>>, together |-> TRUE, workers |-> 1, objects |-> First2(1, 0),
   publications |-> 0, kills |-> 1]

AllSetups == {Resumed, Overwritten, Together}
=============================================================================
