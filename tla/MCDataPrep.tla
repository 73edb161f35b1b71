----------------------------- MODULE MCDataPrep -----------------------------
(* Runs of one grid beside or after each other, runs on changing data, and *)
(* runs whose grids differ.                                                *)
EXTENDS DataPrep

CONSTANTS MCInvalid, MCCrash

Pair(p, q) == [n \in Names |-> IF n = "p" THEN p ELSE q]
Wide == Pair(1 .. 3, 1 .. 2)
Narrow == Pair(2 .. 3, {1})
None == Pair({}, {})
Early == {1, 2, 4}
Late == {1, 2, 4, 7, 8}

\* On the early data (1, 2) is best; on the late data (2, 2), and two cannot be evaluated.
MCScore(frame, v) ==
  IF frame = Early THEN (v["p"] - 1) * 2 + (IF v["q"] = 2 THEN 0 ELSE 1)
  ELSE IF v["p"] = 3 THEN (IF v["q"] = 1 THEN MCInvalid ELSE MCCrash)
  ELSE 6 - 2 * v["p"] + (IF v["q"] = 2 THEN 0 ELSE 1)

Setup(grids, ids, versions, chunk, together, killed) ==
  [grids |-> grids, ids |-> ids, versions |-> versions, chunk |-> chunk,
   together |-> together, kills |-> killed]
Repeated == Setup(<<Wide, Wide, Wide>>, <<1, 2, 3>>, <<Early>>, 0, FALSE, 0)
Beside == Setup(<<Wide, Wide, Wide>>, <<1, 1, 2>>, <<Early>>, 2, TRUE, 0)
Changing == Setup(<<Wide, Narrow, Wide>>, <<1, 1, 1>>, <<Early, Late>>, 3, FALSE, 1)
Odd == Setup(<<Wide, None, Narrow>>, <<1, 2, 3>>, <<Early, {}, Late>>, 2, FALSE, 0)
MCSetups == {Repeated, Beside, Changing, Odd}
=============================================================================
