---------------------------- MODULE PurgedSplits ----------------------------
(***************************************************************************)
(* TimeSeriesSplitter, PurgedKFold and validate_no_leakage                 *)
(* (pysrc/preprocessor/splits.py): which rows a model is trained on and    *)
(* which it is tested on.                                                  *)
(*                                                                         *)
(* A frame of n rows has the rows 0 .. n - 1; ts[r] is the timestamp of    *)
(* row r, in any unit, and the windows are spans of time in that unit.     *)
(* Rows of one day share a timestamp when the frame holds several symbols. *)
(***************************************************************************)
EXTENDS Integers

Rows(n) == 0 .. n - 1

\* _validate_dataframe refuses a frame that is not.
Sorted(ts, n) == \A r, s \in Rows(n) : r <= s => ts[r] <= ts[s]

-----------------------------------------------------------------------------
(* TimeSeriesSplitter.split: fold i of `folds', counted back from the end.  *)

\* _get_required_rows; a smaller frame is refused.
RequiredRows(folds, size, least) == least + folds * size

ForwardEnd(n, folds, size, i) == n - (folds - 1 - i) * size
ForwardStart(n, folds, size, i) == ForwardEnd(n, folds, size, i) - size

ForwardTest(n, folds, size, i) ==
  ForwardStart(n, folds, size, i) .. ForwardEnd(n, folds, size, i) - 1

\* The filter on timestamps is left out when the window is 0.
ForwardTrain(ts, n, folds, size, purge, i) ==
  LET start == ForwardStart(n, folds, size, i)
  IN  {r \in 0 .. start - 1 : purge > 0 => ts[r] <= ts[start] - purge}

-----------------------------------------------------------------------------
(* PurgedKFold.split.                                                      *)
KStart(n, folds, i) == i * (n \div folds)

\* The last fold takes the rows that are left over.
KEnd(n, folds, i) == IF i < folds - 1 THEN (i + 1) * (n \div folds) ELSE n

KTest(n, folds, i) == KStart(n, folds, i) .. KEnd(n, folds, i) - 1

KPurged(ts, n, folds, purge, i) ==
  {r \in Rows(n) \ KTest(n, folds, i) :
     \/ ts[r] < ts[KStart(n, folds, i)] - purge
     \/ ts[r] > ts[KEnd(n, folds, i) - 1]}

KTrain(ts, n, folds, purge, embargo, i) ==
  {r \in KPurged(ts, n, folds, purge, i) :
     \/ ts[r] < ts[KStart(n, folds, i)] - purge
     \/ ts[r] > ts[KEnd(n, folds, i) - 1] + embargo}

-----------------------------------------------------------------------------
(* validate_no_leakage on sorted sets of rows; key[r] is the composite key *)
(* of row r, its timestamp unless key_cols is given.                       *)
KeysOverlap(key, train, test) == \E r \in train, t \in test : key[r] = key[t]

\* train_end >= test_start, or the gap between them is too small.
TrainReachesTest(ts, train, test, purge) ==
  \E r \in train, t \in test : ts[r] >= ts[t] \/ ts[t] - ts[r] < purge

\* Training rows after test_end begin too soon.
EmbargoBroken(ts, train, test, embargo) ==
  /\ embargo > 0
  /\ \E r \in train :
       /\ \A t \in test : ts[r] > ts[t]
       /\ \E t \in test : ts[r] - ts[t] < embargo

NoLeakage(ts, key, train, test, purge, embargo) ==
  /\ ~ KeysOverlap(key, train, test)
  /\ ~ TrainReachesTest(ts, train, test, purge)
  /\ ~ EmbargoBroken(ts, train, test, embargo)

-----------------------------------------------------------------------------
(* The gate `leakage_invariants' (pysrc/cli/gate.py), which reads only the  *)
(* boundaries of the folds from the manifest.                              *)

\* The position -1 of a frame that is not empty.
LastRow(rows) == CHOOSE r \in rows : \A s \in rows : s <= r

ForwardBoundary(ts, n, folds, size, purge, i) ==
  LET start == ForwardStart(n, folds, size, i)
      train == ForwardTrain(ts, n, folds, size, purge, i)
  IN  [train_end  |-> IF train = {} THEN ts[start] - purge ELSE ts[LastRow(train)],
       test_start |-> ts[start],
       non_contiguous_train |-> FALSE]

\* A fold of PurgedKFold is marked non_contiguous_train and passes unseen.
GateRefuses(b, purge) ==
  /\ ~ b.non_contiguous_train
  /\ \/ b.train_end >= b.test_start
     \/ purge > 0 /\ b.test_start - b.train_end < purge
=============================================================================
