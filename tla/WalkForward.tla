---------------------------- MODULE WalkForward ----------------------------
(***************************************************************************)
(* build_walk_forward_boundaries (pysrc/pipeline/panel/                    *)
(* train_model_matrix.py): the folds in which a model is trained on the    *)
(* dates before a window and tested on the dates in it.                    *)
(*                                                                         *)
(* Dates are numbered 0 .. dates - 1 in chronological order.  The label of *)
(* a row is known `horizon' trading dates after the row's own date.        *)
(***************************************************************************)
EXTENDS Integers

LesserOf(a, b) == IF a <= b THEN a ELSE b
GreaterOf(a, b) == IF a >= b THEN a ELSE b

\* With few dates there are fewer folds than asked for.
FoldCount(dates, folds) ==
  IF dates < folds + 1 THEN GreaterOf(1, dates - 1) ELSE folds
FoldSize(dates, folds) == GreaterOf(1, dates \div (FoldCount(dates, folds) + 1))

TestStart(dates, folds, i) == FoldSize(dates, folds) * (i + 1)
TestEnd(dates, folds, i) ==
  LesserOf(TestStart(dates, folds, i) + FoldSize(dates, folds), dates)

\* As if labels were known at once.
TrainEndUnpurged(dates, folds, horizon, i) == GreaterOf(0, TestStart(dates, folds, i))
\* The rows whose label reaches into the test window are purged.
TrainEnd(dates, folds, horizon, i) ==
  GreaterOf(0, TestStart(dates, folds, i) - horizon)

\* The folds that are built, by their fold_idx.
Folds(dates, folds) ==
  IF dates < 2 THEN {}
  ELSE {i \in 0 .. FoldCount(dates, folds) - 1 : TestStart(dates, folds, i) < dates}

\* fold_masks_from_boundaries, as sets of dates.
TrainDates(dates, folds, horizon, i) == 0 .. TrainEnd(dates, folds, horizon, i) - 1
TestDates(dates, folds, i) == TestStart(dates, folds, i) .. TestEnd(dates, folds, i) - 1
=============================================================================
