------------------------- MODULE CombinatorialSplits ------------------------
(***************************************************************************)
(* CPCVSplitter (pysrc/backtesting/validation/statistical/cpcv.py): every  *)
(* choice of test groups among groups of consecutive rows.  Rows that are  *)
(* too close to a training row leave the test set; the training set is     *)
(* never touched.                                                          *)
(***************************************************************************)
EXTENDS Integers, FiniteSets

SmallerOf(a, b) == IF a <= b THEN a ELSE b

\* numpy.array_split: the first n % groups of the groups get one row more.
GroupStart(n, groups, g) == g * (n \div groups) + SmallerOf(g, n % groups)
Group(n, groups, g) == GroupStart(n, groups, g) .. GroupStart(n, groups, g + 1) - 1

\* With fewer rows than groups the empty groups are left out.
Groups(n, groups) == {g \in 0 .. groups - 1 : Group(n, groups, g) # {}}

RowsOf(n, groups, chosen) == UNION {Group(n, groups, g) : g \in chosen}

\* _apply_purge_embargo.
Clean(test, train, purge, embargo) ==
  {t \in test : /\ \A offset \in 1 .. purge   : t + offset \notin train
                /\ \A offset \in 1 .. embargo : t - offset \notin train}

\* split: the splits that are yielded, for each choice of k test groups.
Splits(n, groups, k, purge, embargo, least) ==
  LET Split(chosen) ==
        LET train == RowsOf(n, groups, Groups(n, groups) \ chosen)
        IN  [train |-> train,
             test  |-> Clean(RowsOf(n, groups, chosen), train, purge, embargo)]
  IN  {s \in {Split(chosen) : chosen \in {c \in SUBSET Groups(n, groups) : Cardinality(c) = k}} :
         Cardinality(s.train) >= least /\ s.test # {}}
=============================================================================
