----------------------------- MODULE DateChunks -----------------------------
(***************************************************************************)
(* _iter_date_chunks (pysrc/pipeline/dataprep_runtime.py): a frame is cut  *)
(* into spans of `size' days from its first date on, each is cleaned by    *)
(* itself, and spans without rows are passed over.                         *)
(*                                                                         *)
(* A row is its date, an integer.                                          *)
(***************************************************************************)
EXTENDS Integers, FiniteSetsExt

\* True of every finite set of dates but the empty one.
HasEnds(rows) == \E a, b \in rows : \A t \in rows : a <= t /\ t <= b

\* As if the span that begins on the last date were not visited.
SpansShort(first, last, size) == {k \in 0 .. (last - first) : first + k * size < last}
\* The spans the loop visits; with days of positive length there are no more than days.
Spans(first, last, size) == {k \in 0 .. (last - first) : first + k * size <= last}
RowsOf(rows, first, size, k) ==
  {t \in rows : first + k * size <= t /\ t < first + (k + 1) * size}

\* The chunks of a frame, as sets of rows.
Chunks(rows, size) ==
  {RowsOf(rows, Min(rows), size, k) : k \in Spans(Min(rows), Max(rows), size)} \ {{}}

\* Without a chunk size the frame is cleaned as a whole.
Cleaned(rows, size) == IF size = 0 THEN rows ELSE UNION Chunks(rows, size)
=============================================================================
