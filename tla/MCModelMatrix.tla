--------------------------- MODULE MCModelMatrix ---------------------------
(* The trainings that are checked. *)
EXTENDS ModelMatrix

Training(m, f, h, d, a, k, t, s, g, e) ==
  [models |-> m, folds |-> f, horizon |-> h, dates |-> d,
   attempts |-> a, deaths |-> k, timeout |-> t,
   keepScratch |-> s, keepFragments |-> g, faulty |-> e]

\* The parent dies, and the training starts again while the panel may be written anew.
Restarted == Training(1, 2, 1, <<5, 5>>, 2, 1, TRUE, FALSE, TRUE, FALSE)
\* As many dates as before, or more; two models; files that resist their removal.
Rewritten == Training(2, 1, 1, <<4, 6>>, 2, 0, TRUE, FALSE, FALSE, TRUE)
\* Everything is kept, and a worker may hang.
Kept1 == Training(1, 1, 0, <<3, 3>>, 2, 1, FALSE, TRUE, TRUE, FALSE)
\* Too few dates for a fold, or for a training row.
Short == Training(1, 2, 2, <<3, 1>>, 1, 0, TRUE, TRUE, FALSE, FALSE)

AllSetups == {Restarted, Rewritten, Kept1, Short}
=============================================================================
