----------------------------- MODULE PointInTime ----------------------------
(***************************************************************************)
(* DataView and Universe (pysrc/data/dataview.py, universe.py): what may   *)
(* be seen of the data on a day, and which symbols are members on it.      *)
(*                                                                         *)
(* A row carries its symbol, the day it speaks of (valid), the day it was  *)
(* known (know), its values and the position at which it entered the       *)
(* append-only store.  Days are numbers.  The stable sort by (know, valid) *)
(* of a registered frame keeps the order of rows that agree on both, the   *)
(* only ones between which position decides; so a store is a set of rows.  *)
(***************************************************************************)
EXTENDS Integers

CONSTANT Missing   \* NaN, None, or a column that no frame has

\* register_source appends frames: positions are unique.
IsStore(store) ==
  \A a, b \in store : /\ a.valid \in Int /\ a.know \in Int /\ a.at \in Nat
                      /\ a.at = b.at => a = b

Visible(store, symbol, T) ==
  {r \in store : r.symbol = symbol /\ r.valid <= T /\ r.know <= T}

\* The stable sort of _resolve_snapshot: newest first.
Before(a, b) ==
  \/ a.valid > b.valid
  \/ a.valid = b.valid /\ a.know > b.know
  \/ a.valid = b.valid /\ a.know = b.know /\ a.at < b.at

IsFirst(r, rows) == r \in rows /\ \A s \in rows \ {r} : Before(r, s)

First(rows) == CHOOSE r \in rows : IsFirst(r, rows)

\* _resolve_field_value: the row whose value and knowledge day are taken.
Observation(rows, f, fill) ==
  LET holders == {r \in rows : r.vals[f] # Missing}
  IN  IF fill = "reject" \/ holders = {} THEN First(rows) ELSE First(holders)

\* policy[f] is what resolve_field_config returns for the field f.
Lacking(rows, f, policy, T) ==
  LET r == Observation(rows, f, policy[f].fill)
  IN  r.vals[f] = Missing \/ T - r.know > policy[f].ttl

Cell(rows, f, policy, T) ==
  IF Lacking(rows, f, policy, T)
  THEN Missing
  ELSE Observation(rows, f, policy[f].fill).vals[f]

\* _resolve_snapshot.
Snapshot(rows, fields, policy, T) ==
  [valid |-> First(rows).valid, know |-> T,
   vals  |-> [f \in fields |-> Cell(rows, f, policy, T)]]

Refused(rows, fields, policy, T) ==
  \E f \in fields : policy[f].missing = "fail" /\ Lacking(rows, f, policy, T)

\* as_of: a snapshot of every symbol that has visible rows, or StalenessError.
AsOf(store, symbols, fields, policy, T) ==
  LET known == {s \in symbols : Visible(store, s, T) # {}}
  IN  IF \E s \in known : Refused(Visible(store, s, T), fields, policy, T)
      THEN "StalenessError"
      ELSE [s \in known |-> Snapshot(Visible(store, s, T), fields, policy, T)]

-----------------------------------------------------------------------------
(* Universe: an append-only log of events [symbol, date, kind].             *)

Register(events, symbol, date) ==
  events \cup {[symbol |-> symbol, date |-> date, kind |-> "list"]}

Delist(events, symbol, date) ==
  events \cup {[symbol |-> symbol, date |-> date, kind |-> "delist"]}

\* _tie_break_key: on one day a delist event counts as the later one.
NotAfter(e, f) ==
  e.date < f.date \/ (e.date = f.date /\ (e.kind = "delist" => f.kind = "delist"))

\* _latest_event_at_or_before and effective_state_at.
IsActive(events, symbol, T) ==
  LET seen == {e \in events : e.symbol = symbol /\ e.date <= T}
  IN  \E e \in seen : e.kind = "list" /\ \A f \in seen : NotAfter(f, e)

MembersAsOf(events, T) ==
  {s \in {e.symbol : e \in events} : IsActive(events, s, T)}

\* register_source with seed_fixture_membership: one symbol of the frame, from
\* the first day its rows speak of.
Seed(events, symbol, first) ==
  IF IsActive(events, symbol, first) THEN events ELSE Register(events, symbol, first)
=============================================================================
