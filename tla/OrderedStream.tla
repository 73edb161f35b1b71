---------------------------- MODULE OrderedStream ---------------------------
(***************************************************************************)
(* What StreamingPipeline.run promises its caller: the items of the source *)
(* come out once each and in order, in groups of any size; the stream ends *)
(* normally only when all of them have come out; it may break at any time, *)
(* and says so.  StreamingPipeline is the machinery of two tasks and two   *)
(* bounded queues that is meant to implement this.                         *)
(***************************************************************************)
EXTENDS Naturals, Sequences

CONSTANT N   \* items 1 .. N are what the source yields if it does not break

VARIABLES drawn,      \* items taken from the source
          delivered,  \* items given to the caller, in order
          outcome     \* how the stream ended, or "running"

streamVars == <<drawn, delivered, outcome>>

Init == drawn = 0 /\ delivered = <<>> /\ outcome = "running"

Draw ==
  /\ outcome = "running" /\ drawn < N
  /\ drawn' = drawn + 1
  /\ UNCHANGED <<delivered, outcome>>

Deliver ==
  /\ outcome = "running"
  /\ \E k \in 1 .. drawn - Len(delivered) :
       delivered' = delivered \o [j \in 1 .. k |-> Len(delivered) + j]
  /\ UNCHANGED <<drawn, outcome>>

End ==
  /\ outcome = "running"
  /\ Len(delivered) = N
  /\ outcome' = "end"
  /\ UNCHANGED <<drawn, delivered>>

Break ==
  /\ outcome = "running"
  /\ outcome' \in {"step_error", "source_error", "cancelled", "closed"}
  /\ UNCHANGED <<drawn, delivered>>

Next == Draw \/ Deliver \/ End \/ Break

Spec == Init /\ [][Next]_streamVars
=============================================================================
