------------------------ MODULE Singleflight_proofs ------------------------
(***************************************************************************)
(* Safety of Singleflight for any callers, keys, nesting and number of     *)
(* calls: one execution per key, and only fresh outcomes, with executions  *)
(* that raise and tasks that are cancelled anywhere.                       *)
(***************************************************************************)
EXTENDS Singleflight, TLAPS

\* Callers that lead a call: their call stays registered until they return.
Leading == {"running", "nested", "settled"}

Registered ==
  \A c \in Callers : pc[c] \in Leading =>
    /\ calls[key[c]] = call[c]
    /\ call[c] \in CallIds
    /\ call[c] \notin over

OneLeader ==
  \A c, d \in Callers :
    (pc[c] \in Leading /\ pc[d] \in Leading /\ key[c] = key[d]) => c = d

\* A caller made by an execution is its only one, and that execution waits.
Nesting ==
  /\ \A c \in Callers :
       (pc[c] # "idle" /\ parent[c] # NoCaller) => pc[parent[c]] = "nested"
  /\ \A c, d \in Callers :
       (pc[c] # "idle" /\ pc[d] # "idle" /\ parent[c] = parent[d]
          /\ parent[c] # NoCaller) => c = d

Asking == \A c \in Callers : pc[c] # "idle" => key[c] \in Keys

\* A registered call is one for its key; it is over only if it was forsaken.
InFlight ==
  \A k \in Keys : calls[k] # 0 =>
    /\ subject[calls[k]] = k
    /\ future[calls[k]] # "unused"
    /\ calls[k] \in over => calls[k] \in forsaken

Waiting ==
  \A c \in Callers : pc[c] = "joined" =>
    /\ call[c] \in CallIds
    /\ subject[call[c]] = key[c]
    /\ future[call[c]] # "unused"
    /\ call[c] \in seen[c] => call[c] \in forsaken

History ==
  /\ \A n \in over : future[n] # "unused"
  /\ \A c \in Callers : seen[c] \subseteq over
  /\ \A c \in Callers : got[c] # 0 => future[got[c]] # "unused"

Inv ==
  /\ TypeOK
  /\ Registered
  /\ OneLeader
  /\ Nesting
  /\ Asking
  /\ InFlight
  /\ Waiting
  /\ History
  /\ FreshOutcome

-----------------------------------------------------------------------------
(* What a caller's return does to the control of the others: at most its   *)
(* parent moves, from waiting for it to running.                           *)
LEMMA ReturnControl ==
  ASSUME TypeOK, Nesting, NEW c \in Callers, pc[c] \notin {"idle", "nested"},
         Return(c), UNCHANGED parent
  PROVE  /\ pc' \in [Callers -> {"idle", "entering", "joined", "running", "nested", "settled"}]
         /\ pc'[c] = "idle"
         /\ \A d \in Callers \ {c} :
              pc'[d] = pc[d] \/ (pc[d] = "nested" /\ pc'[d] = "running")
         /\ Nesting'
<1>1. pc' \in [Callers -> {"idle", "entering", "joined", "running", "nested", "settled"}]
  BY DEF Return, TypeOK
<1>2. pc'[c] = "idle"
  BY DEF Return, TypeOK
<1>3. ASSUME NEW d \in Callers \ {c}
      PROVE  pc'[d] = IF d = parent[c] THEN "running" ELSE pc[d]
  BY DEF Return, TypeOK
<1>4. ASSUME NEW d \in Callers, d = parent[c]
      PROVE  pc[d] = "nested"
  BY <1>4, NamesAssumption DEF Nesting
<1>5. Nesting'
  <2>1. ASSUME NEW d \in Callers, pc'[d] # "idle"
        PROVE  d # c /\ pc[d] # "idle"
    BY <1>2, <1>3, <1>4, <2>1
  <2>2. ASSUME NEW d \in Callers, pc'[d] # "idle", parent[d] # NoCaller
        PROVE  pc'[parent[d]] = "nested"
    <3>1. pc[parent[d]] = "nested" /\ parent[d] \in Callers \ {c}
      BY <2>1, <2>2 DEF Nesting, TypeOK
    <3>2. parent[d] # parent[c]
      BY <2>1, <2>2 DEF Nesting
    <3>3. QED
      BY <1>3, <3>1, <3>2
  <2>3. QED
    BY <2>1, <2>2 DEF Nesting
<1>6. QED
  BY <1>1, <1>2, <1>3, <1>4, <1>5
-----------------------------------------------------------------------------
\* What an execution that ends, or is cancelled, may do besides its control.
Ending(c) ==
  /\ pc[c] \in {"running", "settled"}
  /\ future' \in [CallIds -> {"unused", "pending", "result", "exception", "cancelled"}]
  /\ \A n \in CallIds : future'[n] = "unused" <=> future[n] = "unused"
  /\ forsaken \subseteq forsaken' /\ forsaken' \subseteq CallIds
  /\ UNCHANGED <<mode, subject, lock, key, call, parent, started, seen>>

(* A leader drops its call and returns.                                    *)
LEMMA DropInv ==
  ASSUME Inv, NEW c \in Callers, Ending(c), Drop(c)
  PROVE  Inv'
<1> USE DEF Ending
<1>1. Return(c) /\ TypeOK /\ Nesting /\ pc[c] \notin {"idle", "nested"} /\ UNCHANGED parent
  BY DEF Inv, Drop
<1>2. /\ pc' \in [Callers -> {"idle", "entering", "joined", "running", "nested", "settled"}]
      /\ pc'[c] = "idle"
      /\ \A d \in Callers \ {c} :
           pc'[d] = pc[d] \/ (pc[d] = "nested" /\ pc'[d] = "running")
      /\ Nesting'
  BY <1>1, ReturnControl
<1>3. /\ key[c] \in Keys
      /\ calls[key[c]] = call[c]
      /\ call[c] \in CallIds /\ call[c] # 0
      /\ call[c] \notin over
      /\ subject[call[c]] = key[c]
      /\ future[call[c]] # "unused"
  BY DEF Inv, Registered, Asking, InFlight, Leading, CallIds
<1>4. /\ calls' = [calls EXCEPT ![key[c]] = 0]
      /\ over' = over \cup {call[c]}
      /\ got' = [got EXCEPT ![c] = call[c]]
  BY DEF Drop
<1>5. TypeOK'
  BY <1>1, <1>2, <1>3, <1>4 DEF TypeOK, CallIds
<1>6. ASSUME NEW d \in Callers, pc'[d] \in Leading
      PROVE  /\ d # c /\ pc[d] \in Leading
             /\ key[d] \in Keys /\ key[d] # key[c]
             /\ call[d] # call[c]
  <2>1. d # c /\ pc[d] \in Leading
    BY <1>2, <1>6 DEF Leading
  <2>2. key[d] \in Keys /\ key[d] # key[c]
    BY <2>1 DEF Inv, OneLeader, Asking, Leading
  <2>3. calls[key[d]] = call[d] /\ call[d] # 0
    BY <2>1 DEF Inv, Registered, CallIds
  <2>4. subject[call[d]] = key[d]
    BY <2>2, <2>3 DEF Inv, InFlight
  <2>5. QED
    BY <1>3, <2>1, <2>2, <2>4
<1>7. Registered'
  BY <1>1, <1>4, <1>6 DEF Inv, Registered, TypeOK
<1>8. OneLeader'
  BY <1>6 DEF Inv, OneLeader
<1>9. Asking'
  BY <1>2 DEF Inv, Asking
<1>10. InFlight'
  <2> SUFFICES ASSUME NEW k \in Keys, calls'[k] # 0
               PROVE  /\ subject[calls'[k]] = k
                      /\ future'[calls'[k]] # "unused"
                      /\ calls'[k] \in over' => calls'[k] \in forsaken'
    BY DEF InFlight
  <2>1. k # key[c] /\ calls'[k] = calls[k] /\ calls[k] \in CallIds
    BY <1>1, <1>3, <1>4 DEF TypeOK
  <2>2. /\ subject[calls[k]] = k
        /\ future[calls[k]] # "unused"
        /\ calls[k] \in over => calls[k] \in forsaken
    BY <2>1 DEF Inv, InFlight
  <2>3. calls[k] # call[c]
    BY <1>3, <2>1, <2>2
  <2>4. QED
    BY <1>4, <2>1, <2>2, <2>3
<1>11. Waiting'
  BY <1>2 DEF Inv, Waiting
<1>12. History'
  BY <1>1, <1>3, <1>4 DEF Inv, History, TypeOK
<1>13. FreshOutcome'
  <2>1. call[c] \notin seen[c]
    BY <1>3 DEF Inv, History
  <2>2. QED
    BY <1>1, <1>3, <1>4, <2>1 DEF Inv, FreshOutcome, TypeOK
<1>14. QED
  BY <1>2, <1>5, <1>7, <1>8, <1>9, <1>10, <1>11, <1>12, <1>13 DEF Inv

(* A leader goes to wait for the lock its cleanup needs.                   *)
LEMMA ToFinallyInv ==
  ASSUME Inv, NEW c \in Callers, Ending(c), pc[c] = "running", ToFinally(c)
  PROVE  Inv'
<1> USE DEF Ending
<1>1. /\ pc' = [pc EXCEPT ![c] = "settled"]
      /\ UNCHANGED <<calls, over, got>>
  BY DEF ToFinally
<1>2. TypeOK'
  BY <1>1 DEF Inv, TypeOK
<1>3. \A d \in Callers : /\ pc'[d] \in Leading <=> pc[d] \in Leading
                         /\ pc'[d] = "joined" <=> pc[d] = "joined"
                         /\ pc'[d] = "idle" <=> pc[d] = "idle"
                         /\ pc[d] = "nested" => pc'[d] = "nested"
  BY <1>1 DEF Inv, TypeOK, Leading
<1>4. Registered' /\ OneLeader' /\ Asking' /\ Waiting'
  BY <1>1, <1>3 DEF Inv, Registered, OneLeader, Asking, Waiting
<1>5. Nesting'
  BY <1>3 DEF Inv, Nesting, TypeOK
<1>6. InFlight' /\ History' /\ FreshOutcome'
  BY <1>1 DEF Inv, TypeOK, InFlight, History, FreshOutcome
<1>7. QED
  BY <1>2, <1>4, <1>5, <1>6 DEF Inv
-----------------------------------------------------------------------------
(* A new caller enters, for nobody or for an execution that then waits.    *)
LEMMA AskInv ==
  ASSUME Inv, NEW c \in Callers, NEW k \in Keys, NEW p \in Callers \cup {NoCaller},
         p = NoCaller \/ pc[p] = "running", Ask(c, k, p)
  PROVE  Inv'
<1>1. /\ pc[c] = "idle" /\ c # p
      /\ UNCHANGED <<mode, calls, future, subject, lock, call, over, forsaken>>
      /\ key' = [key EXCEPT ![c] = k]
      /\ parent' = [parent EXCEPT ![c] = p]
      /\ seen' = [seen EXCEPT ![c] = over]
      /\ got' = [got EXCEPT ![c] = 0]
  BY NamesAssumption DEF Ask
<1>2. /\ pc' \in [Callers -> {"idle", "entering", "joined", "running", "nested", "settled"}]
      /\ pc'[c] = "entering"
      /\ \A d \in Callers \ {c} :
           pc'[d] = pc[d] \/ (d = p /\ pc[d] = "running" /\ pc'[d] = "nested")
      /\ p \in Callers => pc'[p] = "nested"
  BY <1>1, NamesAssumption DEF Ask, Inv, TypeOK
<1>3. TypeOK'
  <2>1. started' \in 0 .. MaxStarts
    BY StartsAssumption DEF Ask, Inv, TypeOK
  <2>2. lock' \in {d \in Callers : mode' = "do_async" /\ pc'[d] = "joined"} \cup {NoCaller}
    BY <1>1, <1>2 DEF Inv, TypeOK
  <2>3. QED
    BY <1>1, <1>2, <2>1, <2>2 DEF Inv, TypeOK
<1>4. \A d \in Callers :
        /\ pc'[d] \in Leading <=> pc[d] \in Leading
        /\ pc'[d] = "joined" <=> pc[d] = "joined"
        /\ d # c => (pc'[d] = "idle" <=> pc[d] = "idle")
        /\ pc[d] = "nested" => pc'[d] = "nested"
  BY <1>1, <1>2 DEF Leading
<1>5. \A d \in Callers : pc[d] \in Leading \cup {"joined"} => d # c
  BY <1>1 DEF Leading
<1>6. Registered' /\ OneLeader' /\ Asking' /\ Waiting'
  <2>1. \A d \in Callers \ {c} : key'[d] = key[d] /\ seen'[d] = seen[d]
    BY <1>1 DEF Inv, TypeOK
  <2>2. key'[c] = k
    BY <1>1 DEF Inv, TypeOK
  <2>3. QED
    BY <1>1, <1>4, <1>5, <2>1, <2>2 DEF Inv, Registered, OneLeader, Asking, Waiting
<1>7. Nesting'
  <2>1. parent'[c] = p /\ \A d \in Callers \ {c} : parent'[d] = parent[d]
    BY <1>1 DEF Inv, TypeOK
  <2>2. ASSUME NEW d \in Callers \ {c}, pc[d] # "idle", p # NoCaller
        PROVE  parent[d] # p
    BY <2>2 DEF Inv, Nesting
  <2>3. parent \in [Callers -> Callers \cup {NoCaller}]
    BY DEF Inv, TypeOK
  <2>4. \A d \in Callers : (pc'[d] # "idle" /\ parent'[d] # NoCaller)
                             => pc'[parent'[d]] = "nested"
    BY <1>2, <1>4, <2>1, <2>3 DEF Inv, Nesting
  <2>5. \A d, e \in Callers :
          (pc'[d] # "idle" /\ pc'[e] # "idle" /\ parent'[d] = parent'[e]
             /\ parent'[d] # NoCaller) => d = e
    BY <1>4, <2>1, <2>2 DEF Inv, Nesting
  <2>6. QED
    BY <2>4, <2>5 DEF Nesting
<1>8. InFlight' /\ History' /\ FreshOutcome'
  BY <1>1 DEF Inv, TypeOK, InFlight, History, FreshOutcome
<1>9. QED
  BY <1>3, <1>6, <1>7, <1>8 DEF Inv

(* A caller finds no call for its key and becomes its leader.              *)
LEMMA LeadInv ==
  ASSUME Inv, NEW c \in Callers, Lead(c)
  PROVE  Inv'
<1>1. PICK n \in CallIds :
        /\ future[n] = "unused"
        /\ calls' = [calls EXCEPT ![key[c]] = n]
        /\ future' = [future EXCEPT ![n] = "pending"]
        /\ subject' = [subject EXCEPT ![n] = key[c]]
        /\ call' = [call EXCEPT ![c] = n]
  BY DEF Lead, NextCall
<1>2. /\ pc[c] = "entering" /\ calls[key[c]] = 0 /\ key[c] \in Keys
      /\ pc' = [pc EXCEPT ![c] = "running"]
      /\ UNCHANGED <<mode, lock, key, parent, started, over, forsaken, seen, got>>
  BY DEF Lead, Inv, Asking
<1>3. n \notin over /\ n # 0
  BY <1>1 DEF Inv, History, CallIds
<1>4. TypeOK'
  BY <1>1, <1>2 DEF Inv, TypeOK
<1>5. ASSUME NEW d \in Callers \ {c}, pc[d] \in Leading
      PROVE  key[d] # key[c]
  BY <1>2, <1>5 DEF Inv, Registered, CallIds
<1>6. \A d \in Callers \ {c} : pc'[d] = pc[d] /\ call'[d] = call[d]
  BY <1>1, <1>2 DEF Inv, TypeOK
<1>7. pc'[c] = "running" /\ call'[c] = n
  BY <1>1, <1>2 DEF Inv, TypeOK
<1>8. Registered'
  <2>1. calls'[key[c]] = n /\ \A k \in Keys \ {key[c]} : calls'[k] = calls[k]
    BY <1>1, <1>2 DEF Inv, TypeOK
  <2>2. QED
    BY <1>2, <1>3, <1>5, <1>6, <1>7, <2>1 DEF Inv, Registered, Asking, Leading
<1>9. OneLeader'
  BY <1>2, <1>5, <1>6, <1>7 DEF Inv, OneLeader
<1>10. Asking'
  BY <1>2, <1>6 DEF Inv, Asking
<1>11. Nesting'
  BY <1>2, <1>6, <1>7 DEF Inv, Nesting, TypeOK
<1>12. InFlight'
  BY <1>1, <1>2, <1>3 DEF Inv, InFlight, TypeOK
<1>13. Waiting'
  BY <1>1, <1>2, <1>6, <1>7 DEF Inv, Waiting, TypeOK
<1>14. History'
  BY <1>1, <1>2 DEF Inv, History, TypeOK
<1>15. FreshOutcome'
  BY <1>1, <1>2 DEF Inv, FreshOutcome, History, TypeOK
<1>16. QED
  BY <1>4, <1>8, <1>9, <1>10, <1>11, <1>12, <1>13, <1>14, <1>15 DEF Inv
(* A caller finds a call for its key and waits for it.                     *)
LEMMA JoinInv ==
  ASSUME Inv, NEW c \in Callers, Join(c)
  PROVE  Inv'
<1>1. /\ pc[c] = "entering" /\ key[c] \in Keys /\ lock = NoCaller
      /\ calls[key[c]] # 0 /\ calls[key[c]] \in CallIds
      /\ call' = [call EXCEPT ![c] = calls[key[c]]]
      /\ pc' = [pc EXCEPT ![c] = "joined"]
      /\ lock' = IF mode = "do_async" THEN c ELSE NoCaller
      /\ UNCHANGED <<mode, calls, future, subject, key, parent, started, over,
                     forsaken, seen, got>>
  BY DEF Join, Inv, Asking, TypeOK
<1>2. /\ \A d \in Callers \ {c} : pc'[d] = pc[d] /\ call'[d] = call[d]
      /\ pc'[c] = "joined" /\ call'[c] = calls[key[c]]
  BY <1>1 DEF Inv, TypeOK
<1>3. TypeOK'
  BY <1>1, <1>2 DEF Inv, TypeOK
<1>4. Registered' /\ OneLeader' /\ Asking'
  BY <1>1, <1>2 DEF Inv, Registered, OneLeader, Asking, Leading
<1>5. Nesting'
  BY <1>1, <1>2 DEF Inv, Nesting, TypeOK
<1>6. Waiting'
  <2>1. /\ subject[calls[key[c]]] = key[c]
        /\ future[calls[key[c]]] # "unused"
        /\ calls[key[c]] \in over => calls[key[c]] \in forsaken
    BY <1>1 DEF Inv, InFlight
  <2>2. seen[c] \subseteq over
    BY DEF Inv, History
  <2>3. QED
    BY <1>1, <1>2, <2>1, <2>2 DEF Inv, Waiting
<1>7. InFlight' /\ History' /\ FreshOutcome'
  BY <1>1 DEF Inv, InFlight, History, FreshOutcome
<1>8. QED
  BY <1>3, <1>4, <1>5, <1>6, <1>7 DEF Inv

(* A caller that leads nothing leaves: with the outcome it waited for, or  *)
(* cancelled, which may cancel the future it waits for.                    *)
LEMMA LeaveInv ==
  ASSUME Inv, NEW c \in Callers, pc[c] \in {"entering", "joined"},
         Return(c), Unlocked(c),
         future' \in [CallIds -> {"unused", "pending", "result", "exception", "cancelled"}],
         \A n \in CallIds : future'[n] = "unused" <=> future[n] = "unused",
         \/ UNCHANGED got
         \/ pc[c] = "joined" /\ got' = [got EXCEPT ![c] = call[c]],
         UNCHANGED <<mode, calls, subject, key, call, parent, started, over, forsaken, seen>>
  PROVE  Inv'
<1>1. TypeOK /\ Nesting /\ pc[c] \notin {"idle", "nested"} /\ UNCHANGED parent
  BY DEF Inv
<1>2. /\ pc' \in [Callers -> {"idle", "entering", "joined", "running", "nested", "settled"}]
      /\ pc'[c] = "idle"
      /\ \A d \in Callers \ {c} :
           pc'[d] = pc[d] \/ (pc[d] = "nested" /\ pc'[d] = "running")
      /\ Nesting'
  BY <1>1, ReturnControl
<1>3. TypeOK'
  <2>1. lock' \in {d \in Callers : mode' = "do_async" /\ pc'[d] = "joined"} \cup {NoCaller}
    BY <1>1, <1>2 DEF Unlocked, TypeOK
  <2>2. got' \in [Callers -> {0} \cup CallIds]
    BY <1>1 DEF TypeOK
  <2>3. QED
    BY <1>1, <1>2, <2>1, <2>2 DEF TypeOK
<1>4. \A d \in Callers : /\ pc'[d] \in Leading <=> pc[d] \in Leading
                         /\ pc'[d] = "joined" => pc[d] = "joined"
                         /\ pc'[d] # "idle" => pc[d] # "idle"
  BY <1>2 DEF Leading
<1>5. Registered' /\ OneLeader' /\ Asking'
  BY <1>4 DEF Inv, Registered, OneLeader, Asking
<1>6. InFlight' /\ Waiting'
  BY <1>1, <1>4 DEF Inv, InFlight, Waiting, TypeOK
<1>7. History' /\ FreshOutcome'
  <2>1. pc[c] = "joined" => /\ call[c] \in CallIds
                            /\ subject[call[c]] = key[c]
                            /\ future[call[c]] # "unused"
                            /\ call[c] \in seen[c] => call[c] \in forsaken
    BY DEF Inv, Waiting
  <2>2. \A d \in Callers : got[d] \in {0} \cup CallIds
    BY <1>1 DEF TypeOK
  <2>3. \A d \in Callers : \/ got'[d] = got[d]
                           \/ d = c /\ pc[c] = "joined" /\ got'[d] = call[d]
    BY <1>1 DEF TypeOK
  <2>4. over \subseteq CallIds
    BY <1>1 DEF TypeOK
  <2>5. History'
    BY <2>1, <2>2, <2>3, <2>4 DEF Inv, History, CallIds
  <2>6. FreshOutcome'
    BY <2>1, <2>3 DEF Inv, FreshOutcome
  <2>7. QED
    BY <2>5, <2>6
<1>8. QED
  BY <1>2, <1>3, <1>5, <1>6, <1>7 DEF Inv

(* A leader cancelled in its cleanup leaves its call registered.           *)
LEMMA CancelCleanupInv ==
  ASSUME Inv, NEW c \in Callers, CancelCleanup(c),
         UNCHANGED <<mode, subject, key, call, parent, started, seen>>
  PROVE  Inv'
<1>1. /\ TypeOK /\ Nesting /\ pc[c] \notin {"idle", "nested"} /\ UNCHANGED parent
      /\ pc[c] = "settled" /\ Return(c)
      /\ over' = over \cup {call[c]}
      /\ forsaken' = forsaken \cup {call[c]}
      /\ UNCHANGED <<calls, future, lock, got>>
  BY DEF Inv, CancelCleanup
<1>2. /\ pc' \in [Callers -> {"idle", "entering", "joined", "running", "nested", "settled"}]
      /\ pc'[c] = "idle"
      /\ \A d \in Callers \ {c} :
           pc'[d] = pc[d] \/ (pc[d] = "nested" /\ pc'[d] = "running")
      /\ Nesting'
  BY <1>1, ReturnControl
<1>3. /\ key[c] \in Keys /\ calls[key[c]] = call[c]
      /\ call[c] \in CallIds /\ call[c] # 0
      /\ subject[call[c]] = key[c] /\ future[call[c]] # "unused"
  BY <1>1 DEF Inv, Registered, Asking, InFlight, Leading, CallIds
<1>4. TypeOK'
  BY <1>1, <1>2, <1>3 DEF TypeOK
<1>5. ASSUME NEW d \in Callers, pc'[d] \in Leading
      PROVE  /\ d # c /\ pc[d] \in Leading
             /\ key[d] \in Keys /\ key[d] # key[c]
             /\ call[d] # call[c]
  <2>1. d # c /\ pc[d] \in Leading
    BY <1>2, <1>5 DEF Leading
  <2>2. key[d] \in Keys /\ key[d] # key[c]
    BY <1>1, <2>1 DEF Inv, OneLeader, Asking, Leading
  <2>3. calls[key[d]] = call[d] /\ call[d] # 0
    BY <2>1 DEF Inv, Registered, CallIds
  <2>4. subject[call[d]] = key[d]
    BY <2>2, <2>3 DEF Inv, InFlight
  <2>5. QED
    BY <1>3, <2>1, <2>2, <2>4
<1>6. Registered' /\ OneLeader'
  BY <1>1, <1>5 DEF Inv, Registered, OneLeader
<1>7. Asking' /\ Waiting'
  BY <1>1, <1>2 DEF Inv, Asking, Waiting
<1>8. InFlight' /\ History' /\ FreshOutcome'
  BY <1>1, <1>3 DEF Inv, InFlight, History, FreshOutcome
<1>9. QED
  BY <1>2, <1>4, <1>6, <1>7, <1>8 DEF Inv
-----------------------------------------------------------------------------
LEMMA InitInv == Init => Inv
<1> SUFFICES ASSUME Init PROVE Inv
  OBVIOUS
<1>1. TypeOK
  BY StartsAssumption DEF Init, TypeOK
<1>2. Registered /\ OneLeader /\ Nesting /\ Asking /\ Waiting
  BY DEF Init, Registered, OneLeader, Nesting, Asking, Waiting, Leading
<1>3. InFlight /\ History /\ FreshOutcome
  BY DEF Init, InFlight, History, FreshOutcome
<1>4. QED
  BY <1>1, <1>2, <1>3 DEF Inv

LEMMA StepInv ==
  ASSUME Inv, NEW c \in Callers, Step(c)
  PROVE  Inv'
<1>1. CASE Lead(c)
  BY <1>1, LeadInv
<1>2. CASE Join(c)
  BY <1>2, JoinInv
<1>3. CASE Awake(c)
  <2>1. \A n \in CallIds : future'[n] = "unused" <=> future[n] = "unused"
    BY <1>3 DEF Awake
  <2>2. future' \in [CallIds -> {"unused", "pending", "result", "exception", "cancelled"}]
    BY <1>3 DEF Awake, Inv, TypeOK
  <2>3. QED
    BY <1>3, <2>1, <2>2, LeaveInv DEF Awake
<1>4. CASE Settle(c)
  <2>1. call[c] \in CallIds
    BY <1>4 DEF Settle, Inv, Registered, Leading
  <2>2. future' \in [CallIds -> {"unused", "pending", "result", "exception", "cancelled"}]
    BY <1>4, <2>1 DEF Settle, Inv, TypeOK
  <2>3. \A n \in CallIds : future'[n] = "unused" <=> future[n] = "unused"
    BY <1>4, <2>1 DEF Settle, Inv, TypeOK
  <2>4. Ending(c)
    BY <1>4, <2>2, <2>3 DEF Settle, Ending, Inv, TypeOK
  <2>5. pc[c] = "running" /\ (ToFinally(c) \/ Drop(c))
    BY <1>4 DEF Settle
  <2>6. QED
    BY <2>4, <2>5, DropInv, ToFinallyInv
<1>5. CASE Pop(c)
  <2>1. Ending(c)
    BY <1>5 DEF Pop, Ending, Inv, TypeOK
  <2>2. QED
    BY <1>5, <2>1, DropInv DEF Pop
<1>6. QED
  BY <1>1, <1>2, <1>3, <1>4, <1>5 DEF Step

LEMMA CancelInv ==
  ASSUME Inv, NEW c \in Callers, Cancel(c)
  PROVE  Inv'
<1> USE DEF Cancel
<1>1. CASE CancelWaiting(c)
  <2>1. pc[c] = "joined" => call[c] \in CallIds /\ future[call[c]] = "pending"
    BY <1>1 DEF CancelWaiting, Inv, Waiting
  <2>2. future' \in [CallIds -> {"unused", "pending", "result", "exception", "cancelled"}]
    BY <1>1, <2>1 DEF CancelWaiting, Inv, TypeOK
  <2>3. \A n \in CallIds : future'[n] = "unused" <=> future[n] = "unused"
    BY <1>1, <2>1 DEF CancelWaiting, Inv, TypeOK
  <2>4. QED
    BY <1>1, <2>2, <2>3, LeaveInv DEF CancelWaiting
<1>2. CASE CancelExecution(c)
  <2>1. call[c] \in CallIds
    BY <1>2 DEF CancelExecution, Inv, Registered, Leading
  <2>2. Ending(c)
    BY <1>2, <2>1 DEF CancelExecution, Ending, Inv, TypeOK
  <2>3. pc[c] = "running" /\ (ToFinally(c) \/ Drop(c))
    BY <1>2 DEF CancelExecution
  <2>4. QED
    BY <2>2, <2>3, DropInv, ToFinallyInv
<1>3. CASE CancelCleanup(c)
  BY <1>3, CancelCleanupInv
<1>4. QED
  BY <1>1, <1>2, <1>3

LEMMA NextInv == Inv /\ [Next]_vars => Inv'
<1> SUFFICES ASSUME Inv, [Next]_vars PROVE Inv'
  OBVIOUS
<1>1. ASSUME NEW c \in Callers, NEW k \in Keys, Start(c, k) PROVE Inv'
  BY <1>1, AskInv DEF Start
<1>2. ASSUME NEW c \in Callers, NEW p \in Callers, NEW k \in Keys, Nest(p, c, k) PROVE Inv'
  BY <1>2, AskInv DEF Nest
<1>3. CASE UNCHANGED vars
  BY <1>3 DEF vars, Inv, TypeOK, Registered, OneLeader, Nesting, Asking, InFlight,
              Waiting, History, FreshOutcome
<1>4. QED
  BY <1>1, <1>2, <1>3, StepInv, CancelInv DEF Next

LEMMA SpecInv == Spec => []Inv
<1>1. QED
  BY InitInv, NextInv, PTL DEF Spec

(* Class docstring (multi_tier_cache.py:100): at most one execution per    *)
(* key is in flight, however many callers there are, whatever executions   *)
(* nest or raise, and wherever tasks are cancelled.                        *)
THEOREM OneExecutionAlways == Spec => []OneExecution
<1>1. Inv => OneExecution
  BY DEF Inv, OneLeader, Leading, OneExecution, Executing
<1>2. QED
  BY <1>1, SpecInv, PTL

(* No caller is served the outcome of a call that was over before it       *)
(* asked, nor of a call for another key, unless the leader of that call    *)
(* was cancelled (multi_tier_cache.py:116-119, 136-145).                   *)
THEOREM FreshOutcomeAlways == Spec => []FreshOutcome
<1>1. Inv => FreshOutcome
  BY DEF Inv
<1>2. QED
  BY <1>1, SpecInv, PTL

(* Between two steps the lock that all keys share is held by nobody, or in *)
(* do_async by a caller that awaits a future (lines 141-145).              *)
THEOREM TypeCorrect == Spec => []TypeOK
<1>1. Inv => TypeOK
  BY DEF Inv
<1>2. QED
  BY <1>1, SpecInv, PTL
=============================================================================
