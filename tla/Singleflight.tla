----------------------------- MODULE Singleflight ----------------------------
(***************************************************************************)
(* Singleflight (pysrc/ops/multi_tier_cache.py): concurrent cache misses   *)
(* for one key share one execution.  do serves threads and waits for the   *)
(* leader's future outside its lock; do_async serves tasks of one event    *)
(* loop and waits inside an asyncio.Lock that all keys share.  One action  *)
(* is a critical section, or what a caller does up to its next wait.       *)
(*                                                                         *)
(* A caller is a frame of do or do_async: an execution that itself needs   *)
(* another key starts a further caller and waits for it.                   *)
(***************************************************************************)
EXTENDS Naturals

CONSTANTS Callers, NoCaller,
          Keys, NoKey,
          Modes,           \* subset of {"do", "do_async"}
          Needs(_, _),     \* Needs(m, k): keys an execution of k may ask for
          MaxStarts        \* bound on the calls made

ASSUME NamesAssumption == NoCaller \notin Callers /\ NoKey \notin Keys
ASSUME ModesAssumption == Modes \subseteq {"do", "do_async"}
ASSUME NeedsAssumption == \A m \in Modes, k \in Keys : Needs(m, k) \subseteq Keys
ASSUME StartsAssumption == MaxStarts \in Nat

VARIABLES mode,     \* which of the two methods the callers use
          calls,    \* _calls: the call in flight for a key, 0 if none
          future,   \* future[n]: state of the future of call n
          subject,  \* subject[n]: the key call n was made for
          lock,     \* the caller that waits inside _async_lock, if any
          pc,
          key,      \* key[c]: the key c asked for
          call,     \* call[c]: the call c leads or waits for
          parent,   \* parent[c]: the execution that asked for key[c], if any
          started,  \* number of calls made
          over,     \* history: calls whose leader has returned
          forsaken, \* history: calls whose leader was cancelled
          seen,     \* history: what over was when c asked
          got       \* got[c]: the call whose outcome c returned last, 0 if none

vars == <<mode, calls, future, subject, lock, pc, key, call, parent, started,
          over, forsaken, seen, got>>

CallIds == 1 .. MaxStarts
Executing == {"running", "nested"}

(* Only a caller that waits for a leader keeps the lock between two steps. *)
TypeOK ==
  /\ mode \in Modes
  /\ calls \in [Keys -> {0} \cup CallIds]
  /\ future \in [CallIds -> {"unused", "pending", "result", "exception", "cancelled"}]
  /\ subject \in [CallIds -> Keys \cup {NoKey}]
  /\ lock \in {c \in Callers : mode = "do_async" /\ pc[c] = "joined"} \cup {NoCaller}
  /\ pc \in [Callers -> {"idle", "entering", "joined", "running", "nested", "settled"}]
  /\ key \in [Callers -> Keys \cup {NoKey}]
  /\ call \in [Callers -> {0} \cup CallIds]
  /\ parent \in [Callers -> Callers \cup {NoCaller}]
  /\ started \in 0 .. MaxStarts
  /\ over \in SUBSET CallIds
  /\ forsaken \in SUBSET CallIds
  /\ seen \in [Callers -> SUBSET CallIds]
  /\ got \in [Callers -> {0} \cup CallIds]

Init ==
  /\ mode \in Modes
  /\ calls = [k \in Keys |-> 0]
  /\ future = [n \in CallIds |-> "unused"]
  /\ subject = [n \in CallIds |-> NoKey]
  /\ lock = NoCaller
  /\ pc = [c \in Callers |-> "idle"]
  /\ key = [c \in Callers |-> NoKey]
  /\ call = [c \in Callers |-> 0]
  /\ parent = [c \in Callers |-> NoCaller]
  /\ started = 0
  /\ over = {}
  /\ forsaken = {}
  /\ seen = [c \in Callers |-> {}]
  /\ got = [c \in Callers |-> 0]

-----------------------------------------------------------------------------
\* A call of do or do_async: from outside, or by the execution of caller p.
Ask(c, k, p) ==
  /\ pc[c] = "idle" /\ started < MaxStarts
  /\ started' = started + 1
  /\ pc' = [d \in Callers |-> IF d = c THEN "entering"
                              ELSE IF d = p THEN "nested" ELSE pc[d]]
  /\ key' = [key EXCEPT ![c] = k]
  /\ parent' = [parent EXCEPT ![c] = p]
  /\ seen' = [seen EXCEPT ![c] = over]
  /\ got' = [got EXCEPT ![c] = 0]
  /\ UNCHANGED <<mode, calls, future, subject, lock, call, over, forsaken>>

Start(c, k) == Ask(c, k, NoCaller)

Nest(p, c, k) == /\ pc[p] = "running"
                 /\ k \in Needs(mode, key[p])
                 /\ Ask(c, k, p)

\* Calls are numbered in the order they are registered.
NextCall(n) == /\ future[n] = "unused"
               /\ \A m \in 1 .. n - 1 : future[m] # "unused"

\* Faulty variant: the dictionary is not looked at.
LeadAlways(c) ==
  /\ pc[c] = "entering" /\ lock = NoCaller
  /\ \E n \in CallIds :
       /\ NextCall(n)
       /\ calls' = [calls EXCEPT ![key[c]] = n]
       /\ future' = [future EXCEPT ![n] = "pending"]
       /\ subject' = [subject EXCEPT ![n] = key[c]]
       /\ call' = [call EXCEPT ![c] = n]
  /\ pc' = [pc EXCEPT ![c] = "running"]
  /\ UNCHANGED <<mode, lock, key, parent, started, over, forsaken, seen, got>>

\* No call in flight: register one and execute.
Lead(c) ==
  /\ pc[c] = "entering" /\ lock = NoCaller
  /\ calls[key[c]] = 0
  /\ \E n \in CallIds :
       /\ NextCall(n)
       /\ calls' = [calls EXCEPT ![key[c]] = n]
       /\ future' = [future EXCEPT ![n] = "pending"]
       /\ subject' = [subject EXCEPT ![n] = key[c]]
       /\ call' = [call EXCEPT ![c] = n]
  /\ pc' = [pc EXCEPT ![c] = "running"]
  /\ UNCHANGED <<mode, lock, key, parent, started, over, forsaken, seen, got>>

\* A call in flight: wait for its future; do_async does so holding the lock.
Join(c) ==
  /\ pc[c] = "entering" /\ lock = NoCaller
  /\ calls[key[c]] # 0
  /\ call' = [call EXCEPT ![c] = calls[key[c]]]
  /\ pc' = [pc EXCEPT ![c] = "joined"]
  /\ lock' = IF mode = "do_async" THEN c ELSE NoCaller
  /\ UNCHANGED <<mode, calls, future, subject, key, parent, started, over, forsaken, seen, got>>

\* A caller returns or raises: its parent's execution goes on.
Return(c) ==
  pc' = [d \in Callers |-> IF d = c THEN "idle"
                           ELSE IF d = parent[c] THEN "running" ELSE pc[d]]

\* Faulty variant: the lock is not released on the way out.
AwakeLocked(c) ==
  /\ pc[c] = "joined" /\ future[call[c]] # "pending"
  /\ got' = [got EXCEPT ![c] = call[c]]
  /\ Return(c)
  /\ UNCHANGED <<mode, calls, future, subject, lock, key, call, parent, started, over, forsaken, seen>>

Unlocked(c) == lock' = IF lock = c THEN NoCaller ELSE lock

\* The future is done: return its result or raise its exception.
Awake(c) ==
  /\ pc[c] = "joined" /\ future[call[c]] # "pending"
  /\ got' = [got EXCEPT ![c] = call[c]]
  /\ Return(c)
  /\ Unlocked(c)
  /\ UNCHANGED <<mode, calls, future, subject, key, call, parent, started, over, forsaken, seen>>

\* Faulty variant: a call that raised stays registered.
DropResult(c) ==
  /\ calls' = [calls EXCEPT ![key[c]] = IF future'[call[c]] = "result" THEN 0 ELSE @]
  /\ over' = over \cup {call[c]}
  /\ got' = [got EXCEPT ![c] = call[c]]
  /\ Return(c)

\* The body of finally: the call is no longer in flight.
Drop(c) ==
  /\ calls' = [calls EXCEPT ![key[c]] = 0]
  /\ over' = over \cup {call[c]}
  /\ got' = [got EXCEPT ![c] = call[c]]
  /\ Return(c)

\* finally needs the lock: a thread can lose the processor before it, a task goes
\* on at once if the lock is free and nobody was promised it.
ToFinally(c) ==
  /\ pc' = [pc EXCEPT ![c] = "settled"]
  /\ UNCHANGED <<calls, over, got>>

\* Faulty variant: only a result is handed to the waiters.
SettleResultOnly(c) ==
  /\ pc[c] = "running"
  /\ future' \in {future, [future EXCEPT ![call[c]] = "result"]}
  /\ ToFinally(c) \/ (mode = "do_async" /\ lock = NoCaller /\ Drop(c))
  /\ UNCHANGED <<mode, subject, lock, key, call, parent, started, forsaken, seen>>

\* fn returns or raises.  A future that a waiter's cancellation has cancelled
\* takes neither: set_result and then set_exception raise InvalidStateError.
Settle(c) ==
  /\ pc[c] = "running"
  /\ IF future[call[c]] = "pending"
       THEN \E outcome \in {"result", "exception"} :
              future' = [future EXCEPT ![call[c]] = outcome]
       ELSE UNCHANGED future
  /\ ToFinally(c) \/ (mode = "do_async" /\ lock = NoCaller /\ Drop(c))
  /\ UNCHANGED <<mode, subject, lock, key, call, parent, started, forsaken, seen>>

Pop(c) ==
  /\ pc[c] = "settled" /\ lock = NoCaller
  /\ UNCHANGED future
  /\ Drop(c)
  /\ UNCHANGED <<mode, subject, lock, key, call, parent, started, forsaken, seen>>

-----------------------------------------------------------------------------
(* A task is cancelled where it awaits.  CancelledError is no Exception:   *)
(* an execution goes straight to its finally, leaving its future pending;  *)
(* awaiting a future directly cancels that future; and a leader cancelled  *)
(* while its finally waits for the lock never drops its call.              *)
CancelWaiting(c) ==
  /\ pc[c] = "entering" \/ (pc[c] = "joined" /\ future[call[c]] = "pending")
  /\ future' = IF pc[c] = "joined" THEN [future EXCEPT ![call[c]] = "cancelled"]
                                   ELSE future
  /\ Return(c)
  /\ Unlocked(c)
  /\ UNCHANGED <<calls, over, forsaken, got>>

CancelExecution(c) ==
  /\ pc[c] = "running"
  /\ UNCHANGED <<future, lock>>
  /\ IF lock = NoCaller THEN Drop(c) ELSE ToFinally(c)
  /\ forsaken' = forsaken \cup {call[c]}

CancelCleanup(c) ==
  /\ pc[c] = "settled" /\ lock # NoCaller
  /\ over' = over \cup {call[c]}
  /\ forsaken' = forsaken \cup {call[c]}
  /\ Return(c)
  /\ UNCHANGED <<calls, future, lock, got>>

Cancel(c) ==
  /\ mode = "do_async"
  /\ CancelWaiting(c) \/ CancelExecution(c) \/ CancelCleanup(c)
  /\ UNCHANGED <<mode, subject, key, call, parent, started, seen>>

-----------------------------------------------------------------------------
Step(c) == Lead(c) \/ Join(c) \/ Awake(c) \/ Settle(c) \/ Pop(c)

Next ==
  \E c \in Callers :
    \/ Step(c) \/ Cancel(c)
    \/ \E k \in Keys : Start(c, k)
    \/ \E p \in Callers, k \in Keys : Nest(p, c, k)

\* Threads are scheduled, the event loop runs what is ready, executions end and
\* both locks are granted in the end (asyncio.Lock is first come, first served).
Fairness == \A c \in Callers : WF_vars(Step(c))

Spec == Init /\ [][Next]_vars /\ Fairness

-----------------------------------------------------------------------------
(* Class docstring (line 100): "Ensures only one execution per key is      *)
(* in-flight at a time", also when executions raise and nest.              *)
OneExecution ==
  \A c, d \in Callers :
    (pc[c] \in Executing /\ pc[d] \in Executing /\ key[c] = key[d]) => c = d

(* A caller returns the outcome of a call for its own key, whose leader    *)
(* had not returned before the caller asked: sharing never turns into      *)
(* serving an old result or an old exception (lines 116-119, 136-145).     *)
(* A leader cancelled in its cleanup does leave its call behind.           *)
FreshOutcome ==
  \A c \in Callers :
    got[c] # 0 => /\ subject[got[c]] = key[c]
                  /\ got[c] \in seen[c] => got[c] \in forsaken

(* Class docstring (line 101): "Other requests for the same key wait for   *)
(* the first result": the wait ends, for leaders too, whether the          *)
(* execution returns or raises.                                            *)
EveryCallReturns == \A c \in Callers : (pc[c] # "idle") ~> (pc[c] = "idle")

(* What the code achieves of it: every call returns as long as no leader   *)
(* has been cancelled, whatever waiters are (lines 127-137, 151-167).      *)
CallsReturnUnlessForsaken ==
  \A c \in Callers : (pc[c] # "idle") ~> (pc[c] = "idle" \/ forsaken # {})
=============================================================================
