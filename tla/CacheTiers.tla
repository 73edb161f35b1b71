----------------------------- MODULE CacheTiers -----------------------------
(***************************************************************************)
(* MultiTierClient (pysrc/ops/multi_tier_cache.py): processes that share   *)
(* an L2 directory of files, a Redis L3 and an L4 directory, and keep an   *)
(* L1 dictionary and the expiries of L2 files to themselves.  In each      *)
(* process one thread calls the client and one listens for invalidations.  *)
(* Both go through the tiers step by step: `todo' lists the accesses an    *)
(* operation has yet to make.  L1 has no lock: what a caller does to its   *)
(* two dictionaries is split where the listener's deletion may fall in     *)
(* between, and a deletion within a step can make the step raise.          *)
(*                                                                         *)
(* A value is the version of the source it was computed from.  An expiry   *)
(* is a step of the clock: whatever has a time-to-live may run out of it.  *)
(***************************************************************************)
EXTENDS LocalCache, Sequences, SequencesExt, FiniteSetsExt

CONSTANTS Clients,
          NoKey,
          Setups,      \* who calls what on which keys, with L4 or without
          MaxVersion   \* bound on the versions of the source

ASSUME VersionsAssumption == MaxVersion \in Nat /\ Values = 0 .. MaxVersion
ASSUME NoKeyAssumption == NoKey \notin Keys
\* l4 stands for check_l4_on_miss and persist_to_l4; a faulty Redis may fail
\* requests; ops bounds the operations called, lapses the expiries.
Operations == {"get", "compute_or_get", "set", "invalidate", "invalidate_pattern"}
ASSUME SetupAssumption ==
  Setups \subseteq [clients : SUBSET Clients, keys : SUBSET Keys, l4 : BOOLEAN,
                   faulty : BOOLEAN, ops : Nat, lapses : Nat, calls : SUBSET Operations]

VARIABLES source,  \* source[k]: the version that computing k now gives
          l1,      \* l1[c]: the EnhancedCacheManager of process c
          l2meta,  \* l2meta[c][k]: MemfdL2Cache._metadata of process c
          l2tmp,   \* l2tmp[k]: the temporary file all writers of k share
          l2file,  \* l2file[k]: the file of k
          l3, l4,  \* Redis; the persistent files
          queue,   \* queue[c]: invalidations published to listener of c
          agent,   \* agent[a]: the operation that thread a is in
          alive,   \* alive[c]: the listener thread of c runs
          setup,   \* the setup of this behaviour
          ops,     \* operations called so far
          lapses,  \* expiries so far
          floor,   \* history: floor[k]: version at the last finished invalidate
          spoiled, \* history: keys used or invalidated during an invalidation, or
                   \* left in L3 by one
          unsent   \* history: keys whose last invalidation was not published

shared == <<l2tmp, l2file, l3, l4, queue>>
history == <<floor, spoiled, unsent>>
vars == <<source, l1, l2meta, shared, agent, alive, setup, ops, lapses, history>>

Threads == Clients \X {"caller", "listener"}
Steps == {"l2", "l2known", "l2any", "adopt", "l3", "l4", "compute",
          "put1", "store1", "list1", "tmp", "replace", "meta", "put3", "put4",
          "drop1", "del1", "unlist1", "forget", "look", "unlink", "drop3", "publish"}

\* What an operation does to the tiers, one access after the other.
SetL2 == <<"tmp", "replace", "meta">>
WriteThrough == <<"put1">> \o SetL2 \o <<"put3">>
DropL1L2 == <<"drop1", "forget", "look", "unlink">>
Search == <<"l2", "l3">> \o (IF setup.l4 THEN <<"l4">> ELSE <<>>)

Resting == [op |-> "none", key |-> NoKey, val |-> 0, todo |-> <<>>]

TypeOK ==
  /\ source \in [Keys -> Values] /\ floor \in [Keys -> Values]
  /\ l1 \in [Clients -> Caches]
  /\ l2meta \in [Clients -> [Keys -> {"none", "live", "expired", "forever"}]]
  /\ {l2tmp, l2file, l3, l4} \subseteq [Keys -> Values \cup {NoEntry}]
  /\ queue \in [Clients -> Seq(Keys)]
  /\ agent \in [Threads -> [op : Operations \cup {"none"},
                           key : Keys \cup {NoKey}, val : Values, todo : Seq(Steps)]]
  /\ alive \in [Clients -> BOOLEAN] /\ setup \in Setups
  /\ ops \in 0 .. setup.ops /\ lapses \in 0 .. setup.lapses
  /\ spoiled \subseteq Keys /\ unsent \subseteq Keys

Init ==
  /\ source = [k \in Keys |-> 0] /\ floor = source
  /\ l1 = [c \in Clients |-> EmptyCache]
  /\ l2meta = [c \in Clients |-> [k \in Keys |-> "none"]]
  /\ l2tmp = [k \in Keys |-> NoEntry]
  /\ l2file = l2tmp /\ l3 = l2tmp /\ l4 = l2tmp
  /\ queue = [c \in Clients |-> <<>>]
  /\ agent = [a \in Threads |-> Resting]
  /\ alive = [c \in Clients |-> TRUE]
  /\ setup \in Setups
  /\ ops = 0 /\ lapses = 0 /\ spoiled = {} /\ unsent = {}

-----------------------------------------------------------------------------
Invalidating(k) ==
  \/ \E a \in Threads : agent[a].op = "invalidate" /\ agent[a].key = k
  \/ \E c \in Clients : k \in ToSet(queue[c])
Using(k) == \E a \in Threads : agent[a].key = k /\ agent[a].op # "invalidate"

At(a, step) == agent[a].todo # <<>> /\ Head(agent[a].todo) = step

\* Thread a calls an operation on k; one that overlaps an invalidation races.
Call(a, op, k, val, todo) ==
  /\ a \in setup.clients \X {"caller"} /\ agent[a] = Resting
  /\ k \in setup.keys /\ op \in setup.calls
  /\ ops < setup.ops
  /\ ops' = ops + 1
  /\ agent' = [agent EXCEPT ![a] =
                 IF todo = <<>> THEN Resting
                                ELSE [op |-> op, key |-> k, val |-> val, todo |-> todo]]
  /\ spoiled' = IF Invalidating(k) \/ (op = "invalidate" /\ Using(k)) THEN spoiled \cup {k}
                ELSE IF op = "invalidate" THEN spoiled \ {k} ELSE spoiled
  /\ UNCHANGED <<source, l2meta, shared, alive, setup, lapses, floor, unsent>>

\* get and compute_or_get: L1 answers or raises, or the other tiers are searched.
Get(a, op, k) ==
  LET c == a[1] IN
  /\ l1' = [l1 EXCEPT ![c] = Looked(@, k)]
  /\ Call(a, op, k, 0,
          IF Hits(l1[c], k) THEN <<>>
          ELSE Search \o (IF op = "compute_or_get" THEN <<"compute">> ELSE <<>>))

\* The listener of its process has deleted an entry but not its place in the order.
Disturbed(a) == At(<<a[1], "listener">>, "unlist1")
Gone(a) == agent[<<a[1], "listener">>].key

(* The deletion falls into get: its loops over the dictionary or the       *)
(* deletion of an expired entry raise, or move_to_end does.                *)
GetRaises(a, op, k) ==
  LET c == a[1]
      counted == Counted(Unlisted(CleanedUp(l1[c]), {k}), k)
  IN /\ Disturbed(a)
     /\ \E cache \in Torn(l1[c], Gone(a)) \cup (IF k = Gone(a) THEN {counted} ELSE {}) :
          l1' = [l1 EXCEPT ![c] = cache]
     /\ Call(a, op, k, 0, <<>>)

Set(a, k) == Call(a, "set", k, source[k], WriteThrough) /\ UNCHANGED l1

Invalidate(a, k) ==
  /\ Call(a, "invalidate", k, source[k], DropL1L2 \o <<"drop3", "publish">>)
  /\ UNCHANGED l1

(* invalidate_pattern: L1 of this process only, whatever broadcast says.   *)
(* A prefix of several keys is as many calls.                              *)
InvalidatePattern(a, k) ==
  Call(a, "invalidate_pattern", k, 0, <<"drop1">>) /\ UNCHANGED l1

\* The listener takes a message; L1 and L2 of its process are invalidated.
Hear(c) ==
  LET a == <<c, "listener">> IN
  /\ alive[c] /\ agent[a] = Resting /\ queue[c] # <<>>
  /\ agent' = [agent EXCEPT ![a] = [op |-> "invalidate", key |-> Head(queue[c]),
                                    val |-> 0, todo |-> DropL1L2]]
  /\ queue' = [queue EXCEPT ![c] = Tail(@)]
  /\ UNCHANGED <<source, l1, l2meta, l2tmp, l2file, l3, l4, alive, setup, ops,
                 lapses, history>>

\* A listener that ends hears no message any more.
Ends(c) == alive' = [alive EXCEPT ![c] = FALSE] /\ queue' = [queue EXCEPT ![c] = <<>>]

\* redis.RedisError: the listener's loop passes over it, and is left.
Disconnect(c) ==
  /\ setup.faulty /\ alive[c] /\ agent[<<c, "listener">>] = Resting
  /\ Ends(c)
  /\ UNCHANGED <<source, l1, l2meta, l2tmp, l2file, l3, l4, agent, setup, ops,
                 lapses, history>>

-----------------------------------------------------------------------------
\* Thread a makes the access `step' and goes on with `rest' holding val.
Goes(a, step, val, rest) ==
  /\ At(a, step)
  /\ agent' = [agent EXCEPT ![a] = IF rest = <<>> THEN Resting
                                   ELSE [op |-> @.op, key |-> @.key, val |-> val,
                                         todo |-> rest]]
  /\ UNCHANGED <<source, setup, ops, lapses>>

Rest(a) == Tail(agent[a].todo)
Key(a) == agent[a].key
Val(a) == agent[a].val

(* MemfdL2Cache.get, 1: the expiry this process knows.  Past it, the entry *)
(* is dropped but not the file.                                            *)
ReadMeta(a) ==
  LET c == a[1]  known == l2meta[c][Key(a)] IN
  /\ Goes(a, "l2", 0,
          CASE known = "none" -> <<"l2any">> \o Rest(a)
            [] known = "expired" -> Rest(a)
            [] OTHER -> <<"l2known">> \o Rest(a))
  /\ l2meta' = [l2meta EXCEPT ![c][Key(a)] = IF @ = "expired" THEN "none" ELSE @]
  /\ UNCHANGED <<l1, shared, alive, history>>

\* Faulty variant: the file is read without a look whether it exists.
ReadFileUnchecked(a, step) ==
  /\ Goes(a, step, l2file[Key(a)], IF step = "l2any" THEN <<"adopt", "put1">> ELSE <<"put1">>)
  /\ UNCHANGED <<l1, l2meta, shared, alive, history>>

(* 2: the file, whoever wrote it.  A hit is promoted to L1.  Without an    *)
(* expiry the file is adopted for good.                                    *)
ReadFile(a, step) ==
  LET found == l2file[Key(a)] IN
  /\ At(a, step)
  /\ IF found = NoEntry
       THEN Goes(a, step, 0, Rest(a))
       ELSE Goes(a, step, found, IF step = "l2any" THEN <<"adopt", "put1">> ELSE <<"put1">>)
  /\ UNCHANGED <<l1, l2meta, shared, alive, history>>

Adopt(a) ==
  /\ Goes(a, "adopt", Val(a), Rest(a))
  /\ l2meta' = [l2meta EXCEPT ![a[1]][Key(a)] = "forever"]
  /\ UNCHANGED <<l1, shared, alive, history>>

(* L3 and, if it is used, L4; a hit is promoted to the tiers above.  A     *)
(* request that Redis fails is a miss.                                     *)
ReadL3(a) ==
  /\ At(a, "l3")
  /\ \/ /\ l3[Key(a)] = NoEntry \/ setup.faulty
        /\ Goes(a, "l3", 0, Rest(a))
     \/ /\ l3[Key(a)] # NoEntry
        /\ Goes(a, "l3", l3[Key(a)], SetL2 \o <<"put1">>)
  /\ UNCHANGED <<l1, l2meta, shared, alive, history>>

ReadL4(a) ==
  /\ At(a, "l4")
  /\ IF l4[Key(a)] = NoEntry
       THEN Goes(a, "l4", 0, Rest(a))
       ELSE Goes(a, "l4", l4[Key(a)], <<"put3">> \o SetL2 \o <<"put1">>)
  /\ UNCHANGED <<l1, l2meta, shared, alive, history>>

\* Every tier missed: compute_or_get computes the value and stores it.
Compute(a) ==
  /\ Goes(a, "compute", source[Key(a)],
          WriteThrough \o (IF setup.l4 THEN <<"put4">> ELSE <<>>))
  /\ UNCHANGED <<l1, l2meta, shared, alive, history>>

-----------------------------------------------------------------------------
(* EnhancedCacheManager.set: admission and eviction, then the entry, then  *)
(* its place in the order.  A key that is not admitted keeps the entry it  *)
(* has.                                                                    *)
PutL1(a) ==
  LET cache == l1[a[1]]  clean == CleanedUp(cache) IN
  /\ At(a, "put1")
  /\ IF IsFull(cache) /\ ~HasVictim(cache)
       THEN Goes(a, "put1", 0, <<>>) /\ UNCHANGED l1
     ELSE IF ~Admits(cache, Key(a))
       THEN Goes(a, "put1", Val(a), Rest(a)) /\ UNCHANGED l1
     ELSE /\ Goes(a, "put1", Val(a), IF IsFull(clean) /\ ~HasVictim(clean) THEN <<>>
                                     ELSE <<"store1", "list1">> \o Rest(a))
          /\ l1' = [l1 EXCEPT ![a[1]] = RoomMade(@)]
  /\ UNCHANGED <<l2meta, shared, alive, history>>

StoreL1(a) ==
  /\ Goes(a, "store1", Val(a), Rest(a))
  /\ l1' = [l1 EXCEPT ![a[1]] = Put(@, Key(a), [value |-> Val(a), fresh |-> TRUE, count |-> 1])]
  /\ UNCHANGED <<l2meta, shared, alive, history>>

ListL1(a) ==
  /\ Goes(a, "list1", Val(a), Rest(a))
  /\ l1' = [l1 EXCEPT ![a[1]] = Counted(MovedToEnd(@, Key(a)), Key(a))]
  /\ UNCHANGED <<l2meta, shared, alive, history>>

\* The listener's deletion falls into one of these steps.
PutRaises(a) ==
  /\ a[2] = "caller" /\ Disturbed(a)
  /\ \/ /\ Goes(a, "put1", 0, <<>>)
        /\ \E cache \in Torn(l1[a[1]], Gone(a)) : l1' = [l1 EXCEPT ![a[1]] = cache]
     \/ /\ Goes(a, "list1", 0, <<>>) /\ Key(a) = Gone(a)
        /\ l1' = [l1 EXCEPT ![a[1]] = Counted(Unlisted(@, {Key(a)}), Key(a))]
  /\ UNCHANGED <<l2meta, shared, alive, history>>

\* MemfdL2Cache.set: the temporary file, its renaming, then the expiry.
WriteTmp(a) ==
  /\ Goes(a, "tmp", Val(a), Rest(a))
  /\ l2tmp' = [l2tmp EXCEPT ![Key(a)] = Val(a)]
  /\ UNCHANGED <<l1, l2meta, l2file, l3, l4, queue, alive, history>>

(* Another writer may have renamed the file first.  Then the error path is *)
(* taken, the expiry is not recorded, and the operation goes on.           *)
Replace(a) ==
  LET written == l2tmp[Key(a)] IN
  /\ At(a, "replace")
  /\ IF written = NoEntry
       THEN Goes(a, "replace", Val(a), Tail(Rest(a))) /\ UNCHANGED l2file
       ELSE /\ Goes(a, "replace", Val(a), Rest(a))
            /\ l2file' = [l2file EXCEPT ![Key(a)] = written]
  /\ l2tmp' = [l2tmp EXCEPT ![Key(a)] = NoEntry]
  /\ UNCHANGED <<l1, l2meta, l3, l4, queue, alive, history>>

RecordMeta(a) ==
  /\ Goes(a, "meta", Val(a), Rest(a))
  /\ l2meta' = [l2meta EXCEPT ![a[1]][Key(a)] = "live"]
  /\ UNCHANGED <<l1, shared, alive, history>>

PutL3(a) ==
  /\ Goes(a, "put3", Val(a), Rest(a))
  /\ \/ l3' = [l3 EXCEPT ![Key(a)] = Val(a)]
     \/ setup.faulty /\ UNCHANGED l3
  /\ UNCHANGED <<l1, l2meta, l2tmp, l2file, l4, queue, alive, history>>

PutL4(a) ==
  /\ Goes(a, "put4", Val(a), Rest(a))
  /\ l4' = [l4 EXCEPT ![Key(a)] = Val(a)]
  /\ UNCHANGED <<l1, l2meta, l2tmp, l2file, l3, queue, alive, history>>

-----------------------------------------------------------------------------
(* EnhancedCacheManager.invalidate: is there an entry, and then its        *)
(* deletion from the dictionary and from the order.                        *)
DropL1(a) ==
  /\ Goes(a, "drop1", Val(a), IF Key(a) \in Held(l1[a[1]]) THEN <<"del1", "unlist1">> \o Rest(a)
                              ELSE Rest(a))
  /\ UNCHANGED <<l1, l2meta, shared, alive, history>>

DeleteL1(a) ==
  /\ At(a, "del1") /\ Key(a) \in Held(l1[a[1]])
  /\ Goes(a, "del1", Val(a), Rest(a))
  /\ l1' = [l1 EXCEPT ![a[1]] = Deleted(@, {Key(a)})]
  /\ UNCHANGED <<l2meta, shared, alive, history>>

UnlistL1(a) ==
  /\ Goes(a, "unlist1", Val(a), Rest(a))
  /\ l1' = [l1 EXCEPT ![a[1]] = Unlisted(@, {Key(a)})]
  /\ UNCHANGED <<l2meta, shared, alive, history>>

(* An exception leaves the operation; in a listener it leaves the loop,    *)
(* which catches other exceptions only.                                    *)
Raises(a, step) ==
  /\ Goes(a, step, 0, <<>>)
  /\ IF a[2] = "listener" THEN Ends(a[1]) ELSE UNCHANGED <<alive, queue>>
  /\ UNCHANGED <<l1, l2meta, l2tmp, l2file, l3, l4, history>>

\* KeyError: the other thread deleted the entry since it was seen.
DeleteRaises(a) == Raises(a, "del1") /\ Key(a) \notin Held(l1[a[1]])

\* MemfdL2Cache.invalidate: forget the expiry, then remove the file if it exists.
Forget(a) ==
  /\ Goes(a, "forget", Val(a), Rest(a))
  /\ l2meta' = [l2meta EXCEPT ![a[1]][Key(a)] = "none"]
  /\ UNCHANGED <<l1, shared, alive, history>>

Look(a) ==
  /\ Goes(a, "look", Val(a), IF l2file[Key(a)] = NoEntry THEN Tail(Rest(a)) ELSE Rest(a))
  /\ UNCHANGED <<l1, l2meta, shared, alive, history>>

Unlink(a) ==
  /\ At(a, "unlink") /\ l2file[Key(a)] # NoEntry
  /\ Goes(a, "unlink", Val(a), Rest(a))
  /\ l2file' = [l2file EXCEPT ![Key(a)] = NoEntry]
  /\ UNCHANGED <<l1, l2meta, l2tmp, l3, l4, queue, alive, history>>

\* FileNotFoundError: the file went away since it was seen.
UnlinkRaises(a) == Raises(a, "unlink") /\ l2file[Key(a)] = NoEntry

\* A failed request removes nothing, and the operation goes on.
DropL3(a) ==
  LET k == Key(a) IN
  /\ Goes(a, "drop3", Val(a), Rest(a))
  /\ \/ l3' = [l3 EXCEPT ![k] = NoEntry] /\ UNCHANGED spoiled
     \/ setup.faulty /\ spoiled' = spoiled \cup {k} /\ UNCHANGED l3
  /\ UNCHANGED <<l1, l2meta, l2tmp, l2file, l4, queue, alive, floor, unsent>>

\* Faulty variant: nothing is published.
PublishNothing(a) ==
  LET k == Key(a) IN
  /\ Goes(a, "publish", 0, <<>>)
  /\ floor' = [floor EXCEPT ![k] = Max({@, Val(a)})]
  /\ unsent' = unsent \ {k}
  /\ UNCHANGED <<l1, l2meta, shared, alive, spoiled>>

(* Redis hands the message to every subscriber, the publisher included.  A *)
(* failed request reaches nobody, and the operation ends all the same.     *)
Publish(a) ==
  LET k == Key(a) IN
  /\ Goes(a, "publish", 0, <<>>)
  /\ \/ /\ queue' = [c \in Clients |-> IF c \in setup.clients /\ alive[c] THEN Append(queue[c], k)
                                                                        ELSE queue[c]]
        /\ unsent' = unsent \ {k}
     \/ setup.faulty /\ unsent' = unsent \cup {k} /\ UNCHANGED queue
  /\ floor' = [floor EXCEPT ![k] = Max({@, Val(a)})]
  /\ UNCHANGED <<l1, l2meta, l2tmp, l2file, l3, l4, alive, spoiled>>

-----------------------------------------------------------------------------
\* The source changes: what is computed from now on is newer.
Change(k) ==
  /\ source[k] < MaxVersion
  /\ source' = [source EXCEPT ![k] = @ + 1]
  /\ UNCHANGED <<l1, l2meta, shared, agent, alive, setup, ops, lapses, history>>

\* A time-to-live runs out.
Lapse == lapses < setup.lapses /\ lapses' = lapses + 1

ExpireL1(c, k) ==
  /\ Lapse
  /\ Hits(l1[c], k)
  /\ l1' = [l1 EXCEPT ![c].entry[k].fresh = FALSE]
  /\ UNCHANGED <<source, l2meta, shared, agent, alive, setup, ops, history>>

ExpireL2(c, k) ==
  /\ Lapse
  /\ l2meta[c][k] = "live"
  /\ l2meta' = [l2meta EXCEPT ![c][k] = "expired"]
  /\ UNCHANGED <<source, l1, shared, agent, alive, setup, ops, history>>

ExpireL3(k) ==
  /\ Lapse
  /\ l3[k] # NoEntry
  /\ l3' = [l3 EXCEPT ![k] = NoEntry]
  /\ UNCHANGED <<source, l1, l2meta, l2tmp, l2file, l4, queue, agent, alive,
                 setup, ops, history>>

Step(a) ==
  \/ ReadMeta(a) \/ ReadFile(a, "l2known") \/ ReadFile(a, "l2any") \/ Adopt(a)
  \/ ReadL3(a) \/ ReadL4(a) \/ Compute(a)
  \/ PutL1(a) \/ StoreL1(a) \/ ListL1(a) \/ PutRaises(a)
  \/ WriteTmp(a) \/ Replace(a) \/ RecordMeta(a) \/ PutL3(a) \/ PutL4(a)
  \/ DropL1(a) \/ DeleteL1(a) \/ DeleteRaises(a) \/ UnlistL1(a)
  \/ Forget(a) \/ Look(a) \/ Unlink(a) \/ UnlinkRaises(a) \/ DropL3(a) \/ Publish(a)

Next ==
  \/ \E a \in Threads :
       \/ Step(a)
       \/ \E k \in Keys : \/ \E op \in {"get", "compute_or_get"} :
                               Get(a, op, k) \/ GetRaises(a, op, k)
                          \/ Set(a, k)
                          \/ Invalidate(a, k)
                          \/ InvalidatePattern(a, k)
  \/ \E c \in Clients : Hear(c) \/ Disconnect(c)
  \/ \E k \in Keys : Change(k) \/ ExpireL3(k)
  \/ \E c \in Clients, k \in Keys : ExpireL1(c, k) \/ ExpireL2(c, k)

Spec == Init /\ [][Next]_vars

-----------------------------------------------------------------------------
Quiet == \A a \in Threads : agent[a] = Resting

\* The listener of c has heard of every invalidation of k that was published.
Heard(c, k) == alive[c] /\ k \notin ToSet(queue[c])

(* "Invalidate key across all tiers" (multi_tier_cache.py:817).  Once the  *)
(* threads rest after an invalidation, neither L2 nor L3 holds a copy from *)
(* before it, nor does the L1 of a process whose listener has heard of it, *)
(* unless the key was in use meanwhile, Redis failed the removal or the    *)
(* message, or L4 brings it back.  One undisturbed invalidation also mends *)
(* what an earlier one left behind.                                        *)
InvalidationCleans ==
  \A k \in Keys \ spoiled :
    (Quiet /\ ~setup.l4) =>
      /\ \A v \in {l2file[k], l3[k]} \ {NoEntry} : v >= floor[k]
      /\ \A c \in Clients : k \in Held(l1[c]) /\ Heard(c, k) /\ k \notin unsent
                           => l1[c].entry[k].value >= floor[k]

(* No L1 holds more than max_size entries (caching.py:547-566), although   *)
(* the listener deletes while set makes room and stores, the order may     *)
(* lack keys or name ones that are gone, and operations end half way.      *)
L1Bounded == \A c \in Clients : Cardinality(Held(l1[c])) <= L1Size

(* multi_tier_cache.py:520: "Background thread that listens for Redis      *)
(* pub/sub invalidations": the loop goes on until close() stops it.        *)
ListenersSurvive == \A c \in Clients : alive[c]
=============================================================================
