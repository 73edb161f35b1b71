----------------------------- MODULE LocalCache -----------------------------
(***************************************************************************)
(* EnhancedCacheManager (pysrc/ops/caching.py), the L1 tier of the         *)
(* multi-tier cache: a dictionary with time-to-live, LRU eviction and an   *)
(* admission test, as operators from one cache to the next.  A cache holds *)
(* the entries, the LRU order, and how often each key was ever used.  The  *)
(* order is a relation: <<j, k>> when j was not used after k.              *)
(*                                                                         *)
(* The class takes no lock: entries and order are changed one after the    *)
(* other, so that the order may lack a key or name one that is gone.  What *)
(* the code then raises is told apart here.                                *)
(*                                                                         *)
(* Its circuit breaker is left out: nothing reports a failure to it.  The  *)
(* version of an entry is the version of its only client.                  *)
(***************************************************************************)
EXTENDS Naturals, FiniteSets

CONSTANTS Keys, Values,
          NoEntry,  \* no entry for a key
          L1Size    \* max_size

ASSUME SizeAssumption == L1Size \in Nat \ {0}

\* An entry before its expiry is fresh.
Entries == [value : Values, fresh : BOOLEAN, count : Nat]
ASSUME NoEntryAssumption == NoEntry \notin Entries /\ NoEntry \notin Values
Caches == [entry : [Keys -> Entries \cup {NoEntry}],
           order : SUBSET (Keys \X Keys), freq : [Keys -> Nat]]
EmptyCache == [entry |-> [k \in Keys |-> NoEntry], order |-> {},
               freq |-> [k \in Keys |-> 0]]

Held(cache) == {k \in Keys : cache.entry[k] # NoEntry}

\* The keys of the LRU order, and the one at its front.
Listed(cache) == {k \in Keys : <<k, k>> \in cache.order}
Oldest(cache) == CHOOSE k \in Listed(cache) : \A j \in Listed(cache) : <<k, j>> \in cache.order

-----------------------------------------------------------------------------
\* del self._cache[key], and self._access_order.pop(key, None), for some keys.
Deleted(cache, keys) ==
  [cache EXCEPT !.entry = [k \in Keys |-> IF k \in keys THEN NoEntry ELSE cache.entry[k]]]
Unlisted(cache, keys) ==
  [cache EXCEPT !.order = {p \in cache.order : p[1] \notin keys /\ p[2] \notin keys}]
Without(cache, keys) == Unlisted(Deleted(cache, keys), keys)

Put(cache, k, e) == [cache EXCEPT !.entry = [cache.entry EXCEPT ![k] = e]]
Counted(cache, k) == [cache EXCEPT !.freq = [cache.freq EXCEPT ![k] = @ + 1]]
MovedToEnd(cache, k) ==
  [cache EXCEPT !.order = {p \in cache.order : p[1] # k /\ p[2] # k}
                             \cup ((Listed(cache) \cup {k}) \X {k})]

Expired(cache) == {k \in Held(cache) : ~cache.entry[k].fresh}
CleanedUp(cache) == Without(cache, Expired(cache))

(* get: is k found, and the cache after it.  A key that is held but not    *)
(* listed raises in move_to_end, after it was counted.                     *)
Hits(cache, k) == k \in Held(cache) \ Expired(cache)
Looked(cache, k) ==
  LET clean == CleanedUp(cache)
      used  == Counted(Put(clean, k, [clean.entry[k] EXCEPT !.count = @ + 1]), k)
  IN IF ~Hits(cache, k) THEN clean
     ELSE IF k \in Listed(cache) THEN MovedToEnd(used, k) ELSE used

-----------------------------------------------------------------------------
(* set, up to the assignment of the entry.                                 *)
IsFull(cache) == Cardinality(Held(cache)) >= L1Size

\* The front of the order names an entry; else admission and eviction raise.
HasVictim(cache) == Listed(cache) # {} /\ Oldest(cache) \in Held(cache)

(* _should_admit: a full cache admits a key that was used more often than  *)
(* its least recently used entry since that entry was made.                *)
Admits(cache, k) ==
  ~IsFull(cache) \/ cache.freq[k] > cache.entry[Oldest(cache)].count

\* Faulty variant: eviction is forgotten.
RoomForgotten(cache) == CleanedUp(cache)

(* Eviction makes room also if the key is already in the cache and needs   *)
(* none.  It takes the victim off the order before it looks for its entry. *)
RoomMade(cache) ==
  LET clean == CleanedUp(cache) IN
  IF IsFull(clean) /\ Listed(clean) # {} THEN Without(clean, {Oldest(clean)}) ELSE clean

(* What get or set may leave when the other thread deletes `gone' under    *)
(* them and they raise: some expired keys removed, and `gone' perhaps off  *)
(* the order, where the other thread is about to take it from.             *)
Torn(cache, gone) ==
  {Unlisted(Without(cache, keys), more) : keys \in SUBSET Expired(cache), more \in {{}, {gone}}}
=============================================================================
