-------------------------- MODULE CacheTiers_proofs --------------------------
(***************************************************************************)
(* Safety of CacheTiers for any processes, keys, versions, setups and size *)
(* of L1: no L1 holds more than it may, and an undisturbed invalidation    *)
(* leaves no older copy in L2, in L3 or in the L1 of a process that heard  *)
(* of it.                                                                  *)
(***************************************************************************)
EXTENDS CacheTiers, FiniteSetTheorems, TLAPS

-----------------------------------------------------------------------------
(* The L1 dictionary.                                                      *)

\* A dictionary of at most L1Size entries; its order may be anything.
Sane(cache) ==
  cache \in Caches /\ IsFiniteSet(Held(cache)) /\ Cardinality(Held(cache)) <= L1Size

\* What a step may do to the entry of a key: keep its value or drop it.
Keeps(new, old, k) ==
  new.entry[k] # NoEntry =>
    old.entry[k] # NoEntry /\ new.entry[k].value = old.entry[k].value

\* A step that brings no value into the dictionary.
Shrinks(new, old) == new \in Caches /\ \A k \in Keys : Keeps(new, old, k)

LEMMA EmptySane == Sane(EmptyCache) /\ Held(EmptyCache) = {}
<1>1. EmptyCache \in Caches
  BY DEF EmptyCache, Caches
<1>2. Held(EmptyCache) = {}
  BY DEF EmptyCache, Held
<1>3. IsFiniteSet({}) /\ Cardinality({}) = 0
  BY FS_EmptySet
<1> QED
  BY <1>1, <1>2, <1>3, SizeAssumption DEF Sane

LEMMA ShrinksSane ==
  ASSUME NEW cache \in Caches, Sane(cache), NEW new, Shrinks(new, cache)
  PROVE  Sane(new) /\ Held(new) \subseteq Held(cache)
<1>1. Held(new) \subseteq Held(cache)
  BY DEF Held, Shrinks, Keeps
<1>2. IsFiniteSet(Held(new)) /\ Cardinality(Held(new)) <= Cardinality(Held(cache))
  BY <1>1, FS_Subset DEF Sane
<1>3. Cardinality(Held(new)) \in Nat /\ Cardinality(Held(cache)) \in Nat
  BY <1>2, FS_CardinalityType DEF Sane
<1> QED
  BY <1>1, <1>2, <1>3, SizeAssumption DEF Sane, Shrinks

LEMMA ShrinksTwice ==
  ASSUME NEW old, NEW mid, NEW new, Shrinks(mid, old), Shrinks(new, mid)
  PROVE  Shrinks(new, old)
BY DEF Shrinks, Keeps

\* A cache and its parts.
LEMMA CacheParts ==
  ASSUME NEW cache \in Caches
  PROVE  /\ cache.entry \in [Keys -> Entries \cup {NoEntry}]
         /\ cache.order \in SUBSET (Keys \X Keys) /\ cache.freq \in [Keys -> Nat]
         /\ cache = [entry |-> cache.entry, order |-> cache.order, freq |-> cache.freq]
BY DEF Caches

LEMMA DeletedFacts ==
  ASSUME NEW cache \in Caches, NEW keys
  PROVE  /\ Shrinks(Deleted(cache, keys), cache)
         /\ Held(Deleted(cache, keys)) = Held(cache) \ keys
         /\ \A k \in Keys \ keys : Deleted(cache, keys).entry[k] = cache.entry[k]
         /\ Deleted(cache, keys).order = cache.order
<1> DEFINE less == [k \in Keys |-> IF k \in keys THEN NoEntry ELSE cache.entry[k]]
           new == Deleted(cache, keys)
<1>1. less \in [Keys -> Entries \cup {NoEntry}]
  BY CacheParts
<1>2. new = [entry |-> less, order |-> cache.order, freq |-> cache.freq]
  BY CacheParts DEF Deleted
<1>3. \A k \in Keys : less[k] = IF k \in keys THEN NoEntry ELSE cache.entry[k]
  OBVIOUS
<1> HIDE DEF less, new
<1>4. new \in Caches /\ new.entry = less /\ new.order = cache.order
  BY <1>1, <1>2, CacheParts DEF Caches
<1>5. /\ Shrinks(new, cache) /\ Held(new) = Held(cache) \ keys
      /\ \A k \in Keys \ keys : new.entry[k] = cache.entry[k]
  BY <1>3, <1>4 DEF Held, Shrinks, Keeps
<1> QED
  BY <1>4, <1>5 DEF new

\* A change of the order or of the counts leaves the entries.
LEMMA SameEntries ==
  ASSUME NEW cache \in Caches, NEW new \in Caches, new.entry = cache.entry
  PROVE  Shrinks(new, cache) /\ Held(new) = Held(cache)
BY DEF Shrinks, Keeps, Held

LEMMA UnlistedFacts ==
  ASSUME NEW cache \in Caches, NEW keys
  PROVE  Unlisted(cache, keys) \in Caches /\ Unlisted(cache, keys).entry = cache.entry
<1> DEFINE less == {p \in cache.order : p[1] \notin keys /\ p[2] \notin keys}
           new == Unlisted(cache, keys)
<1>1. less \in SUBSET (Keys \X Keys)
  <2>1. cache.order \subseteq Keys \X Keys
    BY CacheParts
  <2>2. less \subseteq cache.order
    OBVIOUS
  <2> HIDE DEF less
  <2> QED
    BY <2>1, <2>2, Zenon
<1>2. new = [entry |-> cache.entry, order |-> less, freq |-> cache.freq]
  <2>1. ASSUME NEW some
        PROVE  [cache EXCEPT !.order = some]
                 = [entry |-> cache.entry, order |-> some, freq |-> cache.freq]
    BY CacheParts
  <2>2. new = [cache EXCEPT !.order = less]
    BY DEF Unlisted
  <2> HIDE DEF less, new
  <2> QED
    BY <2>1, <2>2
<1> HIDE DEF less, new
<1>3. new \in Caches /\ new.entry = cache.entry
  BY <1>1, <1>2, CacheParts DEF Caches
<1> QED
  BY <1>3 DEF new

LEMMA MovedFacts ==
  ASSUME NEW cache \in Caches, NEW k \in Keys
  PROVE  MovedToEnd(cache, k) \in Caches /\ MovedToEnd(cache, k).entry = cache.entry
<1> DEFINE moved == {p \in cache.order : p[1] # k /\ p[2] # k}
                      \cup ((Listed(cache) \cup {k}) \X {k})
           new == MovedToEnd(cache, k)
<1>1. moved \in SUBSET (Keys \X Keys)
  BY CacheParts DEF Listed
<1>2. new = [entry |-> cache.entry, order |-> moved, freq |-> cache.freq]
  BY CacheParts DEF MovedToEnd
<1> HIDE DEF moved, new
<1>3. new \in Caches /\ new.entry = cache.entry
  BY <1>1, <1>2, CacheParts DEF Caches
<1> QED
  BY <1>3 DEF new

LEMMA CountedFacts ==
  ASSUME NEW cache \in Caches, NEW k \in Keys
  PROVE  Counted(cache, k) \in Caches /\ Counted(cache, k).entry = cache.entry
<1> DEFINE more == [cache.freq EXCEPT ![k] = @ + 1]
           new == Counted(cache, k)
<1>1. more \in [Keys -> Nat]
  BY CacheParts
<1>2. new = [entry |-> cache.entry, order |-> cache.order, freq |-> more]
  BY CacheParts DEF Counted
<1> HIDE DEF more, new
<1>3. new \in Caches /\ new.entry = cache.entry
  BY <1>1, <1>2, CacheParts DEF Caches
<1> QED
  BY <1>3 DEF new

LEMMA PutFacts ==
  ASSUME NEW cache \in Caches, NEW k \in Keys, NEW e \in Entries
  PROVE  /\ Put(cache, k, e) \in Caches /\ Held(Put(cache, k, e)) = Held(cache) \cup {k}
         /\ Put(cache, k, e).entry = [cache.entry EXCEPT ![k] = e]
<1> DEFINE with == [cache.entry EXCEPT ![k] = e]
           new == Put(cache, k, e)
<1>1. with \in [Keys -> Entries \cup {NoEntry}]
  BY CacheParts
<1>2. new = [entry |-> with, order |-> cache.order, freq |-> cache.freq]
  BY CacheParts DEF Put
<1>3. \A j \in Keys : with[j] = IF j = k THEN e ELSE cache.entry[j]
  BY CacheParts
<1> HIDE DEF with, new
<1>4. new \in Caches /\ new.entry = with
  BY <1>1, <1>2, CacheParts DEF Caches
<1>5. Held(new) = Held(cache) \cup {k}
  BY <1>3, <1>4, NoEntryAssumption DEF Held
<1> QED
  BY <1>4, <1>5 DEF new, with

LEMMA WithoutFacts ==
  ASSUME NEW cache \in Caches, NEW keys
  PROVE  /\ Shrinks(Without(cache, keys), cache)
         /\ Held(Without(cache, keys)) = Held(cache) \ keys
         /\ \A k \in Keys \ keys : Without(cache, keys).entry[k] = cache.entry[k]
<1> DEFINE less == Deleted(cache, keys)
<1>1. /\ Shrinks(less, cache) /\ Held(less) = Held(cache) \ keys /\ less \in Caches
      /\ \A k \in Keys \ keys : less.entry[k] = cache.entry[k]
  BY DeletedFacts DEF Shrinks
<1> HIDE DEF less
<1>2. Unlisted(less, keys) \in Caches /\ Unlisted(less, keys).entry = less.entry
  BY <1>1, UnlistedFacts
<1>3. Shrinks(Unlisted(less, keys), less) /\ Held(Unlisted(less, keys)) = Held(less)
  BY <1>1, <1>2, SameEntries
<1>4. Without(cache, keys) = Unlisted(less, keys)
  BY DEF Without, less
<1> QED
  BY <1>1, <1>2, <1>3, <1>4, ShrinksTwice

\* get.
LEMMA LookedShrinks ==
  ASSUME NEW cache \in Caches, NEW k \in Keys
  PROVE  Shrinks(Looked(cache, k), cache)
<1> DEFINE clean == CleanedUp(cache)
           e == [clean.entry[k] EXCEPT !.count = @ + 1]
           used == Counted(Put(clean, k, e), k)
<1>1. /\ Shrinks(clean, cache) /\ clean \in Caches /\ Held(clean) = Held(cache) \ Expired(cache)
  BY WithoutFacts DEF CleanedUp, Shrinks
<1>2. Looked(cache, k) = IF ~Hits(cache, k) THEN clean
                         ELSE IF k \in Listed(cache) THEN MovedToEnd(used, k) ELSE used
  BY DEF Looked
<1> HIDE DEF clean
<1>3. CASE ~Hits(cache, k)
  BY <1>1, <1>2, <1>3
<1>4. CASE Hits(cache, k)
  <2>1. clean.entry[k] \in Entries /\ clean.entry[k] # NoEntry
    BY <1>1, <1>4, CacheParts DEF Hits, Held
  <2>2. e \in Entries /\ e.value = clean.entry[k].value
    BY <2>1 DEF Entries
  <2> HIDE DEF e
  <2>3. Put(clean, k, e) \in Caches /\ Put(clean, k, e).entry = [clean.entry EXCEPT ![k] = e]
    BY <1>1, <2>2, PutFacts
  <2>4. used \in Caches /\ used.entry = [clean.entry EXCEPT ![k] = e]
    BY <2>3, CountedFacts
  <2> HIDE DEF used
  <2>5. Shrinks(used, clean)
    BY <1>1, <2>1, <2>2, <2>4, CacheParts DEF Shrinks, Keeps
  <2>6. MovedToEnd(used, k) \in Caches /\ Shrinks(MovedToEnd(used, k), used)
    BY <2>4, MovedFacts, SameEntries
  <2> QED
    BY <1>1, <1>2, <1>4, <2>5, <2>6, ShrinksTwice
<1> QED
  BY <1>3, <1>4

\* set, before it stores: there is room afterwards unless it raises.
LEMMA RoomShrinks ==
  ASSUME NEW cache \in Caches, Sane(cache)
  PROVE  /\ Shrinks(RoomMade(cache), cache)
         /\ \/ IsFull(CleanedUp(cache)) /\ ~HasVictim(CleanedUp(cache))
            \/ Cardinality(Held(RoomMade(cache))) < L1Size
<1> DEFINE clean == CleanedUp(cache)
           roomy == IF IsFull(clean) /\ Listed(clean) # {} THEN Without(clean, {Oldest(clean)})
                    ELSE clean
<1>1. Shrinks(clean, cache) /\ clean \in Caches
  BY WithoutFacts DEF CleanedUp, Shrinks
<1>2. RoomMade(cache) = roomy
  BY DEF RoomMade
<1> HIDE DEF clean
<1>3. /\ Shrinks(Without(clean, {Oldest(clean)}), clean)
      /\ Held(Without(clean, {Oldest(clean)})) = Held(clean) \ {Oldest(clean)}
  BY <1>1, WithoutFacts
<1>4. Shrinks(roomy, cache)
  BY <1>1, <1>3, ShrinksTwice
<1>5. /\ IsFiniteSet(Held(clean)) /\ Cardinality(Held(clean)) \in Nat
      /\ Cardinality(Held(clean)) <= L1Size
  BY <1>1, ShrinksSane, FS_CardinalityType DEF Sane
<1>6. CASE ~IsFull(clean)
  BY <1>2, <1>4, <1>5, <1>6, SizeAssumption DEF IsFull
<1>7. CASE IsFull(clean) /\ HasVictim(clean)
  <2>1. Oldest(clean) \in Held(clean) /\ roomy = Without(clean, {Oldest(clean)})
    BY <1>7 DEF HasVictim
  <2>2. Cardinality(Held(roomy)) = Cardinality(Held(clean)) - 1
    BY <1>3, <1>5, <2>1, FS_RemoveElement
  <2> QED
    BY <1>2, <1>4, <1>5, <2>2, SizeAssumption
<1> QED
  BY <1>2, <1>4, <1>6, <1>7 DEF clean

\* An operation that raises.
LEMMA TornShrinks ==
  ASSUME NEW cache \in Caches, NEW gone, NEW new \in Torn(cache, gone)
  PROVE  Shrinks(new, cache)
<1>1. PICK keys, more : new = Unlisted(Without(cache, keys), more)
  BY DEF Torn
<1>2. Shrinks(Without(cache, keys), cache) /\ Without(cache, keys) \in Caches
  BY WithoutFacts DEF Shrinks
<1>3. Shrinks(new, Without(cache, keys))
  BY <1>1, <1>2, UnlistedFacts, SameEntries
<1> QED
  BY <1>2, <1>3, ShrinksTwice

LEMMA CountedShrinks ==
  ASSUME NEW cache \in Caches, NEW k \in Keys
  PROVE  /\ Shrinks(Counted(Unlisted(cache, {k}), k), cache)
         /\ Shrinks(Counted(Unlisted(CleanedUp(cache), {k}), k), cache)
         /\ Shrinks(Counted(MovedToEnd(cache, k), k), cache)
<1>1. ASSUME NEW some \in Caches PROVE Shrinks(Counted(Unlisted(some, {k}), k), some)
  <2>1. Unlisted(some, {k}) \in Caches /\ Unlisted(some, {k}).entry = some.entry
    BY UnlistedFacts
  <2>2. /\ Counted(Unlisted(some, {k}), k) \in Caches
        /\ Counted(Unlisted(some, {k}), k).entry = some.entry
    BY <2>1, CountedFacts
  <2> QED
    BY <2>2, SameEntries
<1>2. Shrinks(CleanedUp(cache), cache) /\ CleanedUp(cache) \in Caches
  BY WithoutFacts DEF CleanedUp, Shrinks
<1>3. Shrinks(Counted(MovedToEnd(cache, k), k), cache)
  <2>1. MovedToEnd(cache, k) \in Caches /\ MovedToEnd(cache, k).entry = cache.entry
    BY MovedFacts
  <2>2. /\ Counted(MovedToEnd(cache, k), k) \in Caches
        /\ Counted(MovedToEnd(cache, k), k).entry = cache.entry
    BY <2>1, CountedFacts
  <2> QED
    BY <2>2, SameEntries
<1> QED
  BY <1>1, <1>2, <1>3, ShrinksTwice

\* An entry is stored where there is room.
LEMMA StoredSane ==
  ASSUME NEW cache \in Caches, Sane(cache), Cardinality(Held(cache)) < L1Size,
         NEW k \in Keys, NEW v \in Values
  PROVE  LET new == Put(cache, k, [value |-> v, fresh |-> TRUE, count |-> 1]) IN
         /\ new \in Caches /\ Sane(new) /\ new.entry[k] # NoEntry /\ new.entry[k].value = v
         /\ \A j \in Keys : new.entry[j] = cache.entry[j] \/ j = k
<1> DEFINE e == [value |-> v, fresh |-> TRUE, count |-> 1]
           new == Put(cache, k, e)
<1>1. e \in Entries /\ e.value = v
  BY DEF Entries
<1> HIDE DEF e
<1>2. /\ new \in Caches /\ Held(new) = Held(cache) \cup {k}
      /\ new.entry = [cache.entry EXCEPT ![k] = e]
  BY <1>1, PutFacts
<1> HIDE DEF new
<1>3. IsFiniteSet(Held(new)) /\ Cardinality(Held(new)) <= L1Size
  <2>1. /\ IsFiniteSet(Held(cache) \cup {k}) /\ Cardinality(Held(cache)) \in Nat
        /\ Cardinality(Held(cache) \cup {k}) =
             IF k \in Held(cache) THEN Cardinality(Held(cache)) ELSE Cardinality(Held(cache)) + 1
    BY FS_AddElement, FS_CardinalityType DEF Sane
  <2> QED
    BY <1>2, <2>1, SizeAssumption
<1>4. /\ new.entry[k] = e /\ \A j \in Keys : new.entry[j] = cache.entry[j] \/ j = k
  BY <1>2, CacheParts
<1> QED
  BY <1>1, <1>2, <1>3, <1>4, NoEntryAssumption DEF Sane, new, e

\* A time-to-live runs out.
LEMMA ExpiredShrinks ==
  ASSUME NEW cache \in Caches, NEW k \in Keys, Hits(cache, k)
  PROVE  LET new == [cache EXCEPT !.entry[k].fresh = FALSE]
         IN  Shrinks(new, cache) /\ Held(new) = Held(cache)
<1> DEFINE e == [cache.entry[k] EXCEPT !.fresh = FALSE]
           new == [cache EXCEPT !.entry[k].fresh = FALSE]
<1>1. cache.entry[k] \in Entries
  BY CacheParts DEF Hits, Held
<1>2. e \in Entries /\ e.value = cache.entry[k].value
  BY <1>1 DEF Entries
<1>3. new = Put(cache, k, e)
  BY CacheParts DEF Put
<1> HIDE DEF e, new
<1>4. new \in Caches /\ new.entry = [cache.entry EXCEPT ![k] = e]
  BY <1>2, <1>3, PutFacts
<1>5. Shrinks(new, cache)
  BY <1>1, <1>2, <1>4, CacheParts, NoEntryAssumption DEF Shrinks, Keeps
<1>6. Held(new) = Held(cache)
  <2>1. k \in Held(cache)
    BY DEF Hits
  <2>2. Held(new) = Held(cache) \cup {k}
    BY <1>2, <1>3, PutFacts
  <2> QED
    BY <2>1, <2>2
<1> QED
  BY <1>5, <1>6 DEF new

-----------------------------------------------------------------------------
(* What an operation has yet to do.                                        *)

\* A value is being put somewhere, or looked for.
Puts == {"adopt", "put1", "list1", "tmp", "replace", "meta", "put3", "put4"}
Looks == {"l2", "l2known", "l2any", "l3", "compute"} \cup (IF setup.l4 THEN {"l4"} ELSE {})

\* What is written is renamed, and something follows the renaming.
Whole(todo) ==
  \A i \in 1 .. Len(todo) : /\ todo[i] = "tmp" => i < Len(todo) /\ todo[i + 1] = "replace"
                            /\ todo[i] = "replace" => i < Len(todo)

UserTodo(todo) == todo \in Seq(Puts) \cup Seq(Looks) /\ Whole(todo)

\* Room was made in L1: the entry is stored next.
StoreTodo(todo) ==
  /\ todo \in Seq(Puts \cup {"store1"}) /\ todo # <<>>
  /\ Head(todo) = "store1" /\ Tail(todo) \in Seq(Puts) /\ UserTodo(Tail(todo))

CallerTodos == {<<"drop1", "forget", "look", "unlink", "drop3", "publish">>,
                <<"del1", "unlist1", "forget", "look", "unlink", "drop3", "publish">>,
                <<"unlist1", "forget", "look", "unlink", "drop3", "publish">>,
                <<"forget", "look", "unlink", "drop3", "publish">>,
                <<"look", "unlink", "drop3", "publish">>, <<"unlink", "drop3", "publish">>,
                <<"drop3", "publish">>, <<"publish">>}
ListenerTodos == {<<"drop1", "forget", "look", "unlink">>,
                  <<"del1", "unlist1", "forget", "look", "unlink">>,
                  <<"unlist1", "forget", "look", "unlink">>, <<"forget", "look", "unlink">>,
                  <<"look", "unlink">>, <<"unlink">>}
ClearTodos == {<<"drop1">>, <<"del1", "unlist1">>, <<"unlist1">>}

\* Concatenation, element by element.
LEMMA Joined ==
  ASSUME NEW S, NEW s \in Seq(S), NEW t \in Seq(S)
  PROVE  /\ s \o t \in Seq(S) /\ Len(s \o t) = Len(s) + Len(t)
         /\ \A i \in 1 .. Len(s) : (s \o t)[i] = s[i]
         /\ \A j \in 1 .. Len(t) : (s \o t)[Len(s) + j] = t[j]
OBVIOUS

LEMMA Rested ==
  ASSUME NEW S, NEW s \in Seq(S), s # <<>>
  PROVE  /\ Head(s) \in S /\ Head(s) = s[1] /\ Tail(s) \in Seq(S) /\ Len(s) \in Nat /\ Len(s) > 0
         /\ Len(Tail(s)) = Len(s) - 1
         /\ \A i \in 1 .. Len(s) - 1 : Tail(s)[i] = s[i + 1]
OBVIOUS

LEMMA WholeJoined ==
  ASSUME NEW S, NEW s \in Seq(S), NEW t \in Seq(S), Whole(s), Whole(t)
  PROVE  Whole(s \o t)
<1> SUFFICES ASSUME NEW i \in 1 .. Len(s \o t)
             PROVE  /\ (s \o t)[i] = "tmp" => i < Len(s \o t) /\ (s \o t)[i + 1] = "replace"
                    /\ (s \o t)[i] = "replace" => i < Len(s \o t)
  BY DEF Whole
<1>1. Len(s) \in Nat /\ Len(t) \in Nat /\ Len(s \o t) = Len(s) + Len(t)
  OBVIOUS
<1>2. CASE i <= Len(s)
  BY <1>1, <1>2, Joined DEF Whole
<1>3. CASE i > Len(s)
  <2>1. PICK j \in 1 .. Len(t) : i = Len(s) + j
    <3>1. i - Len(s) \in 1 .. Len(t) /\ i = Len(s) + (i - Len(s))
      BY <1>1, <1>3
    <3> QED
      BY <3>1
  <2>2. (s \o t)[i] = t[j] /\ (j < Len(t) => (s \o t)[i + 1] = t[j + 1])
    <3>1. j < Len(t) => j + 1 \in 1 .. Len(t) /\ i + 1 = Len(s) + (j + 1)
      BY <1>1, <2>1
    <3> QED
      BY <2>1, <3>1, Joined
  <2> QED
    BY <1>1, <2>1, <2>2 DEF Whole
<1> QED
  BY <1>1, <1>2, <1>3

\* Nothing is left half done by going on.
LEMMA WholeRested ==
  ASSUME NEW S, NEW s \in Seq(S), s # <<>>, Whole(s)
  PROVE  /\ Whole(Tail(s))
         /\ Head(s) = "tmp" => Tail(s) # <<>> /\ Head(Tail(s)) = "replace"
         /\ Head(s) = "replace" => Tail(s) # <<>>
<1>1. Whole(Tail(s))
  <2> SUFFICES ASSUME NEW i \in 1 .. Len(Tail(s))
               PROVE  /\ Tail(s)[i] = "tmp" => i < Len(Tail(s)) /\ Tail(s)[i + 1] = "replace"
                      /\ Tail(s)[i] = "replace" => i < Len(Tail(s))
    BY DEF Whole
  <2>1. i + 1 \in 1 .. Len(s) /\ Tail(s)[i] = s[i + 1]
    BY Rested
  <2>2. i + 1 < Len(s) => i < Len(Tail(s)) /\ Tail(s)[i + 1] = s[(i + 1) + 1]
    BY Rested
  <2> QED
    BY <2>1, <2>2 DEF Whole
<1>2. 1 \in 1 .. Len(s) /\ Len(s) \in Nat
  BY Rested
<1>3. ASSUME 1 < Len(s) PROVE Tail(s) # <<>> /\ Head(Tail(s)) = s[2]
  <2>1. Tail(s) # <<>>
    <3>1. Len(Tail(s)) = Len(s) - 1 /\ Len(<<>>) = 0
      BY Rested
    <3>2. Len(Tail(s)) # 0
      BY <1>2, <1>3, <3>1
    <3> QED
      BY <3>1, <3>2, Zenon
  <2>2. 1 \in 1 .. Len(s) - 1
    BY <1>2, <1>3
  <2>3. Tail(s)[1] = s[2]
    BY <2>2, Rested
  <2> QED
    BY <2>1, <2>3, Rested
<1>4. Head(s) = s[1]
  BY Rested
<1>5. /\ s[1] = "tmp" => 1 < Len(s) /\ s[1 + 1] = "replace"
      /\ s[1] = "replace" => 1 < Len(s)
  BY <1>2 DEF Whole
<1>6. 1 + 1 = 2
  OBVIOUS
<1> QED
  BY <1>1, <1>3, <1>4, <1>5, <1>6

LEMMA SetL2Whole == SetL2 \in Seq(Puts) /\ Whole(SetL2)
<1>1. SetL2 = <<"tmp", "replace", "meta">>
  BY DEF SetL2
<1>2. SetL2 \in Seq(Puts)
  BY <1>1 DEF Puts
<1>3. Len(SetL2) = 3 /\ SetL2[1] = "tmp" /\ SetL2[2] = "replace" /\ SetL2[3] = "meta"
  BY <1>1
<1> QED
  BY <1>2, <1>3 DEF Whole

LEMMA PutWhole ==
  ASSUME NEW x \in {"adopt", "put1", "list1", "put3", "put4"}
  PROVE  <<x>> \in Seq(Puts) /\ Whole(<<x>>)
<1>1. <<x>> \in Seq(Puts)
  BY DEF Puts
<1>2. Len(<<x>>) = 1 /\ <<x>>[1] = x
  OBVIOUS
<1> QED
  BY <1>1, <1>2 DEF Whole

\* A value is put wherever the operation has to put it.
PutTodo(todo) == todo \in Seq(Puts) /\ Whole(todo) /\ todo # <<>>

LEMMA PutsJoined ==
  ASSUME NEW s, NEW t, PutTodo(s), PutTodo(t)
  PROVE  PutTodo(s \o t)
<1>1. s \in Seq(Puts) /\ t \in Seq(Puts) /\ Len(s) \in Nat /\ Len(s) > 0 /\ Len(t) \in Nat
  BY Rested DEF PutTodo
<1>2. s \o t \in Seq(Puts) /\ Len(s \o t) = Len(s) + Len(t)
  BY <1>1, Joined
<1>3. s \o t # <<>>
  BY <1>1, <1>2
<1> QED
  BY <1>1, <1>2, <1>3, WholeJoined DEF PutTodo

LEMMA PutTodos ==
  /\ PutTodo(<<"put1">>) /\ PutTodo(<<"adopt", "put1">>) /\ PutTodo(SetL2 \o <<"put1">>)
  /\ PutTodo(<<"put3">> \o SetL2 \o <<"put1">>)
  /\ PutTodo(WriteThrough)
  /\ PutTodo(WriteThrough \o (IF setup.l4 THEN <<"put4">> ELSE <<>>))
<1>1. ASSUME NEW x \in {"adopt", "put1", "list1", "put3", "put4"} PROVE PutTodo(<<x>>)
  BY PutWhole DEF PutTodo
<1>2. PutTodo(SetL2)
  BY SetL2Whole DEF PutTodo, SetL2
<1>3. PutTodo(<<"put1">>) /\ PutTodo(<<"put3">>) /\ PutTodo(<<"put4">>) /\ PutTodo(<<"adopt">>)
  BY <1>1
<1>4. PutTodo(<<"adopt", "put1">>)
  <2>1. <<"adopt", "put1">> \in Seq(Puts)
    BY DEF Puts
  <2>2. /\ Len(<<"adopt", "put1">>) = 2
        /\ <<"adopt", "put1">>[1] = "adopt" /\ <<"adopt", "put1">>[2] = "put1"
    OBVIOUS
  <2> QED
    BY <2>1, <2>2 DEF PutTodo, Whole
<1>5. PutTodo(SetL2 \o <<"put1">>)
  BY <1>2, <1>3, PutsJoined
<1>6. PutTodo(<<"put3">> \o SetL2 \o <<"put1">>)
  <2>1. PutTodo(<<"put3">> \o SetL2)
    BY <1>2, <1>3, PutsJoined
  <2> QED
    BY <1>3, <2>1, PutsJoined
<1>7. PutTodo(WriteThrough)
  <2>1. PutTodo(<<"put1">> \o SetL2)
    BY <1>2, <1>3, PutsJoined
  <2> QED
    BY <1>3, <2>1, PutsJoined DEF WriteThrough
<1>8. PutTodo(WriteThrough \o (IF setup.l4 THEN <<"put4">> ELSE <<>>))
  <2>1. CASE setup.l4
    BY <1>3, <1>7, <2>1, PutsJoined
  <2>2. CASE ~setup.l4
    <3>1. WriteThrough \o <<>> = WriteThrough
      BY <1>7 DEF PutTodo
    <3> QED
      BY <1>7, <2>2, <3>1
  <2> QED
    BY <2>1, <2>2
<1> QED
  BY <1>3, <1>4, <1>5, <1>6, <1>7, <1>8

\* What follows when L1 has made room.
LEMMA StoreNext ==
  ASSUME NEW rest \in Seq(Puts), Whole(rest)
  PROVE  StoreTodo(<<"store1", "list1">> \o rest)
<1> DEFINE s == <<"store1", "list1">>
           todo == s \o rest
           P == Puts \cup {"store1"}
<1>1. /\ s \in Seq(P) /\ Len(s) = 2 /\ s[1] = "store1" /\ s[2] = "list1"
      /\ rest \in Seq(P)
  <2>1. s \in Seq(P) /\ Len(s) = 2 /\ s[1] = "store1" /\ s[2] = "list1"
    BY DEF Puts
  <2>2. Len(rest) \in Nat /\ rest \in [1 .. Len(rest) -> P]
    OBVIOUS
  <2>3. rest \in Seq(P)
    BY <2>2
  <2> QED
    BY <2>1, <2>3
<1> HIDE DEF s, P
<1>2. /\ todo \in Seq(P) /\ Len(todo) = Len(s) + Len(rest)
      /\ \A i \in 1 .. Len(s) : todo[i] = s[i]
      /\ \A j \in 1 .. Len(rest) : todo[Len(s) + j] = rest[j]
  BY <1>1, Joined
<1> HIDE DEF todo
<1>3. Len(rest) \in Nat /\ Len(todo) = 2 + Len(rest) /\ todo[1] = "store1" /\ todo[2] = "list1"
      /\ \A j \in 1 .. Len(rest) : todo[2 + j] = rest[j]
  BY <1>1, <1>2
<1>4. todo # <<>>
  <2>1. Len(todo) # 0 /\ Len(<<>>) = 0
    BY <1>3
  <2> QED
    BY <2>1, Zenon
<1>5. /\ Head(todo) = "store1" /\ Tail(todo) \in Seq(P) /\ Len(Tail(todo)) = 1 + Len(rest)
      /\ \A i \in 1 .. 1 + Len(rest) : Tail(todo)[i] = todo[i + 1]
  <2>1. /\ Head(todo) = todo[1] /\ Tail(todo) \in Seq(P) /\ Len(Tail(todo)) = Len(todo) - 1
        /\ \A i \in 1 .. Len(todo) - 1 : Tail(todo)[i] = todo[i + 1]
    BY <1>2, <1>4, Rested
  <2>2. Len(todo) - 1 = 1 + Len(rest)
    BY <1>3
  <2> QED
    BY <1>3, <2>1, <2>2
<1> DEFINE l == <<"list1">>
           next == l \o rest
<1>6. l \in Seq(Puts) /\ Whole(l) /\ Len(l) = 1 /\ l[1] = "list1"
  BY PutWhole
<1> HIDE DEF l
<1>7. /\ next \in Seq(Puts) /\ Whole(next) /\ Len(next) = 1 + Len(rest) /\ next[1] = "list1"
      /\ \A j \in 1 .. Len(rest) : next[1 + j] = rest[j]
  <2>1. /\ next \in Seq(Puts) /\ Len(next) = Len(l) + Len(rest)
        /\ \A i \in 1 .. Len(l) : next[i] = l[i]
        /\ \A j \in 1 .. Len(rest) : next[Len(l) + j] = rest[j]
    <3>1. ASSUME NEW S, NEW t \in Seq(S), NEW u \in Seq(S)
          PROVE  /\ t \o u \in Seq(S) /\ Len(t \o u) = Len(t) + Len(u)
                 /\ \A i \in 1 .. Len(t) : (t \o u)[i] = t[i]
                 /\ \A j \in 1 .. Len(u) : (t \o u)[Len(t) + j] = u[j]
      BY Joined
    <3>2. l \in Seq(Puts) /\ rest \in Seq(Puts)
      BY <1>6
    <3> QED
      BY <3>1, <3>2
  <2>2. Whole(next)
    BY <1>6, WholeJoined
  <2> QED
    BY <1>6, <2>1, <2>2
<1> HIDE DEF next
<1>8. Tail(todo) = next
  <2>1. ASSUME NEW i \in 1 .. 1 + Len(rest) PROVE Tail(todo)[i] = next[i]
    <3>1. CASE i = 1
      BY <1>3, <1>5, <1>7, <3>1
    <3>2. CASE i # 1
      <4>1. i - 1 \in 1 .. Len(rest) /\ 2 + (i - 1) = i + 1 /\ 1 + (i - 1) = i
        BY <1>3, <3>2
      <4> QED
        BY <1>3, <1>5, <1>7, <4>1
    <3> QED
      BY <3>1, <3>2
  <2> DEFINE rest1 == Tail(todo)
  <2>2. rest1 \in Seq(P) /\ next \in Seq(Puts) /\ Len(rest1) = Len(next)
    BY <1>5, <1>7
  <2>3. \A i \in 1 .. Len(next) : rest1[i] = next[i]
    BY <1>7, <2>1
  <2> HIDE DEF rest1
  <2>4. rest1 = next
    BY <2>2, <2>3
  <2> QED
    BY <2>4 DEF rest1
<1> QED
  BY <1>2, <1>4, <1>5, <1>7, <1>8 DEF StoreTodo, UserTodo, todo, s, P

\* Looking for a value leaves nothing half done.
LEMMA LooksWhole ==
  ASSUME NEW todo \in Seq(Looks)
  PROVE  UserTodo(todo)
<1>1. \A i \in 1 .. Len(todo) : todo[i] \in Looks
  OBVIOUS
<1> QED
  BY <1>1 DEF UserTodo, Whole, Looks

LEMMA SearchLooks ==
  ASSUME NEW op
  PROVE  LET todo == Search \o (IF op = "compute_or_get" THEN <<"compute">> ELSE <<>>)
         IN  todo \in Seq(Looks) /\ todo # <<>>
<1> DEFINE last == IF op = "compute_or_get" THEN <<"compute">> ELSE <<>>
           l4s == IF setup.l4 THEN <<"l4">> ELSE <<>>
<1>1. last \in Seq(Looks) /\ l4s \in Seq(Looks)
  <2>1. <<>> \in Seq(Looks) /\ <<"compute">> \in Seq(Looks)
    BY DEF Looks
  <2>2. setup.l4 => <<"l4">> \in Seq(Looks)
    BY DEF Looks
  <2> QED
    BY <2>1, <2>2
<1>2. <<"l2", "l3">> \in Seq(Looks) /\ Len(<<"l2", "l3">>) = 2
  BY DEF Looks
<1> HIDE DEF last, l4s
<1>3. <<"l2", "l3">> \o l4s \in Seq(Looks) /\ Len(<<"l2", "l3">> \o l4s) >= 2
  BY <1>1, <1>2, Joined
<1>4. (<<"l2", "l3">> \o l4s) \o last \in Seq(Looks) /\ Len((<<"l2", "l3">> \o l4s) \o last) >= 2
  BY <1>1, <1>3, Joined
<1> QED
  BY <1>4 DEF Search, last, l4s

\* All that an invalidation called by a process does.
LEMMA DropAll ==
  DropL1L2 \o <<"drop3", "publish">> =
    <<"drop1", "forget", "look", "unlink", "drop3", "publish">>
<1>1. DropL1L2 \in Seq(Steps) /\ <<"drop3", "publish">> \in Seq(Steps)
  BY DEF DropL1L2, Steps
<1>2. Len(DropL1L2) = 4 /\ Len(<<"drop3", "publish">>) = 2
  BY DEF DropL1L2
<1>3. /\ DropL1L2[1] = "drop1" /\ DropL1L2[2] = "forget" /\ DropL1L2[3] = "look"
      /\ DropL1L2[4] = "unlink"
  BY DEF DropL1L2
<1>4. ASSUME NEW s \in Seq(Steps), NEW t \in Seq(Steps), Len(s) = 4, Len(t) = 2
      PROVE  s \o t = <<s[1], s[2], s[3], s[4], t[1], t[2]>>
  <2> DEFINE u == s \o t
  <2>1. /\ u \in Seq(Steps) /\ Len(u) = Len(s) + Len(t)
        /\ \A i \in 1 .. Len(s) : u[i] = s[i]
        /\ \A j \in 1 .. Len(t) : u[Len(s) + j] = t[j]
    BY Joined
  <2> HIDE DEF u
  <2>2. /\ u[1] = s[1] /\ u[2] = s[2] /\ u[3] = s[3] /\ u[4] = s[4]
        /\ u[4 + 1] = t[1] /\ u[4 + 2] = t[2]
    BY <1>4, <2>1
  <2>3. u \in Seq(Steps) /\ Len(u) = 6
    BY <1>4, <2>1
  <2>4. u = <<u[1], u[2], u[3], u[4], u[5], u[6]>>
    BY <2>3
  <2>5. u = <<s[1], s[2], s[3], s[4], t[1], t[2]>>
    BY <2>2, <2>4
  <2> QED
    BY <2>5 DEF u
<1>5. DropL1L2 \o <<"drop3", "publish">> =
        <<DropL1L2[1], DropL1L2[2], DropL1L2[3], DropL1L2[4], "drop3", "publish">>
  BY <1>1, <1>2, <1>4
<1> QED
  BY <1>3, <1>5
-----------------------------------------------------------------------------
(* What the threads are in the middle of.                                  *)

Invalidates(a, x) ==
  /\ x.op = "invalidate" /\ x.key \in Keys /\ x.val \in Values
  /\ x.todo \in IF a[2] = "caller" THEN CallerTodos ELSE ListenerTodos
Uses(a, x) ==
  /\ a[2] = "caller" /\ x.op \in {"get", "compute_or_get", "set"}
  /\ x.key \in Keys /\ x.val \in Values
  /\ x.todo # <<>> /\ (UserTodo(x.todo) \/ StoreTodo(x.todo))
Clears(a, x) ==
  /\ a[2] = "caller" /\ x.op = "invalidate_pattern"
  /\ x.key \in Keys /\ x.val \in Values /\ x.todo \in ClearTodos
Busy(a, x) == Invalidates(a, x) \/ Uses(a, x) \/ Clears(a, x)

Doing ==
  \A a \in Threads :
    /\ agent[a] = Resting \/ Busy(a, agent[a])
    /\ agent[a] # Resting /\ a[2] = "caller" => a[1] \in setup.clients

\* While a caller is about to store an entry there is room for it.
HasRoom(c) == At(<<c, "caller">>, "store1") => Cardinality(Held(l1[c])) < L1Size

Typed == TypeOK /\ \A c \in Clients : Sane(l1[c]) /\ HasRoom(c)

Agents == [Threads -> [op : Operations \cup {"none"},
                       key : Keys \cup {NoKey}, val : Values, todo : Seq(Steps)]]

LEMMA DropTodos ==
  ASSUME NEW todo \in CallerTodos \cup ListenerTodos \cup ClearTodos
  PROVE  todo \in Seq(Steps) /\ todo # <<>> /\ Head(todo) # "store1"
<1>1. CASE todo = <<"drop1", "forget", "look", "unlink", "drop3", "publish">>
  BY <1>1 DEF Steps
<1>2. CASE todo = <<"del1", "unlist1", "forget", "look", "unlink", "drop3", "publish">>
  BY <1>2 DEF Steps
<1>3. CASE todo = <<"unlist1", "forget", "look", "unlink", "drop3", "publish">>
  BY <1>3 DEF Steps
<1>4. CASE todo = <<"forget", "look", "unlink", "drop3", "publish">>
  BY <1>4 DEF Steps
<1>5. CASE todo = <<"look", "unlink", "drop3", "publish">>
  BY <1>5 DEF Steps
<1>6. CASE todo = <<"unlink", "drop3", "publish">>
  BY <1>6 DEF Steps
<1>7. CASE todo = <<"drop3", "publish">>
  BY <1>7 DEF Steps
<1>8. CASE todo = <<"publish">>
  BY <1>8 DEF Steps
<1>9. CASE todo = <<"drop1", "forget", "look", "unlink">>
  BY <1>9 DEF Steps
<1>10. CASE todo = <<"del1", "unlist1", "forget", "look", "unlink">>
  BY <1>10 DEF Steps
<1>11. CASE todo = <<"unlist1", "forget", "look", "unlink">>
  BY <1>11 DEF Steps
<1>12. CASE todo = <<"forget", "look", "unlink">>
  BY <1>12 DEF Steps
<1>13. CASE todo = <<"look", "unlink">>
  BY <1>13 DEF Steps
<1>14. CASE todo = <<"unlink">>
  BY <1>14 DEF Steps
<1>15. CASE todo = <<"drop1">>
  BY <1>15 DEF Steps
<1>16. CASE todo = <<"del1", "unlist1">>
  BY <1>16 DEF Steps
<1>17. CASE todo = <<"unlist1">>
  BY <1>17 DEF Steps
<1>18. CASE todo \in CallerTodos
  BY <1>1, <1>2, <1>3, <1>4, <1>5, <1>6, <1>7, <1>8, <1>18, Zenon DEF CallerTodos
<1>19. CASE todo \in ListenerTodos
  BY <1>9, <1>10, <1>11, <1>12, <1>13, <1>14, <1>19, Zenon DEF ListenerTodos
<1>20. CASE todo \in ClearTodos
  BY <1>15, <1>16, <1>17, <1>20, Zenon DEF ClearTodos
<1> QED
  BY <1>18, <1>19, <1>20

LEMMA TodoSteps ==
  /\ \A todo : UserTodo(todo) \/ StoreTodo(todo) => todo \in Seq(Steps)
  /\ \A todo : UserTodo(todo) /\ todo # <<>> => Head(todo) # "store1"
<1>1. ASSUME NEW S, NEW T, S \subseteq T, NEW s \in Seq(S) PROVE s \in Seq(T)
  <2>1. Len(s) \in Nat /\ s \in [1 .. Len(s) -> S]
    OBVIOUS
  <2>2. s \in [1 .. Len(s) -> T]
    BY <1>1, <2>1
  <2> QED
    BY <2>1, <2>2
<1>2. /\ Puts \subseteq Steps /\ Looks \subseteq Steps /\ Puts \cup {"store1"} \subseteq Steps
      /\ "store1" \notin Puts \cup Looks
  BY DEF Puts, Looks, Steps
<1>3. ASSUME NEW todo, UserTodo(todo) \/ StoreTodo(todo) PROVE todo \in Seq(Steps)
  BY <1>1, <1>2, <1>3 DEF UserTodo, StoreTodo
<1>4. ASSUME NEW todo, UserTodo(todo), todo # <<>> PROVE Head(todo) # "store1"
  BY <1>2, <1>4, Rested DEF UserTodo
<1> QED
  BY <1>3, <1>4

\* A value is a number.
LEMMA ValuesNat == Values \subseteq Nat /\ 0 \in Values
BY VersionsAssumption

LEMMA MaxOfTwo ==
  ASSUME NEW m \in Values, NEW n \in Values
  PROVE  Max({m, n}) \in Values /\ Max({m, n}) \in {m, n} /\ Max({m, n}) >= m /\ Max({m, n}) >= n
<1>1. \E x \in {m, n} : \A y \in {m, n} : x >= y
  BY ValuesNat
<1> QED
  BY <1>1 DEF Max

\* Who makes an access: one who uses the key, one who clears it from L1 or one who
\* invalidates it.
UserSteps == Puts \cup {"store1"} \cup Looks
ClearSteps == {"drop1", "del1", "unlist1"}
DropSteps == ClearSteps \cup {"forget", "look", "unlink", "drop3", "publish"}

LEMMA StepNames == UserSteps \cap DropSteps = {} /\ ClearSteps \subseteq DropSteps
BY DEF UserSteps, DropSteps, ClearSteps, Puts, Looks

LEMMA OneRole ==
  ASSUME NEW a \in Threads, NEW x
  PROVE  /\ ~(Uses(a, x) /\ Invalidates(a, x)) /\ ~(Uses(a, x) /\ Clears(a, x))
         /\ ~(Invalidates(a, x) /\ Clears(a, x))
BY DEF Uses, Invalidates, Clears

LEMMA Roles ==
  ASSUME Doing, NEW a \in Threads, NEW step, At(a, step)
  PROVE  /\ Busy(a, agent[a]) /\ Key(a) \in Keys /\ Val(a) \in Values
         /\ Uses(a, agent[a]) => step \in UserSteps
         /\ Clears(a, agent[a]) => step \in ClearSteps
         /\ Invalidates(a, agent[a]) => step \in DropSteps
<1>1. agent[a] # Resting
  BY DEF At, Resting
<1>2. Uses(a, agent[a]) => step \in UserSteps
  BY Rested DEF Uses, UserTodo, StoreTodo, At, UserSteps
<1>3. Clears(a, agent[a]) => step \in ClearSteps
  BY DEF Clears, ClearTodos, At, ClearSteps
<1>4. Invalidates(a, agent[a]) => step \in DropSteps
  BY DEF Invalidates, CallerTodos, ListenerTodos, At, DropSteps, ClearSteps
<1>5. Busy(a, agent[a])
  BY <1>1 DEF Doing
<1> QED
  BY <1>2, <1>3, <1>4, <1>5 DEF Busy, Uses, Clears, Invalidates, Key, Val

\* Hence who makes the accesses of a user.
LEMMA UserRole ==
  ASSUME Doing, NEW a \in Threads, NEW step \in UserSteps, At(a, step)
  PROVE  /\ Uses(a, agent[a]) /\ ~Clears(a, agent[a]) /\ ~Invalidates(a, agent[a])
         /\ a = <<a[1], "caller">> /\ a[1] \in Clients /\ Key(a) \in Keys /\ Val(a) \in Values
<1>1. Uses(a, agent[a])
  BY Roles, StepNames DEF Busy
<1> QED
  BY <1>1, OneRole, Roles DEF Uses, Threads

\* A user goes on with what it has yet to do.
LEMMA UserRest ==
  ASSUME NEW a \in Threads, Uses(a, agent[a]), NEW step, At(a, step)
  PROVE  /\ step \in Puts => agent[a].todo \in Seq(Puts) /\ Rest(a) \in Seq(Puts)
         /\ step \in Looks => agent[a].todo \in Seq(Looks) /\ Rest(a) \in Seq(Looks)
         /\ UserTodo(Rest(a))
         /\ step = "tmp" => Rest(a) # <<>> /\ Head(Rest(a)) = "replace"
         /\ step = "replace" => Rest(a) # <<>> /\ UserTodo(Tail(Rest(a)))
<1>0. "store1" \notin Puts \cup Looks /\ Puts \cap Looks = {} /\ {"tmp", "replace"} \subseteq Puts
  BY DEF Puts, Looks
<1>1. CASE UserTodo(agent[a].todo)
  <2>1. agent[a].todo # <<>> /\ Head(agent[a].todo) = step
    BY DEF Uses, At
  <2>2. /\ step \in Puts => agent[a].todo \in Seq(Puts) /\ Rest(a) \in Seq(Puts)
        /\ step \in Looks => agent[a].todo \in Seq(Looks) /\ Rest(a) \in Seq(Looks)
        /\ Rest(a) \in Seq(Puts) \cup Seq(Looks)
    BY <1>0, <1>1, <2>1, Rested DEF UserTodo, Rest
  <2>3. /\ Whole(Rest(a))
        /\ step = "tmp" => Rest(a) # <<>> /\ Head(Rest(a)) = "replace"
        /\ step = "replace" => Rest(a) # <<>>
    BY <1>1, <2>1, WholeRested DEF UserTodo, Rest
  <2>4. ASSUME step = "replace" PROVE UserTodo(Tail(Rest(a)))
    <3>1. Rest(a) \in Seq(Puts) /\ Rest(a) # <<>>
      BY <1>0, <2>2, <2>3, <2>4
    <3> QED
      BY <2>3, <3>1, Rested, WholeRested DEF UserTodo
  <2> QED
    BY <2>2, <2>3, <2>4 DEF UserTodo
<1>2. CASE StoreTodo(agent[a].todo)
  BY <1>0, <1>2 DEF StoreTodo, At, Rest
<1> QED
  BY <1>1, <1>2 DEF Uses

\* And so does one who clears or invalidates.
LEMMA ClearRest ==
  ASSUME NEW a \in Threads, Clears(a, agent[a]), NEW step, At(a, step)
  PROVE  /\ step = "drop1" => Rest(a) = <<>>
         /\ step = "del1" => Rest(a) = <<"unlist1">>
         /\ step = "unlist1" => Rest(a) = <<>>
<1>1. CASE agent[a].todo = <<"drop1">>
  BY <1>1 DEF At, Rest
<1>2. CASE agent[a].todo = <<"del1", "unlist1">>
  BY <1>2 DEF At, Rest
<1>3. CASE agent[a].todo = <<"unlist1">>
  BY <1>3 DEF At, Rest
<1> QED
  BY <1>1, <1>2, <1>3, Zenon DEF Clears, ClearTodos

LEMMA DropRest ==
  ASSUME NEW a \in Threads, Invalidates(a, agent[a]), NEW step, At(a, step)
  PROVE  /\ a[2] = "caller" =>
              /\ step = "drop1" => Rest(a) = <<"forget", "look", "unlink", "drop3", "publish">>
              /\ step = "del1" =>
                   Rest(a) = <<"unlist1", "forget", "look", "unlink", "drop3", "publish">>
              /\ step = "unlist1" => Rest(a) = <<"forget", "look", "unlink", "drop3", "publish">>
              /\ step = "forget" => Rest(a) = <<"look", "unlink", "drop3", "publish">>
              /\ step = "look" => /\ Rest(a) = <<"unlink", "drop3", "publish">>
                                  /\ Tail(Rest(a)) = <<"drop3", "publish">>
              /\ step = "unlink" => Rest(a) = <<"drop3", "publish">>
              /\ step = "drop3" => Rest(a) = <<"publish">>
              /\ step = "publish" => Rest(a) = <<>>
         /\ a[2] # "caller" =>
              /\ step = "drop1" => Rest(a) = <<"forget", "look", "unlink">>
              /\ step = "del1" => Rest(a) = <<"unlist1", "forget", "look", "unlink">>
              /\ step = "unlist1" => Rest(a) = <<"forget", "look", "unlink">>
              /\ step = "forget" => Rest(a) = <<"look", "unlink">>
              /\ step = "look" => Rest(a) = <<"unlink">> /\ Tail(Rest(a)) = <<>>
              /\ step = "unlink" => Rest(a) = <<>>
              /\ step \notin {"drop3", "publish"}
<1>1. CASE a[2] = "caller"
  <2>1. CASE agent[a].todo = <<"drop1", "forget", "look", "unlink", "drop3", "publish">>
    BY <1>1, <2>1 DEF At, Rest
  <2>2. CASE agent[a].todo = <<"del1", "unlist1", "forget", "look", "unlink", "drop3", "publish">>
    BY <1>1, <2>2 DEF At, Rest
  <2>3. CASE agent[a].todo = <<"unlist1", "forget", "look", "unlink", "drop3", "publish">>
    BY <1>1, <2>3 DEF At, Rest
  <2>4. CASE agent[a].todo = <<"forget", "look", "unlink", "drop3", "publish">>
    BY <1>1, <2>4 DEF At, Rest
  <2>5. CASE agent[a].todo = <<"look", "unlink", "drop3", "publish">>
    BY <1>1, <2>5 DEF At, Rest
  <2>6. CASE agent[a].todo = <<"unlink", "drop3", "publish">>
    BY <1>1, <2>6 DEF At, Rest
  <2>7. CASE agent[a].todo = <<"drop3", "publish">>
    BY <1>1, <2>7 DEF At, Rest
  <2>8. CASE agent[a].todo = <<"publish">>
    BY <1>1, <2>8 DEF At, Rest
  <2> QED
    BY <1>1, <2>1, <2>2, <2>3, <2>4, <2>5, <2>6, <2>7, <2>8, Zenon DEF Invalidates, CallerTodos
<1>2. CASE a[2] # "caller"
  <2>1. CASE agent[a].todo = <<"drop1", "forget", "look", "unlink">>
    BY <1>2, <2>1 DEF At, Rest
  <2>2. CASE agent[a].todo = <<"del1", "unlist1", "forget", "look", "unlink">>
    BY <1>2, <2>2 DEF At, Rest
  <2>3. CASE agent[a].todo = <<"unlist1", "forget", "look", "unlink">>
    BY <1>2, <2>3 DEF At, Rest
  <2>4. CASE agent[a].todo = <<"forget", "look", "unlink">>
    BY <1>2, <2>4 DEF At, Rest
  <2>5. CASE agent[a].todo = <<"look", "unlink">>
    BY <1>2, <2>5 DEF At, Rest
  <2>6. CASE agent[a].todo = <<"unlink">>
    BY <1>2, <2>6 DEF At, Rest
  <2> QED
    BY <1>2, <2>1, <2>2, <2>3, <2>4, <2>5, <2>6, Zenon DEF Invalidates, ListenerTodos
<1> QED
  BY <1>1, <1>2

\* Where the thread of an access is after it.
LEMMA GoesTo ==
  ASSUME Typed, NEW a \in Threads, NEW step, NEW val, NEW rest, Goes(a, step, val, rest)
  PROVE  /\ At(a, step) /\ setup' = setup /\ agent[a] # Resting
         /\ agent' = [agent EXCEPT ![a] =
                        IF rest = <<>> THEN Resting
                        ELSE [op |-> agent[a].op, key |-> Key(a), val |-> val, todo |-> rest]]
         /\ \A b \in Threads : b # a => agent'[b] = agent[b]
         /\ rest = <<>> => agent'[a] = Resting /\ \A s : ~At(a, s)'
         /\ rest # <<>> => /\ agent'[a].op = agent[a].op /\ Key(a)' = Key(a) /\ Val(a)' = val
                           /\ agent'[a].todo = rest /\ \A s : At(a, s)' <=> Head(rest) = s
<1> DEFINE x == IF rest = <<>> THEN Resting
                ELSE [op |-> agent[a].op, key |-> Key(a), val |-> val, todo |-> rest]
<1>1. /\ At(a, step) /\ setup' = setup /\ agent' = [agent EXCEPT ![a] = x] /\ agent[a] # Resting
  BY DEF Goes, At, Key, Resting
<1>2. /\ rest = <<>> => x = Resting /\ x.todo = <<>>
      /\ rest # <<>> => /\ x.op = agent[a].op /\ x.key = Key(a) /\ x.val = val /\ x.todo = rest
  BY DEF Resting
<1>3. agent \in [Threads -> [op : Operations \cup {"none"},
                             key : Keys \cup {NoKey}, val : Values, todo : Seq(Steps)]]
  BY DEF Typed, TypeOK
<1> HIDE DEF x
<1>4. agent'[a] = x /\ \A b \in Threads : b # a => agent'[b] = agent[b]
  BY <1>1, <1>3
<1> QED
  BY <1>1, <1>2, <1>4 DEF At, Key, Val, x

\* A thread takes something up, and the others stay where they are.
LEMMA TakesUp ==
  ASSUME Typed, Doing, NEW a \in Threads, NEW op, NEW k, NEW val, NEW todo, setup' = setup,
         agent' = [agent EXCEPT ![a] =
                     IF todo = <<>> THEN Resting
                     ELSE [op |-> op, key |-> k, val |-> val, todo |-> todo]],
         todo # <<>> => Busy(a, [op |-> op, key |-> k, val |-> val, todo |-> todo]),
         a[2] = "caller" => a[1] \in setup.clients
  PROVE  Doing' /\ agent' \in Agents
<1> DEFINE x == IF todo = <<>> THEN Resting
                ELSE [op |-> op, key |-> k, val |-> val, todo |-> todo]
<1>1. agent \in Agents
  BY DEF Typed, TypeOK, Agents
<1>2. x = Resting \/ Busy(a, x)
  OBVIOUS
<1>3. x \in [op : Operations \cup {"none"}, key : Keys \cup {NoKey}, val : Values,
             todo : Seq(Steps)]
  <2>1. CASE todo = <<>>
    BY <2>1, ValuesNat DEF Resting
  <2>2. CASE todo # <<>>
    <3> DEFINE y == [op |-> op, key |-> k, val |-> val, todo |-> todo]
    <3>1. y.op = op /\ y.key = k /\ y.val = val /\ y.todo = todo /\ Busy(a, y) /\ x = y
      BY <2>2
    <3> HIDE DEF y
    <3>2. op \in Operations /\ k \in Keys /\ val \in Values
      BY <3>1 DEF Busy, Invalidates, Uses, Clears, Operations
    <3>3. todo \in Seq(Steps)
      BY <3>1, TodoSteps, DropTodos DEF Busy, Invalidates, Uses, Clears
    <3> QED
      BY <3>1, <3>2, <3>3 DEF y
  <2> QED
    BY <2>1, <2>2
<1> HIDE DEF x
<1>4. agent' = [agent EXCEPT ![a] = x]
  BY DEF x
<1>5. agent' \in Agents
  BY <1>1, <1>3, <1>4 DEF Agents
<1>6. ASSUME NEW b \in Threads
      PROVE  /\ agent'[b] = Resting \/ Busy(b, agent'[b])
             /\ agent'[b] # Resting /\ b[2] = "caller" => b[1] \in setup.clients
  <2>1. CASE b = a
    BY <1>1, <1>2, <1>4, <2>1 DEF Agents
  <2>2. CASE b # a
    BY <1>1, <1>4, <2>2 DEF Doing, Agents
  <2> QED
    BY <2>1, <2>2
<1>7. \A b \in Threads : Busy(b, agent'[b]) <=> Busy(b, agent[b])'
  BY DEF Busy, Invalidates, Uses, Clears, UserTodo, StoreTodo, Looks
<1> QED
  BY <1>5, <1>6, <1>7 DEF Doing

\* Going on leaves the others where they are, and only PutL1 leads to the storing of an entry.
LEMMA GoesOn ==
  ASSUME Typed, Doing, NEW a \in Threads, NEW step, NEW val \in Values, NEW rest,
         Goes(a, step, val, rest),
         Uses(a, agent[a]) => rest = <<>> \/ UserTodo(rest),
         Clears(a, agent[a]) => rest \in {<<>>} \cup ClearTodos,
         Invalidates(a, agent[a]) =>
           rest \in {<<>>} \cup (IF a[2] = "caller" THEN CallerTodos ELSE ListenerTodos)
  PROVE  Doing' /\ agent' \in Agents /\ ~At(a, "store1")'
<1> DEFINE x == [op |-> agent[a].op, key |-> Key(a), val |-> val, todo |-> rest]
<1>1. /\ At(a, step) /\ setup' = setup /\ agent[a] # Resting
      /\ agent' = [agent EXCEPT ![a] = IF rest = <<>> THEN Resting ELSE x]
      /\ rest = <<>> => ~At(a, "store1")'
      /\ rest # <<>> => (At(a, "store1")' <=> Head(rest) = "store1")
  BY GoesTo
<1>2. x.op = agent[a].op /\ x.key = Key(a) /\ x.val = val /\ x.todo = rest
  OBVIOUS
<1>3. Busy(a, agent[a]) /\ Key(a) \in Keys
  BY <1>1, Roles
<1>4. ASSUME rest # <<>> PROVE Busy(a, x) /\ Head(rest) # "store1"
  <2> HIDE DEF x
  <2>1. CASE Uses(a, agent[a])
    BY <1>2, <1>3, <1>4, <2>1, TodoSteps DEF Uses, Busy
  <2>2. CASE Clears(a, agent[a])
    BY <1>2, <1>3, <1>4, <2>2, DropTodos DEF Clears, Busy
  <2>3. CASE Invalidates(a, agent[a])
    BY <1>2, <1>3, <1>4, <2>3, DropTodos DEF Invalidates, Busy
  <2> QED
    BY <1>3, <2>1, <2>2, <2>3 DEF Busy
<1>5. a[2] = "caller" => a[1] \in setup.clients
  BY <1>1 DEF Doing
<1>6. Doing' /\ agent' \in Agents
  BY <1>1, <1>4, <1>5, TakesUp
<1> QED
  BY <1>1, <1>4, <1>6

\* An entry was found: its deletion comes before the rest.
LEMMA DropMore ==
  /\ <<"del1", "unlist1">> \o <<>> = <<"del1", "unlist1">>
  /\ <<"del1", "unlist1">> \o <<"forget", "look", "unlink">>
       = <<"del1", "unlist1", "forget", "look", "unlink">>
  /\ <<"del1", "unlist1">> \o <<"forget", "look", "unlink", "drop3", "publish">>
       = <<"del1", "unlist1", "forget", "look", "unlink", "drop3", "publish">>
<1> DEFINE s == <<"del1", "unlist1">>
<1>1. s \in Seq(Steps) /\ Len(s) = 2 /\ s[1] = "del1" /\ s[2] = "unlist1"
  BY DEF Steps
<1> HIDE DEF s
<1>2. ASSUME NEW t \in Seq(Steps)
      PROVE  /\ s \o t \in Seq(Steps) /\ Len(s \o t) = 2 + Len(t)
             /\ (s \o t)[1] = "del1" /\ (s \o t)[2] = "unlist1"
             /\ \A j \in 1 .. Len(t) : (s \o t)[2 + j] = t[j]
  <2> DEFINE u == s \o t
  <2>1. /\ u \in Seq(Steps) /\ Len(u) = Len(s) + Len(t)
        /\ \A i \in 1 .. Len(s) : u[i] = s[i]
        /\ \A j \in 1 .. Len(t) : u[Len(s) + j] = t[j]
    <3>1. ASSUME NEW v \in Seq(Steps), NEW w \in Seq(Steps)
          PROVE  /\ v \o w \in Seq(Steps) /\ Len(v \o w) = Len(v) + Len(w)
                 /\ \A i \in 1 .. Len(v) : (v \o w)[i] = v[i]
                 /\ \A j \in 1 .. Len(w) : (v \o w)[Len(v) + j] = w[j]
      BY Joined
    <3> QED
      BY <1>1, <3>1
  <2> HIDE DEF u
  <2>2. 1 \in 1 .. Len(s) /\ 2 \in 1 .. Len(s)
    BY <1>1
  <2>3. u[1] = "del1" /\ u[2] = "unlist1"
    BY <1>1, <2>1, <2>2
  <2>4. Len(u) = 2 + Len(t) /\ \A j \in 1 .. Len(t) : u[2 + j] = t[j]
    BY <1>1, <2>1
  <2> QED
    BY <2>1, <2>3, <2>4 DEF u
<1>3. s \o <<>> = s
  BY <1>1
<1>4. ASSUME NEW t \in Seq(Steps), Len(t) = 3
      PROVE  s \o t = <<"del1", "unlist1", t[1], t[2], t[3]>>
  <2> DEFINE u == s \o t
  <2>1. /\ u \in Seq(Steps) /\ Len(u) = 5 /\ u[1] = "del1" /\ u[2] = "unlist1"
        /\ u[2 + 1] = t[1] /\ u[2 + 2] = t[2] /\ u[2 + 3] = t[3]
    <3>1. u \in Seq(Steps) /\ Len(u) = 2 + 3 /\ u[1] = "del1" /\ u[2] = "unlist1"
          /\ \A j \in 1 .. 3 : u[2 + j] = t[j]
      BY <1>2, <1>4
    <3> HIDE DEF u
    <3> QED
      BY <3>1
  <2> HIDE DEF u
  <2>2. u = <<u[1], u[2], u[3], u[4], u[5]>>
    BY <2>1
  <2>3. u = <<"del1", "unlist1", t[1], t[2], t[3]>>
    BY <2>1, <2>2
  <2> QED
    BY <2>3 DEF u
<1>5. ASSUME NEW t \in Seq(Steps), Len(t) = 5
      PROVE  s \o t = <<"del1", "unlist1", t[1], t[2], t[3], t[4], t[5]>>
  <2> DEFINE u == s \o t
  <2>1. /\ u \in Seq(Steps) /\ Len(u) = 7 /\ u[1] = "del1" /\ u[2] = "unlist1"
        /\ u[2 + 1] = t[1] /\ u[2 + 2] = t[2] /\ u[2 + 3] = t[3] /\ u[2 + 4] = t[4]
        /\ u[2 + 5] = t[5]
    <3>1. u \in Seq(Steps) /\ Len(u) = 2 + 5 /\ u[1] = "del1" /\ u[2] = "unlist1"
          /\ \A j \in 1 .. 5 : u[2 + j] = t[j]
      <4>1. /\ u \in Seq(Steps) /\ Len(u) = 2 + Len(t) /\ u[1] = "del1" /\ u[2] = "unlist1"
            /\ \A j \in 1 .. Len(t) : u[2 + j] = t[j]
        BY <1>2
      <4> HIDE DEF u
      <4> QED
        BY <1>5, <4>1
    <3> HIDE DEF u
    <3> QED
      BY <3>1
  <2> HIDE DEF u
  <2>2. u = <<u[1], u[2], u[3], u[4], u[5], u[6], u[7]>>
    BY <2>1
  <2>3. u = <<"del1", "unlist1", t[1], t[2], t[3], t[4], t[5]>>
    BY <2>1, <2>2
  <2> QED
    BY <2>3 DEF u
<1>6. s \o <<"forget", "look", "unlink">> = <<"del1", "unlist1", "forget", "look", "unlink">>
  <2> DEFINE t == <<"forget", "look", "unlink">>
  <2>1. /\ t \in Seq(Steps) /\ Len(t) = 3 /\ t[1] = "forget" /\ t[2] = "look" /\ t[3] = "unlink"
    BY DEF Steps
  <2> HIDE DEF t
  <2>2. s \o t = <<"del1", "unlist1", "forget", "look", "unlink">>
    BY <1>4, <2>1
  <2> QED
    BY <2>2 DEF t
<1>7. s \o <<"forget", "look", "unlink", "drop3", "publish">>
        = <<"del1", "unlist1", "forget", "look", "unlink", "drop3", "publish">>
  <2> DEFINE t == <<"forget", "look", "unlink", "drop3", "publish">>
  <2>1. /\ t \in Seq(Steps) /\ Len(t) = 5 /\ t[1] = "forget" /\ t[2] = "look" /\ t[3] = "unlink"
        /\ t[4] = "drop3" /\ t[5] = "publish"
    BY DEF Steps
  <2> HIDE DEF t
  <2>2. s \o t = <<"del1", "unlist1", "forget", "look", "unlink", "drop3", "publish">>
    BY <1>5, <2>1
  <2> QED
    BY <2>2 DEF t
<1> QED
  BY <1>3, <1>6, <1>7 DEF s

\* One who clears or invalidates goes on with the rest, ends, skips the removal of a file
\* that is not there, or deletes an entry that is there.
LEMMA DropNext ==
  ASSUME Typed, Doing, NEW a \in Threads, NEW step \in DropSteps, NEW val \in Values, NEW rest,
         Goes(a, step, val, rest),
         \/ rest \in {Rest(a), <<>>}
         \/ step = "look" /\ rest = Tail(Rest(a))
         \/ step = "drop1" /\ rest = <<"del1", "unlist1">> \o Rest(a)
  PROVE  Doing' /\ agent' \in Agents /\ ~At(a, "store1")'
<1>1. At(a, step) /\ ~Uses(a, agent[a])
  BY GoesTo, Roles, StepNames
<1>2. ASSUME Clears(a, agent[a]) PROVE rest \in {<<>>} \cup ClearTodos
  <2>1. step \in {"drop1", "del1", "unlist1"}
    BY <1>1, <1>2, Roles DEF ClearSteps
  <2>2. rest \in {<<>>, <<"unlist1">>, <<"del1", "unlist1">>}
    BY <1>1, <1>2, <2>1, ClearRest, DropMore, Zenon
  <2> QED
    BY <2>2, Zenon DEF ClearTodos
<1>3. ASSUME Invalidates(a, agent[a]), a[2] = "caller" PROVE rest \in {<<>>} \cup CallerTodos
  <2>1. step \in {"drop1", "del1", "unlist1", "forget", "look", "unlink", "drop3", "publish"}
    BY DEF DropSteps, ClearSteps
  <2>2. CASE rest = Rest(a)
    BY <1>1, <1>3, <2>1, <2>2, DropRest, Zenon DEF CallerTodos
  <2>3. CASE step = "look" /\ rest = Tail(Rest(a))
    BY <1>1, <1>3, <2>3, DropRest, Zenon DEF CallerTodos
  <2>4. CASE step = "drop1" /\ rest = <<"del1", "unlist1">> \o Rest(a)
    BY <1>1, <1>3, <2>4, DropRest, DropMore, Zenon DEF CallerTodos
  <2> QED
    BY <2>2, <2>3, <2>4, Zenon
<1>4. ASSUME Invalidates(a, agent[a]), a[2] # "caller" PROVE rest \in {<<>>} \cup ListenerTodos
  <2>1. step \in {"drop1", "del1", "unlist1", "forget", "look", "unlink"}
    BY <1>1, <1>4, DropRest DEF DropSteps, ClearSteps
  <2>2. CASE rest = Rest(a)
    BY <1>1, <1>4, <2>1, <2>2, DropRest, Zenon DEF ListenerTodos
  <2>3. CASE step = "look" /\ rest = Tail(Rest(a))
    BY <1>1, <1>4, <2>3, DropRest, Zenon DEF ListenerTodos
  <2>4. CASE step = "drop1" /\ rest = <<"del1", "unlist1">> \o Rest(a)
    BY <1>1, <1>4, <2>4, DropRest, DropMore, Zenon DEF ListenerTodos
  <2> QED
    BY <2>2, <2>3, <2>4, Zenon
<1> QED
  BY <1>1, <1>2, <1>3, <1>4, GoesOn

\* An entry that is admitted is stored next, unless eviction raises.
LEMMA PutNext ==
  ASSUME Typed, Doing, NEW a \in Threads, PutL1(a)
  PROVE  Doing' /\ agent' \in Agents
<1> DEFINE more == <<"store1", "list1">> \o Rest(a)
           x == [op |-> agent[a].op, key |-> Key(a), val |-> Val(a), todo |-> more]
<1>1. At(a, "put1") /\ "put1" \in UserSteps /\ "put1" \in Puts
  BY DEF PutL1, UserSteps, Puts
<1>2. Uses(a, agent[a]) /\ ~Clears(a, agent[a]) /\ ~Invalidates(a, agent[a]) /\ Val(a) \in Values
  BY <1>1, UserRole
<1>3. Rest(a) \in Seq(Puts) /\ UserTodo(Rest(a))
  BY <1>1, <1>2, UserRest
<1>4. CASE Goes(a, "put1", 0, <<>>) \/ Goes(a, "put1", Val(a), <<>>)
           \/ Goes(a, "put1", Val(a), Rest(a))
  BY <1>2, <1>3, <1>4, ValuesNat, GoesOn
<1>5. CASE Goes(a, "put1", Val(a), more)
  <2>1. StoreTodo(more) /\ more # <<>>
    BY <1>3, StoreNext DEF UserTodo, StoreTodo
  <2>2. x.op = agent[a].op /\ x.key = Key(a) /\ x.val = Val(a) /\ x.todo = more
    OBVIOUS
  <2> HIDE DEF more
  <2>3. setup' = setup /\ agent' = [agent EXCEPT ![a] = IF more = <<>> THEN Resting ELSE x]
        /\ agent[a] # Resting
    BY <1>5, GoesTo
  <2>4. a[2] = "caller" => a[1] \in setup.clients
    BY <2>3 DEF Doing
  <2>5. Busy(a, x)
    <3> HIDE DEF x
    <3> QED
      BY <1>2, <2>1, <2>2 DEF Busy, Uses, Key
  <2> QED
    BY <2>3, <2>4, <2>5, TakesUp
<1>6. \/ Goes(a, "put1", 0, <<>>) \/ Goes(a, "put1", Val(a), <<>>)
      \/ Goes(a, "put1", Val(a), Rest(a)) \/ Goes(a, "put1", Val(a), more)
  BY DEF PutL1
<1> QED
  BY <1>4, <1>5, <1>6

\* Every access leads to what the operation does next.
LEMMA StepDoing ==
  ASSUME Typed, Doing, NEW a \in Threads, Step(a)
  PROVE  Doing' /\ agent' \in Agents /\ (At(a, "store1")' => PutL1(a))
<1> DEFINE k == Key(a)
           Goal == Doing' /\ agent' \in Agents /\ (At(a, "store1")' => PutL1(a))
<1>0. /\ {l2tmp, l2file, l3, l4} \subseteq [Keys -> Values \cup {NoEntry}]
      /\ source \in [Keys -> Values] /\ 0 \in Values
  BY ValuesNat DEF Typed, TypeOK
<1>1. ASSUME NEW step \in UserSteps, NEW val \in Values, NEW rest,
             Goes(a, step, val, rest), rest = <<>> \/ UserTodo(rest)
      PROVE  Goal
  BY <1>1, GoesTo, UserRole, GoesOn
<1>2. ASSUME NEW step \in UserSteps, At(a, step)
      PROVE  k \in Keys /\ Val(a) \in Values /\ UserTodo(Rest(a))
  BY <1>2, UserRole, UserRest
<1>3. ASSUME NEW step \in UserSteps, Goes(a, step, Val(a), Rest(a)) PROVE Goal
  BY <1>1, <1>2, <1>3, GoesTo
<1>4. /\ {"adopt", "put1", "store1", "list1", "tmp", "replace", "meta", "put3", "put4"}
           \subseteq UserSteps
      /\ {"l2", "l2known", "l2any", "l3", "compute"} \subseteq UserSteps
  BY DEF UserSteps, Puts, Looks
<1> HIDE DEF Goal
<1>5. ASSUME ReadMeta(a) PROVE Goal
  <2> DEFINE known == l2meta[a[1]][k]
             rest == CASE known = "none" -> <<"l2any">> \o Rest(a)
                       [] known = "expired" -> Rest(a)
                       [] OTHER -> <<"l2known">> \o Rest(a)
  <2>1. Goes(a, "l2", 0, rest) /\ At(a, "l2")
    BY <1>5 DEF ReadMeta, Goes
  <2>2. Rest(a) \in Seq(Looks)
    BY <1>4, <2>1, UserRole, UserRest DEF Looks
  <2>3. <<"l2any">> \o Rest(a) \in Seq(Looks) /\ <<"l2known">> \o Rest(a) \in Seq(Looks)
    <3>1. <<"l2any">> \in Seq(Looks) /\ <<"l2known">> \in Seq(Looks)
      BY DEF Looks
    <3> QED
      BY <2>2, <3>1, Joined
  <2>4. rest \in Seq(Looks)
    BY <2>2, <2>3
  <2> HIDE DEF rest
  <2> QED
    BY <1>0, <1>1, <1>4, <2>1, <2>4, LooksWhole
<1>6. ASSUME NEW step \in {"l2known", "l2any"}, ReadFile(a, step) PROVE Goal
  <2>1. At(a, step) /\ k \in Keys /\ UserTodo(Rest(a)) /\ step \in UserSteps
    BY <1>2, <1>4, <1>6 DEF ReadFile
  <2>2. UserTodo(IF step = "l2any" THEN <<"adopt", "put1">> ELSE <<"put1">>)
    BY PutTodos DEF PutTodo, UserTodo
  <2>3. CASE l2file[k] = NoEntry
    BY <1>0, <1>1, <1>6, <2>1, <2>3 DEF ReadFile
  <2>4. CASE l2file[k] # NoEntry
    <3>1. l2file[k] \in Values
      BY <1>0, <2>1, <2>4
    <3> QED
      BY <1>1, <1>6, <2>1, <2>2, <2>4, <3>1 DEF ReadFile
  <2> QED
    BY <2>3, <2>4
<1>7. ASSUME ReadL3(a) PROVE Goal
  <2>1. At(a, "l3") /\ k \in Keys /\ UserTodo(Rest(a)) /\ UserTodo(SetL2 \o <<"put1">>)
    BY <1>2, <1>4, <1>7, PutTodos DEF ReadL3, PutTodo, UserTodo
  <2>2. CASE Goes(a, "l3", 0, Rest(a))
    BY <1>0, <1>1, <1>4, <2>1, <2>2
  <2>3. CASE l3[k] # NoEntry /\ Goes(a, "l3", l3[k], SetL2 \o <<"put1">>)
    <3>1. l3[k] \in Values
      BY <1>0, <2>1, <2>3
    <3> QED
      BY <1>1, <1>4, <2>1, <2>3, <3>1
  <2> QED
    BY <1>7, <2>2, <2>3 DEF ReadL3
<1>8. ASSUME ReadL4(a) PROVE Goal
  <2>1. "l4" \in UserSteps
    BY <1>8, Roles DEF ReadL4, Busy, DropSteps, ClearSteps
  <2>2. k \in Keys /\ UserTodo(Rest(a)) /\ UserTodo(<<"put3">> \o SetL2 \o <<"put1">>)
    BY <1>2, <1>8, <2>1, PutTodos DEF ReadL4, PutTodo, UserTodo
  <2>3. CASE l4[k] = NoEntry
    BY <1>0, <1>1, <1>8, <2>1, <2>2, <2>3 DEF ReadL4
  <2>4. CASE l4[k] # NoEntry
    <3>1. l4[k] \in Values
      BY <1>0, <2>2, <2>4
    <3> QED
      BY <1>1, <1>8, <2>1, <2>2, <2>4, <3>1 DEF ReadL4
  <2> QED
    BY <2>3, <2>4
<1>9. ASSUME Compute(a) PROVE Goal
  <2>1. k \in Keys
    BY <1>2, <1>4, <1>9, GoesTo DEF Compute
  <2>2. UserTodo(WriteThrough \o (IF setup.l4 THEN <<"put4">> ELSE <<>>))
    BY PutTodos DEF PutTodo, UserTodo
  <2> QED
    BY <1>0, <1>1, <1>4, <1>9, <2>1, <2>2 DEF Compute
<1>10. ASSUME Replace(a) PROVE Goal
  <2>1. At(a, "replace") /\ Uses(a, agent[a]) /\ Val(a) \in Values
    BY <1>4, <1>10, UserRole DEF Replace
  <2>2. UserTodo(Rest(a)) /\ UserTodo(Tail(Rest(a)))
    BY <2>1, UserRest
  <2>3. \/ Goes(a, "replace", Val(a), Tail(Rest(a)))
        \/ Goes(a, "replace", Val(a), Rest(a))
    BY <1>10 DEF Replace
  <2> QED
    BY <1>1, <1>4, <2>1, <2>2, <2>3
<1>11. ASSUME PutRaises(a) PROVE Goal
  <2>1. Goes(a, "put1", 0, <<>>) \/ Goes(a, "list1", 0, <<>>)
    BY <1>11 DEF PutRaises
  <2> QED
    BY <1>0, <1>1, <1>4, <2>1
<1>12. ASSUME PutL1(a) PROVE Goal
  BY <1>12, PutNext DEF Goal
<1>13. ASSUME Adopt(a) \/ StoreL1(a) \/ ListL1(a) \/ WriteTmp(a) PROVE Goal
  BY <1>3, <1>4, <1>13 DEF Adopt, StoreL1, ListL1, WriteTmp
<1>14. ASSUME RecordMeta(a) \/ PutL3(a) \/ PutL4(a) PROVE Goal
  BY <1>3, <1>4, <1>14 DEF RecordMeta, PutL3, PutL4
<1>15. ASSUME NEW step \in DropSteps, NEW val \in Values, NEW rest, Goes(a, step, val, rest),
              \/ rest \in {Rest(a), <<>>}
              \/ step = "look" /\ rest = Tail(Rest(a))
              \/ step = "drop1" /\ rest = <<"del1", "unlist1">> \o Rest(a)
       PROVE  Goal
  BY <1>15, DropNext DEF Goal
<1>16. /\ {"drop1", "del1", "unlist1", "forget", "look", "unlink", "drop3", "publish"}
            \subseteq DropSteps
       /\ \A step \in DropSteps : At(a, step) => Val(a) \in Values
  BY Roles DEF DropSteps, ClearSteps
<1>17. ASSUME DropL1(a) PROVE Goal
  <2>1. Val(a) \in Values /\ "drop1" \in DropSteps
    BY <1>16, <1>17 DEF DropL1, Goes
  <2>2. \/ Goes(a, "drop1", Val(a), Rest(a))
        \/ Goes(a, "drop1", Val(a), <<"del1", "unlist1">> \o Rest(a))
    BY <1>17 DEF DropL1
  <2> QED
    BY <1>15, <2>1, <2>2
<1>18. ASSUME DeleteL1(a) \/ UnlistL1(a) \/ Forget(a) PROVE Goal
  <2>1. \E step \in {"del1", "unlist1", "forget"} : Goes(a, step, Val(a), Rest(a))
    BY <1>18 DEF DeleteL1, UnlistL1, Forget
  <2> QED
    BY <1>15, <1>16, <2>1, GoesTo
<1>19. ASSUME Look(a) PROVE Goal
  <2>1. Val(a) \in Values /\ "look" \in DropSteps
    BY <1>16, <1>19 DEF Look, Goes
  <2>2. \/ Goes(a, "look", Val(a), Rest(a))
        \/ Goes(a, "look", Val(a), Tail(Rest(a)))
    BY <1>19 DEF Look
  <2> QED
    BY <1>15, <2>1, <2>2
<1>20. ASSUME Unlink(a) \/ DropL3(a) PROVE Goal
  <2>1. \E step \in {"unlink", "drop3"} : Goes(a, step, Val(a), Rest(a))
    BY <1>20 DEF Unlink, DropL3
  <2> QED
    BY <1>15, <1>16, <2>1, GoesTo
<1>21. ASSUME DeleteRaises(a) \/ UnlinkRaises(a) \/ Publish(a) PROVE Goal
  <2>1. \E step \in {"del1", "unlink", "publish"} : Goes(a, step, 0, <<>>)
    BY <1>21 DEF DeleteRaises, UnlinkRaises, Raises, Publish
  <2> QED
    BY <1>0, <1>15, <1>16, <2>1
<1>22. Goal
  BY <1>5, <1>6, <1>7, <1>8, <1>9, <1>10, <1>11, <1>12, <1>13, <1>14, <1>17, <1>18, <1>19,
     <1>20, <1>21 DEF Step
<1> QED
  BY <1>22 DEF Goal

LEMMA CallDoing ==
  ASSUME Typed, Doing, NEW a \in Threads, NEW op, NEW k \in Keys, NEW val \in Values, NEW todo,
         Call(a, op, k, val, todo),
         \/ op \in {"get", "compute_or_get", "set"} /\ (todo = <<>> \/ UserTodo(todo))
         \/ op = "invalidate_pattern" /\ todo \in ClearTodos
         \/ op = "invalidate" /\ todo \in CallerTodos
  PROVE  Doing' /\ agent' \in Agents
<1> DEFINE x == [op |-> op, key |-> k, val |-> val, todo |-> todo]
<1>1. /\ setup' = setup /\ a[2] = "caller" /\ a[1] \in setup.clients
      /\ agent' = [agent EXCEPT ![a] = IF todo = <<>> THEN Resting ELSE x]
  BY DEF Call, Threads
<1>2. x.op = op /\ x.key = k /\ x.val = val /\ x.todo = todo
  OBVIOUS
<1>3. todo # <<>> => Busy(a, x)
  <2> HIDE DEF x
  <2> QED
    BY <1>1, <1>2 DEF Busy, Uses, Clears, Invalidates
<1> QED
  BY <1>1, <1>3, TakesUp

LEMMA HearDoing ==
  ASSUME Typed, Doing, NEW c \in Clients, Hear(c)
  PROVE  Doing' /\ agent' \in Agents /\ Head(queue[c]) \in Keys
<1> DEFINE a == <<c, "listener">>
           x == [op |-> "invalidate", key |-> Head(queue[c]), val |-> 0, todo |-> DropL1L2]
<1>1. setup' = setup /\ a \in Threads /\ a[2] = "listener"
  BY DEF Hear, Threads
<1>2. DropL1L2 \in ListenerTodos /\ DropL1L2 # <<>>
  BY DropTodos DEF ListenerTodos, DropL1L2
<1>3. agent' = [agent EXCEPT ![a] = IF DropL1L2 = <<>> THEN Resting ELSE x]
  BY <1>2 DEF Hear
<1>4. Head(queue[c]) \in Keys
  <2>1. queue[c] \in Seq(Keys) /\ queue[c] # <<>>
    BY DEF Typed, TypeOK, Hear
  <2> QED
    BY <2>1, Rested
<1>5. x.op = "invalidate" /\ x.key = Head(queue[c]) /\ x.val = 0 /\ x.todo = DropL1L2
  OBVIOUS
<1>6. Busy(a, x)
  <2> HIDE DEF x, a
  <2> QED
    BY <1>1, <1>2, <1>4, <1>5, ValuesNat DEF Busy, Invalidates
<1> HIDE DEF a
<1> QED
  BY <1>1, <1>2, <1>3, <1>4, <1>6, TakesUp

\* The calls that a thread may make.
Calls(a) ==
  \E k \in Keys : \/ \E op \in {"get", "compute_or_get"} : Get(a, op, k) \/ GetRaises(a, op, k)
                  \/ Set(a, k)
                  \/ Invalidate(a, k)
                  \/ InvalidatePattern(a, k)

\* What get and compute_or_get do if L1 does not have the key.
Plan(op) == Search \o (IF op = "compute_or_get" THEN <<"compute">> ELSE <<>>)

LEMMA CallKinds ==
  ASSUME NEW a \in Threads, Calls(a)
  PROVE  \E k \in Keys :
           \/ \E op \in {"get", "compute_or_get"} :
                Call(a, op, k, 0, <<>>) \/ Call(a, op, k, 0, Plan(op))
           \/ Set(a, k) \/ Invalidate(a, k) \/ InvalidatePattern(a, k)
<1>1. ASSUME NEW k, NEW op, Get(a, op, k) \/ GetRaises(a, op, k)
      PROVE  Call(a, op, k, 0, <<>>) \/ Call(a, op, k, 0, Plan(op))
  BY <1>1 DEF Get, GetRaises, Plan
<1> QED
  BY <1>1 DEF Calls

LEMMA CallsDoing ==
  ASSUME Typed, Doing, NEW a \in Threads, Calls(a)
  PROVE  Doing' /\ agent' \in Agents
<1>0. source \in [Keys -> Values] /\ 0 \in Values
  BY ValuesNat DEF Typed, TypeOK
<1>1. ASSUME NEW k \in Keys, NEW op \in {"get", "compute_or_get"},
             Call(a, op, k, 0, <<>>) \/ Call(a, op, k, 0, Plan(op))
      PROVE  Doing' /\ agent' \in Agents
  <2>1. UserTodo(Plan(op))
    BY SearchLooks, LooksWhole DEF Plan
  <2> QED
    BY <1>0, <1>1, <2>1, CallDoing
<1>2. ASSUME NEW k \in Keys, Set(a, k) PROVE Doing' /\ agent' \in Agents
  <2>1. UserTodo(WriteThrough)
    BY PutTodos DEF PutTodo, UserTodo
  <2> QED
    BY <1>0, <1>2, <2>1, CallDoing DEF Set
<1>3. ASSUME NEW k \in Keys, Invalidate(a, k) PROVE Doing' /\ agent' \in Agents
  <2>1. DropL1L2 \o <<"drop3", "publish">> \in CallerTodos
    BY DropAll DEF CallerTodos
  <2> QED
    BY <1>0, <1>3, <2>1, CallDoing DEF Invalidate
<1>4. ASSUME NEW k \in Keys, InvalidatePattern(a, k) PROVE Doing' /\ agent' \in Agents
  <2>1. <<"drop1">> \in ClearTodos
    BY DEF ClearTodos
  <2> QED
    BY <1>0, <1>4, <2>1, CallDoing DEF InvalidatePattern
<1> QED
  BY <1>1, <1>2, <1>3, <1>4, CallKinds

\* A step of the program, and a step that no thread takes part in.
Passes ==
  \/ \E k \in Keys : Change(k) \/ ExpireL3(k)
  \/ \E c \in Clients, k \in Keys : ExpireL1(c, k) \/ ExpireL2(c, k)

LEMMA StepKinds ==
  ASSUME Next
  PROVE  \/ \E a \in Threads : Step(a) \/ Calls(a)
         \/ \E c \in Clients : Hear(c) \/ Disconnect(c)
         \/ Passes
BY DEF Next, Calls, Passes

LEMMA PassesFrame ==
  ASSUME Passes
  PROVE  UNCHANGED <<agent, setup, queue, alive, ops, floor, spoiled, unsent, l2tmp, l2file, l4>>
BY DEF Passes, Change, ExpireL3, ExpireL1, ExpireL2, shared, history

LEMMA StepGoes ==
  ASSUME NEW a \in Threads, Step(a)
  PROVE  \E step, val, rest : Goes(a, step, val, rest)
<1>1. ASSUME ReadMeta(a) \/ Adopt(a) \/ Compute(a) \/ PutL1(a) \/ StoreL1(a) \/ ListL1(a)
      PROVE  \E step, val, rest : Goes(a, step, val, rest)
  BY <1>1 DEF ReadMeta, Adopt, Compute, PutL1, StoreL1, ListL1
<1>2. ASSUME PutRaises(a) \/ WriteTmp(a) \/ RecordMeta(a) \/ PutL3(a) \/ PutL4(a) \/ DropL1(a)
      PROVE  \E step, val, rest : Goes(a, step, val, rest)
  BY <1>2 DEF PutRaises, WriteTmp, RecordMeta, PutL3, PutL4, DropL1
<1>3. ASSUME DeleteL1(a) \/ UnlistL1(a) \/ Forget(a) \/ Look(a) \/ Unlink(a)
      PROVE  \E step, val, rest : Goes(a, step, val, rest)
  BY <1>3 DEF DeleteL1, UnlistL1, Forget, Look, Unlink
<1>4. ASSUME DeleteRaises(a) \/ UnlinkRaises(a) \/ DropL3(a) \/ Publish(a)
      PROVE  \E step, val, rest : Goes(a, step, val, rest)
  BY <1>4 DEF DeleteRaises, UnlinkRaises, Raises, DropL3, Publish
<1>5. ASSUME NEW step, ReadFile(a, step) PROVE \E s, val, rest : Goes(a, s, val, rest)
  BY <1>5 DEF ReadFile
<1>6. ASSUME ReadL3(a) \/ ReadL4(a) \/ Replace(a)
      PROVE  \E step, val, rest : Goes(a, step, val, rest)
  BY <1>6 DEF ReadL3, ReadL4, Replace
<1> QED
  BY <1>1, <1>2, <1>3, <1>4, <1>5, <1>6 DEF Step

LEMMA StepCounts ==
  ASSUME NEW a \in Threads, Step(a)
  PROVE  UNCHANGED <<source, setup, ops, lapses>>
BY StepGoes DEF Goes

\* An access moves its own thread only, and that one keeps its operation or ends it.
LEMMA StepMoves ==
  ASSUME Typed, NEW a \in Threads, Step(a)
  PROVE  /\ agent[a] # Resting
         /\ \A b \in Threads : b # a => agent'[b] = agent[b]
         /\ \/ agent'[a] = Resting
            \/ agent'[a].op = agent[a].op /\ agent'[a].key = Key(a)
<1>1. ASSUME NEW step, NEW val, NEW rest, Goes(a, step, val, rest)
      PROVE  /\ agent[a] # Resting
             /\ \A b \in Threads : b # a => agent'[b] = agent[b]
             /\ \/ agent'[a] = Resting
                \/ agent'[a].op = agent[a].op /\ agent'[a].key = Key(a)
  BY <1>1, GoesTo DEF Key
<1>2. \E step, val, rest : Goes(a, step, val, rest)
  BY StepGoes
<1> QED
  BY <1>1, <1>2

LEMMA CallMoves ==
  ASSUME Typed, NEW a \in Threads, Calls(a)
  PROVE  /\ setup' = setup /\ agent[a] = Resting /\ a = <<a[1], "caller">> /\ a[1] \in setup.clients
         /\ \A b \in Threads : b # a => agent'[b] = agent[b]
<1>1. PICK op, k, val, todo : Call(a, op, k, val, todo)
  BY CallKinds DEF Set, Invalidate, InvalidatePattern
<1> QED
  BY <1>1 DEF Call, Typed, TypeOK, Threads

LEMMA ListenerMoves ==
  ASSUME Typed, NEW c \in Clients, Hear(c) \/ Disconnect(c)
  PROVE  /\ setup' = setup /\ l1' = l1
         /\ \A b \in Threads : b # <<c, "listener">> => agent'[b] = agent[b]
BY DEF Hear, Disconnect, Typed, TypeOK

LEMMA DoingStep ==
  ASSUME Typed, Doing, [Next]_vars
  PROVE  Doing' /\ agent' \in Agents /\ setup' = setup
<1>1. ASSUME UNCHANGED <<agent, setup>> PROVE Doing' /\ agent' \in Agents
  <2>1. \A b \in Threads : Busy(b, agent[b])' <=> Busy(b, agent[b])
    BY <1>1 DEF Busy, Invalidates, Uses, Clears, UserTodo, StoreTodo, Looks
  <2> QED
    BY <1>1, <2>1 DEF Doing, Typed, TypeOK, Agents
<1>2. setup' = setup
  BY StepKinds, StepCounts, CallMoves, ListenerMoves, PassesFrame DEF vars
<1>3. ASSUME NEW c \in Clients, Disconnect(c) PROVE UNCHANGED <<agent, setup>>
  BY <1>3 DEF Disconnect
<1>4. CASE UNCHANGED vars
  BY <1>1, <1>2, <1>4 DEF vars
<1> QED
  BY <1>1, <1>2, <1>3, <1>4, StepDoing, CallsDoing, HearDoing, StepKinds, PassesFrame

-----------------------------------------------------------------------------
(* The types, and the L1 dictionaries.                                     *)

\* No step lets a dictionary grow too large, and only the storing brings a value into it.
Stores(c, k) ==
  /\ StoreL1(<<c, "caller">>) /\ Key(<<c, "caller">>) = k
  /\ l1'[c].entry[k] # NoEntry /\ l1'[c].entry[k].value = Val(<<c, "caller">>)

LEMMA L1Step ==
  ASSUME Typed, Doing, [Next]_vars
  PROVE  /\ l1' \in [Clients -> Caches]
         /\ \A c \in Clients : /\ Sane(l1'[c])
                               /\ \A k \in Keys : Keeps(l1'[c], l1[c], k) \/ Stores(c, k)
<1> DEFINE Goal == /\ l1' \in [Clients -> Caches]
                   /\ \A c \in Clients :
                        /\ Sane(l1'[c])
                        /\ \A k \in Keys : Keeps(l1'[c], l1[c], k) \/ Stores(c, k)
<1>0. l1 \in [Clients -> Caches] /\ \A c \in Clients : l1[c] \in Caches /\ Sane(l1[c])
  BY DEF Typed, TypeOK
<1>1. ASSUME UNCHANGED l1 PROVE Goal
  BY <1>0, <1>1 DEF Keeps
<1>2. ASSUME NEW c \in Clients, NEW new \in Caches, Sane(new),
             \A k \in Keys : Keeps(new, l1[c], k) \/ (l1'[c] = new => Stores(c, k)),
             l1' = [l1 EXCEPT ![c] = new]
      PROVE  Goal
  <2>1. /\ l1' \in [Clients -> Caches] /\ l1'[c] = new
        /\ \A d \in Clients \ {c} : l1'[d] = l1[d] /\ \A k \in Keys : Keeps(l1'[d], l1[d], k)
    BY <1>0, <1>2 DEF Keeps
  <2> QED
    BY <1>0, <1>2, <2>1
<1>3. ASSUME NEW c \in Clients, NEW new, Shrinks(new, l1[c]), l1' = [l1 EXCEPT ![c] = new]
      PROVE  Goal
  <2>1. new \in Caches /\ Sane(new) /\ \A k \in Keys : Keeps(new, l1[c], k)
    BY <1>0, <1>3, ShrinksSane DEF Shrinks
  <2> HIDE DEF Goal
  <2> QED
    BY <1>2, <1>3, <2>1
<1> HIDE DEF Goal
<1>4. ASSUME NEW a \in Threads, NEW step, At(a, step)
      PROVE  a[1] \in Clients /\ l1[a[1]] \in Caches /\ Key(a) \in Keys /\ Val(a) \in Values
  BY <1>0, <1>4, Roles DEF Threads
<1>5. ASSUME NEW a \in Threads, PutL1(a) PROVE Goal
  <2>1. a[1] \in Clients /\ l1[a[1]] \in Caches
    BY <1>4, <1>5 DEF PutL1
  <2>2. Shrinks(RoomMade(l1[a[1]]), l1[a[1]])
    BY <1>0, <2>1, RoomShrinks
  <2>3. UNCHANGED l1 \/ l1' = [l1 EXCEPT ![a[1]] = RoomMade(l1[a[1]])]
    BY <1>5 DEF PutL1
  <2> QED
    BY <1>1, <1>3, <2>1, <2>2, <2>3
<1>6. ASSUME NEW a \in Threads, StoreL1(a) PROVE Goal
  <2> DEFINE c == a[1]
             k == Key(a)
             new == Put(l1[c], k, [value |-> Val(a), fresh |-> TRUE, count |-> 1])
  <2>1. At(a, "store1") /\ l1' = [l1 EXCEPT ![c] = new]
    BY <1>6 DEF StoreL1, Goes
  <2>2. a = <<c, "caller">> /\ c \in Clients /\ k \in Keys /\ Val(a) \in Values
    BY <2>1, UserRole DEF UserSteps
  <2>3. Sane(l1[c]) /\ l1[c] \in Caches /\ Cardinality(Held(l1[c])) < L1Size
    BY <1>0, <2>1, <2>2 DEF Typed, HasRoom
  <2>4. /\ new \in Caches /\ Sane(new) /\ new.entry[k] # NoEntry /\ new.entry[k].value = Val(a)
        /\ \A j \in Keys : new.entry[j] = l1[c].entry[j] \/ j = k
    BY <2>2, <2>3, StoredSane
  <2> HIDE DEF new
  <2>5. ASSUME NEW j \in Keys
        PROVE  Keeps(new, l1[c], j) \/ (l1'[c] = new => Stores(c, j))
    <3>1. CASE j # k
      BY <2>4, <3>1 DEF Keeps
    <3>2. CASE j = k
      BY <1>6, <2>2, <2>4, <3>2 DEF Stores
    <3> QED
      BY <3>1, <3>2
  <2> HIDE DEF c, k
  <2> QED
    BY <1>2, <2>1, <2>2, <2>4, <2>5 DEF c
<1>7. ASSUME NEW a \in Threads, ListL1(a) PROVE Goal
  <2>1. a[1] \in Clients /\ l1[a[1]] \in Caches /\ Key(a) \in Keys
    BY <1>4, <1>7 DEF ListL1, Goes
  <2>2. l1' = [l1 EXCEPT ![a[1]] = Counted(MovedToEnd(l1[a[1]], Key(a)), Key(a))]
    BY <1>7 DEF ListL1
  <2> QED
    BY <1>3, <2>1, <2>2, CountedShrinks
<1>8. ASSUME NEW a \in Threads, PutRaises(a) PROVE Goal
  <2>1. a[1] \in Clients /\ l1[a[1]] \in Caches /\ Key(a) \in Keys
    BY <1>4, <1>8 DEF PutRaises, Goes
  <2>2. CASE \E cache \in Torn(l1[a[1]], Gone(a)) : l1' = [l1 EXCEPT ![a[1]] = cache]
    BY <1>3, <2>1, <2>2, TornShrinks
  <2>3. CASE l1' = [l1 EXCEPT ![a[1]] = Counted(Unlisted(l1[a[1]], {Key(a)}), Key(a))]
    BY <1>3, <2>1, <2>3, CountedShrinks
  <2> QED
    BY <1>8, <2>2, <2>3 DEF PutRaises
<1>9. ASSUME NEW a \in Threads, DeleteL1(a) PROVE Goal
  <2>1. a[1] \in Clients /\ l1[a[1]] \in Caches
    BY <1>4, <1>9 DEF DeleteL1
  <2>2. l1' = [l1 EXCEPT ![a[1]] = Deleted(l1[a[1]], {Key(a)})]
    BY <1>9 DEF DeleteL1
  <2> QED
    BY <1>3, <2>1, <2>2, DeletedFacts
<1>10. ASSUME NEW a \in Threads, UnlistL1(a) PROVE Goal
  <2>1. a[1] \in Clients /\ l1[a[1]] \in Caches
    BY <1>4, <1>10 DEF UnlistL1, Goes
  <2>2. l1' = [l1 EXCEPT ![a[1]] = Unlisted(l1[a[1]], {Key(a)})]
    BY <1>10 DEF UnlistL1
  <2> QED
    BY <1>3, <2>1, <2>2, UnlistedFacts, SameEntries
<1>11. ASSUME NEW a \in Threads, NEW k \in Keys, NEW op, Get(a, op, k) PROVE Goal
  <2>1. a[1] \in Clients /\ l1[a[1]] \in Caches
    BY <1>0 DEF Threads
  <2>2. l1' = [l1 EXCEPT ![a[1]] = Looked(l1[a[1]], k)]
    BY <1>11 DEF Get
  <2> QED
    BY <1>3, <2>1, <2>2, LookedShrinks
<1>12. ASSUME NEW a \in Threads, NEW k \in Keys, NEW op, GetRaises(a, op, k) PROVE Goal
  <2> DEFINE cache == l1[a[1]]
             counted == Counted(Unlisted(CleanedUp(cache), {k}), k)
  <2>1. a[1] \in Clients /\ cache \in Caches
    BY <1>0 DEF Threads
  <2>2. PICK new \in Torn(cache, Gone(a)) \cup {counted} : l1' = [l1 EXCEPT ![a[1]] = new]
    BY <1>12 DEF GetRaises
  <2>3. Shrinks(new, cache)
    BY <2>1, <2>2, TornShrinks, CountedShrinks
  <2> HIDE DEF counted
  <2> QED
    BY <1>3, <2>1, <2>2, <2>3
<1>13. ASSUME NEW c \in Clients, NEW k \in Keys, ExpireL1(c, k) PROVE Goal
  <2> DEFINE new == [l1[c] EXCEPT !.entry[k].fresh = FALSE]
  <2>1. Shrinks(new, l1[c])
    BY <1>0, <1>13, ExpiredShrinks DEF ExpireL1
  <2>2. l1' = [l1 EXCEPT ![c] = new]
    BY <1>13 DEF ExpireL1
  <2> HIDE DEF new
  <2> QED
    BY <1>3, <2>1, <2>2
<1>14. ASSUME NEW a \in Threads, Step(a) PROVE Goal
  <2>1. ASSUME NEW step, ReadFile(a, step) PROVE UNCHANGED l1
    BY <2>1 DEF ReadFile
  <2>2. ASSUME ReadMeta(a) \/ Adopt(a) \/ ReadL3(a) \/ ReadL4(a) \/ Compute(a) \/ WriteTmp(a)
               \/ Replace(a) \/ RecordMeta(a) \/ PutL3(a) \/ PutL4(a)
        PROVE  UNCHANGED l1
    BY <2>2 DEF ReadMeta, Adopt, ReadL3, ReadL4, Compute, WriteTmp, Replace, RecordMeta, PutL3,
            PutL4
  <2>3. ASSUME DropL1(a) \/ DeleteRaises(a) \/ Forget(a) \/ Look(a) \/ Unlink(a)
               \/ UnlinkRaises(a) \/ DropL3(a) \/ Publish(a)
        PROVE  UNCHANGED l1
    BY <2>3 DEF DropL1, DeleteRaises, Raises, Forget, Look, Unlink, UnlinkRaises, DropL3, Publish
  <2> QED
    BY <1>1, <1>5, <1>6, <1>7, <1>8, <1>9, <1>10, <1>14, <2>1, <2>2, <2>3 DEF Step
<1>15. ASSUME NEW a \in Threads, Calls(a) PROVE Goal
  <2>1. ASSUME NEW k \in Keys, Set(a, k) \/ Invalidate(a, k) \/ InvalidatePattern(a, k)
        PROVE  UNCHANGED l1
    BY <2>1 DEF Set, Invalidate, InvalidatePattern
  <2> QED
    BY <1>1, <1>11, <1>12, <1>15, <2>1 DEF Calls
<1>16. ASSUME Passes PROVE Goal
  <2>1. ASSUME NEW k \in Keys, Change(k) \/ ExpireL3(k) PROVE UNCHANGED l1
    BY <2>1 DEF Change, ExpireL3
  <2>2. ASSUME NEW c \in Clients, NEW k \in Keys, ExpireL2(c, k) PROVE UNCHANGED l1
    BY <2>2 DEF ExpireL2
  <2> QED
    BY <1>1, <1>13, <1>16, <2>1, <2>2 DEF Passes
<1>17. ASSUME UNCHANGED vars PROVE Goal
  BY <1>1, <1>17 DEF vars
<1> QED
  BY <1>1, <1>14, <1>15, <1>16, <1>17, StepKinds, ListenerMoves DEF Goal

\* What a thread has done it need not do again.
LEMMA StepOver ==
  ASSUME Typed, NEW a \in Threads, NEW step, NEW val, Goes(a, step, val, Rest(a))
  PROVE  agent[a] # Resting /\ agent'[a] # agent[a]
<1>1. agent \in Agents /\ At(a, step)
  BY GoesTo DEF Typed, TypeOK, Agents
<1>2. agent[a].todo \in Seq(Steps) /\ agent[a].todo # <<>> /\ agent[a] # Resting
  BY <1>1 DEF At, Agents, Resting
<1>3. Rest(a) # agent[a].todo
  <2>1. Len(Rest(a)) = Len(agent[a].todo) - 1 /\ Len(agent[a].todo) \in Nat
    BY <1>2, Rested DEF Rest
  <2> QED
    BY <2>1
<1>4. agent'[a] = Resting \/ agent'[a].todo = Rest(a)
  BY GoesTo
<1> QED
  BY <1>2, <1>3, <1>4

\* A call does not begin with the storing of an entry.
LEMMA CallHead ==
  ASSUME Typed, NEW a \in Threads, Calls(a)
  PROVE  ~At(a, "store1")'
<1>1. ASSUME NEW op, NEW k, NEW val, NEW todo, Call(a, op, k, val, todo),
             todo # <<>> => Head(todo) # "store1"
      PROVE  ~At(a, "store1")'
  <2> DEFINE x == [op |-> op, key |-> k, val |-> val, todo |-> todo]
  <2>1. agent' = [agent EXCEPT ![a] = IF todo = <<>> THEN Resting ELSE x] /\ agent \in Agents
    BY <1>1 DEF Call, Typed, TypeOK, Agents
  <2>2. x.todo = todo /\ Resting.todo = <<>>
    BY DEF Resting
  <2> HIDE DEF x
  <2>3. agent'[a] = Resting \/ (todo # <<>> /\ agent'[a].todo = todo)
    BY <2>1, <2>2 DEF Agents
  <2> QED
    BY <1>1, <2>2, <2>3 DEF At
<1>2. ASSUME NEW op PROVE Plan(op) # <<>> => Head(Plan(op)) # "store1"
  BY SearchLooks, LooksWhole, TodoSteps DEF Plan
<1>3. WriteThrough # <<>> => Head(WriteThrough) # "store1"
  BY PutTodos, TodoSteps DEF PutTodo, UserTodo
<1>4. Head(DropL1L2 \o <<"drop3", "publish">>) # "store1"
  <2>1. <<"drop1", "forget", "look", "unlink", "drop3", "publish">> \in CallerTodos
    BY DEF CallerTodos
  <2> QED
    BY <2>1, DropAll, DropTodos
<1>5. Head(<<"drop1">>) # "store1"
  OBVIOUS
<1> QED
  BY <1>1, <1>2, <1>3, <1>4, <1>5, CallKinds DEF Set, Invalidate, InvalidatePattern

\* Where an entry is about to be stored there stays room for it.
LEMMA RoomStep ==
  ASSUME Typed, Doing, [Next]_vars, NEW c \in Clients
  PROVE  HasRoom(c)'
<1> DEFINE a == <<c, "caller">>
<1> SUFFICES ASSUME At(a, "store1")'
             PROVE  Cardinality(Held(l1'[c])) < L1Size
  BY DEF HasRoom, Held
<1>0. a \in Threads /\ a[1] = c /\ a[2] = "caller" /\ l1[c] \in Caches /\ Sane(l1[c])
  BY DEF Threads, Typed, TypeOK
<1>1. CASE agent'[a] = agent[a]
  <2>1. At(a, "store1")
    BY <1>1 DEF At
  <2>2. Cardinality(Held(l1[c])) < L1Size
    BY <2>1 DEF Typed, HasRoom
  <2>3. ~StoreL1(a)
    BY <1>0, <1>1, StepOver DEF StoreL1
  <2>4. l1'[c] \in Caches /\ \A k \in Keys : Keeps(l1'[c], l1[c], k)
    BY <2>3, L1Step DEF Stores
  <2>5. Held(l1'[c]) \subseteq Held(l1[c])
    BY <2>4 DEF Held, Keeps
  <2>6. /\ Cardinality(Held(l1'[c])) <= Cardinality(Held(l1[c])) /\ IsFiniteSet(Held(l1'[c]))
        /\ IsFiniteSet(Held(l1[c]))
    BY <1>0, <2>5, FS_Subset DEF Sane
  <2>7. Cardinality(Held(l1'[c])) \in Nat /\ Cardinality(Held(l1[c])) \in Nat
    BY <2>6, FS_CardinalityType
  <2> QED
    BY <2>2, <2>6, <2>7, SizeAssumption
<1>2. CASE agent'[a] # agent[a]
  <2>1. Step(a) \/ Calls(a)
    <3>1. ASSUME NEW d \in Clients PROVE a # <<d, "listener">>
      OBVIOUS
    <3>2. ~UNCHANGED vars /\ ~Passes /\ \A d \in Clients : ~Hear(d) /\ ~Disconnect(d)
      BY <1>0, <1>2, <3>1, PassesFrame, ListenerMoves DEF vars
    <3>3. \A b \in Threads : Step(b) \/ Calls(b) => b = a
      BY <1>0, <1>2, StepMoves, CallMoves
    <3> HIDE DEF a
    <3> QED
      BY <3>2, <3>3, StepKinds
  <2>2. PutL1(a)
    BY <1>0, <2>1, StepDoing, CallHead
  <2> DEFINE clean == CleanedUp(l1[c])
  <2>3. /\ l1' = [l1 EXCEPT ![c] = RoomMade(l1[c])]
        /\ ~(IsFull(clean) /\ ~HasVictim(clean))
    <3>1. UserTodo(Rest(a))
      BY <1>0, <2>2, UserRole, UserRest DEF PutL1, UserSteps, Puts
    <3>2. ~Goes(a, "put1", 0, <<>>) /\ ~Goes(a, "put1", Val(a), <<>>)
      BY <1>0, GoesTo
    <3>3. ~Goes(a, "put1", Val(a), Rest(a))
      BY <1>0, <3>1, GoesTo, TodoSteps
    <3> HIDE DEF a
    <3> QED
      BY <1>0, <2>2, <3>2, <3>3 DEF PutL1
  <2>4. l1'[c] = RoomMade(l1[c])
    BY <2>3 DEF Typed, TypeOK
  <2> QED
    BY <1>0, <2>3, <2>4, RoomShrinks
<1> QED
  BY <1>1, <1>2

\* The types of what the threads share, and of the history.
Optional == [Keys -> Values \cup {NoEntry}]
TiersTyped == /\ l2meta \in [Clients -> [Keys -> {"none", "live", "expired", "forever"}]]
              /\ l2tmp \in Optional /\ l2file \in Optional /\ l3 \in Optional /\ l4 \in Optional
QueuesTyped == queue \in [Clients -> Seq(Keys)] /\ alive \in [Clients -> BOOLEAN]
SharedTyped == /\ TiersTyped /\ QueuesTyped
               /\ floor \in [Keys -> Values] /\ spoiled \subseteq Keys /\ unsent \subseteq Keys
CountsTyped == /\ source \in [Keys -> Values] /\ ops \in 0 .. setup.ops
               /\ lapses \in 0 .. setup.lapses

LEMMA TypesParts ==
  TypeOK <=> /\ l1 \in [Clients -> Caches] /\ agent \in Agents /\ setup \in Setups
             /\ SharedTyped /\ CountsTyped
BY DEF TypeOK, Agents, SharedTyped, TiersTyped, QueuesTyped, CountsTyped, Optional

LEMMA RaisesTypes ==
  ASSUME SharedTyped, NEW a \in Threads, NEW step, Raises(a, step)
  PROVE  SharedTyped'
<1>1. a[1] \in Clients
  BY DEF Threads
<1>2. QueuesTyped'
  <2>1. <<>> \in Seq(Keys)
    OBVIOUS
  <2> QED
    BY <1>1, <2>1 DEF Raises, Ends, SharedTyped, QueuesTyped
<1> QED
  BY <1>2 DEF Raises, SharedTyped, TiersTyped, history

LEMMA SharedTypes ==
  ASSUME SharedTyped, Doing, NEW a \in Threads, Step(a)
  PROVE  SharedTyped'
<1> DEFINE k == Key(a)
<1>0. /\ a[1] \in Clients
      /\ \A step : At(a, step) => k \in Keys /\ Val(a) \in Values
  BY Roles DEF Threads
<1>1. ASSUME NEW step, ReadFile(a, step) PROVE SharedTyped'
  BY <1>1 DEF ReadFile, shared, history, SharedTyped, TiersTyped, QueuesTyped
<1>2. ASSUME ReadMeta(a) PROVE SharedTyped'
  <2>1. k \in Keys
    BY <1>0, <1>2 DEF ReadMeta, Goes
  <2>2. l2meta' = [l2meta EXCEPT ![a[1]][k] = IF @ = "expired" THEN "none" ELSE @]
    BY <1>2 DEF ReadMeta
  <2>3. l2meta' \in [Clients -> [Keys -> {"none", "live", "expired", "forever"}]]
    BY <1>0, <2>1, <2>2 DEF SharedTyped, TiersTyped
  <2> QED
    BY <1>2, <2>3 DEF ReadMeta, shared, history, SharedTyped, TiersTyped, QueuesTyped
<1>3. ASSUME NEW new \in {"none", "live", "forever"}, k \in Keys,
             l2meta' = [l2meta EXCEPT ![a[1]][k] = new], UNCHANGED <<shared, alive, history>>
      PROVE  SharedTyped'
  BY <1>0, <1>3 DEF shared, history, SharedTyped, TiersTyped, QueuesTyped
<1>4. ASSUME Adopt(a) \/ RecordMeta(a) \/ Forget(a) PROVE SharedTyped'
  BY <1>0, <1>3, <1>4 DEF Adopt, RecordMeta, Forget, Goes
<1>6. ASSUME WriteTmp(a) PROVE SharedTyped'
  BY <1>0, <1>6 DEF WriteTmp, Goes, history, SharedTyped, TiersTyped, QueuesTyped, Optional
<1>7. ASSUME Replace(a) PROVE SharedTyped'
  <2>1. k \in Keys /\ l2tmp \in Optional /\ l2file \in Optional
    BY <1>0, <1>7 DEF Replace, SharedTyped, TiersTyped
  <2>2. l2tmp' \in Optional /\ l2file' \in Optional
    BY <1>7, <2>1 DEF Replace, Optional
  <2> QED
    BY <1>7, <2>2 DEF Replace, history, SharedTyped, TiersTyped, QueuesTyped
<1>8. ASSUME PutL3(a) PROVE SharedTyped'
  BY <1>0, <1>8 DEF PutL3, Goes, history, SharedTyped, TiersTyped, QueuesTyped, Optional
<1>9. ASSUME PutL4(a) PROVE SharedTyped'
  BY <1>0, <1>9 DEF PutL4, Goes, history, SharedTyped, TiersTyped, QueuesTyped, Optional
<1>10. ASSUME Unlink(a) PROVE SharedTyped'
  BY <1>10 DEF Unlink, history, SharedTyped, TiersTyped, QueuesTyped, Optional
<1>11. ASSUME DropL3(a) PROVE SharedTyped'
  <2>1. k \in Keys
    BY <1>0, <1>11 DEF DropL3, Goes
  <2> QED
    BY <1>11, <2>1 DEF DropL3, SharedTyped, TiersTyped, QueuesTyped, Optional
<1>12. ASSUME DeleteRaises(a) \/ UnlinkRaises(a) PROVE SharedTyped'
  BY <1>12, RaisesTypes DEF DeleteRaises, UnlinkRaises
<1>13. ASSUME Publish(a) PROVE SharedTyped'
  <2>1. k \in Keys /\ Val(a) \in Values
    BY <1>0, <1>13 DEF Publish, Goes
  <2>2. floor' \in [Keys -> Values]
    <3>1. Max({floor[k], Val(a)}) \in Values
      BY <2>1, MaxOfTwo DEF SharedTyped
    <3>2. floor' = [floor EXCEPT ![k] = Max({floor[k], Val(a)})]
      BY <1>13 DEF Publish
    <3> QED
      BY <2>1, <3>1, <3>2 DEF SharedTyped
  <2>3. QueuesTyped'
    <3>1. queue \in [Clients -> Seq(Keys)] /\ alive \in [Clients -> BOOLEAN] /\ alive' = alive
      BY <1>13 DEF Publish, SharedTyped, QueuesTyped
    <3>2. ASSUME NEW c \in Clients PROVE Append(queue[c], k) \in Seq(Keys)
      BY <2>1, <3>1
    <3>3. \/ UNCHANGED queue
          \/ queue' = [c \in Clients |-> IF c \in setup.clients /\ alive[c]
                                        THEN Append(queue[c], k) ELSE queue[c]]
      BY <1>13 DEF Publish
    <3>4. queue' \in [Clients -> Seq(Keys)]
      BY <3>1, <3>2, <3>3, Zenon
    <3> QED
      BY <3>1, <3>4 DEF QueuesTyped
  <2>4. unsent' \subseteq Keys
    BY <1>13, <2>1 DEF Publish, SharedTyped
  <2> QED
    BY <1>13, <2>2, <2>3, <2>4 DEF Publish, SharedTyped, TiersTyped
<1>14. ASSUME ReadL3(a) \/ ReadL4(a) \/ Compute(a) \/ PutL1(a) \/ StoreL1(a) \/ ListL1(a)
       PROVE  SharedTyped'
  BY <1>14 DEF ReadL3, ReadL4, Compute, PutL1, StoreL1, ListL1, shared, history, SharedTyped,
           TiersTyped, QueuesTyped
<1>15. ASSUME PutRaises(a) \/ DropL1(a) \/ DeleteL1(a) \/ UnlistL1(a) \/ Look(a)
       PROVE  SharedTyped'
  BY <1>15 DEF PutRaises, DropL1, DeleteL1, UnlistL1, Look, shared, history, SharedTyped,
           TiersTyped, QueuesTyped
<1> QED
  BY <1>1, <1>2, <1>4, <1>6, <1>7, <1>8, <1>9, <1>10, <1>11, <1>12, <1>13, <1>14, <1>15
  DEF Step

LEMMA CallsFrame ==
  ASSUME NEW a \in Threads, Calls(a)
  PROVE  /\ UNCHANGED <<source, l2meta, shared, alive, setup, lapses, floor, unsent>>
         /\ ops < setup.ops /\ ops' = ops + 1
         /\ \E k \in Keys : spoiled' \subseteq spoiled \cup {k}
<1>1. PICK k \in Keys : \E op, val, todo : Call(a, op, k, val, todo)
  BY CallKinds DEF Set, Invalidate, InvalidatePattern
<1> QED
  BY <1>1 DEF Call

LEMMA TypesStep ==
  ASSUME Typed, Doing, [Next]_vars
  PROVE  Typed'
<1>0. SharedTyped /\ CountsTyped /\ setup \in Setups
  BY TypesParts DEF Typed
<1>1. /\ l1' \in [Clients -> Caches] /\ \A c \in Clients : Sane(l1[c])' /\ HasRoom(c)'
      /\ agent' \in Agents /\ setup' = setup
  BY L1Step, RoomStep, DoingStep DEF Sane, Held
<1>2. setup.ops \in Nat /\ setup.lapses \in Nat
  BY <1>0, SetupAssumption
<1>3. ASSUME SharedTyped', CountsTyped' PROVE Typed'
  <2>1. TypeOK'
    BY <1>0, <1>1, <1>3 DEF TypeOK, Agents, SharedTyped, TiersTyped, QueuesTyped, CountsTyped,
       Optional
  <2> QED
    BY <1>1, <2>1 DEF Typed
<1>4. ASSUME NEW a \in Threads, Step(a) PROVE Typed'
  BY <1>0, <1>3, <1>4, SharedTypes, StepCounts DEF CountsTyped
<1>5. ASSUME NEW a \in Threads, Calls(a) PROVE Typed'
  BY <1>0, <1>1, <1>2, <1>3, <1>5, CallsFrame
  DEF CountsTyped, SharedTyped, TiersTyped, QueuesTyped, shared
<1>6. ASSUME NEW c \in Clients, Hear(c) PROVE Typed'
  <2>1. queue' \in [Clients -> Seq(Keys)]
    <3>1. queue[c] \in Seq(Keys) /\ queue[c] # <<>>
      BY <1>0, <1>6 DEF Hear, SharedTyped, QueuesTyped
    <3> QED
      BY <1>0, <1>6, <3>1, Rested DEF Hear, SharedTyped, QueuesTyped
  <2> QED
    BY <1>0, <1>3, <1>6, <2>1 DEF Hear, history, SharedTyped, TiersTyped, QueuesTyped, CountsTyped
<1>7. ASSUME NEW c \in Clients, Disconnect(c) PROVE Typed'
  <2>1. QueuesTyped'
    BY <1>0, <1>7 DEF Disconnect, Ends, SharedTyped, QueuesTyped
  <2> QED
    BY <1>0, <1>3, <1>7, <2>1 DEF Disconnect, history, SharedTyped, TiersTyped, CountsTyped
<1>8. ASSUME Passes PROVE Typed'
  <2>1. UNCHANGED <<agent, setup, queue, alive, ops, floor, spoiled, unsent, l2tmp, l2file, l4>>
    BY <1>8, PassesFrame
  <2>2. /\ source' \in [Keys -> Values]
        /\ lapses' \in 0 .. setup.lapses
        /\ l2meta' \in [Clients -> [Keys -> {"none", "live", "expired", "forever"}]]
        /\ l3' \in Optional
    <3>2. ASSUME NEW k \in Keys, Change(k)
          PROVE  UNCHANGED <<lapses, l2meta, l3>> /\ source' \in [Keys -> Values]
      BY <1>0, <3>2, VersionsAssumption DEF Change, shared, CountsTyped
    <3>3. ASSUME Lapse PROVE lapses' \in 0 .. setup.lapses
      BY <1>0, <1>2, <3>3 DEF Lapse, CountsTyped
    <3>4. ASSUME NEW k \in Keys, ExpireL3(k)
          PROVE  UNCHANGED <<source, l2meta>> /\ Lapse /\ l3' \in Optional
      BY <1>0, <3>4 DEF ExpireL3, SharedTyped, TiersTyped, Optional
    <3>5. ASSUME NEW c \in Clients, NEW k \in Keys, ExpireL1(c, k)
          PROVE  UNCHANGED <<source, l2meta, l3>> /\ Lapse
      BY <3>5 DEF ExpireL1, shared
    <3>6. ASSUME NEW c \in Clients, NEW k \in Keys, ExpireL2(c, k)
          PROVE  /\ UNCHANGED <<source, l3>> /\ Lapse
                 /\ l2meta' \in [Clients -> [Keys -> {"none", "live", "expired", "forever"}]]
      BY <1>0, <3>6 DEF ExpireL2, shared, SharedTyped, TiersTyped
    <3> QED
      BY <1>0, <1>8, <3>2, <3>3, <3>4, <3>5, <3>6 DEF Passes, SharedTyped, TiersTyped, CountsTyped
  <2> QED
    BY <1>0, <1>3, <2>1, <2>2 DEF SharedTyped, TiersTyped, QueuesTyped, CountsTyped
<1>9. CASE UNCHANGED vars
  BY <1>0, <1>3, <1>9 DEF vars, shared, history, SharedTyped, TiersTyped, QueuesTyped, CountsTyped
<1> QED
  BY <1>4, <1>5, <1>6, <1>7, <1>8, <1>9, StepKinds

\* To start with.
LEMMA InitTyped ==
  ASSUME Init
  PROVE  Typed /\ Doing
<1>1. setup \in Setups /\ setup.ops \in Nat /\ setup.lapses \in Nat
  BY SetupAssumption DEF Init
<1>2. \A c \in Clients : l1[c] = EmptyCache
  BY DEF Init
<1>3. l1 \in [Clients -> Caches] /\ \A c \in Clients : Sane(l1[c])
  BY <1>2, EmptySane DEF Init, Sane
<1>4. agent \in Agents /\ \A c \in Clients : HasRoom(c)
  BY ValuesNat DEF Init, Agents, Resting, HasRoom, At, Threads
<1>5. SharedTyped /\ CountsTyped
  BY <1>1, ValuesNat
  DEF Init, SharedTyped, TiersTyped, QueuesTyped, CountsTyped, Optional
<1>6. Doing
  BY DEF Init, Doing
<1> QED
  BY <1>1, <1>3, <1>4, <1>5, <1>6, TypesParts DEF Typed

LEMMA TypedAlways == Spec => [](Typed /\ Doing)
<1>1. ASSUME Typed, Doing, [Next]_vars PROVE Typed' /\ Doing'
  BY <1>1, TypesStep, DoingStep
<1>2. Typed /\ Doing /\ [Next]_vars => (Typed /\ Doing)'
  BY <1>1
<1> QED
  BY InitTyped, <1>2, PTL DEF Spec

(* Every variable keeps its type: reading, renaming and removing files     *)
(* another process renames or removes meanwhile yields values, never       *)
(* nothing, and no operation goes on after it has nothing left to do.      *)
THEOREM TypeCorrect == Spec => []TypeOK
<1>1. Typed => TypeOK
  BY DEF Typed
<1> QED
  BY TypedAlways, <1>1, PTL

(* No L1 dictionary ever holds more than max_size entries (`set' and       *)
(* _evict of caching.py, without a lock), whatever the listener deletes    *)
(* between the making of room and the storing, however far the LRU order   *)
(* and the entries have come apart, and wherever an operation raises.      *)
THEOREM BoundedHolds == Spec => []L1Bounded
<1>1. Typed => L1Bounded
  BY DEF Typed, Sane, L1Bounded
<1> QED
  BY TypedAlways, <1>1, PTL

-----------------------------------------------------------------------------
(* What every key keeps to.                                                *)

\* The floor is a version that the source had, and so is what an invalidation will make of it.
Known(k) == /\ floor[k] <= source[k]
            /\ \A a \in Threads : agent[a].op = "invalidate" /\ Key(a) = k => Val(a) <= source[k]

\* A temporary file belongs to one who is about to rename it.
TmpOwned(k) == l2tmp[k] # NoEntry => \E a \in Threads : Key(a) = k /\ At(a, "replace")

\* A copy that is not from before the last invalidation.
Recent(v, k) == v = NoEntry \/ v >= floor[k]

\* One who is about to put a value somewhere has it in hands.
Hands == Puts \cup {"store1"}

\* Process c hears of the invalidations of k.
Hears(c, k) == alive[c] /\ k \notin unsent

\* No copy of k in any tier or in any hands is from before it, but in dictionaries that
\* did not hear of it.
Fresh(k) ==
  /\ Recent(l2tmp[k], k) /\ Recent(l2file[k], k) /\ Recent(l3[k], k)
  /\ \A c \in Clients : k \in Held(l1[c]) /\ Hears(c, k) => l1[c].entry[k].value >= floor[k]
  /\ \A a \in Threads : Key(a) = k /\ Head(agent[a].todo) \in Hands => Val(a) >= floor[k]

Drops(a, k) == agent[a].op = "invalidate" /\ Key(a) = k
CallerDrops(k) == \E a \in Threads : a[2] = "caller" /\ Drops(a, k)

\* Process c has yet to drop k from its L1.
Told(c, k) == \/ k \in ToSet(queue[c])
              \/ \E a \in Threads : /\ a[1] = c /\ a[2] = "listener" /\ Drops(a, k)
                                    /\ At(a, "drop1") \/ At(a, "del1")

\* A caller invalidates k, nobody else does, and it finds what it has looked at.
Alone(a, k) ==
  /\ \A b \in Threads : Drops(b, k) => b = a
  /\ \A c \in Clients : k \notin ToSet(queue[c])
  /\ At(a, "del1") => k \in Held(l1[a[1]])
  /\ At(a, "unlink") => l2file[k] # NoEntry
  /\ At(a, "drop3") \/ At(a, "publish") => l2file[k] = NoEntry
  /\ At(a, "publish") => l3[k] = NoEntry

\* It has: of those that hear, only the dictionaries that will drop k may hold it.
Spread(k) ==
  /\ l2file[k] = NoEntry /\ l3[k] = NoEntry
  /\ \A c \in Clients : k \in Held(l1[c]) /\ Hears(c, k) => Told(c, k)

\* The life of a key that is not used and invalidated at once, and removed from L3 each time.
Orderly(k) ==
  /\ ~Invalidating(k) => Fresh(k)
  /\ Invalidating(k) => ~Using(k)
  /\ \A a \in Threads : a[2] = "caller" /\ Drops(a, k) => Alone(a, k)
  /\ Invalidating(k) /\ ~CallerDrops(k) => Spread(k)

KeyKept(k) ==
  /\ Known(k) /\ TmpOwned(k)
  /\ k \notin spoiled /\ ~setup.l4 => Orderly(k)

\* A process that makes no calls holds nothing and hears nothing.
Outside == \A c \in Clients \ setup.clients : Held(l1[c]) = {} /\ queue[c] = <<>>

-----------------------------------------------------------------------------
(* Steps that leave a key alone.                                           *)

\* The caller of process c has seen the entry it is about to delete, and it is still there.
Seen(c, k) == /\ At(<<c, "caller">>, "del1") /\ Key(<<c, "caller">>) = k
              /\ k \in Held(l1[c])

Frame(k) ==
  /\ setup' = setup /\ floor'[k] = floor[k] /\ source'[k] >= source[k]
  /\ k \in spoiled => k \in spoiled'
  /\ k \in unsent' <=> k \in unsent
  /\ l2tmp'[k] = l2tmp[k] /\ l2file'[k] = l2file[k] /\ l3'[k] \in {l3[k], NoEntry}
  /\ \A c \in Clients : /\ Keeps(l1'[c], l1[c], k) /\ (alive'[c] => alive[c])
                        /\ Seen(c, k) => k \in Held(l1'[c])
  /\ \A a \in Threads : agent'[a] = agent[a] \/ (Key(a) # k /\ agent'[a].key # k)
  /\ \A c \in Clients : k \in ToSet(queue'[c]) <=> k \in ToSet(queue[c])

LEMMA KeyTypes ==
  ASSUME Typed, NEW k \in Keys
  PROVE  /\ floor[k] \in Values /\ source[k] \in Values /\ Values \subseteq Nat
         /\ l2tmp[k] \in Values \cup {NoEntry} /\ l2file[k] \in Values \cup {NoEntry}
         /\ l3[k] \in Values \cup {NoEntry} /\ NoEntry \notin Values
         /\ \A a \in Threads : Val(a) \in Values
         /\ \A c \in Clients : k \in Held(l1[c]) => l1[c].entry[k].value \in Values
<1>1. /\ floor \in [Keys -> Values] /\ source \in [Keys -> Values]
      /\ l2tmp \in Optional /\ l2file \in Optional /\ l3 \in Optional
      /\ agent \in Agents /\ l1 \in [Clients -> Caches]
  BY TypesParts DEF Typed, SharedTyped, TiersTyped, CountsTyped
<1>2. \A a \in Threads : Val(a) \in Values
  BY <1>1 DEF Val, Agents
<1>3. \A c \in Clients : k \in Held(l1[c]) => l1[c].entry[k].value \in Values
  BY <1>1 DEF Held, Caches, Entries
<1> QED
  BY <1>1, <1>2, <1>3, ValuesNat, NoEntryAssumption DEF Optional

LEMMA FrameOrderly ==
  ASSUME Typed, NEW k \in Keys, Frame(k), Orderly(k)
  PROVE  Orderly(k)'
<1>1. /\ floor'[k] = floor[k] /\ l2tmp'[k] = l2tmp[k] /\ l2file'[k] = l2file[k]
      /\ l3'[k] \in {l3[k], NoEntry} /\ setup' = setup
  BY DEF Frame
<1>2. \A a \in Threads : agent'[a].key = k \/ Key(a) = k => agent'[a] = agent[a]
  BY DEF Frame, Key
<1>3. \A c \in Clients : k \in ToSet(queue[c])' <=> k \in ToSet(queue[c])
  BY DEF Frame
<1>4. \A c \in Clients : /\ k \in Held(l1[c])' =>
                              k \in Held(l1[c]) /\ l1'[c].entry[k].value = l1[c].entry[k].value
                         /\ Hears(c, k)' => Hears(c, k)
  BY DEF Frame, Keeps, Held, Hears
<1>5. \A a \in Threads : Drops(a, k)' <=> Drops(a, k)
  BY <1>2 DEF Drops, Key
<1>6. (Invalidating(k)' <=> Invalidating(k)) /\ (Using(k)' <=> Using(k))
  BY <1>2, <1>3 DEF Invalidating, Using, Key
<1>7. Fresh(k) => Fresh(k)'
  BY <1>1, <1>2, <1>4 DEF Fresh, Recent, Key, Val, Hands, Puts
<1>8. \A c \in Clients : Told(c, k)' <=> Told(c, k)
  BY <1>2, <1>3 DEF Told, Drops, At, Key
<1>9. ASSUME NEW a \in Threads, a[2] = "caller", Alone(a, k), Drops(a, k) PROVE Alone(a, k)'
  <2>1. a = <<a[1], "caller">> /\ a[1] \in Clients /\ agent'[a] = agent[a]
    BY <1>2, <1>9 DEF Threads, Drops
  <2>2. At(a, "del1")' => k \in Held(l1'[a[1]])
    <3>1. At(a, "del1")' => Seen(a[1], k)
      BY <1>9, <2>1 DEF Alone, Seen, At, Drops
    <3> QED
      BY <2>1, <3>1 DEF Frame
  <2>3. \A s : At(a, s)' <=> At(a, s)
    BY <2>1 DEF At
  <2>4. Held(l1[a[1]])' = Held(l1'[a[1]])
    BY DEF Held
  <2> QED
    BY <1>1, <1>3, <1>5, <1>9, <2>2, <2>3, <2>4 DEF Alone
<1>10. Spread(k) => Spread(k)'
  BY <1>1, <1>4, <1>8 DEF Spread
<1>11. CallerDrops(k)' <=> CallerDrops(k)
  BY <1>5 DEF CallerDrops
<1> QED
  BY <1>5, <1>6, <1>7, <1>9, <1>10, <1>11 DEF Orderly

LEMMA FrameKept ==
  ASSUME Typed, Typed', NEW k \in Keys, Frame(k), KeyKept(k)
  PROVE  KeyKept(k)'
<1>1. \A a \in Threads : agent'[a].key = k \/ Key(a) = k => agent'[a] = agent[a]
  BY DEF Frame, Key
<1>2. /\ floor[k] \in Nat /\ source[k] \in Nat /\ source'[k] \in Nat
      /\ \A a \in Threads : Val(a) \in Nat
  <2>1. source' \in [Keys -> Values]
    BY DEF Typed, TypeOK
  <2> QED
    BY <2>1, KeyTypes, ValuesNat
<1>3. Known(k)'
  BY <1>1, <1>2 DEF KeyKept, Known, Frame, Key, Val
<1>4. TmpOwned(k)'
  BY <1>1 DEF KeyKept, TmpOwned, Frame, Key, At
<1>5. k \notin spoiled' /\ ~setup'.l4 => Orderly(k)'
  BY FrameOrderly DEF KeyKept, Frame
<1> QED
  BY <1>3, <1>4, <1>5 DEF KeyKept

\* The messages of a queue that grows or shrinks by one.
LEMMA Queued ==
  ASSUME NEW q \in Seq(Keys), NEW k \in Keys, NEW j \in Keys
  PROVE  /\ k \in ToSet(Append(q, j)) <=> k \in ToSet(q) \/ k = j
         /\ q # <<>> => (k \in ToSet(q) <=> k \in ToSet(Tail(q)) \/ k = Head(q))
         /\ k \notin ToSet(<<>>)
<1>1. ASSUME NEW s \in Seq(Keys) PROVE k \in ToSet(s) <=> \E i \in 1 .. Len(s) : s[i] = k
  BY DEF ToSet
<1>2. k \in ToSet(Append(q, j)) <=> k \in ToSet(q) \/ k = j
  <2>1. /\ Append(q, j) \in Seq(Keys) /\ Len(q) \in Nat /\ Len(Append(q, j)) = Len(q) + 1
        /\ \A i \in 1 .. Len(q) : Append(q, j)[i] = q[i]
        /\ Append(q, j)[Len(q) + 1] = j
    OBVIOUS
  <2>2. \A i \in 1 .. Len(q) + 1 : i \in 1 .. Len(q) \/ i = Len(q) + 1
    BY <2>1
  <2>3. 1 .. Len(q) \subseteq 1 .. Len(q) + 1 /\ Len(q) + 1 \in 1 .. Len(q) + 1
    BY <2>1
  <2> DEFINE s == Append(q, j)
  <2> HIDE DEF s
  <2>4. k \in ToSet(s) <=> \E i \in 1 .. Len(q) + 1 : s[i] = k
    BY <1>1, <2>1 DEF s
  <2>5. (\A i \in 1 .. Len(q) : s[i] = q[i]) /\ s[Len(q) + 1] = j
    BY <2>1 DEF s
  <2>6. (\E i \in 1 .. Len(q) + 1 : s[i] = k) <=> (\E i \in 1 .. Len(q) : q[i] = k) \/ j = k
    BY <2>2, <2>3, <2>5, Zenon
  <2> QED
    BY <1>1, <2>4, <2>6 DEF s
<1>3. ASSUME q # <<>> PROVE k \in ToSet(q) <=> k \in ToSet(Tail(q)) \/ k = Head(q)
  <2>1. /\ Tail(q) \in Seq(Keys) /\ Len(q) \in Nat /\ Len(q) > 0 /\ Head(q) = q[1]
        /\ Len(Tail(q)) = Len(q) - 1
        /\ \A i \in 1 .. Len(q) - 1 : Tail(q)[i] = q[i + 1]
    BY <1>3, Rested
  <2> DEFINE s == Tail(q)
             n == Len(q)
  <2>2. s \in Seq(Keys) /\ n \in Nat /\ n > 0 /\ \A i \in 1 .. n - 1 : s[i] = q[i + 1]
    BY <2>1
  <2>3. k \in ToSet(s) <=> \E i \in 1 .. n - 1 : s[i] = k
    BY <1>1, <2>1
  <2>4. k \in ToSet(q) <=> \E i \in 1 .. n : q[i] = k
    BY <1>1
  <2> HIDE DEF s, n
  <2>5. (\E i \in 1 .. n : q[i] = k) <=> (\E i \in 1 .. n - 1 : s[i] = k) \/ q[1] = k
    <3>1. ASSUME NEW i \in 1 .. n, q[i] = k PROVE (\E m \in 1 .. n - 1 : s[m] = k) \/ q[1] = k
      <4>1. CASE i = 1
        BY <3>1, <4>1
      <4>2. CASE i # 1
        <5>1. i - 1 \in 1 .. n - 1 /\ (i - 1) + 1 = i
          BY <2>2, <4>2
        <5>2. s[i - 1] = k
          BY <2>2, <3>1, <5>1
        <5> QED
          BY <5>1, <5>2
      <4> QED
        BY <4>1, <4>2
    <3>2. ASSUME NEW i \in 1 .. n - 1, s[i] = k PROVE \E m \in 1 .. n : q[m] = k
      <4>1. i + 1 \in 1 .. n /\ q[i + 1] = k
        BY <2>2, <3>2
      <4> QED
        BY <4>1
    <3>3. 1 \in 1 .. n
      BY <2>2
    <3> QED
      BY <3>1, <3>2, <3>3
  <2> QED
    BY <2>1, <2>3, <2>4, <2>5 DEF s
<1>4. k \notin ToSet(<<>>)
  BY DEF ToSet
<1> QED
  BY <1>2, <1>3, <1>4

\* An entry that a caller is about to delete is not lost but by another deletion of it.
LEMMA L1Held ==
  ASSUME Typed, Doing, [Next]_vars, NEW k \in Keys, NEW c \in Clients, Seen(c, k),
         \A b \in Threads : DeleteL1(b) => Key(b) # k
  PROVE  k \in Held(l1'[c])
<1> DEFINE caller == <<c, "caller">>
           Goal == k \in Held(l1'[c])
<1>0. /\ l1 \in [Clients -> Caches] /\ l1[c] \in Caches /\ k \in Held(l1[c])
      /\ caller \in Threads /\ At(caller, "del1") /\ agent[caller] # Resting
      /\ \A step : At(caller, step) => step = "del1"
  <2>1. caller \in Threads /\ At(caller, "del1") /\ k \in Held(l1[c])
    BY DEF Seen, Threads
  <2> HIDE DEF caller
  <2>2. agent[caller] # Resting /\ \A step : At(caller, step) => step = "del1"
    BY <2>1 DEF At, Resting
  <2>3. l1 \in [Clients -> Caches] /\ l1[c] \in Caches
    BY DEF Typed, TypeOK
  <2> QED
    BY <2>1, <2>2, <2>3
<1>1. ASSUME l1'[c] = l1[c] PROVE Goal
  BY <1>0, <1>1
<1>3. ASSUME NEW a \in Threads, NEW step \in UserSteps, At(a, step) PROVE a[1] # c
  <2>1. a = <<a[1], "caller">>
    BY <1>3, UserRole
  <2>2. step # "del1"
    BY DEF UserSteps, Puts, Looks
  <2> HIDE DEF caller
  <2> QED
    BY <1>0, <1>3, <2>1, <2>2 DEF caller
<1>4. ASSUME NEW a \in Threads, a[1] # c, NEW new, l1' = [l1 EXCEPT ![a[1]] = new] PROVE Goal
  BY <1>0, <1>1, <1>4
<1> HIDE DEF Goal
<1>5. {"put1", "store1", "list1"} \subseteq UserSteps
  BY DEF UserSteps, Puts
<1>6. ASSUME NEW a \in Threads, PutL1(a) \/ StoreL1(a) \/ ListL1(a) \/ PutRaises(a) PROVE Goal
  <2>1. \E step \in {"put1", "store1", "list1"} : At(a, step)
    BY <1>6 DEF PutL1, StoreL1, ListL1, PutRaises, Goes
  <2>2. a[1] # c
    BY <1>3, <1>5, <2>1
  <2>3. UNCHANGED l1 \/ \E new : l1' = [l1 EXCEPT ![a[1]] = new]
    BY <1>6 DEF PutL1, StoreL1, ListL1, PutRaises
  <2> QED
    BY <1>1, <1>4, <2>2, <2>3
<1>7. ASSUME NEW a \in Threads, DeleteL1(a) PROVE Goal
  <2>1. l1' = [l1 EXCEPT ![a[1]] = Deleted(l1[a[1]], {Key(a)})] /\ Key(a) # k
    BY <1>7 DEF DeleteL1
  <2>2. CASE a[1] = c
    <3>1. Held(Deleted(l1[c], {Key(a)})) = Held(l1[c]) \ {Key(a)}
      BY <1>0, DeletedFacts
    <3>2. l1'[c] = Deleted(l1[c], {Key(a)})
      BY <1>0, <2>1, <2>2
    <3> QED
      BY <1>0, <2>1, <3>1, <3>2 DEF Goal
  <2> QED
    BY <1>4, <2>1, <2>2
<1>8. ASSUME NEW a \in Threads, UnlistL1(a) PROVE Goal
  <2>1. l1' = [l1 EXCEPT ![a[1]] = Unlisted(l1[a[1]], {Key(a)})]
    BY <1>8 DEF UnlistL1
  <2>2. CASE a[1] = c
    <3>1. Held(Unlisted(l1[c], {Key(a)})) = Held(l1[c])
      BY <1>0, UnlistedFacts, SameEntries
    <3>2. l1'[c] = Unlisted(l1[c], {Key(a)})
      BY <1>0, <2>1, <2>2
    <3> QED
      BY <1>0, <3>1, <3>2 DEF Goal
  <2> QED
    BY <1>4, <2>1, <2>2
<1>9. ASSUME NEW a \in Threads, Calls(a) PROVE Goal
  <2>1. a[1] # c
    <3>1. agent[a] = Resting /\ a = <<a[1], "caller">>
      BY <1>9, CallMoves
    <3> HIDE DEF caller
    <3> QED
      BY <1>0, <3>1 DEF caller
  <2>2. UNCHANGED l1 \/ \E new : l1' = [l1 EXCEPT ![a[1]] = new]
    BY <1>9 DEF Calls, Get, GetRaises, Set, Invalidate, InvalidatePattern
  <2> QED
    BY <1>1, <1>4, <2>1, <2>2
<1>10. ASSUME NEW d \in Clients, NEW j \in Keys, ExpireL1(d, j) PROVE Goal
  <2> DEFINE new == [l1[d] EXCEPT !.entry[j].fresh = FALSE]
  <2>1. l1' = [l1 EXCEPT ![d] = new] /\ Held(new) = Held(l1[d])
    BY <1>0, <1>10, ExpiredShrinks DEF ExpireL1
  <2> HIDE DEF new
  <2>2. l1'[c] = IF c = d THEN new ELSE l1[c]
    BY <1>0, <2>1
  <2> QED
    BY <1>0, <2>1, <2>2 DEF Goal
<1>11. ASSUME NEW a \in Threads, Step(a) PROVE Goal
  <2>1. ASSUME NEW step, ReadFile(a, step) PROVE UNCHANGED l1
    BY <2>1 DEF ReadFile
  <2>2. ASSUME ReadMeta(a) \/ Adopt(a) \/ ReadL3(a) \/ ReadL4(a) \/ Compute(a) \/ WriteTmp(a)
               \/ Replace(a) \/ RecordMeta(a) \/ PutL3(a) \/ PutL4(a)
        PROVE  UNCHANGED l1
    BY <2>2 DEF ReadMeta, Adopt, ReadL3, ReadL4, Compute, WriteTmp, Replace, RecordMeta, PutL3,
            PutL4
  <2>3. ASSUME DropL1(a) \/ DeleteRaises(a) \/ Forget(a) \/ Look(a) \/ Unlink(a)
               \/ UnlinkRaises(a) \/ DropL3(a) \/ Publish(a)
        PROVE  UNCHANGED l1
    BY <2>3 DEF DropL1, DeleteRaises, Raises, Forget, Look, Unlink, UnlinkRaises, DropL3, Publish
  <2> QED
    BY <1>1, <1>6, <1>7, <1>8, <1>11, <2>1, <2>2, <2>3 DEF Step
<1>12. ASSUME Passes PROVE Goal
  <2>1. ASSUME NEW j \in Keys, Change(j) \/ ExpireL3(j) PROVE UNCHANGED l1
    BY <2>1 DEF Change, ExpireL3
  <2>2. ASSUME NEW d \in Clients, NEW j \in Keys, ExpireL2(d, j) PROVE UNCHANGED l1
    BY <2>2 DEF ExpireL2
  <2> QED
    BY <1>1, <1>10, <1>12, <2>1, <2>2 DEF Passes
<1>13. ASSUME UNCHANGED vars PROVE Goal
  BY <1>1, <1>13 DEF vars
<1> QED
  BY <1>1, <1>9, <1>11, <1>12, <1>13, StepKinds, ListenerMoves DEF Goal

\* What becomes of a key in L1 if nobody who handles it moves.
LEMMA L1Kept ==
  ASSUME Typed, Doing, [Next]_vars, NEW k \in Keys, NEW c \in Clients,
         \A b \in Threads : Key(b) = k => agent[b] = Resting \/ agent'[b] = agent[b]
  PROVE  Keeps(l1'[c], l1[c], k) /\ (Seen(c, k) => k \in Held(l1'[c]))
<1>1. ASSUME NEW b \in Threads, StoreL1(b) \/ DeleteL1(b) PROVE Key(b) # k
  <2>1. \E step : Goes(b, step, Val(b), Rest(b))
    BY <1>1 DEF StoreL1, DeleteL1
  <2> QED
    BY <2>1, StepOver
<1>2. <<c, "caller">> \in Threads
  BY DEF Threads
<1>3. Keeps(l1'[c], l1[c], k)
  BY <1>1, <1>2, L1Step DEF Stores
<1> QED
  BY <1>1, <1>3, L1Held

\* A listener that raises ends.
Dies(a) == a[2] = "listener" /\ (DeleteRaises(a) \/ UnlinkRaises(a))

\* An access touches the tiers at its own key.
LEMMA StepTiers ==
  ASSUME Typed, Doing, NEW a \in Threads, Step(a), ~Dies(a), NEW k \in Keys, k # Key(a)
  PROVE  /\ UNCHANGED <<l2tmp[k], l2file[k], l3[k], floor[k], alive>>
         /\ (k \in spoiled' <=> k \in spoiled) /\ (k \in unsent' <=> k \in unsent)
         /\ \A c \in Clients : k \in ToSet(queue'[c]) <=> k \in ToSet(queue[c])
<1> DEFINE Goal == /\ UNCHANGED <<l2tmp[k], l2file[k], l3[k], floor[k], alive>>
                   /\ (k \in spoiled' <=> k \in spoiled) /\ (k \in unsent' <=> k \in unsent)
                   /\ \A c \in Clients : k \in ToSet(queue'[c]) <=> k \in ToSet(queue[c])
<1>0. /\ l2tmp \in Optional /\ l2file \in Optional /\ l3 \in Optional
      /\ floor \in [Keys -> Values] /\ queue \in [Clients -> Seq(Keys)]
  BY TypesParts DEF Typed, SharedTyped, TiersTyped, QueuesTyped
<1>1. ASSUME UNCHANGED <<l2tmp, l2file, l3, queue, alive, history>> PROVE Goal
  BY <1>1 DEF history
<1>2. ASSUME NEW step, ReadFile(a, step) PROVE Goal
  BY <1>1, <1>2 DEF ReadFile, shared
<1>3. ASSUME ReadMeta(a) \/ Adopt(a) \/ ReadL3(a) \/ ReadL4(a) \/ Compute(a) \/ PutL1(a)
             \/ StoreL1(a) \/ ListL1(a) \/ PutRaises(a) \/ RecordMeta(a) \/ PutL4(a)
      PROVE  Goal
  <2>1. UNCHANGED <<l2tmp, l2file, l3, queue, alive, history>>
    BY <1>3 DEF ReadMeta, Adopt, ReadL3, ReadL4, Compute, PutL1, StoreL1, ListL1, PutRaises,
                RecordMeta, PutL4, shared
  <2> QED
    BY <1>1, <2>1
<1>4. ASSUME DropL1(a) \/ DeleteL1(a) \/ UnlistL1(a) \/ Forget(a) \/ Look(a)
             \/ DeleteRaises(a) \/ UnlinkRaises(a)
      PROVE  Goal
  <2>1. UNCHANGED <<l2tmp, l2file, l3, queue, alive, history>>
    BY <1>4 DEF DropL1, DeleteL1, UnlistL1, Forget, Look, DeleteRaises, UnlinkRaises, Raises, Dies,
                shared
  <2> QED
    BY <1>1, <2>1
<1>5. ASSUME WriteTmp(a) PROVE Goal
  BY <1>0, <1>5 DEF WriteTmp, Optional, history
<1>6. ASSUME Replace(a) PROVE Goal
  <2>1. l2file' = l2file \/ l2file' = [l2file EXCEPT ![Key(a)] = l2tmp[Key(a)]]
    BY <1>6 DEF Replace
  <2>2. /\ l2tmp' = [l2tmp EXCEPT ![Key(a)] = NoEntry] /\ l3' = l3
        /\ UNCHANGED <<queue, alive, history>>
    BY <1>6 DEF Replace
  <2> QED
    BY <1>0, <2>1, <2>2 DEF Optional, history
<1>7. ASSUME PutL3(a) PROVE Goal
  BY <1>0, <1>7 DEF PutL3, Optional, history
<1>8. ASSUME Unlink(a) PROVE Goal
  BY <1>0, <1>8 DEF Unlink, Optional, history
<1>9. ASSUME DropL3(a) PROVE Goal
  <2>1. l3' = l3 \/ l3' = [l3 EXCEPT ![Key(a)] = NoEntry]
    BY <1>9 DEF DropL3
  <2>2. spoiled' = spoiled \/ spoiled' = spoiled \cup {Key(a)}
    BY <1>9 DEF DropL3
  <2>3. UNCHANGED <<l2tmp, l2file, queue, alive, floor, unsent>>
    BY <1>9 DEF DropL3
  <2> QED
    BY <1>0, <2>1, <2>2, <2>3 DEF Optional
<1>10. ASSUME Publish(a) PROVE Goal
  <2>1. /\ UNCHANGED <<l2tmp, l2file, l3, alive, spoiled>> /\ floor'[k] = floor[k]
        /\ (k \in unsent' <=> k \in unsent)
    BY <1>0, <1>10 DEF Publish
  <2>2. Key(a) \in Keys
    BY <1>10, Roles DEF Publish, Goes
  <2>3. \A c \in Clients : queue'[c] \in {queue[c], Append(queue[c], Key(a))}
    BY <1>10 DEF Publish
  <2>4. ASSUME NEW c \in Clients PROVE k \in ToSet(queue'[c]) <=> k \in ToSet(queue[c])
    <3>1. queue[c] \in Seq(Keys)
      BY <1>0
    <3>2. k \in ToSet(Append(queue[c], Key(a))) <=> k \in ToSet(queue[c])
      BY <2>2, <3>1, Queued
    <3> QED
      BY <2>3, <3>2
  <2> QED
    BY <2>1, <2>4
<1> HIDE DEF Goal
<1>11. Goal
  BY <1>2, <1>3, <1>4, <1>5, <1>6, <1>7, <1>8, <1>9, <1>10 DEF Step
<1> QED
  BY <1>11 DEF Goal

LEMMA StepFrame ==
  ASSUME Typed, Doing, NEW a \in Threads, Step(a), ~Dies(a), NEW k \in Keys, k # Key(a)
  PROVE  Frame(k)
<1>1. UNCHANGED <<source, setup>>
  BY StepCounts
<1>2. /\ UNCHANGED <<l2tmp[k], l2file[k], l3[k], floor[k], alive>>
      /\ (k \in spoiled' <=> k \in spoiled) /\ (k \in unsent' <=> k \in unsent)
      /\ \A c \in Clients : k \in ToSet(queue'[c]) <=> k \in ToSet(queue[c])
  BY StepTiers
<1>3. \A b \in Threads : agent'[b] = agent[b] \/ (Key(b) # k /\ agent'[b].key # k)
  <2>1. agent'[a].key # k
    BY StepMoves, NoKeyAssumption DEF Resting
  <2> QED
    BY <2>1, StepMoves
<1>4. [Next]_vars
  BY DEF Next
<1>5. \A c \in Clients : Keeps(l1'[c], l1[c], k) /\ (Seen(c, k) => k \in Held(l1'[c]))
  BY <1>3, <1>4, L1Kept
<1>6. source[k] \in Nat
  BY KeyTypes
<1> QED
  BY <1>1, <1>2, <1>3, <1>5, <1>6 DEF Frame

LEMMA CallFrame ==
  ASSUME Typed, Doing, NEW a \in Threads, Calls(a), NEW j \in Keys, NEW op, NEW val, NEW todo,
         Call(a, op, j, val, todo), NEW k \in Keys, k # j
  PROVE  Frame(k)
<1>1. /\ UNCHANGED <<source, setup, floor, l2tmp, l2file, l3, queue, alive, unsent>>
      /\ k \in spoiled => k \in spoiled'
  BY DEF Call, shared
<1>2. /\ agent[a] = Resting /\ \A b \in Threads : b # a => agent'[b] = agent[b]
      /\ agent'[a] = Resting \/ agent'[a].key = j
  BY DEF Call, Typed, TypeOK
<1>3. \A b \in Threads : agent'[b] = agent[b] \/ (Key(b) # k /\ agent'[b].key # k)
  BY <1>2, NoKeyAssumption DEF Resting, Key
<1>4. [Next]_vars
  BY DEF Next, Calls
<1>5. \A c \in Clients : Keeps(l1'[c], l1[c], k) /\ (Seen(c, k) => k \in Held(l1'[c]))
  BY <1>3, <1>4, L1Kept
<1>6. source[k] \in Nat
  BY KeyTypes
<1> QED
  BY <1>1, <1>3, <1>5, <1>6 DEF Frame

LEMMA HearFrame ==
  ASSUME Typed, Doing, NEW c \in Clients, Hear(c), NEW k \in Keys, k # Head(queue[c])
  PROVE  Frame(k)
<1>1. UNCHANGED <<source, setup, floor, l1, l2tmp, l2file, l3, alive, spoiled, unsent>>
  BY DEF Hear, history
<1>2. \A b \in Threads : agent'[b] = agent[b] \/ (Key(b) # k /\ agent'[b].key # k)
  <2>1. <<c, "listener">> \in Threads /\ agent[<<c, "listener">>] = Resting
    BY DEF Threads, Hear
  <2>2. /\ agent'[<<c, "listener">>].key = Head(queue[c])
        /\ \A b \in Threads : b # <<c, "listener">> => agent'[b] = agent[b]
    BY <2>1 DEF Hear, Typed, TypeOK
  <2> QED
    BY <2>1, <2>2, NoKeyAssumption DEF Resting, Key
<1>3. ASSUME NEW d \in Clients PROVE k \in ToSet(queue'[d]) <=> k \in ToSet(queue[d])
  <2>1. queue \in [Clients -> Seq(Keys)] /\ queue' = [queue EXCEPT ![c] = Tail(@)]
    BY DEF Typed, TypeOK, Hear
  <2>2. queue[c] \in Seq(Keys) /\ queue[c] # <<>>
    BY <2>1 DEF Hear
  <2>3. k \in ToSet(queue[c]) <=> k \in ToSet(Tail(queue[c]))
    BY <2>2, Queued
  <2> QED
    BY <2>1, <2>3
<1>4. \A d \in Clients : Keeps(l1'[d], l1[d], k) /\ (Seen(d, k) => k \in Held(l1'[d]))
  BY <1>1 DEF Keeps, Seen
<1>5. source[k] \in Nat
  BY KeyTypes
<1> QED
  BY <1>1, <1>2, <1>3, <1>4, <1>5 DEF Frame

LEMMA PassesKept ==
  ASSUME Typed, Doing, Passes, NEW k \in Keys
  PROVE  Frame(k)
<1>1. UNCHANGED <<agent, setup, queue, alive, ops, floor, spoiled, unsent, l2tmp, l2file, l4>>
  BY PassesFrame
<1>2. [Next]_vars
  BY DEF Next, Passes
<1>3. \A c \in Clients : Keeps(l1'[c], l1[c], k) /\ (Seen(c, k) => k \in Held(l1'[c]))
  BY <1>1, <1>2, L1Kept
<1>4. source'[k] >= source[k] /\ l3'[k] \in {l3[k], NoEntry}
  <2>1. /\ source \in [Keys -> Values] /\ l3 \in Optional /\ Values \subseteq Nat
    BY TypesParts, ValuesNat DEF Typed, SharedTyped, TiersTyped, CountsTyped
  <2>0. source[k] \in Nat /\ source[k] >= source[k]
    BY KeyTypes
  <2>2. ASSUME UNCHANGED <<source, l3>> PROVE source'[k] >= source[k] /\ l3'[k] \in {l3[k], NoEntry}
    BY <2>0, <2>2
  <2>4. ASSUME NEW j \in Keys, Change(j)
        PROVE  source'[k] >= source[k] /\ l3'[k] \in {l3[k], NoEntry}
    <3>1. source' = [source EXCEPT ![j] = source[j] + 1] /\ l3' = l3
      BY <2>4 DEF Change, shared
    <3>2. source'[k] = IF k = j THEN source[k] + 1 ELSE source[k]
      BY <2>1, <3>1
    <3> QED
      BY <2>0, <3>1, <3>2
  <2>5. ASSUME NEW j \in Keys, ExpireL3(j)
        PROVE  source'[k] >= source[k] /\ l3'[k] \in {l3[k], NoEntry}
    <3>1. source' = source /\ l3' = [l3 EXCEPT ![j] = NoEntry]
      BY <2>5 DEF ExpireL3
    <3>2. l3'[k] \in {l3[k], NoEntry}
      BY <2>1, <3>1 DEF Optional
    <3> QED
      BY <2>0, <3>1, <3>2
  <2>6. ASSUME NEW c \in Clients, NEW j \in Keys, ExpireL1(c, j) \/ ExpireL2(c, j)
        PROVE  UNCHANGED <<source, l3>>
    BY <2>6 DEF ExpireL1, ExpireL2, shared
  <2> QED
    BY <2>2, <2>4, <2>5, <2>6 DEF Passes
<1> QED
  BY <1>1, <1>3, <1>4 DEF Frame

-----------------------------------------------------------------------------
(* Steps of one who uses the key, or clears it from its L1.                *)

Handles(a) == Uses(a, agent[a]) \/ Clears(a, agent[a])

\* Who makes which accesses.
LEMMA UserActs ==
  ASSUME Doing, NEW a \in Threads, Uses(a, agent[a]), Step(a)
  PROVE  \/ ReadMeta(a) \/ ReadFile(a, "l2known") \/ ReadFile(a, "l2any") \/ Adopt(a)
         \/ ReadL3(a) \/ ReadL4(a) \/ Compute(a)
         \/ PutL1(a) \/ StoreL1(a) \/ ListL1(a) \/ PutRaises(a)
         \/ WriteTmp(a) \/ Replace(a) \/ RecordMeta(a) \/ PutL3(a) \/ PutL4(a)
<1>1. ASSUME NEW step \in DropSteps, At(a, step) PROVE FALSE
  BY <1>1, Roles, StepNames
<1>2. ~DropL1(a) /\ ~DeleteL1(a) /\ ~DeleteRaises(a) /\ ~UnlistL1(a)
  BY <1>1 DEF DropL1, DeleteL1, DeleteRaises, Raises, UnlistL1, Goes, DropSteps, ClearSteps
<1>3. /\ ~Forget(a) /\ ~Look(a) /\ ~Unlink(a) /\ ~UnlinkRaises(a) /\ ~DropL3(a) /\ ~Publish(a)
  BY <1>1 DEF Forget, Look, Unlink, UnlinkRaises, Raises, DropL3, Publish, Goes, DropSteps
<1> QED
  BY <1>2, <1>3 DEF Step

\* The accesses of one who invalidates.
LEMMA DropActs ==
  ASSUME Doing, NEW a \in Threads, ~Uses(a, agent[a]), Step(a)
  PROVE  \/ DropL1(a) \/ DeleteL1(a) \/ DeleteRaises(a) \/ UnlistL1(a)
         \/ Forget(a) \/ Look(a) \/ Unlink(a) \/ UnlinkRaises(a) \/ DropL3(a) \/ Publish(a)
<1>1. ASSUME NEW step, At(a, step) PROVE step \in DropSteps
  BY <1>1, Roles, StepNames DEF Busy
<1>2. ~ReadMeta(a) /\ ~ReadFile(a, "l2known") /\ ~ReadFile(a, "l2any") /\ ~Adopt(a)
  BY <1>1 DEF ReadMeta, ReadFile, Adopt, Goes, DropSteps, ClearSteps
<1>3. ~ReadL3(a) /\ ~ReadL4(a) /\ ~Compute(a) /\ ~WriteTmp(a)
  BY <1>1 DEF ReadL3, ReadL4, Compute, WriteTmp, Goes, DropSteps, ClearSteps
<1>4. ~PutL1(a) /\ ~StoreL1(a) /\ ~ListL1(a) /\ ~PutRaises(a)
  BY <1>1 DEF PutL1, StoreL1, ListL1, PutRaises, Goes, DropSteps, ClearSteps
<1>5. ~Replace(a) /\ ~RecordMeta(a) /\ ~PutL3(a) /\ ~PutL4(a)
  BY <1>1 DEF Replace, RecordMeta, PutL3, PutL4, Goes, DropSteps, ClearSteps
<1> QED
  BY <1>2, <1>3, <1>4, <1>5 DEF Step

LEMMA ClearActs ==
  ASSUME Doing, NEW a \in Threads, Clears(a, agent[a]), Step(a)
  PROVE  DropL1(a) \/ DeleteL1(a) \/ DeleteRaises(a) \/ UnlistL1(a)
<1>1. ASSUME NEW step, At(a, step) PROVE step \in ClearSteps
  BY <1>1, Roles
<1>2. ~Forget(a) /\ ~Look(a) /\ ~Unlink(a) /\ ~UnlinkRaises(a) /\ ~DropL3(a) /\ ~Publish(a)
  BY <1>1 DEF Forget, Look, Unlink, UnlinkRaises, Raises, DropL3, Publish, Goes, ClearSteps
<1> QED
  BY <1>2, DropActs, OneRole

\* What it has in hands after a step: nothing, what it had, or what it just found.
InHands(a) ==
  \/ agent'[a] = Resting
  \/ Head(agent'[a].todo) \notin Hands
  \/ Head(agent[a].todo) \in Hands /\ agent'[a].val = Val(a)
  \/ agent'[a].val \in {l2file[Key(a)], l3[Key(a)], source[Key(a)]} \ {NoEntry}
  \/ setup.l4

LEMMA UserHands ==
  ASSUME Typed, Doing, NEW a \in Threads, Handles(a), Step(a)
  PROVE  InHands(a)
<1>0. source \in [Keys -> Values] /\ NoEntry \notin Values /\ Key(a) \in Keys
  BY TypesParts, NoEntryAssumption DEF Typed, CountsTyped, Handles, Uses, Clears, Key
<1>1. ASSUME NEW step, NEW val, NEW rest, Goes(a, step, val, rest),
             rest = <<>> \/ rest \in Seq(Looks) \/ Head(rest) \notin Hands
      PROVE  InHands(a)
  <2>1. rest \in Seq(Looks) /\ rest # <<>> => Head(rest) \notin Hands
    BY Rested DEF Looks, Hands, Puts
  <2>2. rest # <<>> => Head(rest) \notin Hands
    BY <1>1, <2>1
  <2>3. agent'[a] = Resting \/ (rest # <<>> /\ agent'[a].todo = rest)
    BY <1>1, GoesTo
  <2> QED
    BY <2>2, <2>3 DEF InHands
<1>2. ASSUME NEW step \in Hands, NEW rest, Goes(a, step, Val(a), rest) PROVE InHands(a)
  <2>1. Head(agent[a].todo) \in Hands
    BY <1>2 DEF Goes, At
  <2>2. agent'[a] = Resting \/ agent'[a].val = Val(a)
    BY <1>2, GoesTo DEF Val
  <2> QED
    BY <2>1, <2>2 DEF InHands
<1>3. ASSUME NEW step, NEW rest,
             NEW val \in {l2file[Key(a)], l3[Key(a)], source[Key(a)]} \ {NoEntry},
             Goes(a, step, val, rest)
      PROVE  InHands(a)
  <2>1. agent'[a] = Resting \/ agent'[a].val = val
    BY <1>3, GoesTo DEF Val
  <2> QED
    BY <1>3, <2>1 DEF InHands
<1>4. ASSUME Uses(a, agent[a]), NEW step, At(a, step) PROVE step \in Looks => Rest(a) \in Seq(Looks)
  BY <1>4, UserRest
<1>5. ASSUME Uses(a, agent[a]), ReadMeta(a) PROVE InHands(a)
  <2> DEFINE known == l2meta[a[1]][Key(a)]
             rest == CASE known = "none" -> <<"l2any">> \o Rest(a)
                       [] known = "expired" -> Rest(a)
                       [] OTHER -> <<"l2known">> \o Rest(a)
  <2>1. Goes(a, "l2", 0, rest) /\ At(a, "l2")
    BY <1>5 DEF ReadMeta, Goes
  <2>2. Rest(a) \in Seq(Looks)
    BY <1>4, <1>5, <2>1 DEF Looks
  <2>3. <<"l2any">> \in Seq(Looks) /\ <<"l2known">> \in Seq(Looks)
    BY DEF Looks
  <2>4. rest \in Seq(Looks)
    BY <2>2, <2>3, Joined
  <2> HIDE DEF rest
  <2> QED
    BY <1>1, <2>1, <2>4
<1>6. ASSUME Uses(a, agent[a]), NEW step \in {"l2known", "l2any"}, ReadFile(a, step)
      PROVE  InHands(a)
  <2>1. Rest(a) \in Seq(Looks)
    BY <1>4, <1>6 DEF ReadFile, Looks
  <2>2. CASE l2file[Key(a)] = NoEntry
    BY <1>1, <1>6, <2>1, <2>2 DEF ReadFile
  <2>3. CASE l2file[Key(a)] # NoEntry
    BY <1>3, <1>6, <2>3 DEF ReadFile
  <2> QED
    BY <2>2, <2>3
<1>7. ASSUME Uses(a, agent[a]), ReadL3(a) PROVE InHands(a)
  <2>1. Rest(a) \in Seq(Looks)
    BY <1>4, <1>7 DEF ReadL3, Looks
  <2>2. CASE Goes(a, "l3", 0, Rest(a))
    BY <1>1, <2>1, <2>2
  <2>3. CASE l3[Key(a)] # NoEntry /\ Goes(a, "l3", l3[Key(a)], SetL2 \o <<"put1">>)
    BY <1>3, <2>3
  <2> QED
    BY <1>7, <2>2, <2>3 DEF ReadL3
<1>8. ASSUME Uses(a, agent[a]), ReadL4(a) PROVE InHands(a)
  <2>1. "l4" \in UserSteps
    BY <1>8, Roles DEF ReadL4
  <2>2. setup.l4
    BY <2>1 DEF UserSteps, Puts, Looks
  <2> QED
    BY <2>2 DEF InHands
<1>9. ASSUME Compute(a) PROVE InHands(a)
  <2>1. source[Key(a)] # NoEntry
    BY <1>0
  <2> QED
    BY <1>3, <1>9, <2>1 DEF Compute
<1>10. ASSUME PutL1(a) PROVE InHands(a)
  <2>1. \/ Goes(a, "put1", 0, <<>>) \/ Goes(a, "put1", Val(a), <<>>)
        \/ Goes(a, "put1", Val(a), Rest(a))
        \/ Goes(a, "put1", Val(a), <<"store1", "list1">> \o Rest(a))
    BY <1>10 DEF PutL1
  <2> QED
    BY <1>1, <1>2, <2>1 DEF Hands, Puts
<1>11. ASSUME Adopt(a) \/ StoreL1(a) \/ ListL1(a) \/ WriteTmp(a) \/ RecordMeta(a) PROVE InHands(a)
  BY <1>2, <1>11 DEF Adopt, StoreL1, ListL1, WriteTmp, RecordMeta, Hands, Puts
<1>12. ASSUME Replace(a) \/ PutL3(a) \/ PutL4(a) PROVE InHands(a)
  BY <1>2, <1>12 DEF Replace, PutL3, PutL4, Hands, Puts
<1>13. ASSUME PutRaises(a) PROVE InHands(a)
  BY <1>1, <1>13 DEF PutRaises
<1>14. ASSUME Clears(a, agent[a]), DropL1(a) PROVE InHands(a)
  <2>1. At(a, "drop1") /\ Rest(a) = <<>>
    BY <1>14, ClearRest DEF DropL1, Goes
  <2>2. Goes(a, "drop1", Val(a), <<>>) \/ Goes(a, "drop1", Val(a), <<"del1", "unlist1">>)
    BY <1>14, <2>1, DropMore DEF DropL1
  <2>3. Head(<<"del1", "unlist1">>) \notin Hands
    BY DEF Hands, Puts
  <2> QED
    BY <1>1, <2>2, <2>3
<1>15. ASSUME Clears(a, agent[a]), DeleteL1(a) PROVE InHands(a)
  <2>1. Goes(a, "del1", Val(a), <<"unlist1">>)
    BY <1>15, ClearRest DEF DeleteL1
  <2>2. Head(<<"unlist1">>) \notin Hands
    BY DEF Hands, Puts
  <2> QED
    BY <1>1, <2>1, <2>2
<1>16. ASSUME Clears(a, agent[a]), UnlistL1(a) PROVE InHands(a)
  <2>1. At(a, "unlist1") /\ Rest(a) = <<>>
    BY <1>16, ClearRest DEF UnlistL1, Goes
  <2> QED
    BY <1>1, <1>16, <2>1 DEF UnlistL1
<1>17. ASSUME DeleteRaises(a) PROVE InHands(a)
  BY <1>1, <1>17 DEF DeleteRaises, Raises
<1>18. CASE Uses(a, agent[a])
  BY <1>5, <1>6, <1>7, <1>8, <1>9, <1>10, <1>11, <1>12, <1>13, <1>18, UserActs
<1>19. CASE Clears(a, agent[a])
  BY <1>14, <1>15, <1>16, <1>17, <1>19, ClearActs
<1> QED
  BY <1>18, <1>19 DEF Handles

\* What it does to the tiers: it puts what it has in hands where nothing or a copy was.
LEMMA UserTiers ==
  ASSUME Typed, Doing, NEW a \in Threads, Handles(a), Step(a), NEW k \in Keys, k = Key(a)
  PROVE  /\ UNCHANGED <<floor, queue, alive, spoiled, unsent>> /\ ~Dies(a)
         /\ \/ l2tmp' = l2tmp /\ ~At(a, "replace")
            \/ l2tmp'[k] = NoEntry
            \/ At(a, "tmp") /\ l2tmp'[k] = Val(a) /\ At(a, "replace")' /\ agent'[a].key = k
         /\ l2file'[k] \in {l2file[k], l2tmp[k]}
         /\ l3'[k] = l3[k] \/ (At(a, "put3") /\ l3'[k] = Val(a))
<1> DEFINE Goal == /\ UNCHANGED <<floor, queue, alive, spoiled, unsent>>
                   /\ \/ l2tmp' = l2tmp /\ ~At(a, "replace")
                      \/ l2tmp'[k] = NoEntry
                      \/ /\ At(a, "tmp") /\ l2tmp'[k] = Val(a) /\ At(a, "replace")'
                         /\ agent'[a].key = k
                   /\ l2file'[k] \in {l2file[k], l2tmp[k]}
                   /\ l3'[k] = l3[k] \/ (At(a, "put3") /\ l3'[k] = Val(a))
<1>0. /\ l2tmp \in Optional /\ l2file \in Optional /\ l3 \in Optional
  BY TypesParts DEF Typed, SharedTyped, TiersTyped
<1>1. ASSUME UNCHANGED <<l2tmp, l2file, l3, queue, alive, history>>, ~At(a, "replace") PROVE Goal
  BY <1>1 DEF history
<1>2. ASSUME NEW step \in {"l2known", "l2any"}, ReadFile(a, step) PROVE Goal
  BY <1>1, <1>2 DEF ReadFile, shared, At
<1>3. ASSUME ReadMeta(a) \/ Adopt(a) \/ ReadL3(a) \/ ReadL4(a) \/ Compute(a) \/ RecordMeta(a)
             \/ PutL4(a)
      PROVE  Goal
  <2>1. UNCHANGED <<l2tmp, l2file, l3, queue, alive, history>>
    BY <1>3 DEF ReadMeta, Adopt, ReadL3, ReadL4, Compute, RecordMeta, PutL4, shared
  <2>2. ~At(a, "replace")
    BY <1>3 DEF ReadMeta, Adopt, ReadL3, ReadL4, Compute, RecordMeta, PutL4, Goes, At
  <2> QED
    BY <1>1, <2>1, <2>2
<1>4. ASSUME PutL1(a) \/ StoreL1(a) \/ ListL1(a) \/ PutRaises(a) PROVE Goal
  <2>1. UNCHANGED <<l2tmp, l2file, l3, queue, alive, history>>
    BY <1>4 DEF PutL1, StoreL1, ListL1, PutRaises, shared
  <2>2. ~At(a, "replace")
    BY <1>4 DEF PutL1, StoreL1, ListL1, PutRaises, Goes, At
  <2> QED
    BY <1>1, <2>1, <2>2
<1>5. ASSUME WriteTmp(a) PROVE Goal
  <2>1. Goes(a, "tmp", Val(a), Rest(a)) /\ At(a, "tmp")
    BY <1>5 DEF WriteTmp, Goes
  <2>2. Uses(a, agent[a])
    BY <2>1, UserRole DEF UserSteps, Puts
  <2>3. Rest(a) # <<>> /\ Head(Rest(a)) = "replace"
    BY <2>1, <2>2, UserRest
  <2>4. At(a, "replace")' /\ agent'[a].key = k
    BY <2>1, <2>3, GoesTo DEF Key
  <2> QED
    BY <1>0, <1>5, <2>1, <2>4 DEF WriteTmp, Optional, history
<1>6. ASSUME Replace(a) PROVE Goal
  <2>1. /\ l2tmp'[k] = NoEntry /\ l3' = l3 /\ UNCHANGED <<floor, queue, alive, spoiled, unsent>>
    BY <1>0, <1>6 DEF Replace, Optional, history
  <2>2. l2file'[k] \in {l2file[k], l2tmp[k]}
    BY <1>0, <1>6 DEF Replace, Optional
  <2> QED
    BY <2>1, <2>2
<1>7. ASSUME PutL3(a) PROVE Goal
  <2>1. /\ l3'[k] \in {l3[k], Val(a)} /\ At(a, "put3")
        /\ UNCHANGED <<l2tmp, l2file, queue, alive, history>>
    BY <1>0, <1>7 DEF PutL3, Goes, Optional
  <2>2. ~At(a, "replace")
    BY <2>1 DEF At
  <2> QED
    BY <2>1, <2>2 DEF history
<1>8. a[2] = "caller"
  BY DEF Handles, Uses, Clears
<1>9. ASSUME DropL1(a) \/ DeleteL1(a) \/ DeleteRaises(a) \/ UnlistL1(a) PROVE Goal
  <2>1. UNCHANGED <<l2tmp, l2file, l3, queue, alive, history>>
    BY <1>8, <1>9 DEF DropL1, DeleteL1, DeleteRaises, Raises, UnlistL1, shared
  <2>2. ~At(a, "replace")
    BY <1>9 DEF DropL1, DeleteL1, DeleteRaises, Raises, UnlistL1, Goes, At
  <2> QED
    BY <1>1, <2>1, <2>2
<1> HIDE DEF Goal
<1>10. ASSUME Uses(a, agent[a]) PROVE Goal
  BY <1>2, <1>3, <1>4, <1>5, <1>6, <1>7, <1>10, UserActs
<1>11. ASSUME Clears(a, agent[a]) PROVE Goal
  BY <1>9, <1>11, ClearActs
<1>12. Goal /\ ~Dies(a)
  BY <1>8, <1>10, <1>11 DEF Handles, Dies
<1> QED
  BY <1>12 DEF Goal

\* It brings nothing older than the floor into the tiers.
LEMMA UserFresh ==
  ASSUME Typed, Typed', Doing, NEW a \in Threads, Handles(a), Step(a), NEW k \in Keys, k = Key(a),
         Known(k), Fresh(k), ~setup.l4
  PROVE  Fresh(k)'
<1>1. /\ UNCHANGED <<floor, queue, alive, spoiled, unsent>> /\ UNCHANGED <<source, setup>>
      /\ l2tmp'[k] \in {l2tmp[k], NoEntry} \/ (At(a, "tmp") /\ l2tmp'[k] = Val(a))
      /\ l2file'[k] \in {l2file[k], l2tmp[k]}
      /\ l3'[k] = l3[k] \/ (At(a, "put3") /\ l3'[k] = Val(a))
  BY UserTiers, StepCounts
<1>2. ASSUME Head(agent[a].todo) \in Hands PROVE Val(a) >= floor[k]
  BY <1>2 DEF Fresh
<1>3. Recent(l2tmp'[k], k) /\ Recent(l2file'[k], k) /\ Recent(l3'[k], k)
  BY <1>1, <1>2 DEF Fresh, Recent, At, Hands, Puts
<1>4. ASSUME NEW c \in Clients, k \in Held(l1[c])', Hears(c, k)'
      PROVE  l1'[c].entry[k].value >= floor[k]
  <2>1. [Next]_vars
    BY DEF Next
  <2>2. CASE Keeps(l1'[c], l1[c], k)
    BY <1>1, <1>4, <2>2 DEF Keeps, Held, Hears, Fresh
  <2>3. CASE Stores(c, k)
    <3>1. <<c, "caller">> \in Threads
      BY DEF Threads
    <3>2. Head(agent[<<c, "caller">>].todo) \in Hands
      BY <2>3 DEF Stores, StoreL1, Goes, At, Hands
    <3> QED
      BY <2>3, <3>1, <3>2 DEF Stores, Fresh
  <2> QED
    BY <2>1, <2>2, <2>3, L1Step
<1>5. ASSUME NEW b \in Threads, Key(b)' = k, Head(agent[b].todo)' \in Hands
      PROVE  Val(b)' >= floor[k]
  <2>1. CASE b # a
    <3>1. agent'[b] = agent[b]
      BY <2>1, StepMoves
    <3> QED
      BY <1>5, <3>1 DEF Fresh, Key, Val, Hands, Puts
  <2>2. CASE b = a
    <3>1. agent'[a] # Resting /\ Head(agent'[a].todo) \in Hands
      BY <1>5, <2>2, NoKeyAssumption DEF Resting, Key, Hands, Puts
    <3>2. CASE Head(agent[a].todo) \in Hands /\ agent'[a].val = Val(a)
      BY <1>2, <2>2, <3>2 DEF Val
    <3>3. CASE agent'[a].val \in {l2file[k], l3[k], source[k]} \ {NoEntry}
      <4>1. floor[k] \in Nat /\ source[k] \in Nat /\ source[k] >= floor[k]
        BY KeyTypes DEF Known
      <4> QED
        BY <2>2, <3>3, <4>1 DEF Fresh, Recent, Val
    <3> QED
      BY <3>1, <3>2, <3>3, UserHands DEF InHands
  <2> QED
    BY <2>1, <2>2
<1>6. floor'[k] = floor[k]
  BY <1>1
<1> QED
  BY <1>3, <1>4, <1>5, <1>6 DEF Fresh, Recent, Hands, Puts

LEMMA UserKept ==
  ASSUME Typed, Typed', Doing, NEW a \in Threads, Handles(a), Step(a), NEW k \in Keys, k = Key(a),
         KeyKept(k)
  PROVE  KeyKept(k)'
<1>1. UNCHANGED <<floor, queue, alive, spoiled, unsent>> /\ UNCHANGED <<source, setup>>
  BY UserTiers, StepCounts
<1>2. /\ agent[a].op # "invalidate"
      /\ \A b \in Threads : b # a => agent'[b] = agent[b]
      /\ agent'[a] = Resting \/ (agent'[a].op = agent[a].op /\ agent'[a].key = k)
  BY StepMoves DEF Handles, Uses, Clears
<1>3. \A b \in Threads : Drops(b, k)' <=> Drops(b, k) /\ agent'[b] = agent[b]
  BY <1>2 DEF Drops, Key, Resting
<1>4. Known(k)'
  BY <1>1, <1>3 DEF KeyKept, Known, Drops, Key, Val
<1>5. TmpOwned(k)'
  <2>1. CASE l2tmp' = l2tmp /\ ~At(a, "replace")
    BY <1>2, <2>1 DEF KeyKept, TmpOwned, At, Key
  <2>2. CASE l2tmp'[k] = NoEntry
    BY <2>2 DEF TmpOwned
  <2>3. CASE At(a, "replace")' /\ agent'[a].key = k
    BY <2>3 DEF TmpOwned, Key
  <2> QED
    BY <2>1, <2>2, <2>3, UserTiers
<1>6. ASSUME k \notin spoiled, ~setup.l4 PROVE Orderly(k)'
  <2>1. Using(k) /\ Orderly(k)
    BY <1>2, <1>6 DEF Using, KeyKept, Key
  <2>2. ~Invalidating(k)
    BY <2>1 DEF Orderly
  <2>3. \A b \in Threads : ~Drops(b, k)'
    BY <1>3, <2>2 DEF Invalidating, Drops, Key
  <2>4. ~Invalidating(k)'
    BY <1>1, <2>2, <2>3 DEF Invalidating, Drops, Key
  <2>5. Fresh(k)'
    BY <1>6, <2>1, <2>2, UserFresh DEF Orderly, KeyKept
  <2> QED
    BY <2>3, <2>4, <2>5 DEF Orderly
<1> QED
  BY <1>1, <1>4, <1>5, <1>6 DEF KeyKept


-----------------------------------------------------------------------------
(* Steps of one who invalidates the key.                                   *)

\* After them: nobody uses the key, and of those that hear only dictionaries that will drop
\* it may hold it.
LEMMA SpreadOrderly ==
  ASSUME NEW k \in Keys, l2tmp'[k] = NoEntry, ~Using(k)', ~CallerDrops(k)', Spread(k)'
  PROVE  Orderly(k)'
<1>1. ASSUME ~Invalidating(k)' PROVE Fresh(k)'
  <2>1. \A c \in Clients : ~Told(c, k)'
    BY <1>1 DEF Invalidating, Told, Drops, Key
  <2>2. \A c \in Clients : ~(k \in Held(l1[c])' /\ Hears(c, k)')
    BY <2>1 DEF Spread
  <2>3. \A a \in Threads : Key(a)' # k
    BY <1>1 DEF Invalidating, Using, Key
  <2> QED
    BY <2>2, <2>3 DEF Fresh, Recent, Spread
<1>2. \A a \in Threads : a[2] = "caller" => ~Drops(a, k)'
  BY DEF CallerDrops
<1> QED
  BY <1>1, <1>2 DEF Orderly

\* While a key is invalidated that nobody uses, no temporary file of it is left.
LEMMA NoTmp ==
  ASSUME Doing, NEW k \in Keys, TmpOwned(k), ~Using(k)
  PROVE  l2tmp[k] = NoEntry
<1> SUFFICES ASSUME NEW a \in Threads, Key(a) = k, At(a, "replace") PROVE FALSE
  BY DEF TmpOwned
<1>1. Uses(a, agent[a])
  BY UserRole DEF UserSteps, Puts
<1> QED
  BY <1>1 DEF Uses, Using, Key

\* What a step does to the tiers, and to what the thread knows.
LEMMA DropTiers ==
  ASSUME Typed, Doing, NEW a \in Threads, Invalidates(a, agent[a]), Step(a), ~Dies(a),
         NEW k \in Keys, k = Key(a)
  PROVE  /\ l2tmp' = l2tmp /\ alive' = alive /\ spoiled \subseteq spoiled'
         /\ l2file'[k] \in {l2file[k], NoEntry} /\ l3'[k] \in {l3[k], NoEntry}
         /\ floor'[k] \in {floor[k], Val(a)}
         /\ ~At(a, "publish") => UNCHANGED <<queue, unsent>>
         /\ agent'[a] = Resting \/ Val(a)' = Val(a)
         /\ \A c \in Clients : Keeps(l1'[c], l1[c], k)
         /\ At(a, "drop1") \/ At(a, "del1") => k \notin Held(l1'[a[1]]) \/ At(a, "del1")'
<1> DEFINE Goal == /\ l2tmp' = l2tmp /\ alive' = alive /\ spoiled \subseteq spoiled'
                   /\ l2file'[k] \in {l2file[k], NoEntry} /\ l3'[k] \in {l3[k], NoEntry}
                   /\ floor'[k] \in {floor[k], Val(a)}
                   /\ ~At(a, "publish") => UNCHANGED <<queue, unsent>>
                   /\ agent'[a] = Resting \/ Val(a)' = Val(a)
                   /\ At(a, "drop1") \/ At(a, "del1") =>
                        k \notin Held(l1'[a[1]]) \/ At(a, "del1")'
<1>0. /\ l2file \in Optional /\ l3 \in Optional /\ floor \in [Keys -> Values]
      /\ l1 \in [Clients -> Caches] /\ a[1] \in Clients /\ floor[k] \in Values /\ Val(a) \in Values
      /\ ~Uses(a, agent[a])
  BY TypesParts, KeyTypes, OneRole DEF Typed, SharedTyped, TiersTyped, Threads
<1>1. \A c \in Clients : Keeps(l1'[c], l1[c], k)
  <2>1. ASSUME NEW b \in Threads, StoreL1(b) PROVE FALSE
    <3>1. At(b, "store1") /\ agent'[b] # agent[b]
      BY <2>1, StepOver DEF StoreL1, Goes
    <3>2. b = a
      BY <3>1, StepMoves
    <3> QED
      BY <1>0, <3>1, <3>2, UserRole DEF UserSteps
  <2>2. [Next]_vars
    BY DEF Next
  <2>3. \A c \in Clients : <<c, "caller">> \in Threads
    BY DEF Threads
  <2> QED
    BY <2>1, <2>2, <2>3, L1Step DEF Stores
<1>2. ASSUME NEW step, NEW rest, Goes(a, step, Val(a), rest)
      PROVE  agent'[a] = Resting \/ Val(a)' = Val(a)
  BY <1>2, GoesTo
<1>3. ASSUME UNCHANGED <<l2tmp, l2file, l3, alive, queue, history>>,
             agent'[a] = Resting \/ Val(a)' = Val(a),
             At(a, "drop1") \/ At(a, "del1") => k \notin Held(l1'[a[1]]) \/ At(a, "del1")'
      PROVE  Goal
  BY <1>3 DEF history
<1>4. ASSUME DropL1(a) PROVE Goal
  <2> DEFINE rest == IF k \in Held(l1[a[1]]) THEN <<"del1", "unlist1">> \o Rest(a) ELSE Rest(a)
  <2>1. /\ UNCHANGED <<l2tmp, l2file, l3, alive, queue, history>> /\ Goes(a, "drop1", Val(a), rest)
        /\ l1' = l1 /\ At(a, "drop1")
    BY <1>4 DEF DropL1, shared, Goes
  <2>2. ASSUME k \in Held(l1[a[1]]) PROVE rest # <<>> /\ Head(rest) = "del1"
    <3> DEFINE full == <<"del1", "unlist1">> \o Rest(a)
    <3>1. \/ full = <<"del1", "unlist1", "forget", "look", "unlink", "drop3", "publish">>
          \/ full = <<"del1", "unlist1", "forget", "look", "unlink">>
      BY <2>1, DropRest, DropMore
    <3>2. rest = full
      BY <2>2
    <3> HIDE DEF full, rest
    <3>3. full # <<>> /\ Head(full) = "del1"
      BY <3>1
    <3> QED
      BY <3>2, <3>3
  <2> HIDE DEF rest, Goal
  <2>3. k \notin Held(l1'[a[1]]) \/ At(a, "del1")'
    BY <2>1, <2>2, GoesTo
  <2>4. agent'[a] = Resting \/ Val(a)' = Val(a)
    BY <1>2, <2>1
  <2> QED
    BY <1>3, <2>1, <2>3, <2>4
<1>5. ASSUME DeleteL1(a) PROVE Goal
  <2>1. /\ UNCHANGED <<l2tmp, l2file, l3, alive, queue, history>>
        /\ l1' = [l1 EXCEPT ![a[1]] = Deleted(l1[a[1]], {k})]
    BY <1>5 DEF DeleteL1, shared
  <2>2. Held(Deleted(l1[a[1]], {k})) = Held(l1[a[1]]) \ {k}
    BY <1>0, DeletedFacts
  <2>3. l1'[a[1]] = Deleted(l1[a[1]], {k})
    BY <1>0, <2>1
  <2>4. agent'[a] = Resting \/ Val(a)' = Val(a)
    BY <1>2, <1>5 DEF DeleteL1
  <2> HIDE DEF Goal
  <2> QED
    BY <1>3, <2>1, <2>2, <2>3, <2>4
<1>6. ASSUME DeleteRaises(a) PROVE Goal
  <2>1. /\ UNCHANGED <<l2tmp, l2file, l3, alive, queue, history>> /\ l1' = l1
        /\ Goes(a, "del1", 0, <<>>) /\ k \notin Held(l1[a[1]])
    BY <1>6 DEF DeleteRaises, Raises, Dies
  <2>2. agent'[a] = Resting
    BY <2>1, GoesTo
  <2> HIDE DEF Goal
  <2> QED
    BY <1>3, <2>1, <2>2
<1>7. ASSUME UnlistL1(a) \/ Forget(a) \/ Look(a) PROVE Goal
  <2>1. /\ UNCHANGED <<l2tmp, l2file, l3, alive, queue, history>>
        /\ ~At(a, "drop1") /\ ~At(a, "del1")
    BY <1>7 DEF UnlistL1, Forget, Look, Goes, At, shared
  <2>2. agent'[a] = Resting \/ Val(a)' = Val(a)
    BY <1>2, <1>7 DEF UnlistL1, Forget, Look
  <2> HIDE DEF Goal
  <2> QED
    BY <1>3, <2>1, <2>2
<1>8. ASSUME Unlink(a) PROVE Goal
  <2>1. /\ UNCHANGED <<l2tmp, l3, alive, queue, history>> /\ ~At(a, "drop1") /\ ~At(a, "del1")
        /\ Goes(a, "unlink", Val(a), Rest(a)) /\ l2file' = [l2file EXCEPT ![k] = NoEntry]
    BY <1>8 DEF Unlink, Goes, At
  <2>2. l2file'[k] = NoEntry
    BY <1>0, <2>1 DEF Optional
  <2> QED
    BY <1>2, <2>1, <2>2 DEF history
<1>9. ASSUME UnlinkRaises(a) PROVE Goal
  <2>1. /\ UNCHANGED <<l2tmp, l2file, l3, alive, queue, history>>
        /\ ~At(a, "drop1") /\ ~At(a, "del1") /\ Goes(a, "unlink", 0, <<>>)
    BY <1>9 DEF UnlinkRaises, Raises, Dies, Goes, At
  <2>2. agent'[a] = Resting
    BY <2>1, GoesTo
  <2> HIDE DEF Goal
  <2> QED
    BY <1>3, <2>1, <2>2
<1>10. ASSUME DropL3(a) PROVE Goal
  <2>1. /\ UNCHANGED <<l2tmp, l2file, alive, queue, floor, unsent>>
        /\ ~At(a, "drop1") /\ ~At(a, "del1") /\ Goes(a, "drop3", Val(a), Rest(a))
    BY <1>10 DEF DropL3, Goes, At
  <2>2. l3' = l3 \/ l3' = [l3 EXCEPT ![k] = NoEntry]
    BY <1>10 DEF DropL3
  <2>3. l3'[k] \in {l3[k], NoEntry}
    BY <1>0, <2>2 DEF Optional
  <2>4. spoiled \subseteq spoiled'
    BY <1>10 DEF DropL3
  <2> QED
    BY <1>2, <2>1, <2>3, <2>4
<1>11. ASSUME Publish(a) PROVE Goal
  <2>1. /\ UNCHANGED <<l2tmp, l2file, l3, alive, spoiled>>
        /\ ~At(a, "drop1") /\ ~At(a, "del1") /\ At(a, "publish")
        /\ Goes(a, "publish", 0, <<>>) /\ floor' = [floor EXCEPT ![k] = Max({floor[k], Val(a)})]
    BY <1>11 DEF Publish, Goes, At
  <2>2. agent'[a] = Resting
    BY <2>1, GoesTo
  <2>3. floor'[k] \in {floor[k], Val(a)}
    BY <1>0, <2>1, MaxOfTwo
  <2> QED
    BY <2>1, <2>2, <2>3
<1> HIDE DEF Goal
<1>12. Goal
  BY <1>0, <1>4, <1>5, <1>6, <1>7, <1>8, <1>9, <1>10, <1>11, DropActs
<1> QED
  BY <1>1, <1>12 DEF Goal

\* The invalidation of a caller that is not at its last step and removes the key from L3.
LEMMA AloneKept ==
  ASSUME Typed, Doing, NEW a \in Threads, Invalidates(a, agent[a]), a[2] = "caller", Step(a),
         NEW k \in Keys, k = Key(a), Alone(a, k), ~At(a, "publish"), k \notin spoiled'
  PROVE  Drops(a, k)' /\ Alone(a, k)'
<1>0. /\ agent[a].op = "invalidate" /\ agent[a].key = k /\ Drops(a, k) /\ ~Dies(a)
      /\ \A b \in Threads : b # a => agent'[b] = agent[b]
      /\ agent'[a] = Resting \/ (agent'[a].op = agent[a].op /\ agent'[a].key = k)
      /\ ~Uses(a, agent[a])
  BY StepMoves, OneRole DEF Invalidates, Key, Drops, Dies
<1>1. /\ l2file'[k] \in {l2file[k], NoEntry} /\ l3'[k] \in {l3[k], NoEntry} /\ queue' = queue
  BY <1>0, DropTiers
<1>2. /\ \A b \in Threads : Drops(b, k)' => b = a
      /\ \A c \in Clients : k \notin ToSet(queue[c])'
  BY <1>0, <1>1 DEF Alone, Drops, Key
<1> DEFINE Found == /\ At(a, "del1")' => k \in Held(l1'[a[1]])
                    /\ At(a, "unlink")' => l2file'[k] # NoEntry
                    /\ At(a, "drop3")' \/ At(a, "publish")' => l2file'[k] = NoEntry
                    /\ At(a, "publish")' => l3'[k] = NoEntry
<1>3. ASSUME NEW step, NEW val, NEW rest, Goes(a, step, val, rest), rest # <<>>,
             Head(rest) = "del1" => k \in Held(l1'[a[1]]),
             Head(rest) = "unlink" => l2file'[k] # NoEntry,
             Head(rest) \in {"drop3", "publish"} => l2file'[k] = NoEntry,
             Head(rest) = "publish" => l3'[k] = NoEntry
      PROVE  Drops(a, k)' /\ Found
  <2>1. /\ agent'[a].op = "invalidate" /\ Key(a)' = k /\ \A s : At(a, s)' <=> Head(rest) = s
    BY <1>0, <1>3, GoesTo DEF Key
  <2>2. Drops(a, k)'
    BY <2>1 DEF Drops
  <2>3. /\ At(a, "unlink")' <=> Head(rest) = "unlink"
        /\ At(a, "drop3")' <=> Head(rest) = "drop3"
        /\ At(a, "publish")' <=> Head(rest) = "publish"
        /\ At(a, "del1")' <=> Head(rest) = "del1"
    BY <2>1
  <2> QED
    BY <1>3, <2>2, <2>3
<1> HIDE DEF Found
<1>4. ASSUME DropL1(a) PROVE Drops(a, k)' /\ Found
  <2>1. /\ At(a, "drop1") /\ l1' = l1
        /\ k \in Held(l1[a[1]]) => Goes(a, "drop1", Val(a), <<"del1", "unlist1">> \o Rest(a))
        /\ k \notin Held(l1[a[1]]) => Goes(a, "drop1", Val(a), Rest(a))
    BY <1>4 DEF DropL1, Goes
  <2>2. Rest(a) = <<"forget", "look", "unlink", "drop3", "publish">>
    BY <2>1, DropRest
  <2>3. CASE k \in Held(l1[a[1]])
    <3> DEFINE rest == <<"del1", "unlist1">> \o Rest(a)
    <3>1. rest = <<"del1", "unlist1", "forget", "look", "unlink", "drop3", "publish">>
      BY <2>2, DropMore
    <3> HIDE DEF rest
    <3>2. rest # <<>> /\ Head(rest) = "del1"
      BY <3>1
    <3>3. Goes(a, "drop1", Val(a), rest)
      BY <2>1, <2>3 DEF rest
    <3> QED
      BY <1>3, <2>1, <2>3, <3>2, <3>3
  <2>4. CASE k \notin Held(l1[a[1]])
    <3>1. Rest(a) # <<>> /\ Head(Rest(a)) = "forget"
      BY <2>2
    <3> QED
      BY <1>3, <2>1, <2>4, <3>1
  <2> QED
    BY <2>3, <2>4
<1>5. ASSUME DeleteL1(a) PROVE Drops(a, k)' /\ Found
  <2>1. Goes(a, "del1", Val(a), Rest(a)) /\ At(a, "del1")
    BY <1>5 DEF DeleteL1
  <2>2. Rest(a) = <<"unlist1", "forget", "look", "unlink", "drop3", "publish">>
    BY <2>1, DropRest
  <2>3. Rest(a) # <<>> /\ Head(Rest(a)) = "unlist1"
    BY <2>2
  <2> QED
    BY <1>3, <2>1, <2>3
<1>6. ASSUME UnlistL1(a) PROVE Drops(a, k)' /\ Found
  <2>1. Goes(a, "unlist1", Val(a), Rest(a)) /\ At(a, "unlist1")
    BY <1>6 DEF UnlistL1, Goes
  <2>2. Rest(a) = <<"forget", "look", "unlink", "drop3", "publish">>
    BY <2>1, DropRest
  <2>3. Rest(a) # <<>> /\ Head(Rest(a)) = "forget"
    BY <2>2
  <2> QED
    BY <1>3, <2>1, <2>3
<1>7. ASSUME Forget(a) PROVE Drops(a, k)' /\ Found
  <2>1. Goes(a, "forget", Val(a), Rest(a)) /\ At(a, "forget")
    BY <1>7 DEF Forget, Goes
  <2>2. Rest(a) = <<"look", "unlink", "drop3", "publish">>
    BY <2>1, DropRest
  <2>3. Rest(a) # <<>> /\ Head(Rest(a)) = "look"
    BY <2>2
  <2> QED
    BY <1>3, <2>1, <2>3
<1>8. ASSUME Look(a) PROVE Drops(a, k)' /\ Found
  <2>1. /\ Goes(a, "look", Val(a), IF l2file[k] = NoEntry THEN Tail(Rest(a)) ELSE Rest(a))
        /\ At(a, "look") /\ l2file' = l2file
    BY <1>8 DEF Look, Goes, shared
  <2>2. /\ Rest(a) = <<"unlink", "drop3", "publish">>
        /\ Tail(Rest(a)) = <<"drop3", "publish">>
    BY <2>1, DropRest
  <2>3. Rest(a) # <<>> /\ Head(Rest(a)) = "unlink"
    BY <2>2
  <2>4. Tail(Rest(a)) # <<>> /\ Head(Tail(Rest(a))) = "drop3"
    <3> DEFINE t == Tail(Rest(a))
    <3>1. t = <<"drop3", "publish">>
      BY <2>2
    <3> HIDE DEF t
    <3>2. t # <<>> /\ Head(t) = "drop3"
      BY <3>1
    <3> QED
      BY <3>2 DEF t
  <2>5. CASE l2file[k] = NoEntry
    BY <1>3, <2>1, <2>4, <2>5
  <2>6. CASE l2file[k] # NoEntry
    BY <1>3, <2>1, <2>3, <2>6
  <2> QED
    BY <2>5, <2>6
<1>9. ASSUME Unlink(a) PROVE Drops(a, k)' /\ Found
  <2>1. Goes(a, "unlink", Val(a), Rest(a)) /\ At(a, "unlink")
    BY <1>9 DEF Unlink
  <2>2. Rest(a) = <<"drop3", "publish">>
    BY <2>1, DropRest
  <2>3. Rest(a) # <<>> /\ Head(Rest(a)) = "drop3"
    BY <2>2
  <2>4. l2file'[k] = NoEntry
    BY <1>9, TypesParts DEF Unlink, Typed, SharedTyped, TiersTyped, Optional
  <2> QED
    BY <1>3, <2>1, <2>3, <2>4
<1>10. ~DeleteRaises(a) /\ ~UnlinkRaises(a)
  BY DEF DeleteRaises, UnlinkRaises, Raises, Goes, Alone
<1>11. ASSUME DropL3(a) PROVE Drops(a, k)' /\ Found
  <2>1. Goes(a, "drop3", Val(a), Rest(a)) /\ At(a, "drop3") /\ l2file' = l2file
    BY <1>11 DEF DropL3, Goes
  <2>2. Rest(a) = <<"publish">>
    BY <2>1, DropRest
  <2>3. Rest(a) # <<>> /\ Head(Rest(a)) = "publish"
    BY <2>2
  <2>4. l2file'[k] = NoEntry
    BY <2>1 DEF Alone
  <2>5. l3'[k] = NoEntry
    <3>1. l3' = [l3 EXCEPT ![k] = NoEntry]
      BY <1>11 DEF DropL3
    <3> QED
      BY <3>1, TypesParts DEF Typed, SharedTyped, TiersTyped, Optional
  <2> QED
    BY <1>3, <2>1, <2>3, <2>4, <2>5
<1>12. ~Publish(a)
  BY DEF Publish, Goes
<1>13. Drops(a, k)' /\ Found
  BY <1>0, <1>4, <1>5, <1>6, <1>7, <1>8, <1>9, <1>10, <1>11, <1>12, DropActs
<1>14. Held(l1[a[1]])' = Held(l1'[a[1]])
  BY DEF Held
<1> QED
  BY <1>2, <1>13, <1>14 DEF Alone, Found

\* The last step of a caller: all that hear are told.
LEMMA PublishSpreads ==
  ASSUME Typed, Doing, Outside, NEW a \in Threads, Invalidates(a, agent[a]), a[2] = "caller",
         NEW k \in Keys, k = Key(a), Alone(a, k), At(a, "publish"), Step(a)
  PROVE  Spread(k)' /\ \A b \in Threads : ~Drops(b, k)'
<1>1. Publish(a)
  <2>1. ~Uses(a, agent[a])
    BY OneRole
  <2>2. ~DropL1(a) /\ ~DeleteL1(a) /\ ~DeleteRaises(a) /\ ~UnlistL1(a)
    BY DEF DropL1, DeleteL1, DeleteRaises, Raises, UnlistL1, Goes, At
  <2>3. ~Forget(a) /\ ~Look(a) /\ ~Unlink(a) /\ ~UnlinkRaises(a) /\ ~DropL3(a)
    BY DEF Forget, Look, Unlink, UnlinkRaises, Raises, DropL3, Goes, At
  <2> QED
    BY <2>1, <2>2, <2>3, DropActs
<1>2. /\ UNCHANGED <<l1, l2file, l3, alive>> /\ setup' = setup /\ Goes(a, "publish", 0, <<>>)
      /\ \/ queue' = [c \in Clients |-> IF c \in setup.clients /\ alive[c]
                                        THEN Append(queue[c], k) ELSE queue[c]]
         \/ k \in unsent'
  BY <1>1 DEF Publish, Goes
<1>3. agent'[a] = Resting /\ \A b \in Threads : b # a => agent'[b] = agent[b]
  BY <1>2, GoesTo
<1>4. \A b \in Threads : ~Drops(b, k)'
  BY <1>3, NoKeyAssumption DEF Alone, Drops, Key, Resting
<1>5. l2file'[k] = NoEntry /\ l3'[k] = NoEntry
  BY <1>2 DEF Alone
<1>6. ASSUME NEW c \in Clients, k \in Held(l1[c])', Hears(c, k)' PROVE Told(c, k)'
  <2>1. c \in setup.clients /\ alive[c] /\ k \notin unsent'
    BY <1>2, <1>6 DEF Outside, Hears
  <2>2. queue[c] \in Seq(Keys)
    BY TypesParts DEF Typed, SharedTyped, QueuesTyped
  <2>3. queue'[c] = Append(queue[c], k)
    BY <1>2, <2>1
  <2>4. k \in ToSet(queue'[c])
    BY <2>2, <2>3, Queued
  <2> QED
    BY <2>4 DEF Told
<1> QED
  BY <1>4, <1>5, <1>6 DEF Spread

\* A step of a listener: it forgets what it has been told only when it holds nothing.
LEMMA ListenerSpreads ==
  ASSUME Typed, Doing, NEW a \in Threads, Invalidates(a, agent[a]), a[2] # "caller", Step(a),
         ~Dies(a), NEW k \in Keys, k = Key(a), Spread(k)
  PROVE  Spread(k)'
<1>1. ~At(a, "publish")
  BY DropRest
<1>2. /\ l2file'[k] \in {l2file[k], NoEntry} /\ l3'[k] \in {l3[k], NoEntry}
      /\ queue' = queue /\ unsent' = unsent /\ alive' = alive
      /\ \A c \in Clients : Keeps(l1'[c], l1[c], k)
      /\ At(a, "drop1") \/ At(a, "del1") => k \notin Held(l1'[a[1]]) \/ At(a, "del1")'
  BY <1>1, DropTiers
<1>3. /\ \A b \in Threads : b # a => agent'[b] = agent[b]
      /\ agent'[a] = Resting \/ (agent'[a].op = agent[a].op /\ agent'[a].key = k)
      /\ agent[a].op = "invalidate"
  BY StepMoves DEF Invalidates
<1>4. ASSUME NEW c \in Clients, k \in Held(l1[c])', Hears(c, k)' PROVE Told(c, k)'
  <2>1. Told(c, k)
    BY <1>2, <1>4 DEF Spread, Keeps, Held, Hears
  <2>2. CASE k \in ToSet(queue[c])
    BY <1>2, <2>2 DEF Told
  <2>3. CASE \E b \in Threads : /\ b[1] = c /\ b[2] = "listener" /\ Drops(b, k)
                                /\ At(b, "drop1") \/ At(b, "del1")
    <3>1. PICK b \in Threads : /\ b[1] = c /\ b[2] = "listener" /\ Drops(b, k)
                               /\ At(b, "drop1") \/ At(b, "del1")
      BY <2>3
    <3>2. CASE b # a
      BY <1>3, <3>1, <3>2 DEF Told, Drops, At, Key
    <3>3. CASE b = a
      <4>1. Held(l1[c])' = Held(l1'[a[1]])
        BY <3>1, <3>3 DEF Held
      <4>2. At(a, "del1")'
        BY <1>2, <1>4, <3>1, <3>3, <4>1
      <4>3. agent'[a] # Resting
        BY <4>2 DEF At, Resting
      <4>4. Drops(a, k)'
        BY <1>3, <4>3 DEF Drops, Key
      <4> QED
        BY <3>1, <3>3, <4>2, <4>4 DEF Told
    <3> QED
      BY <3>2, <3>3
  <2> QED
    BY <2>1, <2>2, <2>3 DEF Told
<1>5. l2file'[k] = NoEntry /\ l3'[k] = NoEntry
  BY <1>2 DEF Spread
<1> QED
  BY <1>4, <1>5 DEF Spread

LEMMA DropKept ==
  ASSUME Typed, Doing, Outside, NEW a \in Threads, Invalidates(a, agent[a]), Step(a), ~Dies(a),
         NEW k \in Keys, k = Key(a), KeyKept(k)
  PROVE  KeyKept(k)'
<1>0. /\ agent[a].op = "invalidate" /\ agent[a].key = k /\ Drops(a, k) /\ Invalidating(k)
      /\ \A b \in Threads : b # a => agent'[b] = agent[b]
      /\ agent'[a] = Resting \/ (agent'[a].op = "invalidate" /\ agent'[a].key = k)
  BY StepMoves DEF Invalidates, Key, Drops, Invalidating
<1>1. UNCHANGED <<source, setup>> /\ l2tmp' = l2tmp /\ (k \notin spoiled' => k \notin spoiled)
  BY StepCounts, DropTiers
<1>2. Known(k)'
  <2>1. floor'[k] \in {floor[k], Val(a)} /\ (agent'[a] = Resting \/ Val(a)' = Val(a))
    BY DropTiers
  <2>2. floor'[k] <= source'[k]
    BY <1>0, <1>1, <2>1 DEF KeyKept, Known, Key
  <2>3. ASSUME NEW b \in Threads, agent'[b].op = "invalidate", agent'[b].key = k
        PROVE  Val(b)' <= source'[k]
    <3>1. CASE b = a
      BY <1>0, <1>1, <2>1, <2>3, <3>1 DEF KeyKept, Known, Key, Resting
    <3>2. CASE b # a
      BY <1>0, <1>1, <2>3, <3>2 DEF KeyKept, Known, Key, Val
    <3> QED
      BY <3>1, <3>2
  <2> QED
    BY <2>2, <2>3 DEF Known, Key
<1>3. TmpOwned(k)'
  <2>1. ~At(a, "replace")
    BY UserRole DEF UserSteps, Puts
  <2> QED
    BY <1>0, <1>1, <2>1 DEF KeyKept, TmpOwned, At, Key
<1>4. ASSUME k \notin spoiled', ~setup.l4 PROVE Orderly(k)'
  <2>1. Orderly(k) /\ ~Using(k)
    BY <1>0, <1>1, <1>4 DEF KeyKept, Orderly
  <2>2. l2tmp'[k] = NoEntry
    BY <1>1, <2>1, NoTmp DEF KeyKept
  <2>3. ~Using(k)'
    BY <1>0, <2>1, NoKeyAssumption DEF Using, Key, Resting
  <2>4. CASE a[2] = "caller"
    <3>1. Alone(a, k)
      BY <1>0, <2>1, <2>4 DEF Orderly
    <3>2. CASE At(a, "publish")
      <4>1. Spread(k)' /\ \A b \in Threads : ~Drops(b, k)'
        BY <2>4, <3>1, <3>2, PublishSpreads
      <4>2. ~CallerDrops(k)'
        BY <4>1 DEF CallerDrops
      <4> QED
        BY <2>2, <2>3, <4>1, <4>2, SpreadOrderly
    <3>3. CASE ~At(a, "publish")
      <4>1. Drops(a, k)' /\ Alone(a, k)'
        BY <1>4, <2>4, <3>1, <3>3, AloneKept
      <4>2. Invalidating(k)' /\ CallerDrops(k)'
        BY <2>4, <4>1 DEF Invalidating, CallerDrops, Drops, Key
      <4>3. \A b \in Threads : Drops(b, k)' => b = a
        BY <4>1 DEF Alone
      <4> QED
        BY <2>3, <4>1, <4>2, <4>3 DEF Orderly
    <3> QED
      BY <3>2, <3>3
  <2>5. CASE a[2] # "caller"
    <3>1. ~CallerDrops(k)
      <4> SUFFICES ASSUME NEW b \in Threads, b[2] = "caller", Drops(b, k) PROVE FALSE
        BY DEF CallerDrops
      <4>1. Alone(b, k)
        BY <2>1 DEF Orderly
      <4>2. a = b
        BY <1>0, <4>1 DEF Alone
      <4> QED
        BY <2>5, <4>2
    <3>2. Spread(k)'
      BY <1>0, <2>1, <2>5, <3>1, ListenerSpreads DEF Orderly
    <3>3. ~CallerDrops(k)'
      BY <1>0, <2>5, <3>1 DEF CallerDrops, Drops, Key
    <3> QED
      BY <2>2, <2>3, <3>2, <3>3, SpreadOrderly
  <2> QED
    BY <2>4, <2>5
<1> QED
  BY <1>1, <1>2, <1>3, <1>4 DEF KeyKept

-----------------------------------------------------------------------------
(* The end of a listener.                                                  *)

Deaths(a) == a[2] = "listener" /\ (Disconnect(a[1]) \/ (Step(a) /\ Dies(a)))

LEMMA DeathMoves ==
  ASSUME Typed, NEW a \in Threads, Deaths(a)
  PROVE  /\ UNCHANGED <<source, l1, l2tmp, l2file, l3, setup, floor, spoiled, unsent>>
         /\ a[1] \in Clients /\ a = <<a[1], "listener">>
         /\ \A d \in Clients : /\ alive'[d] = (IF d = a[1] THEN FALSE ELSE alive[d])
                               /\ queue'[d] = (IF d = a[1] THEN <<>> ELSE queue[d])
         /\ agent'[a] = Resting /\ \A b \in Threads : b # a => agent'[b] = agent[b]
<1>0. /\ a[1] \in Clients /\ a = <<a[1], "listener">>
      /\ alive \in [Clients -> BOOLEAN] /\ queue \in [Clients -> Seq(Keys)]
  BY TypesParts DEF Deaths, Threads, Typed, TypeOK
<1>1. ASSUME Ends(a[1]), NEW d \in Clients
      PROVE  /\ alive'[d] = (IF d = a[1] THEN FALSE ELSE alive[d])
             /\ queue'[d] = (IF d = a[1] THEN <<>> ELSE queue[d])
  BY <1>0, <1>1 DEF Ends
<1>2. CASE Disconnect(a[1])
  <2>1. /\ UNCHANGED <<source, l1, l2tmp, l2file, l3, setup, floor, spoiled, unsent, agent>>
        /\ Ends(a[1]) /\ agent[a] = Resting
    BY <1>0, <1>2 DEF Disconnect, history
  <2> QED
    BY <1>0, <1>1, <2>1
<1>3. CASE Step(a) /\ Dies(a)
  <2>1. PICK step : Raises(a, step)
    BY <1>3 DEF Dies, DeleteRaises, UnlinkRaises
  <2>2. /\ UNCHANGED <<l1, l2tmp, l2file, l3, floor, spoiled, unsent>> /\ Ends(a[1])
        /\ Goes(a, step, 0, <<>>)
    BY <2>1 DEF Raises, Deaths, history
  <2>3. UNCHANGED <<source, setup>>
    BY <2>2 DEF Goes
  <2>4. agent'[a] = Resting /\ \A b \in Threads : b # a => agent'[b] = agent[b]
    BY <2>2, GoesTo
  <2> QED
    BY <1>0, <1>1, <2>2, <2>3, <2>4
<1> QED
  BY <1>2, <1>3 DEF Deaths

LEMMA DeathKept ==
  ASSUME Typed, Typed', Doing, NEW a \in Threads, Deaths(a), NEW k \in Keys, KeyKept(k)
  PROVE  KeyKept(k)'
<1> DEFINE c == a[1]
<1>1. /\ UNCHANGED <<source, l1, l2tmp, l2file, l3, setup, floor, spoiled, unsent>>
      /\ c \in Clients /\ a = <<c, "listener">>
      /\ \A d \in Clients : /\ alive'[d] = (IF d = c THEN FALSE ELSE alive[d])
                            /\ queue'[d] = (IF d = c THEN <<>> ELSE queue[d])
      /\ agent'[a] = Resting /\ \A b \in Threads : b # a => agent'[b] = agent[b]
  BY DeathMoves
<1>2. a[2] = "listener" /\ (Key(a) = k => Drops(a, k))
  <2>1. a[2] = "listener"
    BY DEF Deaths
  <2>2. ASSUME Key(a) = k PROVE Drops(a, k)
    <3>1. agent[a] # Resting
      BY <2>2, NoKeyAssumption DEF Key, Resting
    <3>2. Invalidates(a, agent[a])
      BY <2>1, <3>1 DEF Doing, Busy, Uses, Clears
    <3> QED
      BY <2>2, <3>2 DEF Invalidates, Drops
  <2> QED
    BY <2>1, <2>2
<1>3. k \notin ToSet(<<>>)
  BY DEF ToSet
<1> HIDE DEF c
<1>4. CASE Key(a) # k /\ k \notin ToSet(queue[c])
  <2>1. \A b \in Threads : agent'[b] = agent[b] \/ (Key(b) # k /\ agent'[b].key # k)
    BY <1>1, <1>4, NoKeyAssumption DEF Resting
  <2>2. \A d \in Clients : /\ k \in ToSet(queue'[d]) <=> k \in ToSet(queue[d])
                           /\ alive'[d] => alive[d]
    BY <1>1, <1>3, <1>4
  <2>3. source[k] \in Nat
    BY KeyTypes
  <2>4. Frame(k)
    BY <1>1, <2>1, <2>2, <2>3 DEF Frame, Keeps, Seen
  <2> QED
    BY <2>4, FrameKept
<1>5. CASE Drops(a, k) \/ k \in ToSet(queue[c])
  <2>1. Known(k)'
    <3>1. \A b \in Threads : agent'[b].op = "invalidate" => agent'[b] = agent[b]
      BY <1>1 DEF Resting
    <3> QED
      BY <1>1, <3>1 DEF KeyKept, Known, Key, Val
  <2>2. TmpOwned(k)'
    <3>1. ASSUME NEW b \in Threads, At(b, "replace") PROVE b # a
      BY <1>2, <3>1, UserRole DEF UserSteps, Puts, Uses
    <3> QED
      BY <1>1, <3>1 DEF KeyKept, TmpOwned, At, Key
  <2>3. ASSUME k \notin spoiled, ~setup.l4 PROVE Orderly(k)'
    <3>1. Orderly(k) /\ Invalidating(k)
      BY <1>1, <1>5, <2>3 DEF KeyKept, Invalidating, Drops, Key
    <3>2. ~CallerDrops(k)
      <4> SUFFICES ASSUME NEW b \in Threads, b[2] = "caller", Drops(b, k) PROVE FALSE
        BY DEF CallerDrops
      <4>1. Alone(b, k)
        BY <3>1 DEF Orderly
      <4>2. b # a
        BY <1>2
      <4> QED
        BY <1>1, <1>5, <4>1, <4>2 DEF Alone
    <3>3. ~Using(k) /\ Spread(k)
      BY <3>1, <3>2 DEF Orderly
    <3>4. l2tmp'[k] = NoEntry
      BY <1>1, <3>3, NoTmp DEF KeyKept
    <3>5. ~Using(k)' /\ ~CallerDrops(k)'
      BY <1>1, <3>2, <3>3, NoKeyAssumption DEF Using, CallerDrops, Drops, Key, Resting
    <3>6. ASSUME NEW d \in Clients, k \in Held(l1[d])', Hears(d, k)' PROVE Told(d, k)'
      <4>1. d # c /\ queue'[d] = queue[d] /\ Told(d, k)
        BY <1>1, <3>3, <3>6 DEF Hears, Held, Spread
      <4>2. ASSUME NEW b \in Threads, b[1] = d PROVE agent'[b] = agent[b]
        BY <1>1, <4>1, <4>2 DEF c
      <4> QED
        BY <4>1, <4>2 DEF Told, Drops, Key, At
    <3>7. Spread(k)'
      BY <1>1, <3>3, <3>6 DEF Spread
    <3> QED
      BY <3>4, <3>5, <3>7, SpreadOrderly
  <2> QED
    BY <1>1, <2>1, <2>2, <2>3 DEF KeyKept
<1> QED
  BY <1>2, <1>4, <1>5

-----------------------------------------------------------------------------
(* Calls and messages.                                                     *)

LEMMA CallTouches ==
  ASSUME Typed, Doing, NEW a \in Threads, Calls(a), NEW k \in Keys, NEW op, NEW val, NEW todo,
         Call(a, op, k, val, todo)
  PROVE  /\ UNCHANGED <<source, floor, setup, l2tmp, l2file, l3, queue, alive, unsent>>
         /\ agent[a] = Resting /\ \A b \in Threads : b # a => agent'[b] = agent[b]
         /\ agent'[a] = IF todo = <<>> THEN Resting
                        ELSE [op |-> op, key |-> k, val |-> val, todo |-> todo]
         /\ \A c \in Clients : Keeps(l1'[c], l1[c], k)
         /\ k \notin spoiled' /\ op # "invalidate" => k \notin spoiled /\ ~Invalidating(k)
         /\ k \notin spoiled' /\ op = "invalidate" => ~Invalidating(k) /\ ~Using(k)
<1>1. /\ UNCHANGED <<source, floor, setup, l2tmp, l2file, l3, queue, alive, unsent>>
      /\ agent[a] = Resting /\ \A b \in Threads : b # a => agent'[b] = agent[b]
      /\ agent'[a] = IF todo = <<>> THEN Resting
                     ELSE [op |-> op, key |-> k, val |-> val, todo |-> todo]
  BY DEF Call, shared, Typed, TypeOK
<1>2. /\ k \notin spoiled' /\ op # "invalidate" => k \notin spoiled /\ ~Invalidating(k)
      /\ k \notin spoiled' /\ op = "invalidate" => ~Invalidating(k) /\ ~Using(k)
  BY DEF Call
<1>3. \A c \in Clients : Keeps(l1'[c], l1[c], k)
  <2>1. [Next]_vars
    BY DEF Next, Calls
  <2>2. \A b \in Threads : agent[b] = Resting \/ agent'[b] = agent[b]
    BY <1>1
  <2> QED
    BY <2>1, <2>2, L1Kept
<1> QED
  BY <1>1, <1>2, <1>3

\* A call that uses the key.
LEMMA UseBegins ==
  ASSUME Typed, Doing, NEW a \in Threads, Calls(a), NEW k \in Keys, NEW op, op # "invalidate",
         NEW val, NEW todo, Call(a, op, k, val, todo),
         \/ todo = <<>> \/ Head(todo) \notin Hands \/ val = source[k],
         KeyKept(k)
  PROVE  KeyKept(k)'
<1>1. /\ UNCHANGED <<source, floor, setup, l2tmp, l2file, l3, queue, alive, unsent>>
      /\ agent[a] = Resting /\ \A b \in Threads : b # a => agent'[b] = agent[b]
      /\ agent'[a] = IF todo = <<>> THEN Resting
                     ELSE [op |-> op, key |-> k, val |-> val, todo |-> todo]
      /\ \A c \in Clients : Keeps(l1'[c], l1[c], k)
      /\ k \notin spoiled' => k \notin spoiled /\ ~Invalidating(k)
  BY CallTouches
<1>2. \A b \in Threads : Drops(b, k)' <=> Drops(b, k) /\ agent'[b] = agent[b]
  BY <1>1, NoKeyAssumption DEF Drops, Key, Resting
<1>3. Known(k)'
  BY <1>1, <1>2 DEF KeyKept, Known, Drops, Key, Val
<1>4. TmpOwned(k)'
  BY <1>1 DEF KeyKept, TmpOwned, Key, At, Resting
<1>5. ASSUME k \notin spoiled', ~setup.l4 PROVE Orderly(k)'
  <2>1. k \notin spoiled /\ ~Invalidating(k) /\ Fresh(k)
    BY <1>1, <1>5 DEF KeyKept, Orderly
  <2>2. \A b \in Threads : ~Drops(b, k)'
    BY <1>2, <2>1 DEF Invalidating, Drops, Key
  <2>3. ~Invalidating(k)'
    BY <1>1, <2>1, <2>2 DEF Invalidating, Drops, Key
  <2>4. ASSUME NEW b \in Threads, Key(b)' = k, Head(agent[b].todo)' \in Hands
        PROVE  Val(b)' >= floor[k]
    <3>1. CASE b # a
      BY <1>1, <2>1, <2>4, <3>1 DEF Fresh, Key, Val, Hands, Puts
    <3>2. CASE b = a
      <4>1. todo # <<>>
        BY <1>1, <2>4, <3>2, NoKeyAssumption DEF Key, Resting
      <4>2. agent'[a].todo = todo /\ agent'[a].val = val
        BY <1>1, <4>1
      <4>3. val = source[k]
        BY <2>4, <3>2, <4>1, <4>2 DEF Hands, Puts
      <4>4. floor[k] \in Nat /\ source[k] \in Nat /\ source[k] >= floor[k]
        BY KeyTypes DEF KeyKept, Known
      <4> QED
        BY <3>2, <4>2, <4>3, <4>4 DEF Val
    <3> QED
      BY <3>1, <3>2
  <2>5. \A c \in Clients : k \in Held(l1[c])' /\ Hears(c, k)' => l1'[c].entry[k].value >= floor[k]
    BY <1>1, <2>1 DEF Keeps, Held, Hears, Fresh
  <2>6. Fresh(k)'
    BY <1>1, <2>1, <2>4, <2>5 DEF Fresh, Recent, Hands, Puts
  <2> QED
    BY <2>2, <2>3, <2>6 DEF Orderly
<1> QED
  BY <1>1, <1>3, <1>4, <1>5 DEF KeyKept

\* A call that invalidates it.
LEMMA DropBegins ==
  ASSUME Typed, Doing, NEW a \in Threads, Calls(a), NEW k \in Keys, Invalidate(a, k), KeyKept(k)
  PROVE  KeyKept(k)'
<1> DEFINE todo == <<"drop1", "forget", "look", "unlink", "drop3", "publish">>
<1>0. /\ Call(a, "invalidate", k, source[k], todo) /\ a[2] = "caller"
      /\ todo # <<>> /\ Head(todo) = "drop1"
  <2>1. Call(a, "invalidate", k, source[k], todo)
    BY DropAll DEF Invalidate
  <2>2. a[2] = "caller"
    BY <2>1 DEF Call
  <2> QED
    BY <2>1, <2>2
<1> HIDE DEF todo
<1>1. /\ UNCHANGED <<source, floor, setup, l2tmp, l2file, l3, queue>>
      /\ agent[a] = Resting /\ \A b \in Threads : b # a => agent'[b] = agent[b]
      /\ agent'[a] = [op |-> "invalidate", key |-> k, val |-> source[k], todo |-> todo]
      /\ k \notin spoiled' => ~Invalidating(k) /\ ~Using(k)
  BY <1>0, CallTouches
<1>2. Drops(a, k)' /\ Val(a)' = source[k] /\ \A s : At(a, s)' <=> s = "drop1"
  BY <1>0, <1>1 DEF Drops, Key, Val, At
<1>3. Known(k)'
  <2>1. source[k] <= source[k]
    BY KeyTypes
  <2>2. ASSUME NEW b \in Threads, agent'[b].op = "invalidate", agent'[b].key = k
        PROVE  Val(b)' <= source'[k]
    BY <1>1, <1>2, <2>1, <2>2 DEF KeyKept, Known, Key, Val
  <2> QED
    BY <1>1, <2>2 DEF KeyKept, Known, Key
<1>4. TmpOwned(k)'
  BY <1>1 DEF KeyKept, TmpOwned, Key, At, Resting
<1>5. ASSUME k \notin spoiled' PROVE Orderly(k)'
  <2>1. \A b \in Threads : Drops(b, k)' => b = a
    BY <1>1, <1>5 DEF Invalidating, Drops, Key
  <2>2. Alone(a, k)'
    BY <1>1, <1>2, <1>5, <2>1 DEF Alone, Invalidating
  <2>3. ~Using(k)'
    BY <1>1, <1>5 DEF Using, Key
  <2>4. Invalidating(k)' /\ CallerDrops(k)'
    BY <1>0, <1>2 DEF Invalidating, CallerDrops, Drops, Key
  <2> QED
    BY <2>1, <2>2, <2>3, <2>4 DEF Orderly
<1> QED
  BY <1>3, <1>4, <1>5 DEF KeyKept

LEMMA CallsKept ==
  ASSUME Typed, Typed', Doing, NEW a \in Threads, Calls(a), NEW k \in Keys, KeyKept(k)
  PROVE  KeyKept(k)'
<1>1. ASSUME NEW j \in Keys, NEW op, op # "invalidate", NEW val, NEW todo,
             Call(a, op, j, val, todo),
             todo = <<>> \/ Head(todo) \notin Hands \/ val = source[j]
      PROVE  KeyKept(k)'
  <2>1. CASE j = k
    BY <1>1, <2>1, UseBegins
  <2>2. CASE j # k
    BY <1>1, <2>2, CallFrame, FrameKept
  <2> QED
    BY <2>1, <2>2
<1>2. ASSUME NEW j \in Keys, NEW op \in {"get", "compute_or_get"},
             Call(a, op, j, 0, <<>>) \/ Call(a, op, j, 0, Plan(op))
      PROVE  KeyKept(k)'
  <2>1. Plan(op) \in Seq(Looks) /\ Plan(op) # <<>>
    BY SearchLooks DEF Plan
  <2>2. Head(Plan(op)) \notin Hands
    BY <2>1, Rested DEF Looks, Hands, Puts
  <2>3. op # "invalidate"
    BY <1>2
  <2> QED
    BY <1>1, <1>2, <2>2, <2>3
<1>3. ASSUME NEW j \in Keys, Set(a, j) PROVE KeyKept(k)'
  BY <1>1, <1>3 DEF Set
<1>4. ASSUME NEW j \in Keys, Invalidate(a, j) PROVE KeyKept(k)'
  <2>1. CASE j = k
    BY <1>4, <2>1, DropBegins
  <2>2. CASE j # k
    BY <1>4, <2>2, CallFrame, FrameKept DEF Invalidate
  <2> QED
    BY <2>1, <2>2
<1>5. ASSUME NEW j \in Keys, InvalidatePattern(a, j) PROVE KeyKept(k)'
  <2>1. Head(<<"drop1">>) \notin Hands
    BY DEF Hands, Puts
  <2>2. Call(a, "invalidate_pattern", j, 0, <<"drop1">>)
    BY <1>5 DEF InvalidatePattern
  <2> QED
    BY <1>1, <2>1, <2>2
<1> QED
  BY <1>2, <1>3, <1>4, <1>5, CallKinds

\* A listener takes a message of the key.
LEMMA HearKept ==
  ASSUME Typed, Typed', Doing, NEW c \in Clients, Hear(c), NEW k \in Keys, KeyKept(k)
  PROVE  KeyKept(k)'
<1> DEFINE a == <<c, "listener">>
<1>1. CASE k # Head(queue[c])
  BY <1>1, HearFrame, FrameKept
<1>2. CASE k = Head(queue[c])
  <2>0. a \in Threads /\ a[1] = c /\ a[2] = "listener" /\ agent[a] = Resting
    BY DEF Threads, Hear
  <2>1. /\ UNCHANGED <<source, l1, l2tmp, l2file, l3, alive, setup, floor, spoiled, unsent>>
        /\ \A b \in Threads : b # a => agent'[b] = agent[b]
        /\ agent'[a] = [op |-> "invalidate", key |-> k, val |-> 0, todo |-> DropL1L2]
        /\ queue' = [queue EXCEPT ![c] = Tail(queue[c])] /\ queue[c] # <<>>
    BY <1>2, <2>0 DEF Hear, Typed, TypeOK, history
  <2> HIDE DEF a
  <2>2. Drops(a, k)' /\ At(a, "drop1")' /\ Val(a)' = 0
    BY <2>1 DEF Drops, Key, Val, At, DropL1L2
  <2>3. queue \in [Clients -> Seq(Keys)] /\ queue[c] \in Seq(Keys)
    BY TypesParts DEF Typed, SharedTyped, QueuesTyped
  <2>4. k \in ToSet(queue[c])
    BY <1>2, <2>1, <2>3, Queued
  <2>5. Known(k)'
    <3>1. source'[k] >= 0 /\ source'[k] \in Nat
      BY <2>1, KeyTypes
    <3>2. ASSUME NEW b \in Threads, agent'[b].op = "invalidate", agent'[b].key = k
          PROVE  Val(b)' <= source'[k]
      <4>1. CASE b = a
        BY <2>2, <3>1, <4>1
      <4>2. CASE b # a
        BY <2>1, <3>2, <4>2 DEF KeyKept, Known, Key, Val
      <4> QED
        BY <4>1, <4>2
    <3> QED
      BY <2>1, <3>2 DEF KeyKept, Known, Key
  <2>6. TmpOwned(k)'
    BY <2>0, <2>1 DEF KeyKept, TmpOwned, Key, At, Resting
  <2>7. ASSUME k \notin spoiled, ~setup.l4 PROVE Orderly(k)'
    <3>1. Orderly(k) /\ Invalidating(k) /\ ~Using(k)
      BY <2>4, <2>7 DEF KeyKept, Orderly, Invalidating
    <3>2. ~CallerDrops(k)
      BY <2>4, <3>1 DEF CallerDrops, Orderly, Alone
    <3>3. Spread(k)
      BY <3>1, <3>2 DEF Orderly
    <3>4. l2tmp'[k] = NoEntry
      BY <2>1, <3>1, NoTmp DEF KeyKept
    <3>5. ~Using(k)'
      BY <2>1, <3>1 DEF Using, Key
    <3>6. ~CallerDrops(k)'
      BY <2>0, <2>1, <3>2 DEF CallerDrops, Drops, Key
    <3>7. ASSUME NEW d \in Clients, Told(d, k) PROVE Told(d, k)'
      <4>1. CASE d = c
        BY <2>0, <2>2, <4>1 DEF Told
      <4>2. CASE d # c
        <5>1. queue'[d] = queue[d]
          BY <2>1, <2>3, <4>2
        <5>2. ASSUME NEW b \in Threads, b[1] = d PROVE agent'[b] = agent[b]
          BY <2>0, <2>1, <4>2, <5>2
        <5> QED
          BY <3>7, <5>1, <5>2 DEF Told, Drops, Key, At
      <4> QED
        BY <4>1, <4>2
    <3>8. Spread(k)'
      BY <2>1, <3>3, <3>7 DEF Spread, Hears
    <3> QED
      BY <3>4, <3>5, <3>6, <3>8, SpreadOrderly
  <2> QED
    BY <2>1, <2>5, <2>6, <2>7 DEF KeyKept
<1> QED
  BY <1>1, <1>2

-----------------------------------------------------------------------------
(* All keys, every step.                                                   *)

\* Only a publication fills queues, and only those of processes that call.
LEMMA StepQueues ==
  ASSUME Typed, NEW a \in Threads, Step(a), NEW c \in Clients \ setup.clients, queue[c] = <<>>
  PROVE  queue'[c] = <<>>
<1>1. CASE Publish(a)
  BY <1>1 DEF Publish
<1>2. ASSUME NEW step, Raises(a, step) PROVE queue'[c] = <<>>
  <2>1. queue' = queue \/ (\E d : queue' = [queue EXCEPT ![d] = <<>>])
    BY <1>2 DEF Raises, Ends
  <2>2. queue \in [Clients -> Seq(Keys)]
    BY DEF Typed, TypeOK
  <2> QED
    BY <2>1, <2>2
<1>3. ASSUME DeleteRaises(a) \/ UnlinkRaises(a) PROVE queue'[c] = <<>>
  BY <1>2, <1>3 DEF DeleteRaises, UnlinkRaises
<1>4. ASSUME NEW step, ReadFile(a, step) PROVE queue' = queue
  BY <1>4 DEF ReadFile, shared
<1>5. ASSUME ReadMeta(a) \/ Adopt(a) \/ ReadL3(a) \/ ReadL4(a) \/ Compute(a) \/ PutL1(a)
             \/ StoreL1(a) \/ ListL1(a) \/ PutRaises(a)
      PROVE  queue' = queue
  BY <1>5 DEF ReadMeta, Adopt, ReadL3, ReadL4, Compute, PutL1, StoreL1, ListL1, PutRaises, shared
<1>6. ASSUME WriteTmp(a) \/ Replace(a) \/ RecordMeta(a) \/ PutL3(a) \/ PutL4(a) \/ DropL1(a)
             \/ DeleteL1(a) \/ UnlistL1(a) \/ Forget(a) \/ Look(a) \/ Unlink(a) \/ DropL3(a)
      PROVE  queue' = queue
  BY <1>6 DEF WriteTmp, Replace, RecordMeta, PutL3, PutL4, DropL1, DeleteL1, UnlistL1, Forget,
              Look, Unlink, DropL3, shared
<1> QED
  BY <1>1, <1>3, <1>4, <1>5, <1>6 DEF Step

LEMMA OutsideStep ==
  ASSUME Typed, Doing, Outside, [Next]_vars
  PROVE  Outside'
<1>1. setup' = setup
  BY DoingStep
<1>2. ASSUME NEW c \in Clients \ setup.clients PROVE Held(l1'[c]) = {}
  <2>1. ASSUME NEW k \in Keys, l1'[c].entry[k] # NoEntry PROVE FALSE
    <3>1. l1[c].entry[k] = NoEntry
      BY DEF Outside, Held
    <3>2. StoreL1(<<c, "caller">>)
      BY <2>1, <3>1, L1Step DEF Keeps, Stores
    <3>3. <<c, "caller">> \in Threads /\ agent[<<c, "caller">>] # Resting
      BY <3>2 DEF StoreL1, Goes, At, Resting, Threads
    <3> QED
      BY <3>3 DEF Doing
  <2> QED
    BY <2>1 DEF Held
<1>3. ASSUME NEW c \in Clients \ setup.clients PROVE queue'[c] = <<>>
  <2>1. queue[c] = <<>> /\ queue \in [Clients -> Seq(Keys)]
    BY DEF Outside, Typed, TypeOK
  <2>2. ASSUME NEW a \in Threads, Step(a) PROVE queue'[c] = <<>>
    BY <2>1, <2>2, StepQueues
  <2>3. ASSUME NEW a \in Threads, Calls(a) PROVE queue' = queue
    BY <2>3, CallsFrame DEF shared
  <2>4. ASSUME NEW d \in Clients, Hear(d) PROVE queue'[c] = <<>>
    <3>1. queue' = [queue EXCEPT ![d] = Tail(@)] /\ d # c
      BY <2>1, <2>4 DEF Hear
    <3> QED
      BY <2>1, <3>1
  <2>5. ASSUME NEW d \in Clients, Disconnect(d) PROVE queue'[c] = <<>>
    <3>1. queue' = [queue EXCEPT ![d] = <<>>]
      BY <2>5 DEF Disconnect, Ends
    <3> QED
      BY <2>1, <3>1
  <2>6. ASSUME Passes \/ UNCHANGED vars PROVE queue' = queue
    BY <2>6, PassesFrame DEF vars, shared
  <2> QED
    BY <2>1, <2>2, <2>3, <2>4, <2>5, <2>6, StepKinds
<1> QED
  BY <1>1, <1>2, <1>3 DEF Outside

LEMMA KeyStep ==
  ASSUME Typed, Doing, Outside, [Next]_vars, NEW k \in Keys, KeyKept(k)
  PROVE  KeyKept(k)'
<1>0. Typed'
  BY TypesStep
<1>1. ASSUME NEW a \in Threads, Step(a) PROVE KeyKept(k)'
  <2>1. CASE Dies(a)
    BY <1>0, <1>1, <2>1, DeathKept DEF Deaths, Dies
  <2>2. CASE ~Dies(a) /\ k # Key(a)
    BY <1>0, <1>1, <2>2, StepFrame, FrameKept
  <2>3. CASE ~Dies(a) /\ k = Key(a)
    <3>1. agent[a] # Resting
      BY <2>3, NoKeyAssumption DEF Key, Resting
    <3>2. Handles(a) \/ Invalidates(a, agent[a])
      BY <3>1 DEF Doing, Busy, Handles
    <3> QED
      BY <1>0, <1>1, <2>3, <3>2, UserKept, DropKept
  <2> QED
    BY <2>1, <2>2, <2>3
<1>2. ASSUME NEW a \in Threads, Calls(a) PROVE KeyKept(k)'
  BY <1>0, <1>2, CallsKept
<1>3. ASSUME NEW c \in Clients, Hear(c) PROVE KeyKept(k)'
  BY <1>0, <1>3, HearKept
<1>4. ASSUME NEW c \in Clients, Disconnect(c) PROVE KeyKept(k)'
  <2> DEFINE a == <<c, "listener">>
  <2>1. a \in Threads /\ a[1] = c /\ a[2] = "listener"
    BY DEF Threads
  <2> HIDE DEF a
  <2>2. Deaths(a)
    BY <1>4, <2>1 DEF Deaths
  <2> QED
    BY <1>0, <2>1, <2>2, DeathKept
<1>5. ASSUME Passes PROVE KeyKept(k)'
  BY <1>0, <1>5, PassesKept, FrameKept
<1>6. CASE UNCHANGED vars
  <2>1. source[k] \in Nat
    BY KeyTypes
  <2>2. Frame(k)
    BY <1>6, <2>1 DEF vars, shared, history, Frame, Keeps, Seen
  <2> QED
    BY <1>0, <2>2, FrameKept
<1> QED
  BY <1>1, <1>2, <1>3, <1>4, <1>5, <1>6, StepKinds

LEMMA InitKept ==
  ASSUME Init
  PROVE  Outside /\ \A k \in Keys : KeyKept(k)
<1>1. /\ \A c \in Clients : Held(l1[c]) = {} /\ queue[c] = <<>>
      /\ \A a \in Threads : agent[a] = Resting
  BY EmptySane DEF Init
<1>2. ASSUME NEW k \in Keys PROVE KeyKept(k)
  <2>1. /\ l2tmp[k] = NoEntry /\ l2file[k] = NoEntry /\ l3[k] = NoEntry
        /\ floor[k] = 0 /\ source[k] = 0
    BY <1>2 DEF Init
  <2>2. \A a \in Threads : Key(a) # k /\ ~Drops(a, k)
    BY <1>1, NoKeyAssumption DEF Key, Drops, Resting
  <2>3. \A c \in Clients : k \notin ToSet(queue[c])
    <3>1. k \notin ToSet(<<>>)
      BY DEF ToSet
    <3> QED
      BY <1>1, <3>1
  <2>4. ~Invalidating(k)
    BY <2>2, <2>3 DEF Invalidating, Drops, Key
  <2>5. Fresh(k)
    BY <1>1, <2>1, <2>2 DEF Fresh, Recent
  <2>6. Known(k) /\ TmpOwned(k)
    BY <2>1, <2>2 DEF Known, TmpOwned
  <2> QED
    BY <2>2, <2>4, <2>5, <2>6 DEF KeyKept, Orderly
<1> QED
  BY <1>1, <1>2 DEF Outside

(* "Invalidate key across all tiers" (multi_tier_cache.py:817), for any    *)
(* number of processes and keys, any capacity of L1 and any history of the *)
(* source: when an invalidation has returned and all threads rest, neither *)
(* L2 nor L3 holds a copy of the key from before it, nor does the L1 of a  *)
(* process whose listener has heard of it, unless the key was in use       *)
(* meanwhile, Redis failed the removal or the message, or L4 brings the    *)
(* copy back.  One later invalidation that nothing disturbs mends what an  *)
(* earlier one left behind.  L1 is changed step by step, without a lock,   *)
(* and operations and listeners end in the exceptions this leads to.       *)
THEOREM CleansHolds == Spec => []InvalidationCleans
<1> DEFINE IInv == Typed /\ Doing /\ Outside /\ \A k \in Keys : KeyKept(k)
<1>1. Init => IInv
  BY InitTyped, InitKept
<1>2. IInv /\ [Next]_vars => IInv'
  <2> SUFFICES ASSUME IInv, [Next]_vars PROVE IInv'
    OBVIOUS
  <2>1. Typed' /\ Doing'
    BY TypesStep, DoingStep
  <2>2. Outside'
    BY OutsideStep
  <2>3. \A k \in Keys : KeyKept(k)'
    BY KeyStep
  <2> QED
    BY <2>1, <2>2, <2>3
<1>3. IInv => InvalidationCleans
  <2> SUFFICES ASSUME IInv, NEW k \in Keys \ spoiled, Quiet, ~setup.l4
               PROVE  /\ \A v \in {l2file[k], l3[k]} \ {NoEntry} : v >= floor[k]
                      /\ \A c \in Clients : k \in Held(l1[c]) /\ Heard(c, k) /\ k \notin unsent
                                            => l1[c].entry[k].value >= floor[k]
    BY DEF InvalidationCleans
  <2>1. Orderly(k) /\ \A a \in Threads : ~Drops(a, k)
    BY DEF KeyKept, Quiet, Drops, Resting
  <2>2. CASE ~Invalidating(k)
    BY <2>1, <2>2 DEF Orderly, Fresh, Recent, Heard, Hears
  <2>3. CASE Invalidating(k)
    <3>1. Spread(k)
      BY <2>1, <2>3 DEF Orderly, CallerDrops
    <3>2. ASSUME NEW c \in Clients, k \in Held(l1[c]), Heard(c, k), k \notin unsent PROVE FALSE
      <4>1. Told(c, k)
        BY <3>1, <3>2 DEF Spread, Heard, Hears
      <4> QED
        BY <2>1, <3>2, <4>1 DEF Told, Heard
    <3> QED
      BY <3>1, <3>2 DEF Spread
  <2> QED
    BY <2>2, <2>3
<1> QED
  BY <1>1, <1>2, <1>3, PTL DEF Spec
=============================================================================
