-------------------------------- MODULE Lru --------------------------------
(***************************************************************************)
(* server/src/db/lru.rs: a cache of at most cap entries, each good for ttl *)
(* after it was inserted.  The entries sit in slots that are linked, most  *)
(* recently used first; a map finds the slot of a key and a stack holds    *)
(* the slots that are free.  `reverse' and `entries' are always written    *)
(* together and are one sequence of slots here.  Slots count from 1, so    *)
(* that NULL can be 0.                                                     *)
(***************************************************************************)
EXTENDS Integers, Sequences, SequencesExt, FiniteSets, Parts

CONSTANTS cap,  \* the entries the cache may hold (100000 for a group)
          ttl   \* how long an entry is good (30 seconds for a group)

ASSUME LruAssumption == cap \in Nat \ {0} /\ ttl \in Nat

NULL == 0

\* What is left of a slot that was emptied (None).
Vacant == [key |-> NULL, val |-> NULL, expires_at |-> 0, prev |-> NULL, next |-> NULL]

Entry(key, val, now) ==
    [key |-> key, val |-> val, expires_at |-> now + ttl, prev |-> NULL, next |-> NULL]

EmptyLru == [map |-> [k \in {} |-> NULL], slots |-> <<>>, free |-> <<>>,
             head |-> NULL, tail |-> NULL]

Keys(c) == DOMAIN c.map
-----------------------------------------------------------------------------
\* The cache and the slot that was taken.
alloc_slot(c, e) ==
    IF c.free # <<>>
    THEN [cache |-> [c EXCEPT !.slots[Last(c.free)] = e, !.free = Front(@)],
          slot  |-> Last(c.free)]
    ELSE [cache |-> [c EXCEPT !.slots = Append(@, e)],
          slot  |-> Len(c.slots) + 1]

\* The entry keeps its own links; its neighbours, or head and tail, skip it.
detach_KeepsTail(c, i) ==
    LET prev == c.slots[i].prev
        next == c.slots[i].next
        fore == IF prev # NULL THEN [c EXCEPT !.slots[prev].next = next]
                               ELSE [c EXCEPT !.head = next]
    IN  IF next # NULL THEN [fore EXCEPT !.slots[next].prev = prev] ELSE fore

detach(c, i) ==
    LET prev == c.slots[i].prev
        next == c.slots[i].next
        fore == IF prev # NULL THEN [c EXCEPT !.slots[prev].next = next]
                               ELSE [c EXCEPT !.head = next]
    IN  IF next # NULL THEN [fore EXCEPT !.slots[next].prev = prev]
                       ELSE [fore EXCEPT !.tail = prev]

attach_front(c, i) ==
    LET own  == [c EXCEPT !.slots[i].prev = NULL, !.slots[i].next = c.head]
        back == IF c.head # NULL THEN [own EXCEPT !.slots[c.head].prev = i]
                                 ELSE [own EXCEPT !.tail = i]
    IN  [back EXCEPT !.head = i]

\* Take slot i out for good: the common end of remove and of an eviction.
Vacate(c, i) ==
    LET d == detach(c, i)
    IN  [d EXCEPT !.map   = [k \in Keys(c) \ {c.slots[i].key} |-> c.map[k]],
                  !.slots[i] = Vacant,
                  !.free  = Append(@, i)]

insert(c, key, val, now) ==
    LET e     == Entry(key, val, now)
        full  == Cardinality(Keys(c)) = cap
        room  == IF full /\ c.tail # NULL THEN Vacate(c, c.tail) ELSE c
        taken == alloc_slot(room, e)
        found == [k \in Keys(room) \cup {key} |-> IF k = key THEN taken.slot ELSE room.map[k]]
        old   == c.map[key]
    IN  IF key \in Keys(c)
        THEN attach_front([detach(c, old) EXCEPT !.slots[old] = e], old)
        ELSE attach_front([taken.cache EXCEPT !.map = found], taken.slot)

remove(c, key) == IF key \in Keys(c) THEN Vacate(c, c.map[key]) ELSE c

Expired(c, key, now) == c.slots[c.map[key]].expires_at < now

Hit(c, key, now) == key \in Keys(c) /\ ~Expired(c, key, now)

\* get's effect on the cache; on a Hit it answers Cached.
get_NoTouch(c, key, now) ==
    IF key \in Keys(c) /\ Expired(c, key, now) THEN remove(c, key) ELSE c

get(c, key, now) ==
    CASE Hit(c, key, now) -> LET i == c.map[key] IN attach_front(detach(c, i), i)
      [] key \in Keys(c) /\ Expired(c, key, now) -> remove(c, key)
      [] OTHER -> c

Cached(c, key) == c.slots[c.map[key]].val
-----------------------------------------------------------------------------
(* The same cache as what it stands for: a queue of entries without links, *)
(* most recently used first.                                               *)

\* The slots from head on, following next for at most as many steps as there
\* are slots.
Chain(c) ==
    LET at[n \in 1 .. Len(c.slots)] ==
            IF n = 1 THEN c.head
            ELSE IF at[n - 1] = NULL THEN NULL ELSE c.slots[at[n - 1]].next
    IN  Part(at, {n \in DOMAIN at : at[n] # NULL})

Item(s) == [key |-> s.key, val |-> s.val, expires_at |-> s.expires_at]

Recency(c) == [n \in DOMAIN Chain(c) |-> Item(c.slots[Chain(c)[n]])]

Without(q, key) == Part(q, {n \in DOMAIN q : q[n].key # key})

QueueInsert(q, key, val, now) ==
    LET others == Without(q, key)
        kept   == IF Len(others) = cap THEN Front(others) ELSE others
    IN  <<Item(Entry(key, val, now))>> \o kept

QueueGet(q, key, now) ==
    LET found == Part(q, {n \in DOMAIN q : q[n].key = key /\ q[n].expires_at >= now})
    IN  found \o Without(q, key)

\* The links run over exactly the slots the map knows, there and back; the
\* other slots are free, each once; and there are never more than cap.
WellLinked(c) ==
    LET chain == Chain(c)
        used  == {c.map[k] : k \in Keys(c)}
    IN  /\ IsInjective(chain) /\ ToSet(chain) = used
        /\ \A k \in Keys(c) : c.slots[c.map[k]].key = k
        /\ \A n \in DOMAIN chain : c.slots[chain[n]].prev = IF n = 1 THEN NULL ELSE chain[n - 1]
        /\ c.tail = IF chain = <<>> THEN NULL ELSE Last(chain)
        /\ IsInjective(c.free) /\ ToSet(c.free) = DOMAIN c.slots \ used
        /\ Len(c.slots) <= cap
=============================================================================
