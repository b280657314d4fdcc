------------------------------- MODULE Groups -------------------------------
(***************************************************************************)
(* server/src/db/groups.rs: named logs, each behind a cache of its         *)
(* entries.  What a write does to the log is in Stores; here every         *)
(* operation also does what it does to the group's cache, and reads are    *)
(* answered from the cache where it can.  All of them run under the        *)
(* database's lock, so one call is one step; time passes between calls.    *)
(* build_key hashes the group's name and the id to 64 bits: two ids of one *)
(* group are taken to differ there, so the id is the key.                  *)
(***************************************************************************)
EXTENDS Stores, Lru

CONSTANTS Names,        \* the groups callers name
          Batches,      \* what callers add: sequences of values
          MaxId,        \* bound: ids a group gives out
          MaxTime,      \* bound: the clock
          Width,        \* bits of an id (64 in the code)
          MaxCapacity   \* the largest vector that can be reserved

ASSUME GroupsAssumption ==
    /\ MaxId \in Nat /\ MaxTime \in Nat /\ MaxCapacity \in Nat
    /\ Width \in Nat /\ MaxId < 2 ^ Width
    /\ \A vals \in Batches : vals \in Seq(ToSet(vals))

VARIABLES store,   \* the logs (store.log of Stores)
          caches,  \* lru_cache, by group
          now      \* Instant::now()

vars == <<store, caches, now>>

Ids == 0 .. 2 ^ Width - 1

Log(g) == store.log[g].entries

Known == DOMAIN store.log

Init == store = EmptyStore /\ caches = [g \in {} |-> EmptyLru] /\ now = 0
-----------------------------------------------------------------------------
create_group(g) ==
    /\ g \notin Known
    /\ store' = LogCreateGroup(store, [group |-> g]).store
    /\ caches' = Put(caches, g, EmptyLru)
    /\ UNCHANGED now

drop_group(g) ==
    /\ g \in Known
    /\ store' = LogDropGroup(store, [group |-> g]).store
    /\ caches' = Drop(caches, {g})
    /\ UNCHANGED now

\* cache_put of entries that got the ids from first on.
CachePutAll_Next(c, first, vals) ==
    LET after[n \in 0 .. Len(vals)] ==
            IF n = 0 THEN c ELSE insert(after[n - 1], first + n, vals[n], now)
    IN  after[Len(vals)]

CachePutAll(c, first, vals) ==
    LET after[n \in 0 .. Len(vals)] ==
            IF n = 0 THEN c ELSE insert(after[n - 1], first + n - 1, vals[n], now)
    IN  after[Len(vals)]

\* add is add_range of one entry.  At an entry that is too large the call
\* fails, and what was appended before it stays, in the log and the cache.
add_range(g, vals) ==
    LET next == store.log[g].next
    IN  /\ g \in Known
        /\ next + Len(Storable(vals)) - 1 <= MaxId
        /\ store' = LogAddRange(store, [group |-> g, vals |-> vals]).store
        /\ caches' = [caches EXCEPT ![g] = CachePutAll(@, next, Storable(vals))]
        /\ UNCHANGED now

\* The ids that start ..= end runs over.
Span(start, end) == IF end < start THEN 0 ELSE end - start + 1

\* The ids from start to end, in order, that the log of g holds.
Live(g, start, end) ==
    LET ids == [n \in 1 .. Span(start, end) |-> start + n - 1]
    IN  Part(ids, {n \in DOMAIN ids : ids[n] \in DOMAIN Log(g)})

\* cache_invalidate of one id after the other.
InvalidateAll(c, ids) ==
    LET after[n \in 0 .. Len(ids)] == IF n = 0 THEN c ELSE remove(after[n - 1], ids[n])
    IN  after[Len(ids)]

\* remove: the ids that trim returns leave the cache.
remove_entries_Cached(g, up_to) ==
    /\ g \in Known
    /\ store' = LogRemove(store, [group |-> g, up_to |-> up_to]).store
    /\ UNCHANGED <<caches, now>>

remove_entries(g, up_to) ==
    /\ g \in Known
    /\ store' = LogRemove(store, [group |-> g, up_to |-> up_to]).store
    /\ caches' = [caches EXCEPT ![g] = InvalidateAll(@, Live(g, 0, up_to - 1))]
    /\ UNCHANGED now
-----------------------------------------------------------------------------
(* Reads.  An answer is a sequence of ids with their values; an id that is *)
(* not there gives the empty one.                                          *)

\* SegLog's read and read_range.  The range of a BTreeMap panics where it
\* starts past its end (one that never held an entry may let it pass).
LogRangePanics(start, end) == end < start

LogRead(g, start, end) ==
    LET live == Live(g, start, end)
    IN  [n \in DOMAIN live |-> <<live[n], Log(g)[live[n]]>>]

ReadAnswer(g, id) ==
    IF Hit(caches[g], id, now) THEN <<<<id, Cached(caches[g], id)>>>>
    ELSE LogRead(g, id, id)

\* A miss leaves the cache as it is: reads do not fill it.
read(g, id) ==
    /\ g \in Known
    /\ caches' = [caches EXCEPT ![g] = get(@, id, now)]
    /\ UNCHANGED <<store, now>>

\* end - start + 1 as a u64: it wraps around in a release build, and a debug
\* build panics instead.
RangeLen(start, end) == (end - start + 1) % 2 ^ Width

\* The loop of read_range: get from start on, until an id is missed.
ScanStep(s, id) ==
    IF s.all_cached
    THEN [cache      |-> get(s.cache, id, now),
          cached     |-> IF Hit(s.cache, id, now)
                         THEN Append(s.cached, <<id, Cached(s.cache, id)>>) ELSE s.cached,
          all_cached |-> Hit(s.cache, id, now)]
    ELSE s

Scan(g, start, end) ==
    LET after[n \in 0 .. Span(start, end)] ==
            IF n = 0 THEN [cache |-> caches[g], cached |-> <<>>, all_cached |-> TRUE]
                     ELSE ScanStep(after[n - 1], start + n - 1)
    IN  after[Span(start, end)]

FromCache(g, start, end) ==
    LET s == Scan(g, start, end)
    IN  s.all_cached /\ Len(s.cached) = RangeLen(start, end)

\* The vector for the answer cannot be reserved, or the log is asked for a
\* range that is reversed.
RangePanics(g, start, end) ==
    \/ RangeLen(start, end) > MaxCapacity
    \/ ~FromCache(g, start, end) /\ LogRangePanics(start, end)

RangeAnswer(g, start, end) ==
    IF FromCache(g, start, end) THEN Scan(g, start, end).cached ELSE LogRead(g, start, end)

\* A call that panics has changed nothing: no id of a reversed range is looked up.
read_range(g, start, end) ==
    /\ g \in Known
    /\ ~RangePanics(g, start, end)
    /\ caches' = [caches EXCEPT ![g] = Scan(g, start, end).cache]
    /\ UNCHANGED <<store, now>>

Tick == now < MaxTime /\ now' = now + 1 /\ UNCHANGED <<store, caches>>

\* list_groups and group_stats only look.
Next ==
    \/ \E g \in Names : create_group(g) \/ drop_group(g)
    \/ \E g \in Names, vals \in Batches : add_range(g, vals)
    \/ \E g \in Names, up_to \in 1 .. MaxId + 1 : remove_entries(g, up_to)
    \/ \E g \in Names, id \in Ids : read(g, id)
    \/ \E g \in Names, start, end \in Ids : read_range(g, start, end)
    \/ Tick

Spec == Init /\ [][Next]_vars
-----------------------------------------------------------------------------
TypeOK ==
    /\ now \in 0 .. MaxTime
    /\ DOMAIN caches = Known /\ Known \subseteq Names
    /\ \A g \in Known :
        /\ store.log[g].next \in 1 .. MaxId + 1
        /\ DOMAIN Log(g) \subseteq 1 .. store.log[g].next - 1
        /\ Keys(caches[g]) \subseteq 1 .. store.log[g].next - 1

\* However often entries are inserted, read, trimmed, evicted and found
\* expired, the links of each cache, its map and its free slots describe one
\* and the same set of entries, and the slots never outgrow the capacity.
CachesAreLinked == \A g \in Known : WellLinked(caches[g])

\* In every cache that can arise, each operation of lru.rs does to the linked
\* slots what it means: an insert puts the entry in front and, in a full
\* cache, gives up the least recently used one; a get moves a good entry to
\* the front and drops an expired one; a remove takes out one entry.
SlotsBehaveAsQueue ==
    \A g \in Known, id \in 1 .. MaxId :
        LET c == caches[g]
        IN  /\ Recency(insert(c, id, id, now)) = QueueInsert(Recency(c), id, id, now)
            /\ Recency(get(c, id, now)) = QueueGet(Recency(c), id, now)
            /\ Recency(remove(c, id)) = Without(Recency(c), id)

\* What the cache holds never shows: a read and a range read, whether answered
\* from the cache, half found in it or passed on, give exactly the live
\* entries of the log; trimmed entries, entries of a dropped group of the same
\* name and entries of a failed batch are no exception.  Which ranges panic
\* depends on the range alone: those whose length does not fit and the
\* reversed ones, but for start = end + 1, whose length is 0 and which is
\* answered with nothing before the log would panic.
ReadsAreTransparent ==
    \A g \in Known :
        /\ \A id \in Ids : ReadAnswer(g, id) = LogRead(g, id, id)
        /\ \A start, end \in Ids :
            /\ RangePanics(g, start, end) <=>
                  \/ RangeLen(start, end) > MaxCapacity
                  \/ end < start /\ start # end + 1
            /\ ~RangePanics(g, start, end) =>
                  RangeAnswer(g, start, end) = IF end < start THEN <<>> ELSE LogRead(g, start, end)
=============================================================================
