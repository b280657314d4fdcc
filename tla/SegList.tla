------------------------------ MODULE SegList ------------------------------
(***************************************************************************)
(* The list store of server/src/db/seg_list.rs: every item has a segment   *)
(* of its own, taken from a pool of zeroed segments when it is pushed and  *)
(* zeroed and given back when it is popped.  A segment is a number; its    *)
(* memory is the payload that its length field and bytes spell, so zeroed  *)
(* memory spells the empty payload.  The store is behind one write lock,   *)
(* so one call is one action.  Operators that change the store map a       *)
(* record of it to the next one, as the loops in the code run.             *)
(***************************************************************************)
EXTENDS Integers, Sequences, SequencesExt, FiniteSets

CONSTANTS Keys,       \* the lists' names
          Payloads,   \* the items callers push
          Empty,      \* the empty one among them
          Oversized,  \* the ones that do not fit into a segment
          CHUNK,      \* segments that new and grow_segs allocate at a time
          CAPACITY,   \* segments the allocator can give before it returns null
          MaxBatch,   \* bound: items in one push_range
          MaxLen      \* bound: items in one list

ASSUME SegListAssumption ==
    /\ Empty \in Payloads \ Oversized
    /\ Oversized \subseteq Payloads
    /\ CHUNK \in Nat \ {0}
    /\ CAPACITY \in Nat /\ CHUNK <= CAPACITY
    /\ MaxBatch \in Nat \ {0} /\ MaxLen \in Nat

VARIABLES list,   \* the store: written, free_segs, the memory, segments the allocator gave
          reply   \* what the last call returned

vars == <<list, reply>>

Batches == BoundedSeq(Payloads, MaxBatch)

Fresh(from) == [i \in 1 .. CHUNK |-> from + i - 1]

Init == /\ list = [written |-> [k \in {} |-> <<>>], free_segs |-> Fresh(1),
                   mem |-> [s \in 1 .. CAPACITY |-> Empty], allocated |-> CHUNK]
        /\ reply = [op |-> "new", result |-> "ok", items |-> <<>>, n |-> 0]
-----------------------------------------------------------------------------
(* A call in progress: the store, what went wrong so far, the items popped. *)

Call == [list |-> list, result |-> "ok", items |-> <<>>]

Errs(call, error) == [call EXCEPT !.result = error]

\* segs of a key the map does not hold read as none.
Segs(lst, key) == IF key \in DOMAIN lst.written THEN lst.written[key] ELSE <<>>

SetSegs(written, key, segs) ==
    [k \in DOMAIN written \cup {key} |-> IF k = key THEN segs ELSE written[k]]

\* Mutated forms: the segment is dropped; it comes back with its bytes.
GiveBack_Leaks(lst, seg) == [lst EXCEPT !.mem[seg] = Empty]
GiveBack_Dirty(lst, seg) == [lst EXCEPT !.free_segs = Append(@, seg)]

\* A segment goes back to the pool behind the others, zeroed.
GiveBack(lst, seg) == [lst EXCEPT !.mem[seg] = Empty, !.free_segs = Append(@, seg)]

\* The chunk is allocated a segment at a time into a vector of its own.  When
\* the allocator runs dry before the chunk is complete the call panics, and the
\* segments it has already been given go down with that vector of pointers.
grow_segs(call) ==
    IF call.list.allocated + CHUNK > CAPACITY
    THEN Errs([call EXCEPT !.list.allocated = CAPACITY], "panic")
    ELSE [call EXCEPT !.list.free_segs = @ \o Fresh(call.list.allocated + 1),
                      !.list.allocated = @ + CHUNK]

\* Mutated form: the size check is missing.
PushOne_AnySize(call, key, p) ==
    LET grown == IF call.list.free_segs = <<>> THEN grow_segs(call) ELSE call
        seg   == Head(grown.list.free_segs)
    IN  IF grown.result # "ok" THEN grown
        ELSE [grown EXCEPT !.list.free_segs = Tail(@),
                           !.list.mem[seg] = p,
                           !.list.written =
                               SetSegs(@, key, Append(Segs(grown.list, key), seg))]

PushOne(call, key, p) ==
    LET grown == IF call.list.free_segs = <<>> THEN grow_segs(call) ELSE call
        seg   == Head(grown.list.free_segs)
    IN  CASE grown.result # "ok" -> grown
          [] grown.result = "ok" /\ p \in Oversized -> Errs(grown, "EntryTooLarge")
          [] OTHER ->
               [grown EXCEPT !.list.free_segs = Tail(@),
                             !.list.mem[seg] = p,
                             !.list.written =
                                 SetSegs(@, key, Append(Segs(grown.list, key), seg))]

\* Mutated form: a stack, last in first out.
PopOne_Newest(call, key) ==
    LET segs == Segs(call.list, key)
        seg  == Last(segs)
    IN  IF segs = <<>> THEN Errs(call, "KeyNotFound")
        ELSE [call EXCEPT !.list = GiveBack([@ EXCEPT !.written[key] = Front(segs)], seg),
                          !.items = Append(@, call.list.mem[seg])]

PopOne(call, key) ==
    LET segs == Segs(call.list, key)
        seg  == Head(segs)
    IN  IF segs = <<>> THEN Errs(call, "KeyNotFound")
        ELSE [call EXCEPT !.list = GiveBack([@ EXCEPT !.written[key] = Tail(segs)], seg),
                          !.items = Append(@, call.list.mem[seg])]

\* The loops: after[i] is the store when i rounds are done.  The first error
\* ends a loop over push or pop.
PushEach(call, key, items) ==
    LET after[i \in 0 .. Len(items)] ==
          IF i = 0 THEN call
          ELSE IF after[i - 1].result = "ok" THEN PushOne(after[i - 1], key, items[i])
          ELSE after[i - 1]
    IN  after[Len(items)]

PopEach(call, key, n) ==
    LET after[i \in 0 .. n] ==
          IF i = 0 THEN call
          ELSE IF after[i - 1].result = "ok" THEN PopOne(after[i - 1], key)
          ELSE after[i - 1]
    IN  after[n]

GiveBackEach(lst, segs) ==
    LET after[i \in 0 .. Len(segs)] ==
          IF i = 0 THEN lst ELSE GiveBack(after[i - 1], segs[i])
    IN  after[Len(segs)]
-----------------------------------------------------------------------------
(* The calls *)

Returns(op, n, call) ==
    /\ list' = call.list
    /\ reply' = [op |-> op, result |-> call.result, n |-> IF call.result = "ok" THEN n ELSE 0,
                 items |-> IF call.result = "ok" THEN call.items ELSE <<>>]

push(key, p) == Returns("push", 0, PushOne(Call, key, p))

pop(key) == Returns("pop", 1, PopOne(Call, key))

push_range(key, items) ==
    LET start == IF Len(list.free_segs) < Len(items) THEN grow_segs(Call) ELSE Call
    IN  Returns("push_range", 0, PushEach(start, key, items))

\* 0..=count: one more pop than the count says.
pop_count(key, count) == Returns("pop_count", count, PopEach(Call, key, count + 1))

\* drain(start..end) panics when start is past end.
pop_range(key, start, end) ==
    LET segs   == Segs(list, key)
        run    == SubSeq(segs, start + 1, end)
        rest   == SubSeq(segs, 1, start) \o SubSeq(segs, end + 1, Len(segs))
        drained == [list EXCEPT !.written[key] = rest]
    IN  Returns("pop_range", end - start,
            CASE key \notin DOMAIN list.written -> Errs(Call, "KeyNotFound")
              [] key \in DOMAIN list.written /\ end > Len(segs) -> Errs(Call, "OutOfRange")
              [] key \in DOMAIN list.written /\ end <= Len(segs) /\ start > end -> Errs(Call, "panic")
              [] OTHER -> [Call EXCEPT
                             !.list = GiveBackEach(drained, run),
                             !.items = [i \in 1 .. Len(run) |-> list.mem[run[i]]]])

\* len makes an entry for a key that has none.
len(key) ==
    /\ list' = [list EXCEPT !.written = SetSegs(@, key, Segs(list, key))]
    /\ reply' = [op |-> "len", result |-> "ok", items |-> <<>>, n |-> Len(Segs(list, key))]

flush(key) ==
    LET emptied == [list EXCEPT !.written[key] = <<>>]
    IN  Returns("flush", 0,
            IF key \notin DOMAIN list.written THEN Errs(Call, "KeyNotFound")
            ELSE [Call EXCEPT !.list = GiveBackEach(emptied, list.written[key])])

\* The bound on a list is on what the call leaves, so that a full list still
\* meets an allocator that is dry.
Bounded(key) == Len(Segs(list', key)) <= MaxLen

Next == \E key \in Keys :
          \/ \E p \in Payloads : push(key, p) /\ Bounded(key)
          \/ pop(key)
          \/ \E items \in Batches : push_range(key, items) /\ Bounded(key)
          \/ \E count \in 0 .. MaxLen : pop_count(key, count)
          \/ \E start, end \in 0 .. MaxLen + 1 : pop_range(key, start, end)
          \/ len(key)
          \/ flush(key)

Spec == Init /\ [][Next]_vars
-----------------------------------------------------------------------------
(* Properties *)

Segments == 1 .. list.allocated

\* Where a segment is: in the pool, or at a place in a list.
Places(seg) ==
    {<<"free", i>> : i \in {j \in 1 .. Len(list.free_segs) : list.free_segs[j] = seg}}
    \cup UNION {{<<k, i>> : i \in {j \in 1 .. Len(list.written[k]) : list.written[k][j] = seg}}
                   : k \in DOMAIN list.written}

\* The types of the store's fields.
TypeOK ==
    /\ list.allocated \in 0 .. CAPACITY
    /\ list.free_segs \in Seq(Segments)
    /\ DOMAIN list.written \subseteq Keys
    /\ \A k \in DOMAIN list.written : list.written[k] \in Seq(Segments)
    /\ list.mem \in [1 .. CAPACITY -> Payloads \ Oversized]
    /\ reply.items \in Seq(Payloads)

\* No segment is used twice, and memory is lost in one way only: through every
\* partial push, failed pop, drain and flush a segment is at exactly one place,
\* so two items never share memory and no pointer is freed twice, except for
\* the segments of the one grow that found the allocator dry.  Those are at no
\* place, and they are fewer than a chunk.
EverySegmentHasOnePlace ==
    LET lost == {seg \in Segments : Places(seg) = {}}
    IN  /\ \A seg \in Segments \ lost : \E place \in Places(seg) : Places(seg) = {place}
        /\ Cardinality(lost) < CHUNK
        /\ lost # {} => list.allocated = CAPACITY

\* Nothing of a popped or flushed item stays behind: a segment that waits in
\* the pool, or was never handed out, holds zeroes.
FreeSegmentsAreZeroed ==
    \A seg \in 1 .. CAPACITY :
        list.mem[seg] # Empty =>
            \E k \in DOMAIN list.written : Contains(list.written[k], seg)

\* The segments, seen through the lists that point to them, are the queues
\* of AbstractList: a pop returns the oldest item and a pop_count the oldest
\* ones in the order they went in, a pop_range the items at its indices, each
\* once and as it went in; len counts what is there; and an operation on one
\* key never shows in another.
Queues ==
    [k \in Keys |-> [i \in 1 .. Len(Segs(list, k)) |-> list.mem[Segs(list, k)[i]]]]

Abs == INSTANCE AbstractList
           WITH queues <- Queues,
                reply <- [op |-> reply.op, ok |-> reply.result = "ok", n |-> reply.n,
                          items |-> reply.items]

ImplementsAbstractList == Abs!Spec

\* seg_list.rs says of pop_count "pop from start the specified number".
PopCountPopsTheCount ==
    reply.op = "pop_count" /\ reply.result = "ok" => Len(reply.items) = reply.n
=============================================================================
