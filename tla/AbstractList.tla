---------------------------- MODULE AbstractList ----------------------------
(***************************************************************************)
(* What the list store promises its users: one first-in first-out queue    *)
(* per key.  push and push_range put items at the back of their queue, pop *)
(* returns the oldest item and pop_count the oldest ones in order (one     *)
(* more than its count says), pop_range cuts a run out by its indices, len *)
(* counts, flush empties the queue.  A failed call changes nothing, with   *)
(* two exceptions: a push_range that meets an item it cannot store keeps   *)
(* the items before it, and a pop_count that runs out of items has emptied *)
(* the queue and returns none of them.                                     *)
(***************************************************************************)
EXTENDS Naturals, Sequences

CONSTANTS Keys,       \* the lists' names
          Payloads,   \* the items callers push
          Batches     \* the sequences of items callers push at once

VARIABLES queues,   \* the items of every key, oldest first
          reply     \* the last call, whether it succeeded, its number, its items

vars == <<queues, reply>>

Reply(op, ok, n, items) == [op |-> op, ok |-> ok, n |-> n, items |-> items]

Init == /\ queues = [k \in Keys |-> <<>>]
        /\ reply = Reply("new", TRUE, 0, <<>>)

Push(k, item) ==
    /\ queues' = [queues EXCEPT ![k] = Append(@, item)]
    /\ reply' = Reply("push", TRUE, 0, <<>>)

\* The first n of the items are stored; the call succeeds if that is all.
PushRange(k, items, n) ==
    /\ queues' = [queues EXCEPT ![k] = @ \o SubSeq(items, 1, n)]
    /\ reply' = Reply("push_range", n = Len(items), 0, <<>>)

\* The items at positions from+1 .. to leave the queue for the caller.
Take(op, n, k, from, to) ==
    /\ 0 <= from /\ from <= to /\ to <= Len(queues[k])
    /\ queues' = [queues EXCEPT ![k] = SubSeq(@, 1, from) \o SubSeq(@, to + 1, Len(@))]
    /\ reply' = Reply(op, TRUE, n, SubSeq(queues[k], from + 1, to))

Pop(k)                 == Take("pop", 1, k, 0, 1)
PopCount(k, n)         == Take("pop_count", n, k, 0, n + 1)
PopRange(k, from, to)  == Take("pop_range", to - from, k, from, to)

\* More items were asked for than the queue has.
PopCountRunsOut(k) ==
    /\ queues' = [queues EXCEPT ![k] = <<>>]
    /\ reply' = Reply("pop_count", FALSE, 0, <<>>)

Count(k) == reply' = Reply("len", TRUE, Len(queues[k]), <<>>) /\ UNCHANGED queues

Flush(k) == /\ queues' = [queues EXCEPT ![k] = <<>>]
            /\ reply' = Reply("flush", TRUE, 0, <<>>)

\* What can be refused: no such key, no such item, no memory, an item too large.
Fail(op) == reply' = Reply(op, FALSE, 0, <<>>) /\ UNCHANGED queues

Next == \/ \E k \in Keys :
              \/ \E item \in Payloads : Push(k, item)
              \/ \E items \in Batches : \E n \in 0 .. Len(items) : PushRange(k, items, n)
              \/ Pop(k)
              \/ \E n \in 0 .. Len(queues[k]) : PopCount(k, n)
              \/ \E to \in 0 .. Len(queues[k]) : \E from \in 0 .. to : PopRange(k, from, to)
              \/ PopCountRunsOut(k)
              \/ Count(k)
              \/ Flush(k)
        \/ \E op \in {"push", "push_range", "pop", "pop_range", "flush"} : Fail(op)

Spec == Init /\ [][Next]_vars
=============================================================================
