------------------------------- MODULE Stores -------------------------------
(***************************************************************************)
(* What the writes of server/src/db/db.rs do to the three stores, as seen  *)
(* through their interfaces: key-value databases (kv.rs), lists            *)
(* (seg_list.rs, through AbstractList) and log groups (groups.rs, through  *)
(* AbstractLog).  A call is a record that names the operation and its      *)
(* arguments, as an AofEntry does; Exec is the store after it and what the *)
(* caller gets.  A value stands for the bytes of a payload, or for the     *)
(* timestamp and the bytes of a log entry.  Keys have no TTL and a         *)
(* database stays below the size at which it evicts.                       *)
(***************************************************************************)
EXTENDS Integers, Sequences, SequencesExt, TLC

CONSTANT Oversized   \* the values too large for a segment

EmptyMap == [x \in {} |-> <<>>]

EmptyStore == [kv |-> EmptyMap, list |-> EmptyMap, log |-> EmptyMap]

Put(map, key, val) == [k \in DOMAIN map \cup {key} |-> IF k = key THEN val ELSE map[k]]
Drop(map, keys)    == [k \in DOMAIN map \ keys |-> map[k]]

\* A call's result: the store it leaves, whether it is Ok, what it returns.
Ok(store, reply) == [store |-> store, ok |-> TRUE, reply |-> reply]
Err(store)       == [store |-> store, ok |-> FALSE, reply |-> <<>>]

\* The values in front of the first oversized one: what a range call stores.
Storable(vals) ==
    LET bad == SelectInSeq(vals, LAMBDA v : v \in Oversized)
    IN  IF bad = 0 THEN vals ELSE SubSeq(vals, 1, bad - 1)
-----------------------------------------------------------------------------
(* Key-value databases *)

KvSet(st, c) == Ok([st EXCEPT !.kv = Put(@, <<c.db, c.key>>, c.val)], <<>>)

KvDel(st, c) == IF <<c.db, c.key>> \in DOMAIN st.kv
                THEN Ok([st EXCEPT !.kv = Drop(@, {<<c.db, c.key>>})], <<>>)
                ELSE Err(st)

KvFlush(st, c) == Ok([st EXCEPT !.kv = Drop(@, {x \in DOMAIN @ : x[1] = c.db})], <<>>)
-----------------------------------------------------------------------------
(* Lists *)

Queue(st, key) == IF key \in DOMAIN st.list THEN st.list[key] ELSE <<>>

SetQueue(st, key, q) == [st EXCEPT !.list = Put(@, key, q)]

ListPushRange(st, c) ==
    LET stored == Storable(c.vals)
        after  == IF stored = <<>> THEN st
                  ELSE SetQueue(st, c.key, Queue(st, c.key) \o stored)
    IN  IF stored = c.vals THEN Ok(after, <<>>) ELSE Err(after)

ListPush(st, c) == ListPushRange(st, [key |-> c.key, vals |-> <<c.val>>])

ListPop(st, c) ==
    LET q == Queue(st, c.key)
    IN  IF q = <<>> THEN Err(st) ELSE Ok(SetQueue(st, c.key, Tail(q)), <<Head(q)>>)

\* start > end is a panic inside drain: nothing changes, nothing is logged.
ListPopRange(st, c) ==
    LET q == Queue(st, c.key)
    IN  IF c.key \notin DOMAIN st.list \/ c.end > Len(q) \/ c.start > c.end THEN Err(st)
        ELSE Ok(SetQueue(st, c.key, SubSeq(q, 1, c.start) \o SubSeq(q, c.end + 1, Len(q))),
                SubSeq(q, c.start + 1, c.end))

\* count + 1 pops; when they run out the items popped so far are gone.
ListPopCount(st, c) ==
    LET q == Queue(st, c.key)
    IN  CASE c.count < Len(q) -> Ok(SetQueue(st, c.key, SubSeq(q, c.count + 2, Len(q))),
                                    SubSeq(q, 1, c.count + 1))
          [] ~(c.count < Len(q)) /\ q # <<>> -> Err(SetQueue(st, c.key, <<>>))
          [] OTHER -> Err(st)

ListFlush(st, c) == IF c.key \in DOMAIN st.list THEN Ok(SetQueue(st, c.key, <<>>), <<>>)
                    ELSE Err(st)

ListLen(st, c) == Ok(SetQueue(st, c.key, Queue(st, c.key)), <<Len(Queue(st, c.key))>>)
-----------------------------------------------------------------------------
(* Log groups *)

LogCreateGroup(st, c) ==
    IF c.group \in DOMAIN st.log THEN Err(st)
    ELSE Ok([st EXCEPT !.log = Put(@, c.group, [next |-> 1, entries |-> EmptyMap])], <<>>)

LogDropGroup(st, c) ==
    IF c.group \in DOMAIN st.log THEN Ok([st EXCEPT !.log = Drop(@, {c.group})], <<>>)
    ELSE Err(st)

\* The entries get the next ids; the reply is the first and the last of them.
LogAddRange(st, c) ==
    LET stored == Storable(c.vals)
        log    == st.log[c.group]
        ids    == log.next .. log.next + Len(stored) - 1
        grown  == [next |-> log.next + Len(stored),
                   entries |-> [id \in ids \cup DOMAIN log.entries |->
                                   IF id \in ids THEN stored[id - log.next + 1]
                                   ELSE log.entries[id]]]
        after  == IF stored = <<>> THEN st ELSE [st EXCEPT !.log[c.group] = grown]
    IN  CASE c.vals = <<>> \/ c.group \notin DOMAIN st.log -> Err(st)
          [] c.vals # <<>> /\ c.group \in DOMAIN st.log /\ stored # c.vals -> Err(after)
          [] OTHER -> Ok(after, <<log.next, log.next + Len(stored) - 1>>)

LogAdd(st, c) == LogAddRange(st, [group |-> c.group, vals |-> <<c.val>>])

LogRemove(st, c) ==
    IF c.group \notin DOMAIN st.log THEN Err(st)
    ELSE Ok([st EXCEPT !.log[c.group].entries = Drop(@, {id \in DOMAIN @ : id < c.up_to})],
            <<>>)
-----------------------------------------------------------------------------
KvOps   == {"KvSet", "KvDel", "KvFlush"}
ListOps == {"ListPush", "ListPushRange", "ListPop", "ListPopRange", "ListPopCount",
            "ListFlush", "ListLen"}
LogOps  == {"LogCreateGroup", "LogDropGroup", "LogAdd", "LogAddRange", "LogRemove"}
Ops     == KvOps \cup ListOps \cup LogOps

Exec(st, c) ==
    CASE c.op = "KvSet"          -> KvSet(st, c)
      [] c.op = "KvDel"          -> KvDel(st, c)
      [] c.op = "KvFlush"        -> KvFlush(st, c)
      [] c.op = "ListPush"       -> ListPush(st, c)
      [] c.op = "ListPushRange"  -> ListPushRange(st, c)
      [] c.op = "ListPop"        -> ListPop(st, c)
      [] c.op = "ListPopRange"   -> ListPopRange(st, c)
      [] c.op = "ListPopCount"   -> ListPopCount(st, c)
      [] c.op = "ListFlush"      -> ListFlush(st, c)
      [] c.op = "ListLen"        -> ListLen(st, c)
      [] c.op = "LogCreateGroup" -> LogCreateGroup(st, c)
      [] c.op = "LogDropGroup"   -> LogDropGroup(st, c)
      [] c.op = "LogAdd"         -> LogAdd(st, c)
      [] c.op = "LogAddRange"    -> LogAddRange(st, c)
      [] c.op = "LogRemove"      -> LogRemove(st, c)

\* What readers see of a store: a list without items is no list to them.
Contents(st) == [st EXCEPT !.list = [k \in {x \in DOMAIN @ : @[x] # <<>>} |-> @[k]]]
=============================================================================
