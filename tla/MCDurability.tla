---------------------------- MODULE MCDurability ----------------------------
(***************************************************************************)
(* A small set of calls that touch each other: one database and key, one   *)
(* list, one group, one value that fits and one that does not.             *)
(***************************************************************************)
EXTENDS Durability

CONSTANTS v, big

KvCalls == {[op |-> "KvSet", db |-> "d", key |-> "k", val |-> v],
            [op |-> "KvDel", db |-> "d", key |-> "k"],
            [op |-> "KvFlush", db |-> "d"]}

ListCalls == {[op |-> "ListPush", key |-> "l", val |-> v],
              [op |-> "ListPushRange", key |-> "l", vals |-> <<v, big>>],
              [op |-> "ListPushRange", key |-> "l", vals |-> <<v, v>>],
              [op |-> "ListPop", key |-> "l"],
              [op |-> "ListPopRange", key |-> "l", start |-> 0, end |-> 1],
              [op |-> "ListPopCount", key |-> "l", count |-> 1],
              [op |-> "ListFlush", key |-> "l"],
              [op |-> "ListLen", key |-> "l"]}

LogCalls == {[op |-> "LogCreateGroup", group |-> "g"],
             [op |-> "LogDropGroup", group |-> "g"],
             [op |-> "LogAdd", group |-> "g", val |-> v],
             [op |-> "LogAddRange", group |-> "g", vals |-> <<v, big>>],
             [op |-> "LogRemove", group |-> "g", up_to |-> 2]}

AllCalls == KvCalls \cup ListCalls \cup LogCalls
=============================================================================
