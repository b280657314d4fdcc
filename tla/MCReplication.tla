--------------------------- MODULE MCReplication ---------------------------
(***************************************************************************)
(* A leader that clients write to, with an independent node or a           *)
(* configured follower next to it.  One client registers that node with    *)
(* the leader; another one does it again, the other way round, or names    *)
(* the leader to itself.  Every event is sent on at once.  The three       *)
(* writes do not commute.  Faults come alone and in pairs: a crash, a      *)
(* write that fails, a connection that breaks, five of these.              *)
(***************************************************************************)
EXTENDS Replication

CONSTANTS leader, other, r1, r2

MCNodes  == {leader, other}
MCSetups == {leader :> "leader" @@ other :> r : r \in {"alone", "follower"}}
MCMaster == leader :> other @@ other :> leader
MCAddresses == r1 :> {<<leader, other>>} @@
               r2 :> {<<leader, other>>, <<other, leader>>, <<leader, leader>>}
MCScript == <<[op |-> "KvSet", db |-> "d", key |-> "a", val |-> 1],
              [op |-> "KvSet", db |-> "d", key |-> "b", val |-> 1],
              [op |-> "KvSet", db |-> "d", key |-> "a", val |-> 2]>>
Budget(c, n, d, w) == [crash |-> c, net |-> n, disk |-> d, write |-> w]
MCBudgets == {Budget(1, 0, 0, 2), Budget(0, 0, 1, 2), Budget(0, 0, 0, 3), Budget(0, 5, 0, 0),
              Budget(1, 1, 0, 1)}
=============================================================================
