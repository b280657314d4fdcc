---------------------------- MODULE Replication ----------------------------
(***************************************************************************)
(* Leader and followers: main.rs, ha.rs and the HA commands of server.rs.  *)
(* On every node the HaManager sits behind one fair lock, and whoever has  *)
(* it keeps it over the network calls it makes: start while it waits for   *)
(* the first event, main while it registers, a registration while it calls *)
(* the node it is to add.  ha[n] is the queue for that lock, its head the  *)
(* holder.  A heartbeat is answered by a task that takes the lock of its   *)
(* own node, so a call under way is a place in the queue of the callee;    *)
(* there are no timeouts.  A sync takes the lock of the database only.     *)
(* Connections may fail at any time, processes may crash and be started    *)
(* again, and the worker of the append-only file may lose or cut a line.   *)
(* In the file, an entry is its place in the log of the node.              *)
(***************************************************************************)
EXTENDS Stores, AofFile

CONSTANTS Nodes,
          Setups,      \* the roles the nodes may have, as functions on Nodes
          Master,      \* conf.master of a follower
          Registrars,  \* clients, each of which sends one HA_REGISTER
          Addresses,   \* per client: pairs of the node it asks and the one it names
          Writer,      \* the node that clients write to
          Script,      \* what they write, in this order
          BufferSize,  \* event_buffer_size
          Budgets      \* bounds: crashes, failures of connections and of files, writes

Roles == {"alone", "none", "leader", "follower"}

ASSUME ReplicationAssumption ==
    /\ Setups \subseteq [Nodes -> Roles] /\ Writer \in Nodes
    /\ Master \in [Nodes -> Nodes] /\ \A n \in Nodes : Master[n] # n
    /\ Nodes \cap Registrars = {} /\ Addresses \in [Registrars -> SUBSET (Nodes \X Nodes)]
    /\ BufferSize \in Nat /\ Budgets \subseteq [{"crash", "net", "disk", "write"} -> Nat]
    /\ Script \in Seq(ToSet(Script)) /\ \A c \in ToSet(Script) : c.op \in Ops

VARIABLES
    role,       \* per node: is_replica and role of its configuration
    main,       \* per node: where main is
    start,      \* per node: the task that runs HaManager::start
    beat,       \* per node: the task of heartbeat_followers
    ha,         \* per node: the queue for the lock of the HaManager
    followers,  \* per node: HaConf.followers
    misses,     \* per node: follower_timeout, absent as 0
    reg,        \* per origin: the registration it has asked for
    mem,        \* per node: the stores
    log, file,  \* per node: the entries given to the AOF, and how many the worker took
    lines,      \* per node: the lines of the append-only file
    stray,      \* HA_SYNC frames that are under way though nobody waits for the answer
    events,     \* per node: the channel from DB to HaManager
    pending,    \* a client waits for its write
    writes,     \* how many were asked for
    budget,     \* how many events of each kind may still happen
    pushed,     \* history: the nodes that took an event or a stray frame
    failed,     \* history: per leader and follower, calls that failed since the last drop
    damaged     \* history: an entry of a file was lost, cut or read in halves

boot  == <<role, main>>
data  == <<mem, log, file, lines, stray, events>>
hist  == <<writes, budget, pushed, failed, damaged>>
vars  == <<boot, start, beat, ha, followers, misses, reg, data, pending, hist>>

\* Whose registration it is: a client's, or that of a follower's main.
Origins == Nodes \cup Registrars

NoStart == [step |-> "none", left |-> <<>>, entry |-> <<>>]
NoBeat  == [step |-> "none", left |-> <<>>]
NoReg   == [step |-> "none", at |-> Writer, addr |-> Writer, copy |-> <<>>]

Init ==
    /\ role \in Setups /\ main = [n \in Nodes |-> "down"]
    /\ start = [n \in Nodes |-> NoStart] /\ beat = [n \in Nodes |-> NoBeat]
    /\ ha = [n \in Nodes |-> <<>>] /\ followers = [n \in Nodes |-> <<>>]
    /\ misses = [n \in Nodes |-> [f \in Nodes |-> 0]]
    /\ reg = [o \in Origins |-> NoReg]
    /\ mem = [n \in Nodes |-> EmptyStore]
    /\ log = [n \in Nodes |-> <<>>] /\ file = [n \in Nodes |-> 0]
    /\ lines = [n \in Nodes |-> <<>>] /\ stray = {}
    /\ events = [n \in Nodes |-> <<>>]
    /\ pending = FALSE /\ writes = 0
    /\ budget \in Budgets /\ pushed = {}
    /\ failed = [n \in Nodes |-> [f \in Nodes |-> 0]] /\ damaged = FALSE

Spend(kind) == budget[kind] > 0 /\ budget' = [budget EXCEPT ![kind] = @ - 1]

Up(n)        == main[n] = "listening"
Holds(n, t)  == ha[n] # <<>> /\ Head(ha[n]) = t
Waits(n, t)  == t \in ToSet(ha[n])
Enter(n, t)  == [ha EXCEPT ![n] = Append(@, t)]
Release(n)   == [ha EXCEPT ![n] = Tail(@)]

\* The database is locked for reading while its file is copied.
CopyHeld_FromHeartbeat(n) ==
    \E o \in Origins : reg[o].at = n /\ reg[o].step \in {"beating", "listing", "copying"}

CopyHeld(n) == \E o \in Origins : reg[o].at = n /\ reg[o].step = "copying"

\* load_and_apply, and the first i entries of a log.
Replay(entries) ==
    LET after[i \in 0 .. Len(entries)] ==
            IF i = 0 THEN EmptyStore ELSE Exec(after[i - 1], entries[i]).store
    IN  after[Len(entries)]

Prefix(n, i) == SubSeq(log[n], 1, i)

\* The calls of the entries that a load finds in these lines of n.
Loaded(n, ls) == LET found == Entries(ls) IN [i \in DOMAIN found |-> log[n][found[i]]]

\* DB::apply_aof on a follower: the calls to the lists and the groups are made
\* but never awaited, so they do nothing.
Applied(st, c) == IF c.op \in KvOps THEN Exec(st, c).store ELSE st

apply_aof(st, entries) ==
    LET after[i \in 0 .. Len(entries)] ==
            IF i = 0 THEN st ELSE Applied(after[i - 1], entries[i])
    IN  after[Len(entries)]
-----------------------------------------------------------------------------
(* The life of a process *)

Frame(f, entries) == [to |-> f, entries |-> entries]

\* A call to f fails: nobody listens there, or the connection does not hold.
Unreachable(f) == \/ ~Up(f) /\ UNCHANGED budget
                  \/ Up(f) /\ Spend("net")

\* The HA_SYNC frames whose answers n waits for.
Sent(n) ==
    {Frame(reg[o].addr, reg[o].copy) : o \in {p \in Origins : reg[p].at = n /\ reg[p].step = "syncing"}}
    \cup {Frame(f, <<start[n].entry>>) :
            f \in {g \in Nodes : /\ start[n].step = "pushing" /\ start[n].left # <<>>
                                 /\ g = Head(start[n].left)}}

\* The worker of n ends and with it the channel; its last write may be cut.
WorkerEnds(n) ==
    \/ /\ log' = [log EXCEPT ![n] = Prefix(n, file[n])]
       /\ UNCHANGED <<file, lines, damaged>>
    \/ /\ file[n] < Len(log[n])
       /\ log' = [log EXCEPT ![n] = Prefix(n, file[n] + 1)]
       /\ file' = [file EXCEPT ![n] = @ + 1]
       /\ \E cut \in Cuts : lines' = [lines EXCEPT ![n] = AppendBytes(@, file'[n], cut, FALSE)]
       /\ damaged' = TRUE

\* The process of n ends, with r as the registrations it leaves behind: the
\* ones it was serving break off, the calls it made are no longer waited for,
\* the frames it sent may still arrive, those on their way to it do not.
End(n, r) ==
    LET mine(t) == \/ t = <<"beat", n>>
                   \/ t[1] = "reg" /\ r[t[2]].at = n /\ r[t[2]].step = "beating"
        broken(o) == r[o].at = n /\ r[o].step \notin {"none", "done", "accepted", "refused"}
    IN  /\ main' = [main EXCEPT ![n] = "down"]
        /\ start' = [start EXCEPT ![n] = NoStart]
        /\ beat' = [beat EXCEPT ![n] = NoBeat]
        /\ ha' = [m \in Nodes |-> IF m = n THEN <<>>
                                  ELSE Part(ha[m], {i \in DOMAIN ha[m] : ~mine(ha[m][i])})]
        /\ followers' = [followers EXCEPT ![n] = <<>>]
        /\ misses' = [misses EXCEPT ![n] = [f \in Nodes |-> 0]]
        /\ reg' = [o \in Origins |->
                      CASE ~broken(o) -> r[o]
                        [] broken(o) /\ o \in Nodes -> [r[o] EXCEPT !.step = "refused"]
                        [] broken(o) /\ o \notin Nodes -> [NoReg EXCEPT !.step = "done"]]
        /\ mem' = [mem EXCEPT ![n] = EmptyStore]
        /\ WorkerEnds(n)
        /\ \E late \in SUBSET Sent(n) :
              stray' = {fr \in stray \cup late : fr.to # n /\ Up(fr.to)}
        /\ events' = [events EXCEPT ![n] = <<>>]
        /\ pending' = (pending /\ n # Writer)
        /\ pushed' = pushed \ {n}
        /\ failed' = [failed EXCEPT ![n] = [f \in Nodes |-> 0]]
        /\ UNCHANGED <<role, writes>>

Crash(n) ==
    /\ main[n] # "down"
    /\ Spend("crash")
    /\ End(n, reg)

\* main, up to the role; DB::new cannot pass a file that is not readable.
\* Bound: an earlier registration of n has ended.
Boot(n) ==
    /\ main[n] = "down" /\ reg[n].step = "none" /\ Readable(lines[n])
    /\ main' = [main EXCEPT ![n] = IF role[n] \in {"leader", "follower"} THEN "starting"
                                   ELSE "listening"]
    /\ start' = [start EXCEPT ![n].step = IF role[n] = "alone" THEN "none" ELSE "spawned"]
    /\ mem' = [mem EXCEPT ![n] = Replay(Loaded(n, lines[n]))]
    /\ UNCHANGED <<role, beat, ha, followers, misses, reg, log, file, lines, stray, events,
                   pending, hist>>

\* main and the task it spawned queue for the lock in either order.
MainLocks(n) ==
    /\ main[n] = "starting"
    /\ main' = [main EXCEPT ![n] = "locking"]
    /\ ha' = Enter(n, <<"main", n>>)
    /\ UNCHANGED <<role, start, beat, followers, misses, reg, data, pending, hist>>

\* heartbeat_followers spawns its loop; then the server listens.
LeaderMain(n) ==
    /\ main[n] = "locking" /\ role[n] = "leader" /\ Holds(n, <<"main", n>>)
    /\ main' = [main EXCEPT ![n] = "listening"]
    /\ beat' = [beat EXCEPT ![n].step = "ticking"]
    /\ ha' = Release(n)
    /\ UNCHANGED <<role, start, followers, misses, reg, data, pending, hist>>

register_master(n) ==
    LET m == Master[n]
    IN  /\ main[n] = "locking" /\ role[n] = "follower" /\ Holds(n, <<"main", n>>)
        /\ \/ /\ Up(m)
              /\ main' = [main EXCEPT ![n] = "registering"]
              /\ reg' = [reg EXCEPT ![n] = [step |-> "queued", at |-> m, addr |-> n,
                                            copy |-> <<>>]]
              /\ ha' = Enter(m, <<"register", n>>)
              /\ UNCHANGED <<role, start, beat, followers, misses, data, pending, hist>>
           \/ Unreachable(m) /\ End(n, reg)

\* The connection to the master fails before the answer is there.
MasterUnheard(n) ==
    /\ main[n] = "registering"
    /\ Spend("net")
    /\ End(n, reg)

\* main goes on, or expect ends the process.
MasterAnswers(n) ==
    LET r == [reg EXCEPT ![n] = NoReg]
    IN  /\ reg[n].step \in {"accepted", "refused"}
        /\ CASE main[n] # "registering" ->
                  reg' = r /\ UNCHANGED <<boot, start, beat, ha, followers, misses, data,
                                          pending, hist>>
             [] main[n] = "registering" /\ reg[n].step = "refused" ->
                  End(n, r) /\ UNCHANGED budget
             [] OTHER ->
                  /\ main' = [main EXCEPT ![n] = "listening"]
                  /\ ha' = Release(n) /\ reg' = r
                  /\ UNCHANGED <<role, start, beat, followers, misses, data, pending, hist>>
-----------------------------------------------------------------------------
(* HaManager::start, which main runs once *)

StartLocks(n) ==
    /\ start[n].step = "spawned"
    /\ start' = [start EXCEPT ![n].step = "queued"]
    /\ ha' = Enter(n, <<"start", n>>)
    /\ UNCHANGED <<boot, beat, followers, misses, reg, data, pending, hist>>

TakeEvent_ReleasesLock(n) ==
    /\ start[n].step = "queued" /\ Holds(n, <<"start", n>>) /\ events[n] # <<>>
    /\ events' = [events EXCEPT ![n] = Tail(@)]
    /\ start' = [start EXCEPT ![n] = [step |-> "pushing", left |-> followers[n],
                                      entry |-> Head(events[n])]]
    /\ ha' = Release(n)
    /\ UNCHANGED <<boot, beat, followers, misses, reg, mem, log, file, lines, stray, pending,
                   hist>>

\* One event.  It is sent on when the buffer is that small, else kept for ever.
TakeEvent(n) ==
    LET push == BufferSize <= 1
    IN  /\ start[n].step = "queued" /\ Holds(n, <<"start", n>>) /\ events[n] # <<>>
        /\ events' = [events EXCEPT ![n] = Tail(@)]
        /\ start' = [start EXCEPT ![n] =
                        IF push THEN [step |-> "pushing", left |-> followers[n],
                                      entry |-> Head(events[n])]
                        ELSE [NoStart EXCEPT !.step = "done"]]
        /\ ha' = IF push THEN ha ELSE Release(n)
        /\ UNCHANGED <<boot, beat, followers, misses, reg, mem, log, file, lines, stray, pending,
                       hist>>

PushEvent(n) ==
    LET f == Head(start[n].left)
    IN  /\ start[n].step = "pushing" /\ start[n].left # <<>>
        /\ Up(f) /\ ~CopyHeld(f)
        /\ mem' = [mem EXCEPT ![f] = apply_aof(@, <<start[n].entry>>)]
        /\ start' = [start EXCEPT ![n].left = Tail(@)]
        /\ pushed' = pushed \cup {f}
        /\ UNCHANGED <<boot, beat, ha, followers, misses, reg, log, file, lines, stray, events,
                       pending, writes, budget, failed, damaged>>

\* A sync fails: its frame was not sent, or is under way.
Abandon(f, entries) ==
    /\ Unreachable(f)
    /\ \/ UNCHANGED stray
       \/ Up(f) /\ stray' = stray \cup {Frame(f, entries)}

\* All are served, or one failed and the rest are not tried.
StartEnds(n) ==
    /\ start[n].step = "pushing"
    /\ \/ start[n].left = <<>> /\ UNCHANGED <<stray, budget>>
       \/ start[n].left # <<>> /\ Abandon(Head(start[n].left), <<start[n].entry>>)
    /\ start' = [start EXCEPT ![n] = [NoStart EXCEPT !.step = "done"]]
    /\ ha' = Release(n)
    /\ UNCHANGED <<boot, beat, followers, misses, reg, mem, log, file, lines, events, pending,
                   writes, pushed, failed, damaged>>

\* A frame whose sender has given up or is gone is served like any other.
LandStray(fr) ==
    /\ fr \in stray /\ Up(fr.to) /\ ~CopyHeld(fr.to)
    /\ mem' = [mem EXCEPT ![fr.to] = apply_aof(@, fr.entries)]
    /\ stray' = stray \ {fr}
    /\ pushed' = pushed \cup {fr.to}
    /\ UNCHANGED <<boot, start, beat, ha, followers, misses, reg, log, file, lines, events,
                   pending, writes, budget, failed, damaged>>
-----------------------------------------------------------------------------
(* The loop of heartbeat_followers *)

NextBeat(b) == IF Tail(b.left) = <<>> THEN [NoBeat EXCEPT !.step = "ticking"]
               ELSE [step |-> "connecting", left |-> Tail(b.left)]

Tick(n) ==
    /\ beat[n].step = "ticking" /\ followers[n] # <<>>
    /\ beat' = [beat EXCEPT ![n] = [step |-> "connecting", left |-> followers[n]]]
    /\ UNCHANGED <<boot, start, ha, followers, misses, reg, data, pending, hist>>

Fails(n, f) == failed' = [failed EXCEPT ![n][f] = @ + 1]

\* The node is called, or it cannot be reached.
heartbeat_follower(n) ==
    LET f == Head(beat[n].left)
    IN  /\ beat[n].step = "connecting"
        /\ \/ /\ Up(f)
              /\ beat' = [beat EXCEPT ![n].step = "beating"]
              /\ ha' = Enter(f, <<"beat", n>>)
              /\ UNCHANGED <<failed, budget>>
           \/ /\ Unreachable(f)
              /\ beat' = [beat EXCEPT ![n].step = "missed"]
              /\ Fails(n, f)
              /\ UNCHANGED ha
        /\ UNCHANGED <<boot, start, followers, misses, reg, data, pending, writes, pushed,
                       damaged>>

\* A connection with a call in the queue of m fails.  The task over there still
\* waits for its turn, but only to release the lock and to find nobody.
CallLost(m) ==
    /\ \E t \in ToSet(ha[m]) :
        /\ t[1] \in {"beat", "reg"}
        /\ ha' = [ha EXCEPT ![m] = Part(@, {i \in DOMAIN @ : @[i] # t})]
    /\ Spend("net")
    /\ UNCHANGED <<boot, start, beat, followers, misses, reg, data, pending, writes, pushed,
                   failed, damaged>>

\* The loop notices that its call was lost.
BeatBreaks(n) ==
    /\ beat[n].step = "beating" /\ ~Waits(Head(beat[n].left), <<"beat", n>>)
    /\ beat' = [beat EXCEPT ![n].step = "missed"]
    /\ Fails(n, Head(beat[n].left))
    /\ UNCHANGED <<boot, start, ha, followers, misses, reg, data, pending, writes, budget,
                   pushed, damaged>>

\* Mutated form: a follower that is dropped keeps its count.
CountMiss_KeepsCount(n) ==
    LET f    == Head(beat[n].left)
        last == misses[n][f] >= 3
    IN  /\ beat[n].step = "missed" /\ (last => start[n].step # "pushing")
        /\ misses' = [misses EXCEPT ![n][f] = IF last THEN @ ELSE @ + 1]
        /\ failed' = IF last THEN [failed EXCEPT ![n][f] = 0] ELSE failed
        /\ followers' = IF last THEN [followers EXCEPT ![n] = Part(@, {i \in DOMAIN @ : @[i] # f})]
                        ELSE followers
        /\ beat' = [beat EXCEPT ![n] = NextBeat(@)]
        /\ UNCHANGED <<boot, start, ha, reg, data, pending, writes, budget, pushed, damaged>>

\* The fourth miss drops every entry of the follower; start keeps the list
\* locked while it sends.
CountMiss(n) ==
    LET f    == Head(beat[n].left)
        last == misses[n][f] >= 3
    IN  /\ beat[n].step = "missed" /\ (last => start[n].step # "pushing")
        /\ misses' = [misses EXCEPT ![n][f] = IF last THEN 0 ELSE @ + 1]
        /\ failed' = IF last THEN [failed EXCEPT ![n][f] = 0] ELSE failed
        /\ followers' = IF last THEN [followers EXCEPT ![n] = Part(@, {i \in DOMAIN @ : @[i] # f})]
                        ELSE followers
        /\ beat' = [beat EXCEPT ![n] = NextBeat(@)]
        /\ UNCHANGED <<boot, start, ha, reg, data, pending, writes, budget, pushed, damaged>>

\* HaHeartBeat of the leader's loop, which returns at the first answer.
AckBeat(m, n) ==
    /\ Holds(m, <<"beat", n>>)
    /\ ha' = Release(m)
    /\ beat' = [beat EXCEPT ![n] = [NoBeat EXCEPT !.step = "done"]]
    /\ UNCHANGED <<boot, start, followers, misses, reg, data, pending, hist>>
-----------------------------------------------------------------------------
(* HaRegisterFollower *)

\* A client of node m names the address of node a.
AskRegister(o) ==
    /\ reg[o].step = "none"
    /\ \E m, a \in Nodes :
        /\ <<m, a>> \in Addresses[o] /\ Up(m)
        /\ reg' = [reg EXCEPT ![o] = [step |-> "queued", at |-> m, addr |-> a, copy |-> <<>>]]
        /\ ha' = Enter(m, <<"register", o>>)
    /\ UNCHANGED <<boot, start, beat, followers, misses, data, pending, hist>>

\* The registration of o ends and its answer is sent.
Answer(o, ok) ==
    /\ ha' = Release(reg[o].at)
    /\ reg' = [reg EXCEPT ![o] = IF o \in Nodes
                                 THEN [@ EXCEPT !.step = IF ok THEN "accepted" ELSE "refused"]
                                 ELSE [NoReg EXCEPT !.step = "done"]]

register_follower(o) ==
    LET a == reg[o].addr
    IN  /\ reg[o].step = "queued" /\ Holds(reg[o].at, <<"register", o>>)
        /\ \/ /\ Up(a)
              /\ ha' = Enter(a, <<"reg", o>>)
              /\ reg' = [reg EXCEPT ![o].step = "beating"]
              /\ UNCHANGED budget
           \/ Unreachable(a) /\ Answer(o, FALSE)
        /\ UNCHANGED <<boot, start, beat, followers, misses, data, pending, writes, pushed,
                       failed, damaged>>

\* The call of the registration was lost.
RegisterBreaks(o) ==
    /\ reg[o].step = "beating" /\ ~Waits(reg[o].addr, <<"reg", o>>)
    /\ Answer(o, FALSE)
    /\ UNCHANGED <<boot, start, beat, followers, misses, data, pending, hist>>

\* HaHeartBeat of a registration.
AckRegister(m, o) ==
    /\ Holds(m, <<"reg", o>>)
    /\ ha' = Release(m)
    /\ reg' = [reg EXCEPT ![o].step = "listing"]
    /\ UNCHANGED <<boot, start, beat, followers, misses, data, pending, hist>>

\* The follower is listed, once more if it was before; then the database is
\* locked for the copy, which is read from the lines that are there.
ListFollower(o) ==
    /\ reg[o].step = "listing"
    /\ followers' = [followers EXCEPT ![reg[o].at] = Append(@, reg[o].addr)]
    /\ reg' = [reg EXCEPT ![o].step = "copying", ![o].copy = lines[reg[o].at]]
    /\ UNCHANGED <<boot, start, beat, ha, misses, data, pending, hist>>

get_aof_copy_FromSecond(n, torn) ==
    Loaded(n, Part(lines[n], 2 .. Len(lines[n]) \ torn))

\* load_aof, up to the end of the file, without the lines it met half written.
get_aof_copy(n, torn) == Loaded(n, Part(lines[n], 1 .. Len(lines[n]) \ torn))

\* The worker goes on while the file is read line by line: a line that was not
\* there before may be read in two halves, neither of which is an entry.
TakeCopy(o) ==
    LET m == reg[o].at
    IN  /\ reg[o].step = "copying" /\ Readable(lines[m])
        /\ \E torn \in SUBSET (Len(reg[o].copy) + 1 .. Len(lines[m])) :
            LET copy == get_aof_copy(m, torn)
            IN  /\ IF copy = <<>> THEN Answer(o, TRUE)
                   ELSE /\ reg' = [reg EXCEPT ![o].step = "syncing", ![o].copy = copy]
                        /\ UNCHANGED ha
                /\ damaged' = (damaged \/ torn # {})
                /\ IF torn = {} THEN UNCHANGED budget ELSE Spend("disk")
        /\ UNCHANGED <<boot, start, beat, followers, misses, data, pending, writes, pushed,
                       failed>>

\* The file cannot be read; the follower stays listed.
CopyFails(o) ==
    /\ reg[o].step = "copying"
    /\ IF Readable(lines[reg[o].at]) THEN Spend("disk") ELSE UNCHANGED budget
    /\ Answer(o, FALSE)
    /\ UNCHANGED <<boot, start, beat, followers, misses, data, pending, writes, pushed, failed,
                   damaged>>

sync_follower(o) ==
    LET f == reg[o].addr
    IN  /\ reg[o].step = "syncing" /\ Up(f) /\ ~CopyHeld(f)
        /\ mem' = [mem EXCEPT ![f] = apply_aof(@, reg[o].copy)]
        /\ Answer(o, TRUE)
        /\ UNCHANGED <<boot, start, beat, followers, misses, log, file, lines, stray, events,
                       pending, hist>>

\* The error is printed, no more.
SyncFails(o) ==
    /\ reg[o].step = "syncing"
    /\ Abandon(reg[o].addr, reg[o].copy)
    /\ Answer(o, TRUE)
    /\ UNCHANGED <<boot, start, beat, followers, misses, mem, log, file, lines, events, pending,
                   writes, pushed, failed, damaged>>
-----------------------------------------------------------------------------
(* Clients of the database *)

AskWrite ==
    /\ Up(Writer) /\ ~pending /\ writes < Len(Script)
    /\ Spend("write")
    /\ pending' = TRUE /\ writes' = writes + 1
    /\ UNCHANGED <<boot, start, beat, ha, followers, misses, reg, data, pushed, failed,
                   damaged>>

\* A write that succeeds is logged and sent to the HaManager; kv_flush is only
\* sent.
Write ==
    LET c == Script[writes]
        r == Exec(mem[Writer], c)
    IN  /\ pending /\ ~CopyHeld(Writer)
        /\ pending' = FALSE
        /\ mem' = [mem EXCEPT ![Writer] = r.store]
        /\ log' = [log EXCEPT ![Writer] =
                      IF r.ok /\ c.op \notin {"KvFlush", "ListLen"} THEN Append(@, c) ELSE @]
        /\ events' = [events EXCEPT ![Writer] = IF r.ok /\ c.op # "ListLen" THEN Append(@, c) ELSE @]
        /\ UNCHANGED <<boot, start, beat, ha, followers, misses, reg, file, lines, stray, hist>>

\* aof_worker takes one more entry and writes its line; write_all may fail after
\* none or some of the bytes, which nobody learns.
aof_worker(n) ==
    /\ main[n] # "down" /\ file[n] < Len(log[n])
    /\ file' = [file EXCEPT ![n] = @ + 1]
    /\ \/ /\ lines' = [lines EXCEPT ![n] = AppendBytes(@, file'[n], "entry", TRUE)]
          /\ UNCHANGED <<damaged, budget>>
       \/ /\ \/ UNCHANGED lines
             \/ \E cut \in Cuts :
                   lines' = [lines EXCEPT ![n] = AppendBytes(@, file'[n], cut, FALSE)]
          /\ damaged' = TRUE /\ Spend("disk")
    /\ UNCHANGED <<boot, start, beat, ha, followers, misses, reg, mem, log, stray, events,
                   pending, writes, pushed, failed>>
-----------------------------------------------------------------------------
BootStep(n)  == \/ MainLocks(n) \/ LeaderMain(n) \/ register_master(n)
                \/ MasterUnheard(n) \/ MasterAnswers(n)
StartStep(n) == StartLocks(n) \/ TakeEvent(n) \/ PushEvent(n) \/ StartEnds(n)
BeatStep(n)  == Tick(n) \/ heartbeat_follower(n) \/ BeatBreaks(n) \/ CountMiss(n)
RegStep(o)   == \/ register_follower(o) \/ RegisterBreaks(o) \/ ListFollower(o)
                \/ TakeCopy(o) \/ CopyFails(o) \/ sync_follower(o) \/ SyncFails(o)
AckStep(m)   == \/ \E n \in Nodes : AckBeat(m, n)
                \/ \E o \in Origins : AckRegister(m, o)

Next ==
    \/ \E n \in Nodes : \/ Boot(n) \/ BootStep(n) \/ StartStep(n) \/ BeatStep(n)
                        \/ Crash(n) \/ aof_worker(n) \/ CallLost(n)
    \/ \E o \in Registrars : AskRegister(o)
    \/ \E o \in Origins : RegStep(o)
    \/ \E m \in Nodes : AckStep(m)
    \/ \E fr \in stray : LandStray(fr)
    \/ AskWrite \/ Write

\* main runs when it can, the lock being handed on in order; so does a task that
\* reads the file, and one that has a write to make.  Nobody has to start a
\* node, to ask for anything, to answer a call or to crash.
Fairness ==
    /\ \A n \in Nodes : WF_vars(MainLocks(n) \/ LeaderMain(n))
    /\ \A o \in Origins : WF_vars(TakeCopy(o) \/ CopyFails(o))
    /\ WF_vars(Write)

Spec == Init /\ [][Next]_vars /\ Fairness
-----------------------------------------------------------------------------
\* The queues hold every task at most once, and only tasks that wait: main and
\* start of the node, registrations at the node, calls that name the node.  A
\* registration that has got past its place holds the lock of its node.
TypeOK ==
    /\ \A n \in Nodes :
        /\ main[n] \in {"down", "starting", "locking", "registering", "listening"}
        /\ file[n] \in 0 .. Len(log[n]) /\ \A f \in Nodes : misses[n][f] \in 0 .. 3
        /\ IsInjective(ha[n])
        /\ \A t \in ToSet(ha[n]) :
            \/ t = <<"main", n>> /\ main[n] \in {"locking", "registering"}
            \/ t = <<"start", n>> /\ start[n].step \in {"queued", "pushing"}
            \/ t[1] = "register" /\ reg[t[2]].at = n
            \/ t[1] = "reg" /\ reg[t[2]].addr = n /\ reg[t[2]].step = "beating"
            \/ t[1] = "beat" /\ beat[t[2]].step = "beating" /\ Head(beat[t[2]].left) = n
        /\ start[n].step = "pushing" => Holds(n, <<"start", n>>)
    /\ \A o \in Origins :
        reg[o].step \in {"beating", "listing", "copying", "syncing"} =>
            Holds(reg[o].at, <<"register", o>>)

\* A leader strikes a node off its list only after four of its calls to that
\* node have failed since it did so last: a node that answers late, because its
\* lock is taken for as long as its start waits for a write or its
\* registrations wait for each other, is kept, and one that was dropped and
\* registered again starts afresh.
OnlyTheUnreachableAreDropped ==
    [][\A n \in Nodes : \A f \in ToSet(followers[n]) \ ToSet(followers'[n]) :
          main'[n] = "down" \/ failed[n][f] >= 4]_vars

\* Some of the elements of t, in their order.
Selection(s, t) ==
    \E at \in [1 .. Len(s) -> 1 .. Len(t)] :
        /\ \A i, j \in 1 .. Len(s) : i < j => at[i] < at[j]
        /\ \A i \in 1 .. Len(s) : s[i] = t[at[i]]

\* What a leader copies to a follower is some of the writes that it logged, in
\* the order it made them: through crashes, failed writes, cut lines and lines
\* read in halves entries may be missing, but none is repeated, invented or
\* overtaken.  And unless an entry was lost in one of these ways, the keys of a
\* node that clients do not write to are those that the first i entries of the
\* writer's log rebuild, for some i: copies may come late, be repeated, fail, or
\* race with writes and crashes, but none is applied in part or out of order.
\* A pushed event or a frame whose sender had given up is another matter: it may
\* be older than the copy before it.
FollowersHoldAPrefix ==
    /\ \A o \in Origins : reg[o].step = "syncing" => Selection(reg[o].copy, log[reg[o].at])
    /\ ~damaged => \A f \in Nodes \ ({Writer} \cup pushed) :
                      \E i \in 0 .. Len(log[Writer]) : mem[f].kv = Replay(Prefix(Writer, i)).kv

\* main waits for the lock that start keeps until the first event; no event can
\* come, since the server does not listen yet.
BlockedByStart(n) == main[n] = "locking" /\ Holds(n, <<"start", n>>)

\* A write is answered even when every HaManager waits for another one, since
\* no lock of a database is held over a call.  A leader comes up unless start
\* got the lock before main.
ClientsAreServed ==
    /\ pending ~> ~pending
    /\ \A n \in Nodes : main[n] = "starting" /\ role[n] = "leader" ~>
                           Up(n) \/ main[n] = "down" \/ BlockedByStart(n)
=============================================================================
