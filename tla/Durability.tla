----------------------------- MODULE Durability -----------------------------
(***************************************************************************)
(* The append-only file: DB's handlers (db.rs) apply a write to its store  *)
(* and queue an entry for it, a worker task (aof.rs) appends the entries   *)
(* to the file, and a restart replays the file, each of the three stores   *)
(* in a task of its own.  A process crash loses the queue and may cut the  *)
(* line being written; the worker goes on after a failed write.            *)
(*                                                                         *)
(* A handler runs under the write lock of the DB, so it is one action.     *)
(***************************************************************************)
EXTENDS Stores, AofFile

CONSTANTS Calls,       \* the calls clients make
          MaxCalls,    \* bound: calls in a behaviour
          MaxCrashes   \* bound: crashes in a behaviour

ASSUME DurabilityAssumption ==
    /\ \A c \in Calls : /\ c.op \in Ops
                        /\ c.op = "ListPopRange" => c.start \in Nat /\ c.end \in Nat
    /\ MaxCalls \in Nat /\ MaxCrashes \in Nat

VARIABLES phase,     \* "up", "down", or "replaying"
          store,     \* the three stores in memory
          chan,      \* AofWriter's channel: entries not yet written
          file,      \* the lines of the append-only file
          todo,      \* during a replay, what each task has yet to apply
          calls, crashes,
          acked,     \* history: how many entries were queued since the first start
          unlogged,  \* history: stores changed by calls that queue no entry
          damaged    \* history: a write failed or was cut since the first start

history == <<acked, unlogged, damaged>>
vars == <<phase, store, chan, file, todo, calls, crashes, history>>

Stores3 == {"kv", "list", "log"}

\* Mutated form: pops are put with the key-value entries.
Category_Misfiled(c) == CASE c.op \in KvOps \cup {"ListPop"} -> "kv"
                          [] c.op \in ListOps \ {"ListPop"} -> "list"
                          [] c.op \in LogOps -> "log"

\* AofEntry::category
Category(c) == CASE c.op \in KvOps -> "kv"
                 [] c.op \in ListOps -> "list"
                 [] c.op \in LogOps -> "log"

Nothing == [s \in Stores3 |-> <<>>]

\* A first start: no file, nothing to replay.
Init == /\ phase = "up"
        /\ store = EmptyStore
        /\ chan = <<>> /\ file = <<>> /\ todo = Nothing
        /\ calls = 0 /\ crashes = 0
        /\ acked = 0 /\ unlogged = {} /\ damaged = FALSE
-----------------------------------------------------------------------------
(* The handlers of db.rs *)

\* Mutated form: log_remove queues no entry either.
Logs_MissesRemove(c) == c.op \notin {"KvFlush", "ListLen", "LogRemove"}

\* Every write but kv_flush queues an entry; no read does.
Logs(c) == c.op \notin {"KvFlush", "ListLen"}

\* The calls that may change a store and queue no entry for it.
SlipsBy(c, result) ==
    \/ c.op = "KvFlush"
    \/ ~result.ok /\ c.op \in {"ListPushRange", "ListPopCount", "LogAddRange"}

\* What the handlers have in common: the change, then the entry, in one hold
\* of the lock.  As history, the entry carries what the caller was told and
\* its number in the order in which the stores changed.
Handle(c) ==
    LET result == Exec(store, c)
        queued == IF result.ok /\ Logs(c)
                  THEN <<[call |-> c, told |-> result.reply, nr |-> acked + 1]>> ELSE <<>>
    IN  /\ phase = "up" /\ calls < MaxCalls
        /\ store' = result.store
        /\ chan' = chan \o queued
        /\ acked' = acked + Len(queued)
        /\ unlogged' = IF SlipsBy(c, result) THEN unlogged \cup {Category(c)} ELSE unlogged
        /\ calls' = calls + 1
        /\ UNCHANGED <<phase, file, todo, crashes, damaged>>

HandleKv(c)   == c.op \in KvOps /\ Handle(c)
HandleLog(c)  == c.op \in LogOps /\ Handle(c)
HandleList(c) == c.op \in ListOps /\ Handle(c)
-----------------------------------------------------------------------------
(* aof_worker: one entry, one line *)

\* Mutated forms: the newest entry first; a worker that a failed write ends.
WriteEntry_Newest == /\ phase = "up" /\ chan # <<>>
                     /\ file' = AppendBytes(file, Last(chan), "entry", TRUE)
                     /\ chan' = Front(chan)
                     /\ UNCHANGED <<phase, store, todo, calls, crashes, history>>

WriteEntry_Gone == /\ phase = "up" /\ chan # <<>> /\ ~damaged
                   /\ file' = AppendBytes(file, Head(chan), "entry", TRUE)
                   /\ chan' = Tail(chan)
                   /\ UNCHANGED <<phase, store, todo, calls, crashes, history>>

WriteEntry == /\ phase = "up" /\ chan # <<>>
              /\ file' = AppendBytes(file, Head(chan), "entry", TRUE)
              /\ chan' = Tail(chan)
              /\ UNCHANGED <<phase, store, todo, calls, crashes, history>>

\* let _ = file.write_all(...): the entry is gone, or some of its bytes are.
WriteFails == /\ phase = "up" /\ chan # <<>>
              /\ \/ file' = file
                 \/ \E cut \in Cuts : file' = AppendBytes(file, Head(chan), cut, FALSE)
              /\ chan' = Tail(chan)
              /\ damaged' = TRUE
              /\ UNCHANGED <<phase, store, todo, calls, crashes, acked, unlogged>>
-----------------------------------------------------------------------------
(* Crash and restart *)

Crash == /\ phase # "down" /\ crashes < MaxCrashes
         /\ \/ UNCHANGED <<file, damaged>>
            \/ /\ chan # <<>>
               /\ \E cut \in Cuts : file' = AppendBytes(file, Head(chan), cut, FALSE)
               /\ damaged' = TRUE
         /\ phase' = "down"
         /\ store' = EmptyStore /\ chan' = <<>> /\ todo' = Nothing
         /\ unlogged' = {}
         /\ crashes' = crashes + 1
         /\ UNCHANGED <<calls, acked>>

\* The entries that a load pushes to one of the three vectors.
EntriesOf(s, entries) ==
    Part(entries, {i \in DOMAIN entries : Category(entries[i].call) = s})

LoadAof == /\ phase = "down" /\ Readable(file)
           /\ phase' = "replaying"
           /\ todo' = [s \in Stores3 |-> EntriesOf(s, Entries(file))]
           /\ UNCHANGED <<store, chan, file, calls, crashes, history>>

\* next_line returns an error and DB::new panics; so will the next start.
LoadPanics == phase = "down" /\ ~Readable(file) /\ UNCHANGED vars

\* One of the three tasks applies its next entry; the outcome is ignored.
ApplyNext(s) == /\ phase = "replaying" /\ todo[s] # <<>>
                /\ store' = Exec(store, Head(todo[s]).call).store
                /\ todo' = [todo EXCEPT ![s] = Tail(@)]
                /\ UNCHANGED <<phase, chan, file, calls, crashes, history>>

ReplayDone == /\ phase = "replaying" /\ todo = Nothing
              /\ phase' = "up"
              /\ UNCHANGED <<store, chan, file, todo, calls, crashes, history>>

Next == \/ \E c \in Calls : HandleKv(c) \/ HandleLog(c) \/ HandleList(c)
        \/ WriteEntry
        \/ WriteFails
        \/ Crash
        \/ LoadAof
        \/ LoadPanics
        \/ \E s \in Stores3 : ApplyNext(s)
        \/ ReplayDone

\* The worker's loop runs while the process does, a crashed server is started
\* again, and the runtime polls the three replay tasks.
Fairness == /\ WF_vars(WriteEntry)
            /\ WF_vars(LoadAof)
            /\ \A s \in Stores3 : WF_vars(ApplyNext(s))
            /\ WF_vars(ReplayDone)

Spec == Init /\ [][Next]_vars /\ Fairness
-----------------------------------------------------------------------------
(* Properties *)

\* One task applying entries to a store in the order of the log.
ReplayOn(st, entries) ==
    LET after[n \in 0 .. Len(entries)] ==
            IF n = 0 THEN st ELSE Exec(after[n - 1], entries[n].call).store
    IN  after[Len(entries)]

Replay(entries) == ReplayOn(EmptyStore, entries)

\* Everything the log will hold once the worker has caught up.
Logged == Entries(file) \o chan

\* The types of the variables.
TypeOK ==
    /\ phase \in {"up", "down", "replaying"}
    /\ calls \in 0 .. MaxCalls /\ crashes \in 0 .. MaxCrashes
    /\ \A i \in DOMAIN chan : chan[i].call \in Calls
    /\ \A i \in DOMAIN file : /\ file[i].text \in Cuts
                              /\ ~file[i].ended => i = Len(file)
    /\ \A s \in Stores3 : \A i \in DOMAIN todo[s] : Category(todo[s][i].call) = s
    /\ unlogged \subseteq Stores3

\* Writes are never invented, duplicated or reordered: through crashes, cut
\* lines and failed writes, what the log holds is a subsequence of the writes
\* in the order in which the stores took effect.
LogKeepsTheOrder ==
    /\ \A i, j \in 1 .. Len(Logged) : i < j => Logged[i].nr < Logged[j].nr
    /\ \A i \in 1 .. Len(Logged) : Logged[i].nr <= acked

\* Memory and log agree: as long as no write was cut or lost, each store holds
\* what a replay of the log would rebuild, unless the calls that are known to
\* bypass the log (kv_flush; a range that fails half way) touched that store.
MemoryIsTheReplay ==
    phase = "up" /\ ~damaged =>
        \A s \in Stores3 \ unlogged : Contents(store)[s] = Contents(Replay(Logged))[s]

\* The three replay tasks may interleave in any way: when they are done the
\* stores are what one task applying the file in order would have built.
ReplayIsSequential ==
    [][phase = "replaying" /\ phase' = "up" => store' = Replay(Entries(file))]_vars

\* A restart comes to an end: corrupt lines are skipped and no replay task
\* waits for another.  (Only a line that is not UTF-8 keeps the server down.)
RestartEnds ==
    (phase # "up" /\ \A i \in DOMAIN file : file[i].text # "poison") ~> phase = "up"

\* Every queued entry leaves the channel: the worker survives failed writes.
QueueDrains == chan # <<>> ~> chan = <<>>

\* README: "On startup the DB replays this log to rebuild state."  Without any
\* crash or failed write, what the log rebuilds for a database is that database.
ReplayRebuildsKv ==
    phase = "up" /\ ~damaged => Replay(Logged).kv = store.kv

\* README, same sentence: a replayed call returns what its caller was told, so
\* ids that clients hold and items that they popped are the ones rebuilt.
ReplayRepeatsReplies ==
    ~damaged => \A i \in 1 .. Len(Logged) :
        Exec(Replay(SubSeq(Logged, 1, i - 1)), Logged[i].call).reply = Logged[i].told
=============================================================================
