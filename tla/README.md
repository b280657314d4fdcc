# mem-stream in TLA+

A verification project for the segmented in-memory storage server (`server/`) and its
client (`client/`). Each TLA+ module is written from the Rust source; `PROJECT.json`
says which lines every definition stands for. TLC checks small instances, and TLAPS proves every
safety property that a passing run checks for all instances.

## 1. The system

| part | state | operations | interacts with |
|---|---|---|---|
| `SegLog` (seg_log.rs) | segments of raw memory, active segment and cursor, `BTreeMap` index, next id, counter | `append`, `read`, `read_range`, `get_raw_entry_slice`, `trim` | owned by a group |
| `SegList` (seg_list.rs) | per key a vector of segment pointers, a pool of free segments | `push`, `push_range`, `pop`, `pop_count`, `pop_range`, `len`, `flush` | owned by `DB` |
| `KvStore` (kv.rs) | databases of keys with value, expiry time, use count | `set` (evicts at 1024 keys), `get` (expires lazily), `del`, `keys`, `flush` | owned by `DB` |
| groups and cache (groups.rs, lru.rs) | named logs, each with an LRU cache of entries (100 000, 30 s) | create, drop, add, add_range, read, read_range, remove | owned by `DB` |
| `DB` and the append-only file (db.rs, aof.rs) | the three stores, a channel of entries, the file | a handler per command; the file worker; load and replay at start | server, pipelines, replication |
| pipelines (pipeline.rs) | queue of jobs, lock counters per store, a `Notify` | start, end; dispatcher task; one task per job | `DB` |
| replication (ha.rs, main.rs) | follower list, event buffer, failure counts | register, heartbeat, send events | `DB`'s event channel, server |
| server and wire format (server.rs, codec.rs, proto.rs) | a task per connection | parse, dispatch, answer | all of the above |
| client (client.rs, pool.rs, api/) | pool of connections behind a channel | acquire, release, discard, HTTP handlers | server |

`DB` is behind one `RwLock` and every command takes it for writing, so handlers never
interleave. What runs beside them: the file worker, pipeline tasks, replay
tasks, the replication tasks and every connection. What is hard here:

* raw memory: an index, a cursor and the bytes must agree after any mixture of rollovers,
  trims and failed allocations;
* partial failure: a range call that fails half way keeps what it did;
* durability: the caller is answered before the file has the entry, the file can end in a
  cut line, failed writes are ignored, and the replay runs in three tasks;
* wake-ups: pipeline jobs wait on a notification that can be missed;
* replication and the client pool: lost peers, cancelled requests, startup order.

The properties each part needs: `SegLog`, entries read back as given until trimmed, ids never
reused; `SegList`, FIFO per key, no segment shared, none lost but where a grow runs dry; file, what a restart rebuilds
is what was acknowledged, in order; cache, never serves what the log does not hold;
pipelines, exclusion per store and every job ends; replication, a follower holds a prefix of
the leader's log as long as the file lost nothing; pool, a connection has one user and answers belong to their request.
`PROJECT.json` lists the places where these can go wrong as hazards, each with its line.

## 2. Modules

| module | models | checked by |
|---|---|---|
| `AbstractLog` | what a log promises | target of `SegLog` |
| `SegLog` | seg_log.rs | run `seglog`, proofs |
| `SegLogProofs` | theorems about `SegLog` | TLAPS |
| `AbstractList` | what the list store promises | target of `SegList` |
| `SegList` | seg_list.rs | runs `seglist`, `seglist_pop_count`, proofs |
| `SegListProofs` | theorems about `SegList` | TLAPS |
| `Stores` | what each write does to the stores as seen through their interfaces | through `Durability`, `Groups`, `Replication` |
| `Parts` | loops that keep some elements of a sequence | through `Durability`, `Groups`, `Replication` |
| `AofFile` | the lines of the append-only file: appending, cutting, loading | through `Durability`, `Replication` |
| `Durability` | the handlers of db.rs, the worker and loader of aof.rs, crashes | runs `durability`, `durability_flush`, `durability_replies`, proofs |
| `DurabilityProofs` | theorems about `Durability` | TLAPS |
| `Pipeline` | pipeline.rs | runs `pipeline`, `pipeline_ends`, `pipeline_atomic`, proofs |
| `PipelineProofs` | theorems about `Pipeline` | TLAPS |
| `Lru` | lru.rs, and the queue it stands for | through `Groups` |
| `Groups` | groups.rs over `Stores` and `Lru` | run `groups`, proofs |
| `GroupsProofs` | theorems about `Groups` and its cache | TLAPS |
| `Wire` | the frames of client.rs and proto.rs, each end by itself | through `Client` |
| `Client` | pool.rs, the calls of client.rs, handlers.rs, the connection loop of server.rs | run `client`, proofs |
| `ClientProofs` | theorems about `Client` | TLAPS |
| `Replication` | ha.rs, main.rs, the HA commands of server.rs, `apply_aof` | run `replication`, proofs |
| `ReplicationProofs` | theorems about `Replication` | TLAPS |
| `ProofLemmas` | facts about numbers and sequences the proofs share | TLAPS |
| `MC...` | instances | |

Definitions called `X_Something` next to a definition `X` are mutated forms of it, each a
plausible bug. Replacing `X` by one must make TLC refute the property that `PROJECT.json`
pairs it with; nothing else uses them.

### SegLog

Memory is a function from segment number and word to a number. The three header fields take
one word each, so `HEADER_SIZE` is 3, and each payload byte takes one. This keeps what
the code can get wrong (offsets, lengths, overlaps, zeroing) and drops byte order. `append`
is `AppendEntry`, with one disjunct per way it ends: `RejectTooLarge`, `AppendHere`,
`AppendToNext`, `AppendGrows`, `AllocateFails` (limit or null pointer), `AppendPanics`.
`AllocateFails` keeps the code's order: the cursor moves before the allocation is tried. The
`try_lock` in `append` cannot fail, because `append` has `&mut self`. `reply` is what the
last call returned. `read_range` is `Read` over an interval of the index and has no
definition of its own.

A panic at the out-of-bounds index leaves the log as it is: tokio's locks are not poisoned,
so the next request reaches the same log. `FailedAllocationIsFinal` states the consequence.

### SegList

A segment is a number, and its memory is the payload its length field and bytes spell, so
zeroed memory is the empty payload. The code's loops (`push_range`, `pop_count`, the
return of drained segments) are recursive functions `after`, where `after[i]` is the call in
progress after `i` rounds, an outcome included: a round behind an error does nothing, so
the effects before an error stay.
`CAPACITY` is the number of segments the allocator gives. `grow_segs` asks for one segment after
the other and panics at the first null, and the segments it was given before that go down with its
local vector: they count as allocated and are at no place. A panic in `drain` (start past end)
changes nothing.

`AbstractList` has an action for each call, which says what that call does to a queue and what it
answers: `Pop` the oldest item, `PopCount` the oldest ones in order, `PopRange` the ones at its
indices, and so on. A `pop` that took the newest item is not a step of it. That is the code's order
(`segs.remove(0)`) and that of its test `test_full_cycle`, while src/README.md:23 calls the list
"stack-like"; the word may mean the names of the calls, so it is noted here and is no finding.

### Stores and Durability

`Stores` gives every write as a function from a store and a call to the next store, the
outcome and the reply, at the level of `AbstractList` and `AbstractLog`; a call is a record
like an `AofEntry`. TTL, eviction and memory exhaustion are not in it.

In `Durability` a handler is one action (`HandleKv`, `HandleLog`, `HandleList`): change
the store, and if that succeeded queue an entry, which `kv_flush` does not do. `WriteEntry` and
`WriteFails` are the worker. `Crash` drops memory and the channel and may leave a part of the
line being written: everything but its newline, a part that is no entry, or a part that ends
inside a character. Bytes appended later continue such a line (`AppendBytes`, in `AofFile`). `LoadAof` skips
corrupt lines and sorts entries by category, `LoadPanics` is the start that meets a line that
is not UTF-8, `ApplyNext` is one step of one of the three replay tasks. `acked`, `unlogged`
and `damaged` are history variables, as are the fields `told` and `nr` of an entry; no guard
reads them. `Crash` is a process crash: what was written to the file stays (no power failure).

### Pipeline

A pipeline is its id, and `stage` says where its job is: being built by a client (`open`,
`held` while a clone from `get` is out), in the channel (`sent`), in the queue (`queued`), or
in its task: about to try the locks (`checking`), refused and not yet waiting (`refused`), in
the `Notify` (`waiting`), holding its locks (`locked`), holding the database too (`running`),
done (`executed`), with the locks released and the waiters not yet notified (`released`).
Steps are cut where another thread can come between: the code releases the state lock before
it calls `notified()`, and between `release` and `notify_waiters`. Receiving a job, inserting
it and `notify_one` are one step because only the dispatcher touches the queue.

`Notify` is external (tokio): `notify_one` wakes the oldest waiter or stores one permit,
`notify_waiters` wakes those waiting now and stores nothing, `notified().await` takes the permit
or waits. `DbFree` is the database's `RwLock`. A command succeeds, fails or panics, as its
kind can: `KvSet` and `KvFlush` do neither, only the two that allocate panic. `DirectCommand`
stands for requests outside any pipeline. What commands do to the stores is in `Stores`.
The manager is never dropped in the server, so the dispatcher's exit is not modelled. A client
that drops the future of `end()` after it sent the job changes nothing: `done.send` ignores it.

### Groups and Lru

`Lru` keeps the code's arrays: slots with `prev` and `next`, a stack of free slots, a map from key
to slot, `head` and `tail`. Each method is an operator from a cache to a cache, built from
`detach`, `attach_front` and `alloc_slot` as in lru.rs. Slots count from 1 so that `NULL` can be 0
(the code uses `usize::MAX`), and `reverse`, which the code always writes together with
`entries`, is the field `key` of a slot. `Recency`, `QueueInsert` and `QueueGet` are the same cache
without links.

`Groups` has one action per operation of groups.rs. The log of a group is that of `Stores`, so a
batch that fails half way keeps its first entries, here in the cache too. Ids have `Width` bits,
which makes `end - start + 1` of `read_range` wrap around as it does in a release build (a debug build
panics there). `RangePanics` says when the call panics: the length is larger than a vector can be, or
the range is reversed and reaches the log, where `BTreeMap::range` panics (`LogRangePanics`). The
exception is start = end + 1, whose length is 0 and which the cache answers with nothing. A call that
panics has looked up no id and is not a step. A `BTreeMap` that never held an entry may let a reversed
range pass; the model panics there too. `Tick` is the clock.
`build_key` hashes name and id to 64 bits and the cache keeps only the hash; two ids of one
group are taken to have different hashes.

### Wire and Client

The two ends share no code, so `Wire` writes the protocol down twice: `Requests` and `Decode` from
client.rs, `Arms` and `Replies` from proto.rs and server.rs. A frame is an opcode and typed
fields. When the ends disagree about the fields of an opcode, `Parses` gives what may happen: an
error, or a command with garbage for arguments.

In `Client` a handler goes from `idle` to `locking` (the mutex on the receiving end of the channel),
`receiving`, `ready` (it has a connection), `sent` and `done`. `link` has both ends of every
connection: who holds the client's end, whether the server's end is open, frames and answers under
way. Drop of a `PooledClient` is `GiveBack`, part of every action that lets a connection go.
`is_alive` reads into an empty buffer, which is no reliable test: `Aliveness` is a choice where the
runtime may or may not have noticed something on the socket. `Cancel` is the HTTP client going
away, which drops the handler's future where it waits. `Stop` and `Restart` are the server process.
The server answers the frames of one connection in order (`HangUp`, `RejectFrame`,
`HandleCommand`). `HangUp` is a frame that is too large and a command that panics, as those of
`MayPanic` can: out of memory in an append or a push, a reversed range, a sync that does not decode. `ran`, `answer` and the flags `stray` are history variables.

### Replication

The `HaManager` of a node is behind one fair lock, and its holders keep it over network calls. `ha[n]`
is the queue for it, so a heartbeat under way is a place in the callee's queue, and deadlock
across nodes is visible. `Boot` to `MasterAnswers` are main by role, `StartLocks` to `StartEnds` the
one call of `start`, `Tick` to `AckBeat` the heartbeat loop, `AskRegister` to `SyncFails` a
registration, cut at every await: the heartbeat to the new follower, the entry in the list, the
copy of the file under the database's lock, the sync. A follower applies only key-value entries,
because `apply_aof` never awaits the others.

The network. Any call can fail, at the connect or later, whether or not the node called is up
(`Unreachable`, `CallLost`, `MasterUnheard`, `Abandon`); ha.rs:98 counts every such error as a miss. A
heartbeat whose connection fails leaves the queue of the callee: its task would only take and
release the lock. A sync frame that was sent before the failure, or by a node that then crashed, is
in `stray` and may be served later (`LandStray`). `stray` is a set, so two equal frames under way to one
node count as one. A sync can fail for reasons on the node itself too, such as a copy beyond the
frame limit; for the sender that is the same failure, only printed.

The file. `lines[n]` is the file of `AofFile` with places in `log[n]` for entries, `file[n]` how many
entries the worker has taken. A write may fail after none or some of its bytes (`aof_worker`), a crash may
cut the line being written (`WorkerEnds`), the next entry then continues that line, and a file with a line
that is not UTF-8 keeps the node from booting (`Boot`) and its copies from being made (`CopyFails`).
`TakeCopy` reads the lines that were there when the copy began and those the worker has added since, of which
any may have been read in halves and be skipped (`torn`). In the code that takes a read that reaches
the end of the file within a line; the model allows it of every new line.

`damaged` (an entry was lost, cut or torn), `pushed` (a node took an event or a stray frame) and `failed`
(calls of a leader to a follower that failed since it last dropped it) are history variables.

## 3. Runs

| run | result | instance |
|---|---|---|
| `seglog` | holds | 3 segments of 7 words, 2 at the start; payloads of 0, 1, 4 and 5 words; 5 ids |
| `seglist` | holds | 2 keys; a payload, the empty one and an oversized one; pool of 2 that grows by 2, allocator of 5; ranges of 2, lists of 2; keys symmetric |
| `durability` | holds | 16 calls on one key, list and group, behaviours of 3 calls and 2 crashes |
| `pipeline` | holds | 3 pipelines, one that conflicts with both others; channel of 1; 1 direct command |
| `groups` | holds | 1 group, dropped and created again; cache of 3 with lifetime 1; 4 ids, clock to 3; ids of 3 bits, vectors of up to 5 |
| `client` | holds | 2 requests, one for any of the 21 methods, one for a get; pool of 1, 4 connections; 2 stops of the server, 1 cancelled request |
| `replication` | holds | a leader and a second node, independent or configured as its follower; 2 registrations; event buffer of 1; budgets of faults and writes, see below |
| `seglist_pop_count` | refuted | as `seglist`, one key |
| `durability_flush` | refuted | the key-value calls |
| `durability_replies` | refuted | the log calls |
| `pipeline_ends` | refuted | 2 pipelines on one store, no command can fail |
| `pipeline_atomic` | refuted | 1 pipeline with a second command that can fail |

`seglog`: seven words hold 3 + 4 exactly, 4 + 4 misses by one, 7 fills a segment alone and 8
is too large, so each boundary of the rollover test happens; five entries are enough to use
and exhaust three segments. TLC shows the index is a contiguous suffix of the ids, entries
are laid out in order without overlap, the two ways to read agree, a failed allocation is
final, and the whole implements `AbstractLog`.

`seglist`: five segments in chunks of two make the third grow run dry after one segment, at a push and
in the middle of a range; the four others are shared by two keys and recycle in every order. Shown:
a segment is at exactly one place, but for those of the grow that ran dry, fewer than a chunk, which
are at none; segments in the pool are zeroed; and each call does to the lists what it does to the
queues of `AbstractList`. That specification says openly what the code does on failure: a failed
range push keeps its first items, a failed `pop_count` loses the items it popped.

`durability`: two crashes are what it takes to recover an entry and lose it again, three
calls to create a group, add and remove. Shown: the log is a subsequence of the writes in
order of effect; memory is what the log rebuilds, except in stores touched by the named calls
that bypass the log or after a lost or cut write; three concurrent replay tasks give the
result of one; a restart ends unless the file has a line that is not UTF-8; the channel
drains. Four calls with two crashes (a million states) give the same result. Deadlock is not
checked in this module: clients may stop calling and the server then waits.

`pipeline`: three jobs are what it takes for two to conflict, and one of them to sleep for
ever, while a third has nothing to do with either; pipeline 0 is given up to two commands and
the others one, so sizes and stores overlap in every way. A channel of one makes `end` wait for
room. Shown: two tasks never hold one store and the counters are exact even after a panic; jobs
are neither lost nor doubled on their way; nobody's command comes between those of a job and its
result is true; a job is not overtaken by a larger one that needs its stores; a job that
shares no store with any other ends. Jobs never really run in parallel: each takes the
database's one write lock for all its commands. Deadlock is not checked, as clients may stop.

`groups`: a cache of three is the smallest in which an entry has a neighbour on both sides, and the
fourth id evicts; a lifetime of one with a clock to three lets entries expire before, while and after
they are read; three bits for ids let a reversed range wrap both to a size that fits and to one that
does not. Shown: links, map and free slots always describe the same entries; every method does
to the links what it means for the queue; and neither the answers of reads nor their panics, on
reversed ranges too, tell what is in the cache, in spite of trims, failed batches, and a group dropped and
created under the same name.

`client`: one connection makes both requests meet on it, before and after each other; two
stops are what it takes for `acquire` to meet two dead connections and to connect by itself; four
names are enough for the connections that then exist at once. Shown: a connection has one user; the
pool keeps its size but for replacements that found the server down; answers are read by those who
asked, unless a request was cancelled on that connection with its answer due; a reported success
of a group or key-value call is that very call, run once; requests end. The two exceptions named in
the properties are what the code does, see below. Deadlock is not checked: all requests may be done.

`replication`: two nodes are enough for the waits between them, since each call has two ends;
the second registration can repeat the first, go the other way, or name the node it is sent to.
With an event buffer of one the single event that `start` takes is sent on; with the default of 100
it is kept and nothing is ever pushed, which is a subset of these behaviours. The three writes set one
key twice and another in between, so copies that skip, repeat or swap entries show. Five budgets are
run: a crash with two writes; a file fault (a lost, cut or torn line) with two writes; three writes
without faults; five failing connections without writes, which are enough to drop a live follower (four
misses), listed once or twice, and to go on after it; a crash, a failing connection and a write.
Shown: a copy under way is a selection of the leader's log, in its order; while no entry was lost, a
follower has the keys of a prefix of the writer's log, up to the first pushed event or late frame; a node
is struck off only after four failed calls to it since the last time; a write is answered even
when the HA managers wait for each other; a leader comes up unless `start` got the lock first. Deadlock is
not checked: the tasks can really wait for each other for ever, and the last property says what goes
on beside them.

Fairness in `Durability`, used only by `RestartEnds` and `QueueDrains`: the worker's loop goes on
(`while let Some(entry) = rx.recv().await`), a crashed server is started again, and the
runtime polls the replay tasks. Each is weak fairness of one action. No fairness is assumed of
failures, crashes or calls.

Fairness in `Pipeline`: the dispatcher, each task and each client inside `end()` go on while they
can (weak fairness; the runtime polls what is ready). Weak fairness is enough for the database lock too,
because the other users of it are finitely many. Clients need not end what they started.

Fairness in `Client`: each request goes on while it can, and so do the server's connection loops, the
replacement tasks and their sends (weak fairness of each; the tokio mutex and channel are fair, and
with finitely many requests weak fairness is enough). A connection whose next command needs
the HA manager has none, because `Replication` shows that it can wait for ever. The server need not
come back, and nobody has to send or cancel.

Fairness in `Replication`: a leader's main goes on (`MainLocks`, `LeaderMain`), a copy that was begun is
taken or fails, and a write that was asked for is made when the database is free. Nothing is assumed
of booting, crashing, asking, answering, the network or the file worker.

### What the refuted runs show

* `pop_count(n)` pops n + 1 items (`0..=count`), against its comment "pop from start the
  specified number". With exactly n items the call fails and all n are lost.
* `kv_flush` is not logged. A restart brings flushed keys back, against the README's "Every
  write is serialized as a JSON entry".
* A batch that fails half way is not logged although part of it took effect. After an
  `add_range` that fails at its second entry, the next `add` is told id 2, and a restart
  rebuilds that entry under id 1.

* A pipeline's `end()` may never return. A task that was refused calls `notified()` after it let
  go of the lock state; a release in between notifies nobody and leaves no permit. The dispatcher has
  the same gap: with no runnable job it sleeps in `rx.recv()`, which no release ends. In both
  cases a later job can set things going again, and without one the job waits for ever. The
  test of five concurrent jobs awaits every one of them; its single-threaded runtime hides this.
* A pipeline is not atomic: a failing command ends the job and what ran before it stays, against
  the README's "single atomic job".

### What the models show besides

Behaviour that the properties name as an exception, or that came up while modelling:

* List calls of the client use opcodes 0x20 to 0x26, the server expects 0x15 to 0x19, 0x20 and 0x21.
  `l_push` runs `LLen` and reports success, `l_push_range` runs `LFlush`, the pops reach the HA commands, and
  `l_len` and `l_flush` are unknown, although README:45 says the client "exposes the same operations as
  plain REST endpoints". `SuccessesHappened` therefore leaves list calls out.
* A request cancelled after its frame was sent leaves the answer in the connection. If the
  connection still looks alive it goes back to the pool, and the next user reads the wrong answer.
* A replacement that finds the server down is not repeated. Once `Size` slots are lost, `acquire` waits
  for ever, also after the server is back.
* `start` may get the lock of the HA manager before main does. It waits for an event, the server
  does not listen yet, and so no event can come: the leader never comes up (`BlockedByStart`).
* A node configured as a follower registers before it listens, but the master calls it back
  first. The call is refused, and `expect` ends the follower. Only a node that already runs can be added,
  by a client that names it.
* Two registrations in opposite directions, or of a node with itself, lock both HA managers for ever.
* The heartbeat loop ends at the first answer, and has no timeout: deaths after that are never noticed,
  whatever the README's "Heartbeats are used to detect dead followers" may mean. A follower listed
  twice is counted twice per round, and one that is up but cannot be reached four times is dropped.
* After a failed or cut write the copies have a gap: a follower then holds what the remaining entries
  build, which need not be a state the leader ever had.
* `start` takes one event, then replication is over. That event may be older than the copy the
  follower already has, which takes a key back to an earlier value. `kv_flush` is sent as an event but not
  logged, so copies do not have it.
* A range read larger than a vector can be, or reversed, panics before it touches the cache; only
  start = end + 1 is answered, with nothing.
* `grow_segs` loses the segments it was given before the one it is refused.

Exceptions that properties name, and what is then left to them: `SlotsAreReplaced` and `RequestsEnd` count slots
lost to failed replacements and say there is no other loss; `AnswersAreMine` exempts connections on which a
request was given up with its answer due; `SuccessesHappened` leaves out the list calls;
`ClientsAreServed` names `BlockedByStart` and says there is no other way for a leader not to come up;
`MemoryIsTheReplay` exempts stores touched by the calls that bypass the log, which the runs
`durability_flush` and `durability_replies` are about; `FollowersHoldAPrefix` speaks of the keys, and exempts
nodes that took an event or a late frame and, for the prefix, files that lost an entry.

## 4. Proofs

### SegLog

`SegLogProofs` proves, for all segment sizes, segment counts, timestamps and payload sets that
satisfy the three assumptions of `SegLog` (a segment holds at least a header; at least one
initial segment and no more than the maximum; inputs are numbers and sequences of them):

* `TypeCorrect`, `SuffixCorrect`, `LayoutCorrect`, `RawSliceCorrect`: the four invariants;
* `AllocationFailureFinal`: the action property;
* `Refinement`: `Spec => ImplementsAbstractLog`.

They rest on one inductive invariant,

    IInv == TypeOK /\ LiveIdsAreASuffix /\ LayoutOrdered /\ HeadersStored /\ CursorOK

`CursorOK` (an active segment that does not exist has cursor 0) is needed because otherwise
a second rollover could move the cursor further past the segments. `HeadersStored` (memory
holds each live entry's id and length) is needed because `read` trusts memory for the length.
`LiveIdsAreASuffix` also supplies the least live id that `trim` looks for: it exists because
the live ids are an interval.

The argument for `append`: an entry is stored either behind the cursor or at the start of a
segment no entry is in (`Placed`, lemma `AppendPlaces`), so it shares no word with a live
entry (`StoreKeepsWords`), and what it stores is what `Read` decodes (`StoreReads`). For
`trim`: the segments it zeroes are below the first kept entry's, and layout order puts every
kept entry at or above it (`TrimKeeps`). The refinement maps each append that stores to
`Append`, each that fails to `Reject`, and `Trim(cutoff)` to a trim at the same cutoff, or at
`next_id` if the cutoff is beyond it.

### Pipeline

`PipelineProofs` proves, for any number of pipelines, any programs and any channel size
(`PipelineAssumption`: a channel with room for a job, programs that are lists of commands, the
empty one among them): `PipelineTypeCorrect`, `Exclusion` (`LocksExclude`), `NoJobLost`
(`JobsAtOnePlace`) and `Serial` (`JobsAreSerial`). The inductive invariant is

    IInv == TypeOK /\ JobsAtOnePlace /\ LocksExclude /\ IdsFresh /\ OneRunning

`LocksExclude` alone is not inductive: a step that wakes the head of `waiters` or pops an element
of the queue changes that job's stage, and only `JobsAtOnePlace` says that the job does not hold
a lock at that moment. `IdsFresh` (ids not handed out are unused) says the same for
`start`, and `OneRunning` (the database lock has one owner) is what `Serial` needs. Four lemmas
say that appending, taking the head, inserting and removing keep a sequence a list of a set
(`Lists`); `QuietMove` covers the many steps that only move a job between two stages.

`SmallFirst` (`SmallJobsFirst`) adds `QueueSorted` to the invariant: smaller jobs stand in front of
larger ones. `partition_point` is a binary search, which means something only on a sorted
list; `PartitionPointSplits` says that then it is the length of the prefix of jobs no larger than
the new one, so inserting there keeps the order, and `try_pop_runnable`, which takes the first
runnable job, takes a smallest one.

### Client

`ClientProofs` proves, for any number of handlers, any pool size, any number of server stops and
of cancelled requests, and calls with as many arguments as their frame has fields
(`ClientAssumption`): `OneOwner` (`TypeOK`), `NoSlotIsLost` (`SlotsAreReplaced`), `OwnAnswers`
(`AnswersAreMine`) and `SuccessIsTrue` (`SuccessesHappened`). The inductive invariant is

    IInv == Typed /\ Owned /\ Enough /\ Clean /\ Once /\ Truthful /\ AnswersAreMine

* `Owned`: a connection is in the channel once, with one handler, on its way back, or closed.
  Without it a handler could find another's frame on its connection.
* `Enough`: open client ends, replacements under way and lost slots together are at least `Size`.
  `SlotsAreReplaced` speaks of the places a slot can be at; this is the count behind it.
* `Clean`: on a connection where no request was given up, nothing is under way but the frame or
  the answer of the handler that has it. That makes the next answer one's own.
* `Once`: a frame is under way once, and not after it was run. So a command runs at most once.
* `Truthful`: an answer that says ok was given for a command that ran, with the arguments meant.

The last one needs that the two ends read a frame alike, which `EndsAgree` and `ReadAsMeant` show
for the tables of client.rs and proto.rs, one opcode at a time. They show it for the calls to
groups and keys. For lists it is false, as `SuccessesHappened` and section 3 say.

### SegList

`SegListProofs` proves, for every set of keys and payloads, every pool size and batch size of at
least 1 (`SegListAssumption`): `TypesHold` (`TypeOK`), `PoolIsZeroed` (`FreeSegmentsAreZeroed`),
`OneOwnerEach` (`EverySegmentHasOnePlace`) and `Refinement` (`ImplementsAbstractList`). The
inductive invariant is that the store is `Sound`: an allocated segment is in the pool or in
the list of one key, once, or it is lost, and the lost ones are fewer than a chunk and exist only
when the allocator is exhausted; memory that no key owns is zeroed. The three invariants need each
other. A put takes a segment from the pool and may write it only because no key has it; what it
leaves in the rest of the memory is zero because the pool was.

A call is a few changes of the store, and each has its lemma, which says that the store stays
sound and what becomes of each key's queue: `GrowStore` (new segments in the pool), `WitherStore`
(a grow that runs dry and loses them), `PutStore` (a segment goes from the pool to the end of a key's
list), `DrainStore` (a stretch of a key's list goes back to the pool, zeroed). The last one covers `pop`,
`pop_range` and `flush`, which are the same drain of the first, of some, of all. The loops are done by
induction over the rounds. `FiniteRecursion` shows that the recursive function exists, so that its equation
may be used, and `IntervalInduction` carries a set of good states from round to round.

For the refinement every call is shown to be `Good`: the queue of each key and the reply after it are
what the action of `AbstractList` of the same name gives, or `Fail`, or `PopCountRunsOut`. `PushGood`
to `PopRangeGood` do it call by call, so each is held to its own action: `pop` to `Pop`, which takes the
oldest item, and not to any removal of some item.

### Durability

`DurabilityProofs` proves, for every set of calls and any number of calls and crashes
(`DurabilityAssumption`: a call has an operation of the protocol, the bounds of a `ListPopRange`
are naturals, as the `usize` of the code are): `Types` (`TypeOK`), `OrderIsKept`
(`LogKeepsTheOrder`), `MemoryIsReplayed` (`MemoryIsTheReplay`) and `ReplayTasksAgree`
(`ReplayIsSequential`). The inductive invariant is

    IInv == Typed /\ Order(Entries(file), chan) /\ Phases /\ Intact /\ MemoryIsTheReplay

* `Order` is `LogKeepsTheOrder` with file and channel apart. A cut line can swallow the entry
  in front of it, so one write makes the entries of the file one more, the same, or one less
  (`Grows`, `BytesAppended`); all three keep the order because the entry written is the oldest of the channel.
* `Intact`: without damage every line is an entry and ends. `MemoryIsTheReplay` is not inductive
  without it: an entry appended to an open line would be in the channel before and nowhere after.
* `Phases`: nothing is queued while the server is not up, a load starts from empty stores, and
  during a replay what a task has left makes of its store what the whole file would.

Two facts about the calls carry the rest. `ExecLocal`: a call changes one store only, the one of its
category, by what that store holds. Hence a task may ignore what the two others do
(`ReplayLocal`), and the entries of one category, applied alone, build that store (`ReplayPart`).
`ExecSeen`: what readers see after a call depends on what they saw before, so memory and replay
stay equal to readers although a lookup leaves an empty list in memory that the replay does not
make; and a call that neither queues an entry nor is named by `SlipsBy` changes nothing they see.

The replay and the choice of entries are recursive functions (`ReplayOn`, `Part`), shown to exist
with `FiniteRecursion`, as in SegList.

### Replication

`ReplicationProofs` proves, for any nodes, roles, registrations, writes and budgets of crashes, failing
connections and file faults that satisfy `ReplicationAssumption`: `QueuesAreSound` (`TypeOK`, which says
of every lock's queue who is in it and who must be at its head), `OnlyTheUnreachable`
(`OnlyTheUnreachableAreDropped`) and `PrefixesFollow` (`FollowersHoldAPrefix`). The inductive invariant is

    IInv == Shapes /\ Places /\ Holders /\ Asks(main, reg) /\ Quiet(main, start, beat)

* `Places` and `Holders` are the queues: for each kind of task, where it may wait and what its owner
  is doing meanwhile, and that whoever is past its place has the lock. Calls wait only at nodes
  that listen. `TypeOK` alone is not inductive: a process that ends takes its calls out of the other
  queues, and unless each task has one place that could leave an owner in step "beating" behind.
* `Asks`: a node has a registration under way only while its main waits for it, or after its end.
  So a restarted node does not queue for the same lock twice.
* `Quiet`: a process that is down has no tasks, and one that does not listen sends no heartbeats.

There is one lemma per action; what entering, leaving, a lost call and the end of a process do to the
queues is said once (`EnterQueue`, `ReleaseQueue`, `LoseQueue`, `EndQueue`), and `StartMoves`, `BeatMoves`,
`RegMoves` and `MainMoves` say what a step of one task leaves alone.

`OnlyTheUnreachable` adds that the misses a leader has counted for a node, plus the one it is about to count,
are no more than the failed calls since the last drop (`Tallied`, kept by `NextCounted`). `CountMiss` drops a node at three counted
misses and one due, hence at four failures, and the only other step that shortens a list is the end of its
owner (`DropStep`).

`PrefixesFollow` adds a second invariant about the data, `KInv == Files /\ (~damaged => Sound)`.

* `Files` holds always: only the writer logs, its log holds no `KvFlush`, the lines of a file are of entries in
  the order of the log and none beyond what the worker took (`Rows`), and a copy under way is a selection of the log
  (`Selects`). Appending keeps the order because a line behind one without newline is swallowed by it
  (`BytesOrdered`), and a part of ordered lines, corrupt and torn ones left out, is ordered (`PartOrdered`,
  `LoadedSelects`).
* `Sound` holds until an entry is lost: the writer's file is the beginning of its log (`Whole`), a copy under
  way is a prefix of it (`Copies`), and a node that took no event or stray frame has the keys of such a prefix, no
  longer than any copy under way (`Follows`). `damaged` never ends (`DamageStays`).

The last bound in `Follows` is what makes it inductive: a copy shorter than what the node already has could
take it back. It holds because a copy is the whole file when it is taken, and because the registration
that sends it has the lock of the writer's `HaManager` (`Holders`), so it is the only one under way. A
crash of the writer that cuts nothing keeps the file, and so every prefix a node may have. That a copy over a part of
itself gives the copy (`ApplyOver`) is an induction over the entries (`InStep`): a key that an entry
has touched is the same as in a replay from nothing, and one that none has touched is
missing there and still as it was here. `ExecGives` says what one entry does to the keys: `KvSet` and `KvDel`
leave their key as if nothing had been there before, everything else leaves all keys alone.

### Groups

`GroupsProofs` proves, for any names and values, any cache size of at least one, any lifetime, clock bound and
vector limit, and ids that fit into their width (`LruAssumption`, `GroupsAssumption`): `Types` (`TypeOK`), `LinksHold`
(`CachesAreLinked`), `LruIsAQueue` (`SlotsBehaveAsQueue`) and `CacheIsTransparent`
(`ReadsAreTransparent`). The inductive invariant says of the log `l` and the cache `c` of every group

    GroupOK(l, c) == LogOK(l) /\ \E q, r : Stands(c, q, r) /\ Backed(r, l.entries)

* `Stands(c, q, r)`: `q` is a sequence of slots; `next` runs along it from `head` to `tail` and `prev`
  runs back, the slots hold the entries `r`, the map finds exactly these, and the free stack has all
  other slots, each once. `CachesAreLinked` computes the sequence by following the links; with the
  sequence as a witness, a step says which sequence comes next and need not follow them.
* `Backed(r, E)`: what the queue has for an id is what the log has, expired entries included.
  `ReadsAreTransparent` is not inductive alone: it compares answers of one state, and says nothing of
  how map and links change with the next insert, eviction or trim.
* `LogOK`: the ids of a log are below its next id, so a batch changes the value of no cached id.

The links are treated once, in the four small steps every method is made of: `DetachCuts`,
`AttachPushes`, `VacateCuts` and `AddedPushes` say that `detach` and `attach_front` take a position out of `q` or put
a slot in front, and that freeing and allocating keep the free stack complete. From them `GetQueue`,
`InsertQueue` and `RemoveQueue` follow: `get`, `insert` (with eviction, expiry and overwriting) and
`remove` do to `r` what `QueueGet` and `QueueInsert` do. The loops of groups.rs (fill after a batch,
invalidate before a trim, scan of a range) are shown to exist and to keep `Backed` by induction over their rounds.
A trim invalidates the live ids below the cutoff, which are all that the cache could hold of what the log
loses (`InvalidateServes`, `RemoveTrims`); for a range read, a scan that found every id has already
made the log's answer (`ScanServes`). A reversed range scans nothing, so the cache answers it only if its
wrapped length is 0 (`ReversedRange`).

### ProofLemmas

Induction in the library takes a predicate as a parameter, which the provers cannot instantiate.
`LeastNatural` (a set of naturals has a least element) comes from the library and is stated over a set, and so is
`IntervalInduction` built on it: a set that holds the start of an interval and is closed under
successor holds all of it. `FiniteRecursion` is the existence of a function given by its first
value and a step, the step being a function too (`Rounds`). The others say that appending,
tail, concatenation, part and drain keep a sequence free of repetitions, and what its elements are;
for a part, which positions its elements come from (`Counted`, `Picks`).

### Only model-checked

Liveness needs fairness, which the prover does not reason about: `NonConflictingJobsEnd`, `RequestsEnd`,
`RestartEnds`, `QueueDrains` and `ClientsAreServed` stay with TLC. So do the five refuted properties, of which
TLC gives a counterexample.

## 5. Plan

1. Done: all modules of section 2 and their runs; the proofs of section 4.
2. `Kv`: clock, TTL, lazy expiry, eviction by sample, and their replay.

## 6. Not modelled

* Time in the key-value store (TTL, lazy expiry, use counts) and eviction at 1024 keys: `Stores` has
  `set`, `del` and `flush` below that size and without a lifetime.
* The HTTP routes, JSON and the compressed payloads: `Client` starts behind the router, where a handler
  has its arguments or finds them missing. Routes with `:db` in the axum version of Cargo.toml are refused
  when the router is built, so those handlers are modelled as they are written.
* Configuration, which is read once; the roles it gives are constants of `Replication`.
* Bytes: encodings, lengths, endianness, names over 64 KiB (their length is cut to 16 bits), frames
  written in part before a cancellation.
* Logging, benchmarks, tests, memory alignment and `Drop` of segments.
* Power failure (loss of data the operating system had accepted): the code never syncs, so nothing is
  promised there.
* The wire commands for pipelines are a TODO in server.rs: `StartPipeline` only creates an entry and
  `EndPipeline` answers ok without touching the manager, so `Pipeline` models the manager's own
  interface, which its tests use.
