------------------------------ MODULE Pipeline ------------------------------
(***************************************************************************)
(* server/src/db/pipeline.rs: clients build pipelines and end them, a      *)
(* dispatcher task queues the jobs by size and spawns those whose stores   *)
(* look free, and every spawned task locks its stores, runs its commands   *)
(* under the database's write lock and lets go.  Tasks that find a store   *)
(* taken wait on a Notify.  A pipeline is named by its id, and stage says  *)
(* where its job is.  The tasks run on tokio's multi-threaded runtime, so  *)
(* their steps interleave between any two accesses to shared state.        *)
(***************************************************************************)
EXTENDS Integers, Sequences, SequencesExt, FiniteSets

CONSTANTS MaxPipelines,  \* bound: pipelines started in a behaviour
          Programs,      \* per pipeline: what its client may build, with prefixes
          ChannelSize,   \* capacity of the job channel (256 in the code)
          MaxDirect      \* bound: commands of clients without a pipeline

Resource == {"Kv", "List", "Log"}

PipelineCommand ==
    {"KvSet", "KvDel", "KvFlush", "ListPush", "ListPop", "ListFlush", "LogAdd"}

\* The commands that can return an error, and those that panic when memory
\* runs out (see SegList and SegLog).
Fallible  == PipelineCommand \ {"KvSet", "KvFlush"}
Panicking == {"ListPush", "LogAdd"}

ASSUME PipelineAssumption ==
    /\ MaxPipelines \in Nat /\ MaxDirect \in Nat
    /\ ChannelSize \in Nat \ {0}
    /\ Programs \in [0 .. MaxPipelines - 1 -> SUBSET Seq(PipelineCommand)]
    /\ \A j \in 0 .. MaxPipelines - 1 : <<>> \in Programs[j]

Jobs == 0 .. MaxPipelines - 1

VARIABLES
    next_id,     \* PipelineManager.next_id
    stage,       \* where each pipeline's job is
    commands,    \* Pipeline.commands
    channel,     \* the jobs in tx/rx
    dispatcher,  \* where the dispatcher task is
    queue,       \* LockManager.queue
    holders,     \* LockManager.state: holders per store
    permit,      \* Notify: a stored notify_one
    waiters,     \* Notify: the tasks that wait, oldest first
    progress,    \* commands of a job that have run
    reply,       \* what end() returned
    direct       \* commands run for clients without a pipeline

client == <<next_id, commands>>
locks  == <<holders, permit, waiters>>
effect == <<progress, reply, direct>>
vars   == <<client, stage, channel, dispatcher, queue, locks, effect>>

Stages == {"none", "open", "held", "lost", "ending", "sent", "queued", "checking",
           "refused", "waiting", "locked", "running", "executed", "released",
           "finished", "dead"}

\* From a task's acquire to its release; a task that panics never releases.
Holding == {"locked", "running", "executed", "dead"}

Init ==
    /\ next_id = 0
    /\ stage = [j \in Jobs |-> "none"]
    /\ commands = [j \in Jobs |-> <<>>]
    /\ channel = <<>> /\ queue = <<>> /\ waiters = <<>>
    /\ dispatcher = "recv"
    /\ holders = [r \in Resource |-> 0]
    /\ permit = FALSE
    /\ progress = [j \in Jobs |-> 0]
    /\ reply = [j \in Jobs |-> "none"]
    /\ direct = 0

ResourceOf(c) == CASE c \in {"KvSet", "KvDel", "KvFlush"}           -> "Kv"
                   [] c \in {"ListPush", "ListPop", "ListFlush"}    -> "List"
                   [] c = "LogAdd"                                  -> "Log"

\* unique_resources
Resources(j) == {ResourceOf(commands[j][i]) : i \in DOMAIN commands[j]}

OpCount(j) == Len(commands[j])

Goto(j, s) == stage' = [stage EXCEPT ![j] = s]
-----------------------------------------------------------------------------
(* Clients *)

Start ==
    /\ next_id < MaxPipelines
    /\ next_id' = next_id + 1
    /\ Goto(next_id, "open")
    /\ UNCHANGED <<commands, channel, dispatcher, queue, locks, effect>>

\* get() clones the Arc; "held" lasts until the last clone is dropped.
Get(j) ==
    /\ stage[j] = "open"
    /\ Goto(j, "held")
    /\ UNCHANGED <<client, channel, dispatcher, queue, locks, effect>>

DropHandle(j) ==
    /\ stage[j] = "held"
    /\ Goto(j, "open")
    /\ UNCHANGED <<client, channel, dispatcher, queue, locks, effect>>

AddCommand(j, c) ==
    /\ stage[j] = "held"
    /\ Append(commands[j], c) \in Programs[j]
    /\ commands' = [commands EXCEPT ![j] = Append(@, c)]
    /\ UNCHANGED <<next_id, stage, channel, dispatcher, queue, locks, effect>>

Take(j) ==
    /\ stage[j] = "open"
    /\ Goto(j, "ending")
    /\ UNCHANGED <<client, channel, dispatcher, queue, locks, effect>>

\* remove(), and take() while a clone is out: the pipeline leaves the map
\* first, then try_unwrap fails, and its commands are out of reach.
LosePipeline(j) ==
    /\ stage[j] \in {"open", "held"}
    /\ Goto(j, "lost")
    /\ commands' = [commands EXCEPT ![j] = <<>>]
    /\ UNCHANGED <<next_id, channel, dispatcher, queue, locks, effect>>

\* end() sends the job, once the channel has room, and awaits its result.
End(j) ==
    /\ stage[j] = "ending"
    /\ Len(channel) < ChannelSize
    /\ channel' = Append(channel, j)
    /\ Goto(j, "sent")
    /\ UNCHANGED <<client, dispatcher, queue, locks, effect>>

DbFree == \A j \in Jobs : stage[j] # "running"

\* A request outside any pipeline, under the same write lock.
DirectCommand ==
    /\ DbFree
    /\ direct < MaxDirect
    /\ direct' = direct + 1
    /\ UNCHANGED <<client, stage, channel, dispatcher, queue, locks, progress, reply>>
-----------------------------------------------------------------------------
(* The dispatcher.  Only it touches the queue, so receiving a job,         *)
(* inserting it and notify_one are one step.                               *)

PartitionPoint_Push(n) == Len(queue)

PartitionPoint(n) == Cardinality({i \in DOMAIN queue : OpCount(queue[i]) <= n})

\* enqueue, with the notify_one that ends it.
Enqueue(j) ==
    /\ queue' = InsertAt(queue, PartitionPoint(OpCount(j)) + 1, j)
    /\ IF waiters = <<>>
       THEN /\ permit' = TRUE
            /\ stage' = [stage EXCEPT ![j] = "queued"]
            /\ UNCHANGED waiters
       ELSE /\ waiters' = Tail(waiters)
            /\ stage' = [stage EXCEPT ![j] = "queued", ![Head(waiters)] = "checking"]
            /\ UNCHANGED permit

\* rx.recv() when the dispatcher sleeps, try_recv when it is awake.
Receive ==
    /\ dispatcher \in {"recv", "drain"}
    /\ channel # <<>>
    /\ channel' = Tail(channel)
    /\ Enqueue(Head(channel))
    /\ dispatcher' = "drain"
    /\ UNCHANGED <<client, holders, effect>>

DrainEnds ==
    /\ dispatcher = "drain"
    /\ channel = <<>>
    /\ dispatcher' = "pop"
    /\ UNCHANGED <<client, stage, channel, queue, locks, effect>>

CanAcquire_OneLock(j) == \A r \in Resource : Resources(j) # {} => holders[r] = 0

\* The first loop of can_acquire refuses nothing the second would not.
CanAcquire(j) == \A r \in Resources(j) : holders[r] = 0

\* try_pop_runnable finds the first job whose stores are free now; its task
\* takes them later.
PopRunnable ==
    /\ dispatcher = "pop"
    /\ \E i \in DOMAIN queue :
          /\ CanAcquire(queue[i])
          /\ \A k \in 1 .. i - 1 : ~CanAcquire(queue[k])
          /\ queue' = RemoveAt(queue, i)
          /\ Goto(queue[i], "checking")
    /\ dispatcher' = "drain"
    /\ UNCHANGED <<client, channel, locks, effect>>

NothingRunnable ==
    /\ dispatcher = "pop"
    /\ \A i \in DOMAIN queue : ~CanAcquire(queue[i])
    /\ dispatcher' = "recv"
    /\ UNCHANGED <<client, stage, channel, queue, locks, effect>>

Dispatch == Receive \/ DrainEnds \/ PopRunnable \/ NothingRunnable
-----------------------------------------------------------------------------
(* The task of a job *)

Acquire_Unchecked(j) ==
    /\ stage[j] = "checking"
    /\ holders' = [r \in Resource |-> IF r \in Resources(j) THEN holders[r] + 1
                                      ELSE holders[r]]
    /\ Goto(j, "locked")
    /\ UNCHANGED <<client, channel, dispatcher, queue, permit, waiters, effect>>

Acquire(j) ==
    /\ stage[j] = "checking"
    /\ CanAcquire(j)
    /\ holders' = [r \in Resource |-> IF r \in Resources(j) THEN holders[r] + 1
                                      ELSE holders[r]]
    /\ Goto(j, "locked")
    /\ UNCHANGED <<client, channel, dispatcher, queue, permit, waiters, effect>>

\* The state lock is free again before notified() is called.
Refuse(j) ==
    /\ stage[j] = "checking"
    /\ ~CanAcquire(j)
    /\ Goto(j, "refused")
    /\ UNCHANGED <<client, channel, dispatcher, queue, locks, effect>>

\* notified().await takes a stored permit or joins the waiters.
AwaitNotified(j) ==
    /\ stage[j] = "refused"
    /\ permit' = FALSE
    /\ IF permit
       THEN Goto(j, "checking") /\ UNCHANGED waiters
       ELSE Goto(j, "waiting") /\ waiters' = Append(waiters, j)
    /\ UNCHANGED <<client, channel, dispatcher, queue, holders, effect>>

TakeDb_Unlocked(j) ==
    /\ stage[j] = "locked"
    /\ Goto(j, "running")
    /\ UNCHANGED <<client, channel, dispatcher, queue, locks, effect>>

TakeDb(j) ==
    /\ stage[j] = "locked"
    /\ DbFree
    /\ Goto(j, "running")
    /\ UNCHANGED <<client, channel, dispatcher, queue, locks, effect>>

NextCommand(j) == commands[j][progress[j] + 1]

RunCommand(j) ==
    /\ stage[j] = "running"
    /\ progress[j] < OpCount(j)
    /\ progress' = [progress EXCEPT ![j] = @ + 1]
    /\ UNCHANGED <<client, stage, channel, dispatcher, queue, locks, reply, direct>>

\* The loop is over, or its next command fails: the write lock is dropped
\* and the result kept for done.send.
JobEnds(j) ==
    /\ stage[j] = "running"
    /\ \/ progress[j] = OpCount(j) /\ reply' = [reply EXCEPT ![j] = "ok"]
       \/ /\ progress[j] < OpCount(j) /\ NextCommand(j) \in Fallible
          /\ reply' = [reply EXCEPT ![j] = "exec_error"]
    /\ Goto(j, "executed")
    /\ UNCHANGED <<client, channel, dispatcher, queue, locks, progress, direct>>

\* A panic unwinds the task: the database guard is dropped, release is not
\* reached, and done is dropped, so end() returns SendError.
JobPanics(j) ==
    /\ stage[j] = "running"
    /\ progress[j] < OpCount(j) /\ NextCommand(j) \in Panicking
    /\ reply' = [reply EXCEPT ![j] = "send_error"]
    /\ Goto(j, "dead")
    /\ UNCHANGED <<client, channel, dispatcher, queue, locks, progress, direct>>

ReleaseLocks_EveryStore(j) ==
    /\ stage[j] = "executed"
    /\ holders' = [r \in Resource |-> holders[r] - 1]
    /\ Goto(j, "released")
    /\ UNCHANGED <<client, channel, dispatcher, queue, permit, waiters, effect>>

\* release, up to its notify_waiters.
ReleaseLocks(j) ==
    /\ stage[j] = "executed"
    /\ holders' = [r \in Resource |-> IF r \in Resources(j) /\ holders[r] > 0
                                      THEN holders[r] - 1 ELSE holders[r]]
    /\ Goto(j, "released")
    /\ UNCHANGED <<client, channel, dispatcher, queue, permit, waiters, effect>>

NotifyAndReply_KeepsWaiters(j) ==
    /\ stage[j] = "released"
    /\ stage' = [k \in Jobs |-> IF k = j THEN "finished"
                                ELSE IF stage[k] = "waiting" THEN "checking"
                                ELSE stage[k]]
    /\ commands' = [commands EXCEPT ![j] = <<>>]
    /\ progress' = [progress EXCEPT ![j] = 0]
    /\ UNCHANGED <<next_id, channel, dispatcher, queue, locks, reply, direct>>

\* notify_waiters wakes every waiter there is and stores no permit; then the
\* client gets its result and the job is dropped.
NotifyAndReply(j) ==
    /\ stage[j] = "released"
    /\ stage' = [k \in Jobs |-> IF k = j THEN "finished"
                                ELSE IF stage[k] = "waiting" THEN "checking"
                                ELSE stage[k]]
    /\ waiters' = <<>>
    /\ commands' = [commands EXCEPT ![j] = <<>>]
    /\ progress' = [progress EXCEPT ![j] = 0]
    /\ UNCHANGED <<next_id, channel, dispatcher, queue, holders, permit, reply, direct>>

TaskStep(j) ==
    \/ Acquire(j) \/ Refuse(j) \/ AwaitNotified(j) \/ TakeDb(j)
    \/ RunCommand(j) \/ JobEnds(j) \/ JobPanics(j)
    \/ ReleaseLocks(j) \/ NotifyAndReply(j)

ClientStep(j) ==
    \/ Get(j) \/ DropHandle(j) \/ Take(j) \/ LosePipeline(j) \/ End(j)
    \/ \E c \in PipelineCommand : AddCommand(j, c)

Next == \/ Start \/ DirectCommand \/ Dispatch
        \/ \E j \in Jobs : ClientStep(j) \/ TaskStep(j)

\* The runtime polls every task that can go on, and a client that called
\* end() waits for it.  Nothing is assumed of what clients do before that.
Fairness == /\ WF_vars(Dispatch)
            /\ \A j \in Jobs : WF_vars(End(j)) /\ WF_vars(TaskStep(j))

Spec == Init /\ [][Next]_vars /\ Fairness
-----------------------------------------------------------------------------
\* Every variable has its type.
TypeOK ==
    /\ next_id \in 0 .. MaxPipelines
    /\ stage \in [Jobs -> Stages]
    /\ DOMAIN commands = Jobs /\ \A j \in Jobs : commands[j] \in Programs[j]
    /\ channel \in Seq(Jobs) /\ queue \in Seq(Jobs) /\ waiters \in Seq(Jobs)
    /\ dispatcher \in {"recv", "drain", "pop"}
    /\ holders \in [Resource -> Nat]
    /\ permit \in BOOLEAN
    /\ progress \in [Jobs -> Nat]
    /\ reply \in [Jobs -> {"none", "ok", "exec_error", "send_error"}]
    /\ direct \in 0 .. MaxDirect

\* try_pop_runnable lets jobs that need the same store start together, and
\* acquire decides between them: no two tasks hold one store, and the
\* counters are the tasks that hold it (the ones that panicked included), so
\* no release makes a store look free that is not.
LocksExclude ==
    \A r \in Resource :
        LET using == {j \in Jobs : stage[j] \in Holding /\ r \in Resources(j)}
        IN  /\ \A j, k \in using : j = k
            /\ holders[r] = IF using = {} THEN 0 ELSE 1

AtStage(st) == {j \in Jobs : stage[j] = st}

\* s holds every job of S, and no other, at one position.
Lists(s, S) == /\ \A i, k \in DOMAIN s : s[i] = s[k] => i = k
               /\ S = {s[i] : i \in DOMAIN s}

\* end(), the dispatcher and Notify pass a job on without losing or doubling
\* it: the channel, the queue and the waiters hold exactly the jobs at that
\* stage, each once.
JobsAtOnePlace == /\ Lists(channel, AtStage("sent"))
                  /\ Lists(queue, AtStage("queued"))
                  /\ Lists(waiters, AtStage("waiting"))

\* execute_job keeps the write lock over all commands of a job: between its
\* first command and its end no other job's command runs and no client's, and
\* its result says whether all of them ran.
JobsAreSerial ==
    [][\A j \in Jobs :
          /\ stage[j] = "running" /\ progress[j] > 0
             => /\ direct' = direct
                /\ \A k \in Jobs \ {j} : progress'[k] <= progress[k]
          /\ reply'[j] # reply[j] => (reply'[j] = "ok" <=> progress[j] = OpCount(j))]_vars

\* "smaller batches go first" (README): no job leaves the queue ahead of a
\* smaller one that needs no more stores.
SmallJobsFirst ==
    [][\A i, k \in DOMAIN queue :
          /\ Resources(queue[k]) \subseteq Resources(queue[i])
          /\ OpCount(queue[k]) < OpCount(queue[i])
          => \E m \in DOMAIN queue' : queue'[m] = queue[i]]_vars

Ended(j) == stage[j] \in {"finished", "dead"}

\* "allows non-conflicting pipelines to run in parallel" (README): a job that
\* shares no store with any other ends, whatever becomes of the others.
NonConflictingJobsEnd ==
    \A j \in Jobs :
        [](\A k \in Jobs \ {j} : Resources(k) \cap Resources(j) = {})
            => (stage[j] = "ending" ~> Ended(j))

\* Every end() returns, as the test with five concurrent jobs awaits.
EveryJobEnds == \A j \in Jobs : stage[j] = "ending" ~> Ended(j)

\* "group multiple KV, list, or log operations into a single atomic job"
\* (README): a job that reports an error left nothing behind.
AllOrNothing == \A j \in Jobs : reply[j] = "exec_error" => progress[j] = 0
=============================================================================
