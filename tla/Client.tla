------------------------------- MODULE Client -------------------------------
(***************************************************************************)
(* HTTP requests over the connection pool of client/src/client/pool.rs to  *)
(* the server's connection loops.  A handler acquires a connection, sends  *)
(* one frame, reads one answer and drops the connection, which goes back   *)
(* to the pool or is replaced in the background.  The HTTP client may go   *)
(* away at any time, and the handler's future is dropped where it waits.   *)
(* The server answers the frames of a connection in order, and may stop    *)
(* and start.  What a command does to the stores is in Stores and Groups;  *)
(* here it succeeds or fails.                                              *)
(***************************************************************************)
EXTENDS Wire, SequencesExt, FiniteSets, FiniteSetsExt

CONSTANTS Handlers,    \* the HTTP requests
          Calls,       \* per request, the calls it may be for
          TooLarge,    \* the calls whose frames exceed MAX_FRAME_SIZE
          Size,        \* POOL_SIZE
          Conns,       \* names of connections, a set of numbers
          MaxStops,    \* bound: times the server stops
          MaxCancels   \* bound: requests that are given up

ASSUME ClientAssumption ==
    /\ Size \in Nat \ {0} /\ MaxStops \in Nat /\ MaxCancels \in Nat
    /\ IsFiniteSet(Conns) /\ Conns \subseteq Nat \ {0} /\ 1 .. Size \subseteq Conns
    /\ 0 \notin Handlers
    /\ \A h \in Handlers : \A c \in Calls[h] :
          /\ c.op \in DOMAIN Requests
          /\ c.args = [i \in DOMAIN Requests[c.op].kinds |-> c.args[i]]

VARIABLES
    pc,         \* where each handler is
    call,       \* what it is for
    conn,       \* PooledClient.client: its connection, or 0
    tries,      \* the dead connections acquire has met
    receiver,   \* who holds the mutex on the receiving end, or 0
    slots,      \* the connections in the channel
    link,       \* per connection: both ends and what is under way
    replacing,  \* spawned tasks that are to connect
    lost,       \* those that could not
    up,         \* the server listens
    stops,      \* how often it stopped
    cancels,    \* how many requests were given up
    ran,        \* per handler: the commands the server ran for it
    answer,     \* per handler: the answer it read
    status      \* per handler: the HTTP status

handlers == <<pc, call, conn, tries, answer, status>>
pool     == <<receiver, slots, replacing, lost>>
server   == <<up, stops, ran>>
vars     == <<handlers, pool, link, server, cancels>>

NoCall   == [op |-> "none", args |-> <<>>]
NoAnswer == [of |-> 0, stray |-> FALSE]

\* place: who has the client's end; open: the server's end; used: an answer was
\* read; stray: a request was given up between its send and its answer.
Closed == [place |-> "none", open |-> FALSE, requests |-> <<>>, answers |-> <<>>,
           used |-> FALSE, stray |-> FALSE]
Fresh(place) == [Closed EXCEPT !.place = place, !.open = TRUE]

\* ClientPool::new
Init ==
    /\ pc = [h \in Handlers |-> "idle"] /\ call = [h \in Handlers |-> NoCall]
    /\ conn = [h \in Handlers |-> 0] /\ tries = [h \in Handlers |-> 0]
    /\ receiver = 0 /\ slots = [i \in 1 .. Size |-> i]
    /\ link = [c \in Conns |-> IF c <= Size THEN Fresh("slots") ELSE Closed]
    /\ replacing = 0 /\ lost = 0 /\ up = TRUE /\ stops = 0 /\ cancels = 0
    /\ ran = [h \in Handlers |-> <<>>]
    /\ answer = [h \in Handlers |-> NoAnswer] /\ status = [h \in Handlers |-> 0]

\* A name no connection uses at either end.
Unused  == {c \in Conns : link[c].place = "none" /\ link[c].requests = <<>>}
NewConn == Min(Unused)

\* is_alive tries to read no bytes: a connection looks dead once the runtime
\* has been told that it is closed or has an answer to read, and one that an
\* answer was read from looks dead as long as nothing takes that back.
Aliveness(l) == IF l.open /\ l.answers = <<>> /\ ~l.used THEN {TRUE} ELSE BOOLEAN

\* The client's end is closed; frames the server already has still run.
Close(l) == [l EXCEPT !.place = "none", !.answers = <<>>, !.used = FALSE, !.stray = FALSE]

\* The HTTP status of what a handler comes to: an answer, no answer ("io": no
\* connection, or one that broke), a body without the value.  A handler that
\* panics has none.
GroupStatus == [op \in {"CreateGroup", "ListGroups", "DropGroup", "GroupStats"} |->
                  [ok |-> 200, err |-> 400, io |-> 500, panic |-> 0]]
EntryStatus == [op \in {"Add", "AddRange", "Read", "ReadRange", "Remove"} |->
                  [ok |-> 200, err |-> 400, io |-> 500, panic |-> 0]]
KvStatus    == [op \in KvOps |->
                  [ok |-> 200, none |-> 404, missing |-> 400, err |-> 400, io |-> 500,
                   panic |-> 0]]
ListStatus  == [op \in ListOps |->
                  [ok |-> 200, none |-> 404, missing |-> 400, err |-> 400, io |-> 500,
                   panic |-> 0]]
StatusOf    == Join(Join(GroupStatus, EntryStatus), Join(KvStatus, ListStatus))

Finish(h, code) == /\ pc' = [pc EXCEPT ![h] = "done"]
                   /\ status' = [status EXCEPT ![h] = code]
Ends(h, result) == Finish(h, StatusOf[call[h].op][result])
-----------------------------------------------------------------------------
(* acquire *)

Request(h) ==
    /\ pc[h] = "idle"
    /\ \E c \in Calls[h] : call' = [call EXCEPT ![h] = c]
    /\ pc' = [pc EXCEPT ![h] = "locking"]
    /\ UNCHANGED <<conn, tries, answer, status, pool, link, server, cancels>>

Lock(h) ==
    /\ pc[h] = "locking" /\ receiver = 0
    /\ receiver' = h
    /\ pc' = [pc EXCEPT ![h] = "receiving"]
    /\ UNCHANGED <<call, conn, tries, answer, status, slots, replacing, lost, link,
                   server, cancels>>

CanReceive(h) == pc[h] = "receiving" /\ tries[h] <= Size /\ slots # <<>>

AcquireLive_Shared(h) ==
    LET c == Head(slots)
    IN  /\ CanReceive(h) /\ TRUE \in Aliveness(link[c])
        /\ UNCHANGED slots
        /\ link' = [link EXCEPT ![c].place = "held"]
        /\ conn' = [conn EXCEPT ![h] = c]
        /\ pc' = [pc EXCEPT ![h] = "ready"]
        /\ receiver' = 0
        /\ UNCHANGED <<call, tries, answer, status, replacing, lost, server, cancels>>

AcquireLive(h) ==
    LET c == Head(slots)
    IN  /\ CanReceive(h) /\ TRUE \in Aliveness(link[c])
        /\ slots' = Tail(slots)
        /\ link' = [link EXCEPT ![c].place = "held"]
        /\ conn' = [conn EXCEPT ![h] = c]
        /\ pc' = [pc EXCEPT ![h] = "ready"]
        /\ receiver' = 0
        /\ UNCHANGED <<call, tries, answer, status, replacing, lost, server, cancels>>

\* The dead connection is dropped and spawn_replacement called.
MeetDead(h) ==
    LET c == Head(slots)
    IN  /\ CanReceive(h) /\ FALSE \in Aliveness(link[c])
        /\ slots' = Tail(slots)
        /\ link' = [link EXCEPT ![c] = Close(@)]
        /\ tries' = [tries EXCEPT ![h] = @ + 1]
        /\ replacing' = replacing + 1
        /\ UNCHANGED <<pc, call, conn, answer, status, receiver, lost, server, cancels>>

\* After Size + 1 dead ones acquire connects by itself.
ConnectDirectly(h) ==
    /\ pc[h] = "receiving" /\ tries[h] = Size + 1
    /\ receiver' = 0
    /\ \/ /\ up /\ Unused # {}
          /\ link' = [link EXCEPT ![NewConn] = Fresh("held")]
          /\ conn' = [conn EXCEPT ![h] = NewConn]
          /\ pc' = [pc EXCEPT ![h] = "ready"]
          /\ UNCHANGED status
       \/ /\ ~up
          /\ Ends(h, "io")
          /\ UNCHANGED <<link, conn>>
    /\ UNCHANGED <<call, tries, answer, slots, replacing, lost, server, cancels>>
-----------------------------------------------------------------------------
(* Replacement tasks *)

Replace ==
    /\ replacing > 0 /\ up /\ Unused # {}
    /\ link' = [link EXCEPT ![NewConn] = Fresh("arriving")]
    /\ replacing' = replacing - 1
    /\ UNCHANGED <<handlers, receiver, slots, lost, server, cancels>>

\* Nobody tries again: the slot is gone for good.
ReplaceFails ==
    /\ replacing > 0 /\ ~up
    /\ replacing' = replacing - 1
    /\ lost' = lost + 1
    /\ UNCHANGED <<handlers, receiver, slots, link, server, cancels>>

\* tx.send waits until the channel has room.
Arrive(c) ==
    /\ link[c].place = "arriving" /\ Len(slots) < Size
    /\ slots' = Append(slots, c)
    /\ link' = [link EXCEPT ![c].place = "slots"]
    /\ UNCHANGED <<handlers, receiver, replacing, lost, server, cancels>>
-----------------------------------------------------------------------------
(* Drop for PooledClient, given the connection as the handler leaves it.   *)

GiveBack_NoReplacement(c, l) ==
    \E alive \in Aliveness(l) :
        /\ slots' = IF alive /\ Len(slots) < Size THEN Append(slots, c) ELSE slots
        /\ link' = [link EXCEPT ![c] = IF alive /\ Len(slots) < Size
                                       THEN [l EXCEPT !.place = "slots"] ELSE Close(l)]
        /\ UNCHANGED replacing

GiveBack(c, l) ==
    \E alive \in Aliveness(l) :
        /\ slots' = IF alive /\ Len(slots) < Size THEN Append(slots, c) ELSE slots
        /\ link' = [link EXCEPT ![c] = IF alive /\ Len(slots) < Size
                                       THEN [l EXCEPT !.place = "slots"] ELSE Close(l)]
        /\ replacing' = IF alive THEN replacing ELSE replacing + 1

Leave(h, l) == GiveBack(conn[h], l) /\ conn' = [conn EXCEPT ![h] = 0]

\* A handler that gives up its future: waiting for the mutex, for a
\* connection, or for its answer.  A frame is taken to be written whole.
Cancel(h) ==
    LET l == link[conn[h]]
    IN  /\ cancels < MaxCancels
        /\ \/ pc[h] = "locking" /\ UNCHANGED <<receiver, conn, slots, link, replacing>>
           \/ /\ pc[h] = "receiving" /\ (slots = <<>> \/ tries[h] = Size + 1)
              /\ receiver' = 0
              /\ UNCHANGED <<conn, slots, link, replacing>>
           \/ /\ pc[h] = "sent"
              /\ Leave(h, [l EXCEPT !.stray = TRUE])
              /\ UNCHANGED receiver
        /\ cancels' = cancels + 1
        /\ Finish(h, 0)
        /\ UNCHANGED <<call, tries, answer, lost, server>>
-----------------------------------------------------------------------------
(* The handlers of client/src/api/handlers.rs *)

\* They check what is in the body only now.
NeedsBody == {"SetKey", "LPush", "LPushRange", "LPopRange", "LPopCount"}

MissingArgument(h) ==
    /\ pc[h] = "ready" /\ call[h].op \in NeedsBody
    /\ Leave(h, link[conn[h]])
    /\ Ends(h, "missing")
    /\ UNCHANGED <<call, tries, answer, receiver, lost, server, cancels>>

\* A write to a closed connection fails, or goes unnoticed at first.
Send(h) ==
    LET c == conn[h]
    IN  /\ pc[h] = "ready"
        /\ link' = [link EXCEPT ![c].requests = IF link[c].open THEN Append(@, h) ELSE @]
        /\ pc' = [pc EXCEPT ![h] = "sent"]
        /\ UNCHANGED <<call, conn, tries, answer, status, pool, server, cancels>>

IoError(h) ==
    LET l == link[conn[h]]
    IN  /\ pc[h] \in {"ready", "sent"}
        /\ ~l.open /\ (pc[h] = "sent" => l.answers = <<>>)
        /\ Leave(h, l)
        /\ Ends(h, "io")
        /\ UNCHANGED <<call, tries, answer, receiver, lost, server, cancels>>

\* The handler of a read decodes the payload, and panics when it was not
\* written by add_entry.
Results(op, reply) ==
    Decode(op, reply) \cup (IF op \in {"Read", "ReadRange"} /\ reply.ok THEN {"panic"} ELSE {})

Receive_LeavesAnswer(h) ==
    LET l == link[conn[h]]
        a == Head(l.answers)
    IN  /\ pc[h] = "sent" /\ l.answers # <<>>
        /\ answer' = [answer EXCEPT ![h] = [of |-> a.of, stray |-> l.stray]]
        /\ Leave(h, [l EXCEPT !.used = TRUE])
        /\ \E result \in Results(call[h].op, a.reply) : Ends(h, result)
        /\ UNCHANGED <<call, tries, receiver, lost, server, cancels>>

Receive(h) ==
    LET l == link[conn[h]]
        a == Head(l.answers)
    IN  /\ pc[h] = "sent" /\ l.answers # <<>>
        /\ answer' = [answer EXCEPT ![h] = [of |-> a.of, stray |-> l.stray]]
        /\ Leave(h, [l EXCEPT !.answers = Tail(@), !.used = TRUE])
        /\ \E result \in Results(call[h].op, a.reply) : Ends(h, result)
        /\ UNCHANGED <<call, tries, receiver, lost, server, cancels>>
-----------------------------------------------------------------------------
(* The server's loop over the frames of one connection *)

Serves(c) == link[c].open /\ link[c].requests # <<>>

\* The command needs the lock of the HA manager, which a node of a replica set
\* may hold for as long as nothing is written (Replication).
WaitsForHa(c) ==
    /\ Serves(c)
    /\ \E command \in Parses(Encode(call[Head(link[c].requests)])) :
        command.cmd \in {"HaRegisterFollower", "HaHeartBeat"}

\* An answer goes to the client's end, if there still is one.
Answer(c, reply) ==
    LET h == Head(link[c].requests)
    IN  link' = [link EXCEPT
                    ![c].requests = Tail(@),
                    ![c].answers  = IF link[c].place = "none" THEN @
                                    ELSE Append(@, [of |-> h, reply |-> reply])]

HangUp_Continues(c) ==
    LET h == Head(link[c].requests)
    IN  /\ Serves(c)
        /\ \/ call[h] \in TooLarge
           \/ \E command \in Parses(Encode(call[h])) : command.cmd \in MayPanic
        /\ link' = [link EXCEPT ![c].requests = Tail(@)]
        /\ UNCHANGED <<handlers, pool, server, cancels>>

\* The loop ends, and the connection with it: the frame is too large, or the
\* command panics, after it has changed nothing or a part.
HangUp(c) ==
    LET h == Head(link[c].requests)
    IN  /\ Serves(c)
        /\ \/ call[h] \in TooLarge
           \/ \E command \in Parses(Encode(call[h])) : command.cmd \in MayPanic
        /\ link' = [link EXCEPT ![c].open = FALSE, ![c].requests = <<>>]
        /\ UNCHANGED <<handlers, pool, server, cancels>>

RejectFrame(c) ==
    LET h == Head(link[c].requests)
    IN  /\ Serves(c) /\ call[h] \notin TooLarge
        /\ ParseError \in Parses(Encode(call[h]))
        /\ Answer(c, ErrReply)
        /\ UNCHANGED <<handlers, pool, server, cancels>>

\* handle_command
HandleCommand(c) ==
    LET h == Head(link[c].requests)
    IN  /\ Serves(c) /\ call[h] \notin TooLarge
        /\ \E command \in Parses(Encode(call[h])) \ {ParseError}, ok \in BOOLEAN :
            /\ ran' = [ran EXCEPT ![h] = Append(@, [command |-> command, ok |-> ok])]
            /\ IF ok THEN \E shape \in Replies[command.cmd] : Answer(c, OkReply(shape))
                     ELSE Answer(c, ErrReply)
        /\ UNCHANGED <<handlers, pool, up, stops, cancels>>

\* Answers that were sent before the end can still be read.
Stop ==
    /\ up /\ stops < MaxStops
    /\ up' = FALSE /\ stops' = stops + 1
    /\ link' = [c \in Conns |-> [link[c] EXCEPT !.open = FALSE, !.requests = <<>>]]
    /\ UNCHANGED <<handlers, pool, ran, cancels>>

Restart == ~up /\ up' = TRUE /\ UNCHANGED <<handlers, pool, link, stops, ran, cancels>>
-----------------------------------------------------------------------------
HandlerStep(h) ==
    \/ Lock(h) \/ AcquireLive(h) \/ MeetDead(h) \/ ConnectDirectly(h)
    \/ Send(h) \/ IoError(h) \/ Receive(h)

ServerStep(c) == HangUp(c) \/ RejectFrame(c) \/ HandleCommand(c)

Next ==
    \/ \E h \in Handlers : Request(h) \/ HandlerStep(h) \/ MissingArgument(h) \/ Cancel(h)
    \/ \E c \in Conns : ServerStep(c) \/ Arrive(c)
    \/ Replace \/ ReplaceFails \/ Stop \/ Restart

\* Tasks run when they can, on both sides, but for commands that wait for the
\* HA manager; nobody has to stop or start the server, to send requests or to
\* give them up.
Fairness ==
    /\ \A h \in Handlers : WF_vars(HandlerStep(h))
    /\ \A c \in Conns : WF_vars(~WaitsForHa(c) /\ ServerStep(c)) /\ WF_vars(Arrive(c))
    /\ WF_vars(Replace \/ ReplaceFails)

Spec == Init /\ [][Next]_vars /\ Fairness
-----------------------------------------------------------------------------
Held     == {conn[h] : h \in Handlers} \ {0}
At(place) == {c \in Conns : link[c].place = place}

TypeOK ==
    /\ \A h \in Handlers :
        /\ pc[h] \in {"idle", "locking", "receiving", "ready", "sent", "done"}
        /\ conn[h] # 0 <=> pc[h] \in {"ready", "sent"}
        /\ receiver = h <=> pc[h] = "receiving"
    /\ Len(slots) <= Size /\ IsInjective(slots)
    /\ At("slots") = ToSet(slots) /\ At("held") = Held
    /\ \A h, k \in Handlers : h # k /\ conn[h] # 0 => conn[h] # conn[k]

\* A connection is never given up without a successor: what is in the pool,
\* in use or being replaced never falls below the size it started with, but
\* for the replacements that found the server down.
SlotsAreReplaced ==
    Len(slots) + Cardinality(Held) + Cardinality(At("arriving")) + replacing + lost >= Size

\* Answers do not get mixed up: whoever reads one reads that of its own
\* request, however connections are reused, replaced and closed, unless a
\* request was given up on the same connection while its answer was due.
AnswersAreMine ==
    \A h \in Handlers : answer[h] # NoAnswer /\ ~answer[h].stray => answer[h].of = h

\* A success that is reported for a group or key-value call means that the
\* server ran this very call, once, with these arguments, and succeeded: no
\* call is repeated on another connection, and what one end writes the other
\* reads as the same command.
SuccessesHappened ==
    \A h \in Handlers :
        /\ Len(ran[h]) <= 1
        /\ status[h] \in {200, 404} /\ ~answer[h].stray /\ call[h].op \notin ListOps =>
            ran[h] = <<[command |-> Intended(call[h]), ok |-> TRUE]>>

\* Every request is answered, whatever the server does, as long as the pool
\* has not lost all of its slots to replacements that failed and no
\* connection is stuck behind the lock of the HA manager.
RequestsEnd ==
    \A h \in Handlers :
        pc[h] = "locking" ~> \/ pc[h] = "done" \/ lost >= Size
                             \/ \E c \in Conns : WaitsForHa(c)
=============================================================================
