---------------------------- MODULE ClientProofs ----------------------------
(***************************************************************************)
(* Proofs about Client, for every number of requests, every size of the    *)
(* pool and any number of stops and of requests that are given up.         *)
(***************************************************************************)
EXTENDS Client, ProofLemmas, SequenceTheorems

(* The tables of the two ends *)

\* The commands of the client's tables, and the opcodes of the server's.
LEMMA TableDomains ==
    /\ GroupOps = {"CreateGroup", "DropGroup", "Add", "AddRange", "Read", "ReadRange",
                   "Remove", "ListGroups", "GroupStats"}
    /\ KvOps = {"SetKey", "GetKey", "DelKey", "Keys", "Flush"}
    /\ ListOps = {"LPush", "LPushRange", "LPop", "LPopRange", "LPopCount", "LLen", "LFlush"}
    /\ DOMAIN Requests = GroupOps \cup KvOps \cup ListOps
    /\ DOMAIN GroupArms = 1 .. 9 /\ DOMAIN KvArms = 16 .. 20
    /\ DOMAIN ListArms = (21 .. 25) \cup (32 .. 33) /\ DOMAIN HaArms = 34 .. 36
<1>1. /\ GroupOps = {"CreateGroup", "DropGroup", "Add", "AddRange", "Read", "ReadRange",
                   "Remove", "ListGroups", "GroupStats"}
      /\ KvOps = {"SetKey", "GetKey", "DelKey", "Keys", "Flush"}
      /\ ListOps = {"LPush", "LPushRange", "LPop", "LPopRange", "LPopCount", "LLen", "LFlush"}
  BY DEF GroupOps, KvOps, ListOps, GroupRequests, KvRequests, ListRequests
<1>2. DOMAIN Requests = GroupOps \cup KvOps \cup ListOps
  BY DEF Requests, Join, GroupOps, KvOps, ListOps
<1>3. DOMAIN GroupArms = 1 .. 9 /\ DOMAIN KvArms = 16 .. 20 /\ DOMAIN HaArms = 34 .. 36
  BY DEF GroupArms, KvArms, HaArms, From
<1>4. DOMAIN ListArms = (21 .. 25) \cup (32 .. 33)
  BY DEF ListArms, Join, From
<1> QED
  BY <1>1, <1>2, <1>3, <1>4

\* Behind the opcode that a method for groups or keys writes, parse_command has
\* the arm of the command it is named by, with the fields in the same order.
LEMMA EndsAgree ==
    ASSUME NEW op \in GroupOps \cup KvOps
    PROVE  /\ op \in DOMAIN Requests /\ Requests[op].tag \in DOMAIN Arms
           /\ Arms[Requests[op].tag] = Arm(op, Requests[op].kinds)
           /\ Len(Requests[op].kinds) \in Nat
           /\ DOMAIN Requests[op].kinds = 1 .. Len(Requests[op].kinds)
<1>1. op \in DOMAIN Requests
  BY TableDomains
<1>2. CASE op \in GroupOps
  <2>1. Requests[op] = GroupRequests[op]
    BY <1>2 DEF Requests, Join, GroupOps
  <2>2. /\ GroupRequests["CreateGroup"] = Frame(1, <<"str">>)
        /\ GroupRequests["DropGroup"] = Frame(2, <<"str">>)
        /\ GroupRequests["Add"] = Frame(3, <<"str", "u64", "bytes">>)
        /\ GroupRequests["AddRange"] = Frame(4, <<"str", "entries">>)
        /\ GroupRequests["Read"] = Frame(5, <<"str", "u64">>)
        /\ GroupRequests["ReadRange"] = Frame(6, <<"str", "u64", "u64">>)
        /\ GroupRequests["Remove"] = Frame(7, <<"str", "u64">>)
        /\ GroupRequests["ListGroups"] = Frame(8, <<>>)
        /\ GroupRequests["GroupStats"] = Frame(9, <<"str">>)
    BY DEF GroupRequests
  <2>3. /\ GroupArms[1] = Arm("CreateGroup", <<"str">>)
        /\ GroupArms[2] = Arm("DropGroup", <<"str">>)
        /\ GroupArms[3] = Arm("Add", <<"str", "u64", "bytes">>)
        /\ GroupArms[4] = Arm("AddRange", <<"str", "entries">>)
        /\ GroupArms[5] = Arm("Read", <<"str", "u64">>)
        /\ GroupArms[6] = Arm("ReadRange", <<"str", "u64", "u64">>)
        /\ GroupArms[7] = Arm("Remove", <<"str", "u64">>)
        /\ GroupArms[8] = Arm("ListGroups", <<>>)
        /\ GroupArms[9] = Arm("GroupStats", <<"str">>)
    BY DEF GroupArms, From
  <2>4. GroupRequests[op].tag \in 1 .. 9
    BY <1>2, <2>2, TableDomains DEF Frame
  <2>7. GroupArms[GroupRequests[op].tag] = Arm(op, GroupRequests[op].kinds)
    <3>1. CASE op \in {"CreateGroup", "DropGroup", "Add", "AddRange", "Read"}
      BY <3>1, <2>2, <2>3 DEF Frame
    <3>2. CASE op \in {"ReadRange", "Remove", "ListGroups", "GroupStats"}
      BY <3>2, <2>2, <2>3 DEF Frame
    <3> QED
      BY <3>1, <3>2, <1>2, TableDomains
  <2>5. /\ Len(GroupRequests[op].kinds) \in Nat
        /\ DOMAIN GroupRequests[op].kinds = 1 .. Len(GroupRequests[op].kinds)
    BY <1>2, <2>2, TableDomains DEF Frame
  <2>6. \A n \in 1 .. 9 : n \in DOMAIN Arms /\ Arms[n] = GroupArms[n]
    BY TableDomains DEF Arms, Join
  <2> QED
    BY <1>1, <2>1, <2>4, <2>5, <2>6, <2>7
<1>3. CASE op \in KvOps
  <2>1. Requests[op] = KvRequests[op]
    BY <1>3, TableDomains DEF Requests, Join, GroupOps, KvOps
  <2>2. /\ KvRequests["SetKey"] = Frame(16, <<"str", "str", "u64", "bytes">>)
        /\ KvRequests["GetKey"] = Frame(17, <<"str", "str">>)
        /\ KvRequests["DelKey"] = Frame(18, <<"str", "str">>)
        /\ KvRequests["Keys"] = Frame(19, <<"str">>)
        /\ KvRequests["Flush"] = Frame(20, <<"str">>)
    BY DEF KvRequests
  <2>3. /\ KvArms[16] = Arm("SetKey", <<"str", "str", "u64", "bytes">>)
        /\ KvArms[17] = Arm("GetKey", <<"str", "str">>)
        /\ KvArms[18] = Arm("DelKey", <<"str", "str">>)
        /\ KvArms[19] = Arm("Keys", <<"str">>)
        /\ KvArms[20] = Arm("Flush", <<"str">>)
    BY DEF KvArms, From
  <2>4. /\ KvRequests[op].tag \in 16 .. 20
        /\ KvArms[KvRequests[op].tag] = Arm(op, KvRequests[op].kinds)
    BY <1>3, <2>2, <2>3, TableDomains DEF Frame
  <2>5. /\ Len(KvRequests[op].kinds) \in Nat
        /\ DOMAIN KvRequests[op].kinds = 1 .. Len(KvRequests[op].kinds)
    BY <1>3, <2>2, TableDomains DEF Frame
  <2>6. \A n \in 16 .. 20 : n \in DOMAIN Arms /\ Arms[n] = KvArms[n]
    BY TableDomains DEF Arms, Join
  <2> QED
    BY <1>1, <2>1, <2>4, <2>5, <2>6
<1> QED
  BY <1>2, <1>3

\* So the frame of such a call is read as this call and as nothing else.
LEMMA ReadAsMeant ==
    ASSUME NEW c, c.op \in GroupOps \cup KvOps,
           c.args = [i \in DOMAIN Requests[c.op].kinds |-> c.args[i]]
    PROVE  Parses(Encode(c)) = {Intended(c)}
<1> DEFINE kinds == Requests[c.op].kinds
           frame == Encode(c)
           arm   == Arms[frame.tag]
<1>1. /\ frame.tag \in DOMAIN Arms /\ arm = Arm(c.op, kinds)
      /\ Len(kinds) \in Nat /\ DOMAIN kinds = 1 .. Len(kinds)
  BY EndsAgree DEF Encode
<1>2. DOMAIN c.args = 1 .. Len(kinds)
  BY <1>1
<1>3. frame.fields = [i \in 1 .. Len(kinds) |-> <<kinds[i], c.args[i]>>]
  BY <1>2 DEF Encode
<1>4. Len(frame.fields) = Len(kinds)
  BY <1>1, <1>3
<1>5. arm.cmd = c.op /\ arm.kinds = kinds /\ arm.skip = 0
  BY <1>1 DEF Arm
<1> HIDE DEF kinds, frame, arm
<1> DEFINE fits(i) == i <= Len(frame.fields) /\ frame.fields[i][1] = arm.kinds[i]
           read(i) == IF \A n \in 1 .. i : fits(n) THEN frame.fields[i][2] ELSE Garbage
           args == [i \in 1 .. Len(arm.kinds) - arm.skip |-> read(i + arm.skip)]
<1>6. \A i \in 1 .. Len(kinds) : fits(i)
  BY <1>1, <1>3, <1>4, <1>5
<1>7. \A i \in 1 .. Len(kinds) : read(i + 0) = c.args[i]
  BY <1>1, <1>3, <1>6
<1>8. args = [i \in 1 .. Len(kinds) |-> c.args[i]]
  <2> HIDE DEF read
  <2>1. Len(arm.kinds) - arm.skip = Len(kinds)
    BY ONLY <1>1, <1>5
  <2>2. \A i \in 1 .. Len(kinds) : read(i + arm.skip) = c.args[i]
    BY ONLY <1>5, <1>7, Zenon
  <2>3. args = [i \in 1 .. Len(kinds) |-> read(i + arm.skip)]
    BY ONLY <2>1, Zenon
  <2> QED
    BY ONLY <2>2, <2>3, Zenon
<1>9. args = c.args
  BY <1>1, <1>2, <1>8 DEF kinds
<1>10. \A i \in DOMAIN arm.kinds : fits(i)
  BY <1>1, <1>5, <1>6
<1> HIDE DEF fits
<1>11. Parses(frame) = {[cmd |-> arm.cmd, args |-> args]}
  BY <1>1, <1>10 DEF Parses, arm, fits
<1> QED
  BY <1>5, <1>9, <1>11 DEF Intended, frame

AnyReply == {ErrReply} \cup {OkReply(shape) : shape \in UNION {Replies[cmd] : cmd \in DOMAIN Replies}}

\* handle_command has an answer for all that parse_command may come to.
LEMMA EveryCommandIsAnswered ==
    ASSUME NEW frame, NEW command \in Parses(frame) \ {ParseError}
    PROVE  command.cmd \in DOMAIN Replies
<1>1. DOMAIN Replies = GroupOps \cup KvOps \cup ListOps
                         \cup {"HaRegisterFollower", "HaHeartBeat", "HaSync"}
  <2>1. /\ DOMAIN GroupReplies = GroupOps /\ DOMAIN KvReplies = KvOps
        /\ DOMAIN ListReplies = ListOps
        /\ DOMAIN HaReplies = {"HaRegisterFollower", "HaHeartBeat", "HaSync"}
    BY TableDomains DEF GroupReplies, KvReplies, ListReplies, HaReplies
  <2> QED
    BY <2>1 DEF Replies, Join
<1>2. DOMAIN Arms = (1 .. 9) \cup (16 .. 20) \cup (21 .. 25) \cup (32 .. 33) \cup (34 .. 36)
  BY TableDomains DEF Arms, Join
<1>3. \A n \in 1 .. 9 : GroupArms[n].cmd \in GroupOps
  BY TableDomains DEF GroupArms, From, Arm
<1>4. \A n \in 16 .. 20 : KvArms[n].cmd \in KvOps
  BY TableDomains DEF KvArms, From, Arm
<1>5. \A n \in (21 .. 25) \cup (32 .. 33) : ListArms[n].cmd \in ListOps
  BY TableDomains DEF ListArms, Join, From, ListArm
<1>6. \A n \in 34 .. 36 : HaArms[n].cmd \in {"HaRegisterFollower", "HaHeartBeat", "HaSync"}
  BY TableDomains DEF HaArms, From, Arm
<1>7. \A n \in DOMAIN Arms : Arms[n].cmd \in DOMAIN Replies
  <2> SUFFICES ASSUME NEW n \in DOMAIN Arms PROVE Arms[n].cmd \in DOMAIN Replies
    OBVIOUS
  <2>1. \/ n \in 1 .. 9 /\ Arms[n] = GroupArms[n]
        \/ n \in 16 .. 20 /\ Arms[n] = KvArms[n]
        \/ n \in (21 .. 25) \cup (32 .. 33) /\ Arms[n] = ListArms[n]
        \/ n \in 34 .. 36 /\ Arms[n] = HaArms[n]
    BY <1>2, TableDomains DEF Arms, Join
  <2> QED
    BY <2>1, <1>1, <1>3, <1>4, <1>5, <1>6
<1>8. frame.tag \in DOMAIN Arms /\ command.cmd = Arms[frame.tag].cmd
  BY DEF Parses
<1> QED
  BY <1>7, <1>8

\* The HTTP status tells whether the server reported a success.
LEMMA FailuresAreReported ==
    ASSUME NEW op \in DOMAIN Requests
    PROVE  /\ StatusOf[op]["io"] = 500 /\ StatusOf[op]["err"] = 400
           /\ op \in NeedsBody => StatusOf[op]["missing"] = 400
<1>1. CASE op \in {"CreateGroup", "ListGroups", "DropGroup", "GroupStats"}
  <2>1. StatusOf[op] = GroupStatus[op]
    BY <1>1 DEF StatusOf, Join, GroupStatus, EntryStatus
  <2> QED
    BY <1>1, <2>1 DEF GroupStatus, NeedsBody
<1>2. CASE op \in {"Add", "AddRange", "Read", "ReadRange", "Remove"}
  <2>1. StatusOf[op] = EntryStatus[op]
    BY <1>2 DEF StatusOf, Join, GroupStatus, EntryStatus
  <2> QED
    BY <1>2, <2>1 DEF EntryStatus, NeedsBody
<1>3. CASE op \in KvOps
  <2>1. StatusOf[op] = KvStatus[op]
    BY <1>3, TableDomains DEF StatusOf, Join, GroupStatus, EntryStatus, KvStatus
  <2> QED
    BY <1>3, <2>1 DEF KvStatus
<1>4. CASE op \in ListOps
  <2>1. StatusOf[op] = ListStatus[op]
    BY <1>4, TableDomains DEF StatusOf, Join, GroupStatus, EntryStatus, KvStatus, ListStatus
  <2> QED
    BY <1>4, <2>1 DEF ListStatus
<1> QED
  BY <1>1, <1>2, <1>3, <1>4, TableDomains

LEMMA ErrorsAreErrors ==
    ASSUME NEW op, NEW reply, ~reply.ok
    PROVE  Results(op, reply) = {"err"}
  BY DEF Results, Decode
-----------------------------------------------------------------------------
(* The inductive invariant *)

SentAnswers == [of : Handlers, reply : AnyReply]

Links == [place : {"none", "slots", "held", "arriving"}, open : BOOLEAN,
          requests : Seq(Handlers), answers : Seq(SentAnswers),
          used : BOOLEAN, stray : BOOLEAN]

Typed ==
    /\ pc \in [Handlers -> {"idle", "locking", "receiving", "ready", "sent", "done"}]
    /\ conn \in [Handlers -> Conns \cup {0}] /\ receiver \in Handlers \cup {0}
    /\ slots \in Seq(Conns) /\ link \in [Conns -> Links]
    /\ replacing \in Nat /\ lost \in Nat

\* Every connection has one owner, as TypeOK says it.
Owned ==
    /\ \A h \in Handlers : conn[h] # 0 <=> pc[h] \in {"ready", "sent"}
    /\ \A h \in Handlers : receiver = h <=> pc[h] = "receiving"
    /\ Len(slots) <= Size /\ IsInjective(slots)
    /\ \A c \in Conns : link[c].place = "slots" <=> c \in ToSet(slots)
    /\ \A c \in Conns : link[c].place = "held" <=> \E h \in Handlers : conn[h] = c
    /\ \A h, k \in Handlers : h # k /\ conn[h] # 0 => conn[h] # conn[k]

\* The client's ends that are not closed.
InUse  == {c \in Conns : link[c].place # "none"}
Enough == Cardinality(InUse) + replacing + lost >= Size

\* Unless a request was given up there, nothing is under way on a connection but
\* the frame or the answer of the handler that has it.
Idle(l) == l.requests = <<>> /\ l.answers = <<>>

CleanConn(l) ==
    /\ ~l.open => l.requests = <<>>
    /\ l.place = "none" => l.answers = <<>>
    /\ ~l.stray /\ l.place \in {"slots", "arriving"} => Idle(l)

CleanHandler(h, at, l) ==
    /\ at = "ready" /\ ~l.stray => Idle(l)
    /\ at = "sent" /\ ~l.stray => \/ Idle(l)
                                  \/ l.requests = <<h>> /\ l.answers = <<>>
                                  \/ /\ l.requests = <<>> /\ Len(l.answers) = 1
                                     /\ l.answers[1].of = h

Clean == /\ \A c \in Conns : CleanConn(link[c])
         /\ \A h \in Handlers : CleanHandler(h, pc[h], link[conn[h]])

\* A frame is under way once, and has not been run.
Once ==
    /\ DOMAIN ran = Handlers
    /\ \A h \in Handlers : ran[h] = <<>> \/ ran[h] = <<ran[h][1]>>
    /\ \A h \in Handlers : pc[h] \notin {"sent", "done"} => ran[h] = <<>>
    /\ \A c \in Conns : \A i \in 1 .. Len(link[c].requests) :
        /\ pc[link[c].requests[i]] \in {"sent", "done"}
        /\ ran[link[c].requests[i]] = <<>>
    /\ \A c, d \in Conns : \A i \in 1 .. Len(link[c].requests), j \in 1 .. Len(link[d].requests) :
        link[c].requests[i] = link[d].requests[j] => c = d /\ i = j

RanAsMeant(h) == ran[h] = <<[command |-> Intended(call[h]), ok |-> TRUE]>>

TrueAnswer(a) ==
    /\ pc[a.of] \in {"sent", "done"}
    /\ a.reply.ok /\ call[a.of].op \notin ListOps => RanAsMeant(a.of)

\* Answers and statuses tell what was run.
Truthful ==
    /\ DOMAIN call = Handlers /\ DOMAIN status = Handlers
    /\ answer \in [Handlers -> [of : Handlers \cup {0}, stray : BOOLEAN]]
    /\ \A h \in Handlers : pc[h] # "idle" => call[h] \in Calls[h]
    /\ \A h \in Handlers : pc[h] # "done" => status[h] = 0
    /\ \A c \in Conns : \A i \in 1 .. Len(link[c].answers) : TrueAnswer(link[c].answers[i])
    /\ \A h \in Handlers :
        status[h] \in {200, 404} /\ ~answer[h].stray /\ call[h].op \notin ListOps => RanAsMeant(h)

IInv == Typed /\ Owned /\ Enough /\ Clean /\ Once /\ Truthful /\ AnswersAreMine
-----------------------------------------------------------------------------
(* Connections and their owners *)

LEMMA NewConnIsFree ==
    ASSUME Typed, Unused # {}
    PROVE  NewConn \in Conns /\ link[NewConn].place = "none" /\ link[NewConn].requests = <<>>
<1>1. Unused \in SUBSET Nat
  BY ClientAssumption DEF Unused
<1>2. \E m \in Unused : \A n \in Unused : m <= n
  BY <1>1, LeastNatural
<1>3. NewConn \in Unused
  BY <1>2 DEF NewConn, Min
<1> QED
  BY <1>3 DEF Unused

LEMMA FreshIsALink ==
    ASSUME NEW place \in {"slots", "held", "arriving"}
    PROVE  /\ Closed \in Links /\ Fresh(place) \in Links /\ Fresh(place).place = place
           /\ Idle(Fresh(place)) /\ Fresh(place).open /\ ~Fresh(place).stray
           /\ Idle(Closed) /\ Closed.place = "none"
<1>1. Closed \in Links /\ Idle(Closed) /\ Closed.place = "none" /\ ~Closed.stray
  BY DEF Closed, Links, Idle
<1> QED
  BY <1>1 DEF Fresh, Links, Idle

LEMMA CloseIsALink ==
    ASSUME NEW l \in Links
    PROVE  /\ Close(l) \in Links /\ Close(l).place = "none" /\ Close(l).answers = <<>>
           /\ Close(l).requests = l.requests /\ Close(l).open = l.open
<1>0. <<>> \in Seq(SentAnswers)
  OBVIOUS
<1>1. PICK none \in Seq(SentAnswers) : none = <<>>
  BY <1>0, Zenon
<1>2. Close(l) = [l EXCEPT !.place = "none", !.answers = none, !.used = FALSE, !.stray = FALSE]
  BY <1>1 DEF Close
<1> QED
  BY <1>1, <1>2 DEF Links

\* The connection that acquire receives.
LEMMA HeadOfSlots ==
    ASSUME Typed, Owned, slots # <<>>
    PROVE  /\ Head(slots) \in Conns /\ link[Head(slots)].place = "slots"
           /\ link[Head(slots)] \in Links
           /\ Tail(slots) \in Seq(Conns) /\ Len(Tail(slots)) = Len(slots) - 1
           /\ IsInjective(Tail(slots)) /\ ToSet(Tail(slots)) = ToSet(slots) \ {Head(slots)}
  BY InjectiveTail DEF Typed, Owned

\* The connection of a handler.
LEMMA OwnConn ==
    ASSUME Typed, Owned, NEW h \in Handlers, pc[h] \in {"ready", "sent"}
    PROVE  /\ conn[h] \in Conns /\ link[conn[h]].place = "held" /\ link[conn[h]] \in Links
           /\ \A k \in Handlers : k # h => conn[k] # conn[h]
  BY ClientAssumption DEF Typed, Owned

\* A connection that is dropped goes back to the pool or is closed.
LEMMA LeaveEnds ==
    ASSUME NEW h \in Handlers, NEW l, Leave(h, l)
    PROVE  /\ conn' = [conn EXCEPT ![h] = 0]
           /\ \/ /\ Len(slots) < Size /\ slots' = Append(slots, conn[h])
                 /\ link' = [link EXCEPT ![conn[h]] = [l EXCEPT !.place = "slots"]]
                 /\ replacing' = replacing
              \/ /\ slots' = slots
                 /\ link' = [link EXCEPT ![conn[h]] = Close(l)]
                 /\ \/ replacing' = replacing + 1
                    \/ replacing' = replacing /\ ~(Len(slots) < Size)
  BY DEF Leave, GiveBack

\* What Drop for PooledClient does to the owners.
LEMMA LeaveOwned ==
    ASSUME Typed, Owned, NEW h \in Handlers, pc[h] \in {"ready", "sent"},
           NEW l \in Links, Leave(h, l), pc' = [pc EXCEPT ![h] = "done"],
           UNCHANGED <<receiver, lost>>
    PROVE  Typed' /\ Owned'
<1> DEFINE c == conn[h]
<1>0. c \in Conns /\ link[c].place = "held" /\ c # 0 /\ \A k \in Handlers : k # h => conn[k] # c
  BY OwnConn, ClientAssumption
<1>1. conn' = [conn EXCEPT ![h] = 0]
  BY LeaveEnds
<1>2. /\ conn' \in [Handlers -> Conns \cup {0}] /\ receiver' \in Handlers \cup {0} /\ lost' \in Nat
      /\ pc' \in [Handlers -> {"idle", "locking", "receiving", "ready", "sent", "done"}]
  BY <1>1 DEF Typed
<1>3. /\ \A k \in Handlers : conn'[k] # 0 <=> pc'[k] \in {"ready", "sent"}
      /\ \A k \in Handlers : receiver' = k <=> pc'[k] = "receiving"
  BY <1>1 DEF Typed, Owned
<1>4. /\ \A i, k \in Handlers : i # k /\ conn'[i] # 0 => conn'[i] # conn'[k]
      /\ \A d \in Conns : (\E k \in Handlers : conn'[k] = d) <=> d # c /\ \E k \in Handlers : conn[k] = d
  BY <1>0, <1>1, ClientAssumption DEF Typed, Owned
<1>5. CASE /\ Len(slots) < Size /\ slots' = Append(slots, c)
           /\ link' = [link EXCEPT ![c] = [l EXCEPT !.place = "slots"]]
           /\ replacing' = replacing
  <2>1. [l EXCEPT !.place = "slots"] \in Links /\ [l EXCEPT !.place = "slots"].place = "slots"
    BY DEF Links
  <2>2. /\ slots' \in Seq(Conns) /\ Len(slots') = Len(slots) + 1
        /\ IsInjective(slots') /\ ToSet(slots') = ToSet(slots) \cup {c}
    BY <1>0, <1>5, InjectiveAppend DEF Typed, Owned
  <2>3. link' \in [Conns -> Links] /\ replacing' \in Nat
    BY <1>5, <2>1 DEF Typed
  <2>4. Len(slots') <= Size
    BY <1>5, <2>2, ClientAssumption DEF Typed
  <2>5. \A d \in Conns : link'[d] = IF d = c THEN [l EXCEPT !.place = "slots"] ELSE link[d]
    BY <1>0, <1>5 DEF Typed
  <2>6. \A d \in Conns : link'[d].place = "slots" <=> d \in ToSet(slots')
    BY <2>1, <2>2, <2>5 DEF Owned
  <2>7. \A d \in Conns : link'[d].place = "held" <=> \E k \in Handlers : conn'[k] = d
    <3> SUFFICES ASSUME NEW d \in Conns
                 PROVE  link'[d].place = "held" <=> \E k \in Handlers : conn'[k] = d
      OBVIOUS
    <3>1. CASE d = c
      BY <3>1, <1>4, <2>1, <2>5
    <3>2. CASE d # c
      BY <3>2, <1>4, <2>5 DEF Owned
    <3> QED
      BY <3>1, <3>2
  <2> QED
    BY <1>2, <1>3, <1>4, <2>2, <2>3, <2>4, <2>6, <2>7 DEF Typed, Owned
<1>6. CASE /\ slots' = slots /\ link' = [link EXCEPT ![c] = Close(l)]
           /\ replacing' = replacing \/ replacing' = replacing + 1
  <2>1. Close(l) \in Links /\ Close(l).place = "none"
    BY CloseIsALink
  <2>2. link' \in [Conns -> Links] /\ replacing' \in Nat
    BY <1>0, <1>6, <2>1 DEF Typed
  <2>3. \A d \in Conns : link'[d] = IF d = c THEN Close(l) ELSE link[d]
    BY <1>0, <1>6 DEF Typed
  <2> QED
    BY <1>0, <1>2, <1>3, <1>4, <1>6, <2>1, <2>2, <2>3 DEF Typed, Owned
<1> QED
  BY <1>5, <1>6, LeaveEnds

\* The frame that the server reads next, and what answering it does.
LEMMA FirstRequest ==
    ASSUME Typed, NEW c \in Conns, Serves(c)
    PROVE  /\ link[c] \in Links /\ link[c].open /\ link[c].requests \in Seq(Handlers)
           /\ Len(link[c].requests) \in Nat /\ Len(link[c].requests) >= 1
           /\ Head(link[c].requests) = link[c].requests[1]
           /\ link[c].requests[1] \in Handlers
           /\ Tail(link[c].requests) \in Seq(Handlers)
           /\ Len(Tail(link[c].requests)) = Len(link[c].requests) - 1
           /\ \A i \in 1 .. Len(link[c].requests) - 1 :
                Tail(link[c].requests)[i] = link[c].requests[i + 1]
<1>1. link[c] \in Links /\ link[c].open /\ link[c].requests \in Seq(Handlers) /\ link[c].requests # <<>>
  BY DEF Typed, Serves, Links
<1> QED
  BY <1>1

LEMMA AnswerFacts ==
    ASSUME Typed, NEW c \in Conns, Serves(c), NEW reply \in AnyReply, Answer(c, reply)
    PROVE  /\ link' \in [Conns -> Links]
           /\ \A d \in Conns : d # c => link'[d] = link[d]
           /\ link'[c].place = link[c].place /\ link'[c].open = link[c].open
           /\ link'[c].stray = link[c].stray
           /\ link'[c].requests = Tail(link[c].requests)
           /\ link'[c].answers =
                IF link[c].place = "none" THEN link[c].answers
                ELSE Append(link[c].answers, [of |-> link[c].requests[1], reply |-> reply])
<1> DEFINE l == link[c]
           r == Tail(l.requests)
           a == IF l.place = "none" THEN l.answers
                ELSE Append(l.answers, [of |-> l.requests[1], reply |-> reply])
<1>1. l \in Links /\ l.requests[1] \in Handlers /\ r \in Seq(Handlers) /\ Head(l.requests) = l.requests[1]
  BY FirstRequest
<1>2. [of |-> l.requests[1], reply |-> reply] \in SentAnswers
  BY <1>1 DEF SentAnswers
<1>3. a \in Seq(SentAnswers)
  BY <1>1, <1>2 DEF Links
<1>4. link' = [link EXCEPT ![c] = [l EXCEPT !.requests = r, !.answers = a]]
  BY <1>1 DEF Answer
<1> HIDE DEF l, r, a
<1>5. [l EXCEPT !.requests = r, !.answers = a] \in Links
  BY <1>1, <1>3 DEF Links
<1>6. link' \in [Conns -> Links] /\ \A d \in Conns : d # c => link'[d] = link[d]
  BY <1>4, <1>5 DEF Typed
<1>7. link'[c] = [l EXCEPT !.requests = r, !.answers = a]
  BY <1>4 DEF Typed
<1>8. /\ link'[c].place = l.place /\ link'[c].open = l.open /\ link'[c].stray = l.stray
      /\ link'[c].requests = r /\ link'[c].answers = a
  BY <1>7, <1>1 DEF Links
<1> QED
  BY <1>6, <1>8 DEF l, r, a

LEMMA SamePlaces ==
    ASSUME Typed, Owned, UNCHANGED <<conn, receiver, slots, replacing, lost>>,
           pc' \in [Handlers -> {"idle", "locking", "receiving", "ready", "sent", "done"}],
           \A h \in Handlers : (pc'[h] \in {"ready", "sent"} <=> pc[h] \in {"ready", "sent"})
                               /\ (pc'[h] = "receiving" <=> pc[h] = "receiving"),
           link' \in [Conns -> Links], \A c \in Conns : link'[c].place = link[c].place
    PROVE  Typed' /\ Owned'
<1>1. Typed'
  BY DEF Typed
<1>2. Owned'
  BY DEF Owned
<1> QED
  BY <1>1, <1>2

\* The connection as Receive leaves it.
LEMMA ReadOnce ==
    ASSUME NEW l \in Links, l.answers # <<>>
    PROVE  [l EXCEPT !.answers = Tail(@), !.used = TRUE] \in Links
<1>1. Tail(l.answers) \in Seq(SentAnswers)
  BY DEF Links
<1>2. PICK rest \in Seq(SentAnswers) : rest = Tail(l.answers)
  BY <1>1, Zenon
<1>3. [l EXCEPT !.answers = Tail(@), !.used = TRUE] = [l EXCEPT !.answers = rest, !.used = TRUE]
  BY <1>2
<1>4. [l EXCEPT !.answers = rest, !.used = TRUE] \in Links
  BY DEF Links
<1> QED
  BY <1>3, <1>4

\* Both answers of the server are of a known shape.
LEMMA ServerAnswers ==
    ASSUME NEW c \in Conns, RejectFrame(c) \/ HandleCommand(c)
    PROVE  /\ Serves(c) /\ UNCHANGED <<handlers, pool>>
           /\ \E reply \in AnyReply : Answer(c, reply)
<1>1. CASE RejectFrame(c)
  BY <1>1 DEF RejectFrame, AnyReply
<1>2. CASE HandleCommand(c)
  <2> DEFINE frame == Encode(call[Head(link[c].requests)])
  <2>1. /\ Serves(c) /\ UNCHANGED <<handlers, pool>>
        /\ \E command \in Parses(frame) \ {ParseError} :
             (\E shape \in Replies[command.cmd] : Answer(c, OkReply(shape))) \/ Answer(c, ErrReply)
    BY <1>2 DEF HandleCommand
  <2> HIDE DEF frame
  <2>2. PICK command \in Parses(frame) \ {ParseError} :
          (\E shape \in Replies[command.cmd] : Answer(c, OkReply(shape))) \/ Answer(c, ErrReply)
    BY <2>1
  <2>3. command.cmd \in DOMAIN Replies
    BY EveryCommandIsAnswered
  <2> QED
    BY <2>1, <2>2, <2>3 DEF AnyReply
<1> QED
  BY <1>1, <1>2

\* The end of a connection at the server.
LEMMA HangUpFacts ==
    ASSUME Typed, NEW c \in Conns, NEW l, l = [link[c] EXCEPT !.open = FALSE, !.requests = <<>>]
    PROVE  /\ l \in Links /\ l.place = link[c].place /\ l.answers = link[c].answers
           /\ l.stray = link[c].stray /\ ~l.open /\ l.requests = <<>>
<1>1. <<>> \in Seq(Handlers)
  OBVIOUS
<1>2. PICK none \in Seq(Handlers) : none = <<>>
  BY <1>1, Zenon
<1>3. link[c] \in Links
  BY DEF Typed
<1>4. l = [link[c] EXCEPT !.open = FALSE, !.requests = none]
  BY <1>2
<1> QED
  BY <1>2, <1>3, <1>4 DEF Links

LEMMA ServerKeepsPlaces ==
    ASSUME Typed, NEW c \in Conns, ServerStep(c)
    PROVE  /\ UNCHANGED <<pc, conn, receiver, slots, replacing, lost>>
           /\ link' \in [Conns -> Links] /\ \A d \in Conns : link'[d].place = link[d].place
<1>1. CASE HangUp(c)
  <2> DEFINE l == [link[c] EXCEPT !.open = FALSE, !.requests = <<>>]
  <2>1. link' = [link EXCEPT ![c] = l] /\ UNCHANGED <<handlers, pool>>
    BY <1>1 DEF HangUp
  <2>2. l \in Links /\ l.place = link[c].place
    BY HangUpFacts
  <2> HIDE DEF l
  <2> QED
    BY <2>1, <2>2 DEF Typed, handlers, pool
<1>2. CASE RejectFrame(c) \/ HandleCommand(c)
  BY <1>2, ServerAnswers, AnswerFacts DEF handlers, pool
<1> QED
  BY <1>1, <1>2 DEF ServerStep

\* Which connections change hands, action by action.
LEMMA OwnedStep ==
    ASSUME Typed, Owned, [Next]_vars
    PROVE  Typed' /\ Owned'
<1> USE DEF handlers, pool, server
<1>1. ASSUME NEW h \in Handlers, Request(h) PROVE Typed' /\ Owned'
  <2>1. UNCHANGED <<conn, pool, link>> /\ pc' = [pc EXCEPT ![h] = "locking"] /\ pc[h] = "idle"
    BY <1>1 DEF Request
  <2> QED
    BY <2>1, SamePlaces DEF Typed
<1>2. ASSUME NEW h \in Handlers, Lock(h) PROVE Typed' /\ Owned'
  <2>1. /\ pc[h] = "locking" /\ receiver = 0 /\ receiver' = h /\ pc' = [pc EXCEPT ![h] = "receiving"]
        /\ UNCHANGED <<conn, slots, link, replacing, lost>>
    BY <1>2 DEF Lock
  <2>2. \A k \in Handlers : pc[k] # "receiving"
    BY <2>1, ClientAssumption DEF Owned
  <2>3. \A k \in Handlers : pc'[k] = IF k = h THEN "receiving" ELSE pc[k]
    BY <2>1 DEF Typed
  <2>4. Typed'
    BY <2>1 DEF Typed
  <2>5. Owned'
    BY <2>1, <2>2, <2>3 DEF Owned
  <2> QED
    BY <2>4, <2>5
<1>3. ASSUME NEW h \in Handlers, AcquireLive(h) PROVE Typed' /\ Owned'
  <2> DEFINE c == Head(slots)
             l == [link[c] EXCEPT !.place = "held"]
  <2>1. /\ pc[h] = "receiving" /\ slots # <<>> /\ slots' = Tail(slots)
        /\ link' = [link EXCEPT ![c] = l] /\ conn' = [conn EXCEPT ![h] = c]
        /\ pc' = [pc EXCEPT ![h] = "ready"] /\ receiver' = 0 /\ UNCHANGED <<replacing, lost>>
    BY <1>3 DEF AcquireLive, CanReceive
  <2>2. /\ c \in Conns /\ link[c].place = "slots" /\ link[c] \in Links /\ slots' \in Seq(Conns)
        /\ Len(slots') = Len(slots) - 1
        /\ IsInjective(slots') /\ ToSet(slots') = ToSet(slots) \ {c}
    BY <2>1, HeadOfSlots
  <2>3. l \in Links /\ l.place = "held"
    BY <2>2 DEF Links
  <2> HIDE DEF l, c
  <2>4. Typed'
    BY <2>1, <2>2, <2>3 DEF Typed
  <2>5. /\ \A d \in Conns : link'[d] = IF d = c THEN l ELSE link[d]
        /\ \A k \in Handlers : conn'[k] = IF k = h THEN c ELSE conn[k]
        /\ \A k \in Handlers : pc'[k] = IF k = h THEN "ready" ELSE pc[k]
        /\ \A k \in Handlers : conn[k] # c
        /\ \A k \in Handlers : pc[k] = "receiving" => k = h
    BY <2>1, <2>2 DEF Typed, Owned
  <2>6. c # 0 /\ receiver' \notin Handlers /\ Len(slots') <= Size
    BY <2>1, <2>2, ClientAssumption DEF Owned, Typed
  <2>7. \A d \in Conns : link'[d].place = "slots" <=> d \in ToSet(slots')
    BY <2>2, <2>3, <2>5 DEF Owned
  <2>8. \A d \in Conns : link'[d].place = "held" <=> \E k \in Handlers : conn'[k] = d
    <3>1. \A d \in Conns : conn[h] # d
      BY <2>1, ClientAssumption DEF Owned
    <3> QED
      BY <2>2, <2>3, <2>5, <3>1 DEF Owned
  <2>9. /\ \A k \in Handlers : conn'[k] # 0 <=> pc'[k] \in {"ready", "sent"}
        /\ \A k \in Handlers : receiver' = k <=> pc'[k] = "receiving"
        /\ \A i, k \in Handlers : i # k /\ conn'[i] # 0 => conn'[i] # conn'[k]
    BY <2>5, <2>6 DEF Owned
  <2> QED
    BY <2>2, <2>4, <2>6, <2>7, <2>8, <2>9 DEF Owned
<1>4. ASSUME NEW h \in Handlers, MeetDead(h) PROVE Typed' /\ Owned'
  <2> DEFINE c == Head(slots)
             l == Close(link[c])
  <2>1. /\ slots # <<>> /\ slots' = Tail(slots)
        /\ link' = [link EXCEPT ![c] = l] /\ replacing' = replacing + 1
        /\ UNCHANGED <<pc, conn, receiver, lost>>
    BY <1>4 DEF MeetDead, CanReceive
  <2>2. /\ c \in Conns /\ link[c].place = "slots" /\ link[c] \in Links /\ slots' \in Seq(Conns)
        /\ Len(slots') = Len(slots) - 1
        /\ IsInjective(slots') /\ ToSet(slots') = ToSet(slots) \ {c}
    BY <2>1, HeadOfSlots
  <2>3. l \in Links /\ l.place = "none"
    BY <2>2, CloseIsALink
  <2> HIDE DEF l, c
  <2>4. Typed'
    BY <2>1, <2>2, <2>3 DEF Typed
  <2>5. \A d \in Conns : link'[d] = IF d = c THEN l ELSE link[d]
    BY <2>1, <2>2 DEF Typed
  <2>6. Len(slots') <= Size
    BY <2>2, ClientAssumption DEF Owned, Typed
  <2>7. Owned'
    BY <2>1, <2>2, <2>3, <2>5, <2>6 DEF Owned
  <2> QED
    BY <2>4, <2>7
<1>5. ASSUME NEW h \in Handlers, ConnectDirectly(h) PROVE Typed' /\ Owned'
  <2> DEFINE c == NewConn
             l == Fresh("held")
  <2>1. pc[h] = "receiving" /\ receiver' = 0 /\ UNCHANGED <<slots, replacing, lost>>
    BY <1>5 DEF ConnectDirectly
  <2>2. \A k \in Handlers : pc[k] = "receiving" => k = h
    BY <2>1 DEF Owned
  <2>3. CASE /\ Unused # {} /\ link' = [link EXCEPT ![c] = l] /\ conn' = [conn EXCEPT ![h] = c]
             /\ pc' = [pc EXCEPT ![h] = "ready"]
    <3>1. c \in Conns /\ link[c].place = "none"
      BY <2>3, NewConnIsFree
    <3>2. l \in Links /\ l.place = "held"
      BY FreshIsALink
    <3> HIDE DEF l, c
    <3>3. Typed'
      BY <2>1, <2>3, <3>1, <3>2 DEF Typed
    <3>4. /\ \A d \in Conns : link'[d] = IF d = c THEN l ELSE link[d]
          /\ \A k \in Handlers : conn'[k] = IF k = h THEN c ELSE conn[k]
          /\ \A k \in Handlers : pc'[k] = IF k = h THEN "ready" ELSE pc[k]
          /\ \A k \in Handlers : conn[k] # c
      BY <2>3, <3>1 DEF Typed, Owned
    <3>5. c # 0 /\ receiver' \notin Handlers
      BY <2>1, <3>1, ClientAssumption
    <3>6. \A d \in Conns : link'[d].place = "slots" <=> d \in ToSet(slots')
      BY <2>1, <3>1, <3>2, <3>4 DEF Owned
    <3>7. \A d \in Conns : link'[d].place = "held" <=> \E k \in Handlers : conn'[k] = d
      <4>1. \A d \in Conns : conn[h] # d
        BY <2>1, ClientAssumption DEF Owned
      <4> QED
        BY <3>1, <3>2, <3>4, <4>1 DEF Owned
    <3>8. /\ \A k \in Handlers : conn'[k] # 0 <=> pc'[k] \in {"ready", "sent"}
          /\ \A k \in Handlers : receiver' = k <=> pc'[k] = "receiving"
          /\ \A i, k \in Handlers : i # k /\ conn'[i] # 0 => conn'[i] # conn'[k]
      BY <2>2, <3>4, <3>5 DEF Owned
    <3> QED
      BY <2>1, <3>3, <3>6, <3>7, <3>8 DEF Owned
  <2>4. CASE pc' = [pc EXCEPT ![h] = "done"] /\ UNCHANGED <<link, conn>>
    <3>1. Typed'
      BY <2>1, <2>4 DEF Typed
    <3>2. \A k \in Handlers : pc'[k] = IF k = h THEN "done" ELSE pc[k]
      BY <2>4 DEF Typed
    <3>3. receiver' \notin Handlers
      BY <2>1, ClientAssumption
    <3>4. Owned'
      BY <2>1, <2>2, <2>4, <3>2, <3>3 DEF Owned
    <3> QED
      BY <3>1, <3>4
  <2> QED
    BY <1>5, <2>3, <2>4 DEF ConnectDirectly, Ends, Finish
<1>6. ASSUME NEW h \in Handlers, Send(h) PROVE Typed' /\ Owned'
  <2> DEFINE c == conn[h]
             q == IF link[c].open THEN Append(link[c].requests, h) ELSE link[c].requests
             l == [link[c] EXCEPT !.requests = q]
  <2>1. /\ pc[h] = "ready" /\ link' = [link EXCEPT ![c] = l] /\ pc' = [pc EXCEPT ![h] = "sent"]
        /\ UNCHANGED <<conn, receiver, slots, replacing, lost>>
    BY <1>6 DEF Send
  <2>2. c \in Conns /\ link[c] \in Links
    BY <2>1, OwnConn
  <2>3. q \in Seq(Handlers)
    BY <2>2 DEF Links
  <2> HIDE DEF q
  <2>4. l \in Links /\ l.place = link[c].place
    BY <2>2, <2>3 DEF Links
  <2> HIDE DEF l, c
  <2>5. link' \in [Conns -> Links] /\ \A d \in Conns : link'[d].place = link[d].place
    BY <2>1, <2>2, <2>4 DEF Typed
  <2>6. /\ pc' \in [Handlers -> {"idle", "locking", "receiving", "ready", "sent", "done"}]
        /\ \A k \in Handlers : pc'[k] = IF k = h THEN "sent" ELSE pc[k]
    BY <2>1 DEF Typed
  <2> QED
    BY <2>1, <2>5, <2>6, SamePlaces
<1>7. ASSUME NEW h \in Handlers, MissingArgument(h) PROVE Typed' /\ Owned'
  <2>1. /\ pc[h] = "ready" /\ Leave(h, link[conn[h]]) /\ pc' = [pc EXCEPT ![h] = "done"]
        /\ UNCHANGED <<receiver, lost>>
    BY <1>7 DEF MissingArgument, Ends, Finish
  <2>2. link[conn[h]] \in Links
    BY <2>1, OwnConn
  <2> QED
    BY <2>1, <2>2, LeaveOwned
<1>8. ASSUME NEW h \in Handlers, IoError(h) PROVE Typed' /\ Owned'
  <2>1. /\ pc[h] \in {"ready", "sent"} /\ Leave(h, link[conn[h]]) /\ pc' = [pc EXCEPT ![h] = "done"]
        /\ UNCHANGED <<receiver, lost>>
    BY <1>8 DEF IoError, Ends, Finish
  <2>2. link[conn[h]] \in Links
    BY <2>1, OwnConn
  <2> QED
    BY <2>1, <2>2, LeaveOwned
<1>9. ASSUME NEW h \in Handlers, Receive(h) PROVE Typed' /\ Owned'
  <2> DEFINE l == [link[conn[h]] EXCEPT !.answers = Tail(@), !.used = TRUE]
  <2>1. /\ pc[h] = "sent" /\ Leave(h, l) /\ pc' = [pc EXCEPT ![h] = "done"]
        /\ UNCHANGED <<receiver, lost>> /\ link[conn[h]].answers # <<>>
    BY <1>9 DEF Receive, Ends, Finish
  <2>2. l \in Links
    BY <2>1, OwnConn, ReadOnce
  <2> QED
    BY <2>1, <2>2, LeaveOwned
<1>10. ASSUME NEW h \in Handlers, Cancel(h) PROVE Typed' /\ Owned'
  <2>1. pc' = [pc EXCEPT ![h] = "done"] /\ UNCHANGED lost
    BY <1>10 DEF Cancel, Finish
  <2>2. \A k \in Handlers : pc'[k] = IF k = h THEN "done" ELSE pc[k]
    BY <2>1 DEF Typed
  <2>3. CASE pc[h] = "locking" /\ UNCHANGED <<receiver, conn, slots, link, replacing>>
    <3>1. /\ pc' \in [Handlers -> {"idle", "locking", "receiving", "ready", "sent", "done"}]
          /\ link' \in [Conns -> Links]
      BY <2>1, <2>3 DEF Typed
    <3> QED
      BY <2>1, <2>2, <2>3, <3>1, SamePlaces
  <2>4. CASE pc[h] = "receiving" /\ receiver' = 0 /\ UNCHANGED <<conn, slots, link, replacing>>
    <3>1. Typed'
      BY <2>1, <2>4 DEF Typed
    <3>2. receiver' \notin Handlers
      BY <2>4, ClientAssumption
    <3>3. Owned'
      BY <2>2, <2>4, <3>2 DEF Owned
    <3> QED
      BY <3>1, <3>3
  <2>5. CASE pc[h] = "sent" /\ Leave(h, [link[conn[h]] EXCEPT !.stray = TRUE]) /\ UNCHANGED receiver
    <3>1. [link[conn[h]] EXCEPT !.stray = TRUE] \in Links
      BY <2>5, OwnConn DEF Links
    <3> QED
      BY <2>1, <2>5, <3>1, LeaveOwned
  <2> QED
    BY <1>10, <2>3, <2>4, <2>5 DEF Cancel
<1>11. ASSUME NEW c \in Conns, ServerStep(c) PROVE Typed' /\ Owned'
  BY <1>11, ServerKeepsPlaces, SamePlaces DEF Typed
<1>12. ASSUME NEW c \in Conns, Arrive(c) PROVE Typed' /\ Owned'
  <2> DEFINE l == [link[c] EXCEPT !.place = "slots"]
  <2>1. /\ link[c].place = "arriving" /\ Len(slots) < Size /\ slots' = Append(slots, c)
        /\ link' = [link EXCEPT ![c] = l] /\ UNCHANGED <<pc, conn, receiver, replacing, lost>>
    BY <1>12 DEF Arrive
  <2>2. l \in Links /\ l.place = "slots"
    BY DEF Typed, Links
  <2>3. /\ slots' \in Seq(Conns) /\ Len(slots') = Len(slots) + 1
        /\ IsInjective(slots') /\ ToSet(slots') = ToSet(slots) \cup {c}
    BY <2>1, InjectiveAppend DEF Typed, Owned
  <2> HIDE DEF l
  <2>4. Typed'
    BY <2>1, <2>2, <2>3 DEF Typed
  <2>5. \A d \in Conns : link'[d] = IF d = c THEN l ELSE link[d]
    BY <2>1 DEF Typed
  <2>6. Len(slots') <= Size
    BY <2>1, <2>3, ClientAssumption DEF Typed
  <2>7. Owned'
    BY <2>1, <2>2, <2>3, <2>5, <2>6 DEF Owned
  <2> QED
    BY <2>4, <2>7
<1>13. ASSUME Replace PROVE Typed' /\ Owned'
  <2> DEFINE c == NewConn
             l == Fresh("arriving")
  <2>1. /\ Unused # {} /\ replacing > 0 /\ link' = [link EXCEPT ![c] = l] /\ replacing' = replacing - 1
        /\ UNCHANGED <<pc, conn, receiver, slots, lost>>
    BY <1>13 DEF Replace
  <2>2. c \in Conns /\ link[c].place = "none"
    BY <2>1, NewConnIsFree
  <2>3. l \in Links /\ l.place = "arriving"
    BY FreshIsALink
  <2> HIDE DEF l, c
  <2>4. Typed'
    BY <2>1, <2>2, <2>3 DEF Typed
  <2>5. \A d \in Conns : link'[d] = IF d = c THEN l ELSE link[d]
    BY <2>1 DEF Typed
  <2>6. Owned'
    BY <2>1, <2>2, <2>3, <2>5 DEF Owned
  <2> QED
    BY <2>4, <2>6
<1>14. ASSUME ReplaceFails PROVE Typed' /\ Owned'
  BY <1>14 DEF ReplaceFails, Typed, Owned
<1>15. ASSUME Stop PROVE Typed' /\ Owned'
  <2>1. /\ link' = [c \in Conns |-> [link[c] EXCEPT !.open = FALSE, !.requests = <<>>]]
        /\ UNCHANGED <<pc, conn, receiver, slots, replacing, lost>>
    BY <1>15 DEF Stop
  <2>2. link' \in [Conns -> Links] /\ \A d \in Conns : link'[d].place = link[d].place
    BY <2>1, HangUpFacts
  <2> QED
    BY <2>1, <2>2, SamePlaces DEF Typed
<1>16. ASSUME Restart \/ UNCHANGED vars PROVE Typed' /\ Owned'
  BY <1>16 DEF Restart, vars, Typed, Owned
<1> QED
  BY <1>1, <1>2, <1>3, <1>4, <1>5, <1>6, <1>7, <1>8, <1>9, <1>10, <1>11, <1>12, <1>13, <1>14,
     <1>15, <1>16 DEF Next, HandlerStep
-----------------------------------------------------------------------------
(* No slot is given up without a successor *)

LEMMA InUseCount ==
    ASSUME NEW S, S \subseteq Conns
    PROVE  /\ IsFiniteSet(S) /\ Cardinality(S) \in Nat
           /\ \A c \in S : Cardinality(S \ {c}) = Cardinality(S) - 1
           /\ \A c \in Conns \ S : Cardinality(S \cup {c}) = Cardinality(S) + 1
<1>1. IsFiniteSet(S)
  BY ClientAssumption, FS_Subset
<1>2. Cardinality(S) \in Nat
  BY <1>1, FS_CardinalityType
<1>3. \A c \in S : Cardinality(S \ {c}) = Cardinality(S) - 1
  BY <1>1, FS_RemoveElement
<1>4. \A c \in Conns \ S : Cardinality(S \cup {c}) = Cardinality(S) + 1
  BY <1>1, FS_AddElement
<1> QED
  BY <1>1, <1>2, <1>3, <1>4

LEMMA SlotsCount ==
    ASSUME Typed, Owned
    PROVE  Cardinality(At("slots")) = Len(slots) /\ At("slots") \subseteq InUse
<1>1. At("slots") = ToSet(slots)
  <2>1. ToSet(slots) \subseteq Conns
    BY DEF Typed, ToSet
  <2> QED
    BY <2>1 DEF At, Owned
<1> QED
  BY <1>1, InjectiveCount DEF Typed, Owned, At, InUse

LEMMA SameUse ==
    ASSUME Typed, Typed', Enough, replacing' + lost' >= replacing + lost,
           \A c \in Conns : link'[c].place = "none" <=> link[c].place = "none"
    PROVE  Enough'
<1>1. InUse' = InUse
  BY DEF InUse
<1>2. Cardinality(InUse) \in Nat
  BY InUseCount DEF InUse
<1>3. /\ Size \in Nat /\ replacing \in Nat /\ lost \in Nat /\ replacing' \in Nat /\ lost' \in Nat
  BY ClientAssumption DEF Typed
<1>4. Cardinality(InUse') = Cardinality(InUse)
  BY <1>1
<1> DEFINE n == Cardinality(InUse)
<1>5. n \in Nat /\ n + replacing + lost >= Size
  BY <1>2 DEF Enough
<1> HIDE DEF n
<1>6. n + replacing' + lost' >= Size
  BY <1>3, <1>5
<1> QED
  BY <1>4, <1>6 DEF Enough, n

\* One connection less, and one replacement more or the channel full.
LEMMA LessUse ==
    ASSUME Typed, Owned, Typed', Enough, NEW c \in Conns, NEW l, l.place = "none",
           link[c].place \in {"held", "slots"}, link' = [link EXCEPT ![c] = l], lost' = lost,
           \/ replacing' = replacing + 1
           \/ replacing' = replacing /\ ~(Len(slots) < Size) /\ link[c].place = "held"
    PROVE  Enough'
<1>1. InUse' = InUse \ {c} /\ c \in InUse /\ InUse \subseteq Conns
  BY DEF InUse, Typed
<1>2. Cardinality(InUse) \in Nat /\ Cardinality(InUse') = Cardinality(InUse) - 1
  BY <1>1, InUseCount
<1>3. Size \in Nat
  BY ClientAssumption
<1>4. CASE replacing' = replacing + 1
  BY <1>2, <1>3, <1>4 DEF Enough, Typed
<1>5. CASE replacing' = replacing /\ ~(Len(slots) < Size) /\ link[c].place = "held"
  <2>1. At("slots") \subseteq InUse' /\ InUse' \subseteq Conns
    BY <1>1, <1>5, SlotsCount DEF At
  <2>2. Cardinality(At("slots")) <= Cardinality(InUse') /\ Cardinality(InUse') \in Nat
    BY <2>1, InUseCount, FS_Subset
  <2>3. Len(slots) \in Nat /\ Len(slots) >= Size
    BY <1>3, <1>5 DEF Typed
  <2> QED
    BY <1>3, <2>2, <2>3, SlotsCount DEF Enough, Typed
<1> QED
  BY <1>4, <1>5

LEMMA LeaveEnough ==
    ASSUME Typed, Owned, Typed', Enough, NEW h \in Handlers, pc[h] \in {"ready", "sent"},
           NEW l \in Links, Leave(h, l), lost' = lost
    PROVE  Enough'
<1>0. conn[h] \in Conns /\ link[conn[h]].place = "held"
  BY OwnConn
<1>1. CASE /\ link' = [link EXCEPT ![conn[h]] = [l EXCEPT !.place = "slots"]]
           /\ replacing' = replacing
  <2>1. [l EXCEPT !.place = "slots"].place = "slots"
    BY DEF Links
  <2>2. \A c \in Conns : link'[c] = IF c = conn[h] THEN [l EXCEPT !.place = "slots"] ELSE link[c]
    BY <1>1 DEF Typed
  <2>3. \A c \in Conns : link'[c].place = "none" <=> link[c].place = "none"
    BY <1>0, <2>1, <2>2
  <2> QED
    BY <1>1, <2>3, SameUse DEF Typed
<1>2. CASE /\ link' = [link EXCEPT ![conn[h]] = Close(l)]
           /\ \/ replacing' = replacing + 1
              \/ replacing' = replacing /\ ~(Len(slots) < Size)
  <2>1. Close(l).place = "none"
    BY CloseIsALink
  <2> QED
    BY <1>0, <1>2, <2>1, LessUse
<1> QED
  BY <1>1, <1>2, LeaveEnds

LEMMA EnoughStep ==
    ASSUME Typed, Owned, Typed', Enough, [Next]_vars
    PROVE  Enough'
<1> USE DEF handlers, pool, server
<1>0. ASSUME UNCHANGED <<link, replacing, lost>> PROVE Enough'
  BY <1>0, SameUse DEF Typed
<1>1. ASSUME NEW h \in Handlers, Request(h) \/ Lock(h) PROVE Enough'
  BY <1>0, <1>1 DEF Request, Lock
<1>2. ASSUME NEW h \in Handlers, AcquireLive(h) PROVE Enough'
  <2> DEFINE c == Head(slots)
             l == [link[c] EXCEPT !.place = "held"]
  <2>1. slots # <<>> /\ link' = [link EXCEPT ![c] = l] /\ UNCHANGED <<replacing, lost>>
    BY <1>2 DEF AcquireLive, CanReceive
  <2>2. c \in Conns /\ link[c].place = "slots" /\ link[c] \in Links
    BY <2>1, HeadOfSlots
  <2>3. l.place = "held"
    BY <2>2 DEF Links
  <2> HIDE DEF c, l
  <2>4. \A d \in Conns : link'[d].place = "none" <=> link[d].place = "none"
    BY <2>1, <2>2, <2>3 DEF Typed
  <2> QED
    BY <2>1, <2>4, SameUse DEF Typed
<1>3. ASSUME NEW h \in Handlers, MeetDead(h) PROVE Enough'
  <2> DEFINE c == Head(slots)
  <2>1. /\ slots # <<>> /\ link' = [link EXCEPT ![c] = Close(link[c])]
        /\ replacing' = replacing + 1 /\ lost' = lost
    BY <1>3 DEF MeetDead, CanReceive
  <2>2. c \in Conns /\ link[c].place = "slots" /\ link[c] \in Links
    BY <2>1, HeadOfSlots
  <2>3. Close(link[c]).place = "none"
    BY <2>2, CloseIsALink
  <2> QED
    BY <2>1, <2>2, <2>3, LessUse
<1>4. ASSUME NEW place \in {"held", "arriving"}, Unused # {},
             link' = [link EXCEPT ![NewConn] = Fresh(place)], lost' = lost,
             replacing' = replacing \/ replacing' = replacing - 1
      PROVE  Enough'
  <2>1. NewConn \in Conns /\ link[NewConn].place = "none"
    BY <1>4, NewConnIsFree
  <2>2. Fresh(place).place = place
    BY FreshIsALink
  <2>3. InUse' = InUse \cup {NewConn} /\ NewConn \in Conns \ InUse /\ InUse \subseteq Conns
    BY <1>4, <2>1, <2>2 DEF InUse, Typed
  <2>4. Cardinality(InUse) \in Nat /\ Cardinality(InUse') = Cardinality(InUse) + 1
    BY <2>3, InUseCount
  <2>5. Size \in Nat
    BY ClientAssumption
  <2> QED
    BY <1>4, <2>4, <2>5 DEF Enough, Typed
<1>5. ASSUME NEW h \in Handlers, ConnectDirectly(h) PROVE Enough'
  BY <1>0, <1>4, <1>5 DEF ConnectDirectly
<1>6. ASSUME NEW h \in Handlers, Send(h) PROVE Enough'
  <2>1. /\ pc[h] = "ready" /\ UNCHANGED <<replacing, lost>>
        /\ link' = [link EXCEPT ![conn[h]].requests =
                                    IF link[conn[h]].open THEN Append(@, h) ELSE @]
    BY <1>6 DEF Send
  <2>2. link[conn[h]] \in Links
    BY <2>1, OwnConn
  <2>3. \A d \in Conns : link'[d].place = link[d].place
    BY <2>1, <2>2 DEF Typed, Links
  <2> QED
    BY <2>1, <2>3, SameUse DEF Typed
<1>7. ASSUME NEW h \in Handlers, MissingArgument(h) \/ IoError(h) PROVE Enough'
  <2>1. pc[h] \in {"ready", "sent"} /\ Leave(h, link[conn[h]]) /\ UNCHANGED lost
    BY <1>7 DEF MissingArgument, IoError
  <2>2. link[conn[h]] \in Links
    BY <2>1, OwnConn
  <2> QED
    BY <2>1, <2>2, LeaveEnough
<1>8. ASSUME NEW h \in Handlers, Receive(h) PROVE Enough'
  <2>1. pc[h] = "sent" /\ link[conn[h]].answers # <<>> /\ UNCHANGED lost
        /\ Leave(h, [link[conn[h]] EXCEPT !.answers = Tail(@), !.used = TRUE])
    BY <1>8 DEF Receive
  <2>2. [link[conn[h]] EXCEPT !.answers = Tail(@), !.used = TRUE] \in Links
    BY <2>1, OwnConn, ReadOnce
  <2> QED
    BY <2>1, <2>2, LeaveEnough
<1>9. ASSUME NEW h \in Handlers, Cancel(h) PROVE Enough'
  <2>1. CASE UNCHANGED <<link, replacing, lost>>
    BY <1>0, <2>1
  <2>2. CASE pc[h] = "sent" /\ Leave(h, [link[conn[h]] EXCEPT !.stray = TRUE]) /\ UNCHANGED lost
    <3>1. [link[conn[h]] EXCEPT !.stray = TRUE] \in Links
      BY <2>2, OwnConn DEF Links
    <3> QED
      BY <2>2, <3>1, LeaveEnough
  <2> QED
    BY <1>9, <2>1, <2>2 DEF Cancel
<1>10. ASSUME NEW c \in Conns, ServerStep(c) PROVE Enough'
  <2>1. UNCHANGED <<replacing, lost>> /\ \A d \in Conns : link'[d].place = link[d].place
    BY <1>10, ServerKeepsPlaces
  <2> QED
    BY <2>1, SameUse DEF Typed
<1>11. ASSUME NEW c \in Conns, Arrive(c) PROVE Enough'
  <2>1. /\ link[c].place = "arriving" /\ UNCHANGED <<replacing, lost>>
        /\ link' = [link EXCEPT ![c].place = "slots"]
    BY <1>11 DEF Arrive
  <2>2. \A d \in Conns : link'[d].place = "none" <=> link[d].place = "none"
    BY <2>1 DEF Typed, Links
  <2> QED
    BY <2>1, <2>2, SameUse DEF Typed
<1>12. ASSUME Replace PROVE Enough'
  BY <1>4, <1>12 DEF Replace
<1>13. ASSUME ReplaceFails PROVE Enough'
  <2>1. UNCHANGED link /\ replacing' = replacing - 1 /\ lost' = lost + 1
    BY <1>13 DEF ReplaceFails
  <2>2. replacing' + lost' >= replacing + lost
    BY <2>1 DEF Typed
  <2> QED
    BY <2>1, <2>2, SameUse
<1>14. ASSUME Stop PROVE Enough'
  <2>1. \A d \in Conns : link'[d].place = link[d].place
    BY <1>14 DEF Stop, Typed, Links
  <2>2. UNCHANGED <<replacing, lost>>
    BY <1>14 DEF Stop
  <2>3. replacing' + lost' >= replacing + lost
    BY <2>2 DEF Typed
  <2> QED
    BY <2>1, <2>3, SameUse
<1>15. ASSUME Restart \/ UNCHANGED vars PROVE Enough'
  BY <1>0, <1>15 DEF Restart, vars
<1> QED
  BY <1>1, <1>2, <1>3, <1>5, <1>6, <1>7, <1>8, <1>9, <1>10, <1>11, <1>12, <1>13, <1>14, <1>15
     DEF Next, HandlerStep
-----------------------------------------------------------------------------
(* What is under way on a connection *)

\* A step that changes one connection is looked at there, and for the handler
\* that has it.
LEMMA CleanAt ==
    ASSUME Typed, Owned, Typed', Owned', Clean, NEW c \in Conns,
           \A d \in Conns : d # c => link'[d] = link[d],
           CleanConn(link'[c]),
           \A h \in Handlers : conn'[h] = c => CleanHandler(h, pc'[h], link'[c]),
           \A h \in Handlers : conn'[h] \notin {0, c} => conn'[h] = conn[h] /\ pc'[h] = pc[h]
    PROVE  Clean'
<1>1. \A d \in Conns : CleanConn(link'[d])
  BY DEF Clean
<1>2. ASSUME NEW h \in Handlers PROVE CleanHandler(h, pc'[h], link'[conn'[h]])
  <2>1. CASE conn'[h] = 0
    BY <2>1 DEF Owned, CleanHandler
  <2>2. CASE conn'[h] = c
    BY <2>2
  <2>3. CASE conn'[h] \notin {0, c}
    <3>1. conn'[h] \in Conns /\ conn'[h] = conn[h] /\ pc'[h] = pc[h]
      BY <2>3 DEF Typed
    <3> QED
      BY <3>1, <2>3 DEF Clean
  <2> QED
    BY <2>1, <2>2, <2>3
<1> QED
  BY <1>1, <1>2 DEF Clean

\* A connection that is dropped has nothing under way, or a request was given up.
LEMMA LeaveClean ==
    ASSUME Typed, Owned, Typed', Owned', Clean, NEW h \in Handlers, pc[h] \in {"ready", "sent"},
           NEW l \in Links, Leave(h, l), pc' = [pc EXCEPT ![h] = "done"],
           ~l.open => l.requests = <<>>, ~l.stray => Idle(l)
    PROVE  Clean'
<1> DEFINE c == conn[h]
<1>0. c \in Conns
  BY OwnConn
<1>1. \A k \in Handlers : /\ conn'[k] = IF k = h THEN 0 ELSE conn[k]
                          /\ k # h => pc'[k] = pc[k]
  BY LeaveEnds DEF Typed
<1>2. \A k \in Handlers : conn'[k] # c
  BY <1>0, <1>1, OwnConn, ClientAssumption
<1>3. CASE link' = [link EXCEPT ![c] = [l EXCEPT !.place = "slots"]]
  <2> DEFINE m == [l EXCEPT !.place = "slots"]
  <2>1. /\ m.requests = l.requests /\ m.answers = l.answers /\ m.open = l.open
        /\ m.stray = l.stray /\ m.place = "slots"
    BY DEF Links
  <2>2. CleanConn(m)
    BY <2>1 DEF CleanConn, Idle
  <2>3. link'[c] = m /\ \A d \in Conns : d # c => link'[d] = link[d]
    BY <1>0, <1>3 DEF Typed
  <2> HIDE DEF c, m
  <2> QED
    BY <1>0, <1>1, <1>2, <2>2, <2>3, CleanAt
<1>4. CASE link' = [link EXCEPT ![c] = Close(l)]
  <2>1. CleanConn(Close(l))
    BY CloseIsALink DEF CleanConn
  <2>2. link'[c] = Close(l) /\ \A d \in Conns : d # c => link'[d] = link[d]
    BY <1>0, <1>4 DEF Typed
  <2> HIDE DEF c
  <2> QED
    BY <1>0, <1>1, <1>2, <2>1, <2>2, CleanAt
<1> QED
  BY <1>3, <1>4, LeaveEnds

LEMMA CleanStep ==
    ASSUME Typed, Owned, Typed', Owned', Clean, [Next]_vars
    PROVE  Clean'
<1> USE DEF handlers, pool, server
<1>1. ASSUME NEW h \in Handlers, Request(h) \/ Lock(h) PROVE Clean'
  <2>1. /\ UNCHANGED <<conn, link>>
        /\ \A k \in Handlers : pc'[k] = pc[k] \/ pc'[k] \in {"locking", "receiving"}
    BY <1>1 DEF Request, Lock, Typed
  <2> QED
    BY <2>1 DEF Clean, CleanHandler
<1>2. ASSUME NEW h \in Handlers, AcquireLive(h) PROVE Clean'
  <2> DEFINE c == Head(slots)
             l == [link[c] EXCEPT !.place = "held"]
  <2>1. /\ slots # <<>> /\ link' = [link EXCEPT ![c] = l] /\ conn' = [conn EXCEPT ![h] = c]
        /\ pc' = [pc EXCEPT ![h] = "ready"]
    BY <1>2 DEF AcquireLive, CanReceive
  <2>2. c \in Conns /\ link[c].place = "slots" /\ link[c] \in Links
    BY <2>1, HeadOfSlots
  <2>3. /\ l.requests = link[c].requests /\ l.answers = link[c].answers /\ l.open = link[c].open
        /\ l.stray = link[c].stray /\ l.place = "held"
    BY <2>2 DEF Links
  <2>4. CleanConn(link[c])
    BY <2>2 DEF Clean
  <2>5. CleanConn(l) /\ CleanHandler(h, "ready", l)
    BY <2>2, <2>3, <2>4 DEF CleanConn, CleanHandler, Idle
  <2> HIDE DEF c, l
  <2>6. link'[c] = l /\ \A d \in Conns : d # c => link'[d] = link[d]
    BY <2>1, <2>2 DEF Typed
  <2>7. /\ conn'[h] = c /\ pc'[h] = "ready"
        /\ \A k \in Handlers : k # h => conn'[k] = conn[k] /\ pc'[k] = pc[k]
    BY <2>1 DEF Typed
  <2>8. \A k \in Handlers : k # h => conn[k] # c
    BY <2>2 DEF Owned
  <2> QED
    BY <2>2, <2>5, <2>6, <2>7, <2>8, CleanAt
<1>3. ASSUME NEW h \in Handlers, MeetDead(h) PROVE Clean'
  <2> DEFINE c == Head(slots)
  <2>1. slots # <<>> /\ link' = [link EXCEPT ![c] = Close(link[c])] /\ UNCHANGED <<pc, conn>>
    BY <1>3 DEF MeetDead, CanReceive
  <2>2. c \in Conns /\ link[c].place = "slots" /\ link[c] \in Links
    BY <2>1, HeadOfSlots
  <2>3. CleanConn(link[c])
    BY <2>2 DEF Clean
  <2>4. CleanConn(Close(link[c]))
    BY <2>2, <2>3, CloseIsALink DEF CleanConn
  <2> HIDE DEF c
  <2>5. link'[c] = Close(link[c]) /\ \A d \in Conns : d # c => link'[d] = link[d]
    BY <2>1, <2>2 DEF Typed
  <2>6. \A k \in Handlers : conn[k] # c
    BY <2>2 DEF Owned
  <2> QED
    BY <2>1, <2>2, <2>4, <2>5, <2>6, CleanAt
<1>4. ASSUME NEW place \in {"held", "arriving"}, Unused # {},
             link' = [link EXCEPT ![NewConn] = Fresh(place)],
             \A k \in Handlers : conn'[k] \in {conn[k], NewConn},
             \A k \in Handlers : conn'[k] \notin {0, NewConn} => pc'[k] = pc[k]
      PROVE  Clean'
  <2>1. NewConn \in Conns
    BY <1>4, NewConnIsFree
  <2>2. CleanConn(Fresh(place)) /\ \A k \in Handlers : CleanHandler(k, pc'[k], Fresh(place))
    BY FreshIsALink DEF CleanConn, CleanHandler
  <2>3. link'[NewConn] = Fresh(place) /\ \A d \in Conns : d # NewConn => link'[d] = link[d]
    BY <1>4, <2>1 DEF Typed
  <2> QED
    BY <1>4, <2>1, <2>2, <2>3, CleanAt
<1>5. ASSUME NEW h \in Handlers, ConnectDirectly(h) PROVE Clean'
  <2>1. CASE /\ Unused # {} /\ link' = [link EXCEPT ![NewConn] = Fresh("held")]
             /\ conn' = [conn EXCEPT ![h] = NewConn] /\ pc' = [pc EXCEPT ![h] = "ready"]
    BY <1>4, <2>1 DEF Typed
  <2>2. CASE pc' = [pc EXCEPT ![h] = "done"] /\ UNCHANGED <<link, conn>>
    <3>1. \A k \in Handlers : pc'[k] = pc[k] \/ pc'[k] = "done"
      BY <2>2 DEF Typed
    <3> QED
      BY <2>2, <3>1 DEF Clean, CleanHandler
  <2> QED
    BY <1>5, <2>1, <2>2 DEF ConnectDirectly, Ends, Finish
<1>6. ASSUME NEW h \in Handlers, Send(h) PROVE Clean'
  <2> DEFINE c == conn[h]
             q == IF link[c].open THEN Append(link[c].requests, h) ELSE link[c].requests
             l == [link[c] EXCEPT !.requests = q]
  <2>1. /\ pc[h] = "ready" /\ link' = [link EXCEPT ![c] = l] /\ pc' = [pc EXCEPT ![h] = "sent"]
        /\ UNCHANGED conn
    BY <1>6 DEF Send
  <2>2. /\ c \in Conns /\ link[c] \in Links /\ link[c].place = "held"
        /\ \A k \in Handlers : k # h => conn[k] # c
    BY <2>1, OwnConn
  <2>3. /\ l.requests = q /\ l.answers = link[c].answers /\ l.open = link[c].open
        /\ l.stray = link[c].stray /\ l.place = "held"
    BY <2>2 DEF Links
  <2>4. CleanConn(link[c]) /\ CleanHandler(h, "ready", link[c])
    BY <2>1, <2>2 DEF Clean
  <2>5. link[c].requests = <<>> => q = <<>> \/ q = <<h>>
    OBVIOUS
  <2>6. CleanConn(l) /\ CleanHandler(h, "sent", l)
    BY <2>3, <2>4, <2>5 DEF CleanConn, CleanHandler, Idle
  <2> HIDE DEF c, l, q
  <2>7. link'[c] = l /\ \A d \in Conns : d # c => link'[d] = link[d]
    BY <2>1, <2>2 DEF Typed
  <2>8. pc'[h] = "sent" /\ \A k \in Handlers : k # h => pc'[k] = pc[k]
    BY <2>1 DEF Typed
  <2> QED
    BY <2>1, <2>2, <2>6, <2>7, <2>8, CleanAt DEF c
<1>7. ASSUME NEW h \in Handlers, MissingArgument(h) \/ IoError(h) PROVE Clean'
  <2> DEFINE l == link[conn[h]]
  <2>1. /\ pc[h] \in {"ready", "sent"} /\ Leave(h, l) /\ pc' = [pc EXCEPT ![h] = "done"]
        /\ pc[h] = "sent" => ~l.open /\ l.answers = <<>>
    BY <1>7 DEF MissingArgument, IoError, Ends, Finish
  <2>2. l \in Links /\ CleanConn(l) /\ CleanHandler(h, pc[h], l)
    BY <2>1, OwnConn DEF Clean
  <2> HIDE DEF l
  <2>3. (~l.open => l.requests = <<>>) /\ (~l.stray => Idle(l))
    BY <2>1, <2>2 DEF CleanConn, CleanHandler, Idle
  <2> QED
    BY <2>1, <2>2, <2>3, LeaveClean
<1>8. ASSUME NEW h \in Handlers, Receive(h) PROVE Clean'
  <2> DEFINE l == link[conn[h]]
             m == [l EXCEPT !.answers = Tail(@), !.used = TRUE]
  <2>1. /\ pc[h] = "sent" /\ l.answers # <<>> /\ Leave(h, m) /\ pc' = [pc EXCEPT ![h] = "done"]
    BY <1>8 DEF Receive, Ends, Finish
  <2>2. l \in Links /\ CleanConn(l) /\ CleanHandler(h, "sent", l)
    BY <2>1, OwnConn DEF Clean
  <2>3. m \in Links
    BY <2>1, <2>2, ReadOnce
  <2>4. m.requests = l.requests /\ m.answers = Tail(l.answers) /\ m.open = l.open /\ m.stray = l.stray
    BY <2>2 DEF Links
  <2> HIDE DEF l, m
  <2>5. ~l.stray => l.requests = <<>> /\ Len(l.answers) = 1
    BY <2>1, <2>2 DEF CleanHandler, Idle
  <2>6. l.answers \in Seq(SentAnswers)
    BY <2>2 DEF Links
  <2>7. Len(l.answers) = 1 => Tail(l.answers) = <<>>
    <3>1. Len(l.answers) = 1 => Tail(l.answers) \in Seq(SentAnswers) /\ Len(Tail(l.answers)) = 0
      BY <2>1, <2>6
    <3> QED
      BY <3>1, EmptySeq
  <2>8. (~m.open => m.requests = <<>>) /\ (~m.stray => Idle(m))
    BY <2>2, <2>4, <2>5, <2>7 DEF CleanConn, Idle
  <2> QED
    BY <2>1, <2>3, <2>8, LeaveClean
<1>9. ASSUME NEW h \in Handlers, Cancel(h) PROVE Clean'
  <2>1. pc' = [pc EXCEPT ![h] = "done"]
    BY <1>9 DEF Cancel, Finish
  <2>2. CASE UNCHANGED <<link, conn>>
    <3>1. \A k \in Handlers : pc'[k] = pc[k] \/ pc'[k] = "done"
      BY <2>1 DEF Typed
    <3> QED
      BY <2>2, <3>1 DEF Clean, CleanHandler
  <2>3. CASE pc[h] = "sent" /\ Leave(h, [link[conn[h]] EXCEPT !.stray = TRUE])
    <3> DEFINE l == link[conn[h]]
               m == [l EXCEPT !.stray = TRUE]
    <3>1. l \in Links /\ CleanConn(l)
      BY <2>3, OwnConn DEF Clean
    <3>2. m \in Links /\ m.stray /\ m.open = l.open /\ m.requests = l.requests
      BY <3>1 DEF Links
    <3>3. Leave(h, m)
      BY <2>3
    <3> HIDE DEF m, l
    <3>4. (~m.open => m.requests = <<>>) /\ (~m.stray => Idle(m))
      BY <3>1, <3>2 DEF CleanConn
    <3> QED
      BY <2>1, <2>3, <3>2, <3>3, <3>4, LeaveClean
  <2> QED
    BY <1>9, <2>2, <2>3 DEF Cancel
<1>10. ASSUME NEW c \in Conns, HangUp(c) PROVE Clean'
  <2> DEFINE l == [link[c] EXCEPT !.open = FALSE, !.requests = <<>>]
  <2>1. link' = [link EXCEPT ![c] = l] /\ UNCHANGED <<pc, conn>>
    BY <1>10 DEF HangUp
  <2>2. /\ l.place = link[c].place /\ l.answers = link[c].answers /\ l.stray = link[c].stray
        /\ ~l.open /\ l.requests = <<>>
    BY HangUpFacts
  <2>3. CleanConn(link[c]) /\ \A h \in Handlers : conn[h] = c => CleanHandler(h, pc[h], link[c])
    BY DEF Clean
  <2> HIDE DEF l
  <2>4. CleanConn(l) /\ \A h \in Handlers : conn[h] = c => CleanHandler(h, pc[h], l)
    BY <2>2, <2>3 DEF CleanConn, CleanHandler, Idle
  <2>5. link'[c] = l /\ \A d \in Conns : d # c => link'[d] = link[d]
    BY <2>1 DEF Typed
  <2> QED
    BY <2>1, <2>4, <2>5, CleanAt
<1>11. ASSUME NEW c \in Conns, RejectFrame(c) \/ HandleCommand(c) PROVE Clean'
  <2>1. Serves(c) /\ UNCHANGED <<pc, conn>> /\ \E reply \in AnyReply : Answer(c, reply)
    BY <1>11, ServerAnswers
  <2>2. PICK reply \in AnyReply : Answer(c, reply)
    BY <2>1
  <2> DEFINE l == link[c]
             m == link'[c]
             a == [of |-> l.requests[1], reply |-> reply]
  <2>3. /\ \A d \in Conns : d # c => link'[d] = link[d]
        /\ m.place = l.place /\ m.open = l.open /\ m.stray = l.stray
        /\ m.requests = Tail(l.requests)
        /\ m.answers = IF l.place = "none" THEN l.answers ELSE Append(l.answers, a)
    BY <2>1, <2>2, AnswerFacts
  <2>4. l \in Links /\ l.open /\ Len(l.requests) \in Nat /\ Len(l.requests) >= 1
    BY <2>1, FirstRequest
  <2>5. l.requests # <<>>
    BY <2>4
  <2>6. CleanConn(l) /\ \A h \in Handlers : conn[h] = c => CleanHandler(h, pc[h], l)
    BY DEF Clean
  <2> HIDE DEF l, m
  <2>7. CleanConn(m)
    BY <2>3, <2>4, <2>5, <2>6 DEF CleanConn, Idle
  <2>8. ASSUME NEW h \in Handlers, conn[h] = c PROVE CleanHandler(h, pc[h], m)
    <3>1. l.place = "held"
      BY <2>8 DEF Owned, l
    <3>2. pc[h] # "ready" \/ l.stray
      BY <2>5, <2>6, <2>8 DEF CleanHandler, Idle
    <3>3. ~l.stray /\ pc[h] = "sent" => l.requests = <<h>> /\ l.answers = <<>>
      BY <2>5, <2>6, <2>8 DEF CleanHandler, Idle
    <3>4. l.requests = <<h>> /\ l.answers = <<>> =>
            m.requests = <<>> /\ Len(m.answers) = 1 /\ m.answers[1].of = h
      BY <2>3, <3>1
    <3> QED
      BY <2>3, <3>2, <3>3, <3>4 DEF CleanHandler
  <2> QED
    BY <2>1, <2>3, <2>7, <2>8, CleanAt DEF m
<1>12. ASSUME NEW c \in Conns, Arrive(c) PROVE Clean'
  <2> DEFINE l == [link[c] EXCEPT !.place = "slots"]
  <2>1. link[c].place = "arriving" /\ link' = [link EXCEPT ![c] = l] /\ UNCHANGED <<pc, conn>>
    BY <1>12 DEF Arrive
  <2>2. /\ l.requests = link[c].requests /\ l.answers = link[c].answers /\ l.open = link[c].open
        /\ l.stray = link[c].stray /\ l.place = "slots"
    BY DEF Typed, Links
  <2>3. CleanConn(link[c])
    BY DEF Clean
  <2> HIDE DEF l
  <2>4. CleanConn(l)
    BY <2>1, <2>2, <2>3 DEF CleanConn, Idle
  <2>5. link'[c] = l /\ \A d \in Conns : d # c => link'[d] = link[d]
    BY <2>1 DEF Typed
  <2>6. \A k \in Handlers : conn[k] # c
    BY <2>1 DEF Owned
  <2> QED
    BY <2>1, <2>4, <2>5, <2>6, CleanAt
<1>13. ASSUME Replace PROVE Clean'
  BY <1>4, <1>13 DEF Replace
<1>14. ASSUME Stop PROVE Clean'
  <2>1. UNCHANGED <<pc, conn>>
    BY <1>14 DEF Stop
  <2>2. \A c \in Conns :
          /\ link'[c].place = link[c].place /\ link'[c].answers = link[c].answers
          /\ link'[c].stray = link[c].stray /\ ~link'[c].open /\ link'[c].requests = <<>>
    BY <1>14, HangUpFacts DEF Stop
  <2>3. ASSUME NEW c \in Conns PROVE CleanConn(link'[c])
    <3>1. CleanConn(link[c])
      BY DEF Clean
    <3> QED
      BY <2>2, <3>1 DEF CleanConn, Idle
  <2>4. ASSUME NEW h \in Handlers PROVE CleanHandler(h, pc'[h], link'[conn'[h]])
    <3>1. CASE pc[h] \in {"ready", "sent"}
      <4>1. conn[h] \in Conns /\ CleanHandler(h, pc[h], link[conn[h]])
        BY <3>1, OwnConn DEF Clean
      <4> QED
        BY <2>1, <2>2, <4>1 DEF CleanHandler, Idle
    <3>2. CASE pc[h] \notin {"ready", "sent"}
      BY <2>1, <3>2 DEF CleanHandler
    <3> QED
      BY <3>1, <3>2
  <2> QED
    BY <2>3, <2>4 DEF Clean
<1>15. ASSUME ReplaceFails \/ Restart \/ UNCHANGED vars PROVE Clean'
  BY <1>15 DEF ReplaceFails, Restart, vars, Clean
<1> QED
  BY <1>1, <1>2, <1>3, <1>5, <1>6, <1>7, <1>8, <1>9, <1>10, <1>11, <1>12, <1>13, <1>14, <1>15
     DEF Next, HandlerStep, ServerStep
-----------------------------------------------------------------------------
(* Every frame is run at most once *)

LEMMA OnceStays ==
    ASSUME Typed, Typed', Once, UNCHANGED ran,
           \A h \in Handlers : pc[h] \in {"sent", "done"} => pc'[h] \in {"sent", "done"},
           \A c \in Conns : link'[c].requests = link[c].requests \/ link'[c].requests = <<>>
    PROVE  Once'
<1>1. \A c \in Conns : \A i \in 1 .. Len(link'[c].requests) :
        /\ i \in 1 .. Len(link[c].requests) /\ link'[c].requests[i] = link[c].requests[i]
        /\ link[c].requests[i] \in Handlers
  <2> SUFFICES ASSUME NEW c \in Conns, NEW i \in 1 .. Len(link'[c].requests)
               PROVE  /\ i \in 1 .. Len(link[c].requests)
                      /\ link'[c].requests[i] = link[c].requests[i]
                      /\ link[c].requests[i] \in Handlers
    OBVIOUS
  <2>1. link'[c].requests # <<>>
    OBVIOUS
  <2>2. link'[c].requests = link[c].requests /\ link[c].requests \in Seq(Handlers)
    BY <2>1 DEF Typed, Links
  <2> QED
    BY <2>2
<1>2. /\ DOMAIN ran' = Handlers
      /\ \A h \in Handlers : ran'[h] = <<>> \/ ran'[h] = <<ran'[h][1]>>
  BY DEF Once
<1>3. \A h \in Handlers : pc'[h] \notin {"sent", "done"} => ran'[h] = <<>>
  BY DEF Once
<1>4. \A c \in Conns : \A i \in 1 .. Len(link'[c].requests) :
        /\ pc'[link'[c].requests[i]] \in {"sent", "done"}
        /\ ran'[link'[c].requests[i]] = <<>>
  <2> SUFFICES ASSUME NEW c \in Conns, NEW i \in 1 .. Len(link'[c].requests)
               PROVE  /\ pc'[link'[c].requests[i]] \in {"sent", "done"}
                      /\ ran'[link'[c].requests[i]] = <<>>
    OBVIOUS
  <2>1. PICK h \in Handlers : h = link'[c].requests[i] /\ h = link[c].requests[i]
    BY <1>1
  <2>2. pc[h] \in {"sent", "done"} /\ ran[h] = <<>>
    BY <1>1, <2>1 DEF Once
  <2> QED
    BY <2>1, <2>2
<1>5. \A c, d \in Conns :
        \A i \in 1 .. Len(link'[c].requests), j \in 1 .. Len(link'[d].requests) :
          link'[c].requests[i] = link'[d].requests[j] => c = d /\ i = j
  BY <1>1 DEF Once
<1> QED
  BY ONLY <1>2, <1>3, <1>4, <1>5 DEF Once

\* A frame that is sent is a new one.
LEMMA OnceSend ==
    ASSUME Typed, Typed', Owned, Once, NEW h \in Handlers, Send(h)
    PROVE  Once'
<1> DEFINE c == conn[h]
           q == link[c].requests
<1>1. pc[h] = "ready" /\ UNCHANGED ran
  BY DEF Send, server
<1>2. c \in Conns /\ link[c] \in Links /\ q \in Seq(Handlers)
  BY <1>1, OwnConn DEF Links
<1>3. /\ \A d \in Conns : d # c => link'[d] = link[d]
      /\ link'[c].requests = IF link[c].open THEN Append(q, h) ELSE q
      /\ pc' = [pc EXCEPT ![h] = "sent"]
  BY <1>2 DEF Send, Typed, Links
<1>4. \A k \in Handlers : pc[k] \in {"sent", "done"} => pc'[k] \in {"sent", "done"}
  BY <1>3 DEF Typed
<1>5. CASE ~link[c].open
  <2>1. \A d \in Conns : link'[d].requests = link[d].requests
    BY <1>3, <1>5
  <2> QED
    BY <1>1, <1>4, <2>1, OnceStays
<1>6. CASE link[c].open
  <2>1. /\ link'[c].requests = Append(q, h) /\ Len(link'[c].requests) = Len(q) + 1
        /\ Len(q) \in Nat /\ link'[c].requests[Len(q) + 1] = h
        /\ \A i \in 1 .. Len(q) : link'[c].requests[i] = q[i]
    BY <1>2, <1>3, <1>6
  <2>2. ran[h] = <<>> /\ pc'[h] = "sent"
    BY <1>1, <1>3 DEF Once, Typed
  <2>3. \A d \in Conns : \A i \in 1 .. Len(link[d].requests) :
          link[d].requests[i] \in Handlers /\ link[d].requests[i] # h
    <3> SUFFICES ASSUME NEW d \in Conns, NEW i \in 1 .. Len(link[d].requests)
                 PROVE  link[d].requests[i] \in Handlers /\ link[d].requests[i] # h
      OBVIOUS
    <3>1. link[d].requests \in Seq(Handlers)
      BY DEF Typed, Links
    <3>2. pc[link[d].requests[i]] \in {"sent", "done"}
      BY DEF Once
    <3> QED
      BY <3>1, <3>2, <1>1
  <2>4. ASSUME NEW d \in Conns, NEW i \in 1 .. Len(link'[d].requests)
        PROVE  \/ d = c /\ i = Len(q) + 1 /\ link'[d].requests[i] = h
               \/ i \in 1 .. Len(link[d].requests) /\ link'[d].requests[i] = link[d].requests[i]
    <3>1. CASE d = c
      <4>1. i \in 1 .. Len(q) + 1
        BY <2>1, <3>1
      <4>2. i = Len(q) + 1 \/ i \in 1 .. Len(q)
        BY <2>1, <4>1
      <4> QED
        BY <2>1, <3>1, <4>2
    <3>2. CASE d # c
      BY <1>3, <3>2
    <3> QED
      BY <3>1, <3>2
  <2>5. \A d \in Conns : \A i \in 1 .. Len(link'[d].requests) :
          /\ pc'[link'[d].requests[i]] \in {"sent", "done"}
          /\ ran[link'[d].requests[i]] = <<>>
    <3> SUFFICES ASSUME NEW d \in Conns, NEW i \in 1 .. Len(link'[d].requests)
                 PROVE  /\ pc'[link'[d].requests[i]] \in {"sent", "done"}
                        /\ ran[link'[d].requests[i]] = <<>>
      OBVIOUS
    <3>1. CASE link'[d].requests[i] = h
      BY <2>2, <3>1
    <3>2. CASE i \in 1 .. Len(link[d].requests) /\ link'[d].requests[i] = link[d].requests[i]
      <4>1. pc[link[d].requests[i]] \in {"sent", "done"} /\ ran[link[d].requests[i]] = <<>>
        BY <3>2 DEF Once
      <4> QED
        BY <1>4, <2>3, <3>2, <4>1
    <3> QED
      BY <2>4, <3>1, <3>2
  <2>6. ASSUME NEW d \in Conns, NEW e \in Conns, NEW i \in 1 .. Len(link'[d].requests),
               NEW j \in 1 .. Len(link'[e].requests), link'[d].requests[i] = link'[e].requests[j]
        PROVE  d = e /\ i = j
    <3>0. ASSUME NEW x \in Conns, NEW n \in 1 .. Len(link'[x].requests), link'[x].requests[n] = h
          PROVE  x = c /\ n = Len(q) + 1
      <4> HIDE DEF c, q
      <4> QED
        BY <2>3, <2>4, <3>0
    <3>1. CASE link'[d].requests[i] = h
      <4>1. d = c /\ i = Len(q) + 1
        BY <3>0, <3>1
      <4>2. e = c /\ j = Len(q) + 1
        BY <2>6, <3>0, <3>1
      <4> QED
        BY <4>1, <4>2
    <3>2. CASE link'[d].requests[i] # h
      <4>1. /\ i \in 1 .. Len(link[d].requests) /\ j \in 1 .. Len(link[e].requests)
            /\ link[d].requests[i] = link[e].requests[j]
        BY <2>4, <2>6, <3>2
      <4> QED
        BY <4>1 DEF Once
    <3> QED
      BY <3>1, <3>2
  <2>7. \A k \in Handlers : pc'[k] \notin {"sent", "done"} => ran[k] = <<>>
    BY <1>4 DEF Once
  <2> HIDE DEF c, q
  <2> QED
    BY <1>1, <2>5, <2>6, <2>7 DEF Once
<1> QED
  BY <1>5, <1>6

\* A frame that is answered is under way no more.
LEMMA OnceAnswer ==
    ASSUME Typed, Typed', Once, NEW c \in Conns, Serves(c), UNCHANGED pc,
           NEW reply \in AnyReply, Answer(c, reply),
           DOMAIN ran' = Handlers,
           \A k \in Handlers : k # link[c].requests[1] => ran'[k] = ran[k],
           \/ ran'[link[c].requests[1]] = ran[link[c].requests[1]]
           \/ \E r : ran'[link[c].requests[1]] = <<r>>
    PROVE  Once'
<1> DEFINE q == link[c].requests
           h == q[1]
<1>1. /\ \A d \in Conns : d # c => link'[d] = link[d]
      /\ link'[c].requests = Tail(q)
  BY AnswerFacts
<1>2. /\ q \in Seq(Handlers) /\ Len(q) \in Nat /\ Len(q) >= 1 /\ h \in Handlers
      /\ Len(Tail(q)) = Len(q) - 1
      /\ \A i \in 1 .. Len(q) - 1 : Tail(q)[i] = q[i + 1]
  BY FirstRequest
<1>3. pc[h] \in {"sent", "done"} /\ ran[h] = <<>>
  BY <1>2 DEF Once
<1>4. \A d \in Conns : \A i \in 1 .. Len(link[d].requests) :
        link[d].requests[i] = h => d = c /\ i = 1
  BY <1>2 DEF Once
<1> DEFINE old(d, i) == IF d = c THEN i + 1 ELSE i
<1>5. ASSUME NEW d \in Conns, NEW i \in 1 .. Len(link'[d].requests)
      PROVE  /\ old(d, i) \in 1 .. Len(link[d].requests)
             /\ link'[d].requests[i] = link[d].requests[old(d, i)]
             /\ link'[d].requests[i] # h /\ link'[d].requests[i] \in Handlers
  <2>1. CASE d = c
    <3>0. i \in 1 .. Len(q) - 1
      BY <1>1, <1>2, <2>1
    <3>1. i + 1 \in 1 .. Len(q) /\ link'[d].requests[i] = q[i + 1] /\ i + 1 # 1
      <4>1. Tail(q)[i] = q[i + 1]
        BY <1>2, <3>0
      <4>2. link'[d].requests = Tail(q)
        BY <1>1, <2>1
      <4>3. i + 1 \in 1 .. Len(q) /\ i + 1 # 1
        BY <1>2, <3>0
      <4> QED
        BY <4>1, <4>2, <4>3
    <3>2. PICK n \in 1 .. Len(q) : n = i + 1
      BY <3>1
    <3>3. q[n] # h /\ q[n] \in Handlers
      BY <3>1, <3>2, <1>2, <1>4
    <3> QED
      BY <2>1, <3>1, <3>2, <3>3
  <2>2. CASE d # c
    <3>1. link[d].requests \in Seq(Handlers)
      BY DEF Typed, Links
    <3> QED
      BY <1>1, <1>4, <2>2, <3>1
  <2> QED
    BY <2>1, <2>2
<1> HIDE DEF q, h
<1>6. \A d \in Conns : \A i \in 1 .. Len(link'[d].requests) :
        /\ pc'[link'[d].requests[i]] \in {"sent", "done"}
        /\ ran'[link'[d].requests[i]] = <<>>
  <2> SUFFICES ASSUME NEW d \in Conns, NEW i \in 1 .. Len(link'[d].requests)
               PROVE  /\ pc'[link'[d].requests[i]] \in {"sent", "done"}
                      /\ ran'[link'[d].requests[i]] = <<>>
    OBVIOUS
  <2>1. PICK n \in 1 .. Len(link[d].requests) : link'[d].requests[i] = link[d].requests[n]
    BY <1>5
  <2>2. pc[link[d].requests[n]] \in {"sent", "done"} /\ ran[link[d].requests[n]] = <<>>
    BY DEF Once
  <2> QED
    BY <1>5, <2>1, <2>2 DEF h, q
<1>7. \A d, e \in Conns :
        \A i \in 1 .. Len(link'[d].requests), j \in 1 .. Len(link'[e].requests) :
          link'[d].requests[i] = link'[e].requests[j] => d = e /\ i = j
  <2> SUFFICES ASSUME NEW d \in Conns, NEW e \in Conns, NEW i \in 1 .. Len(link'[d].requests),
                      NEW j \in 1 .. Len(link'[e].requests),
                      link'[d].requests[i] = link'[e].requests[j]
               PROVE  d = e /\ i = j
    OBVIOUS
  <2>1. /\ old(d, i) \in 1 .. Len(link[d].requests) /\ old(e, j) \in 1 .. Len(link[e].requests)
        /\ link[d].requests[old(d, i)] = link[e].requests[old(e, j)]
    BY <1>5
  <2>2. d = e /\ old(d, i) = old(e, j)
    BY <2>1 DEF Once
  <2> QED
    BY <2>2
<1>8. /\ \A k \in Handlers : ran'[k] = <<>> \/ ran'[k] = <<ran'[k][1]>>
      /\ \A k \in Handlers : pc'[k] \notin {"sent", "done"} => ran'[k] = <<>>
  BY <1>3 DEF Once, h, q
<1> QED
  BY <1>6, <1>7, <1>8 DEF Once

\* What a dropped connection had under way is still under way, or gone.
LEMMA LeaveRequests ==
    ASSUME Typed, Owned, NEW h \in Handlers, pc[h] \in {"ready", "sent"},
           NEW l \in Links, Leave(h, l), l.requests = link[conn[h]].requests,
           pc' = [pc EXCEPT ![h] = "done"]
    PROVE  /\ \A c \in Conns : link'[c].requests = link[c].requests
           /\ \A c \in Conns : \/ link'[c].answers = link[c].answers
                               \/ c = conn[h] /\ link'[c].answers \in {<<>>, l.answers}
           /\ \A k \in Handlers : pc[k] \in {"sent", "done"} => pc'[k] \in {"sent", "done"}
           /\ \A k \in Handlers : pc'[k] = IF k = h THEN "done" ELSE pc[k]
<1> DEFINE m == [l EXCEPT !.place = "slots"]
<1>1. conn[h] \in Conns
  BY OwnConn
<1>2. m.requests = l.requests /\ m.answers = l.answers
  BY DEF Links
<1>3. Close(l).requests = l.requests /\ Close(l).answers = <<>>
  BY CloseIsALink
<1>4. link' = [link EXCEPT ![conn[h]] = m] \/ link' = [link EXCEPT ![conn[h]] = Close(l)]
  BY LeaveEnds
<1> HIDE DEF m
<1>5. \A c \in Conns : c # conn[h] => link'[c] = link[c]
  BY <1>4 DEF Typed
<1>6. link'[conn[h]] = m \/ link'[conn[h]] = Close(l)
  BY <1>1, <1>4 DEF Typed
<1>7. \A k \in Handlers : pc'[k] = IF k = h THEN "done" ELSE pc[k]
  BY DEF Typed
<1> QED
  BY <1>2, <1>3, <1>5, <1>6, <1>7

\* What handle_command adds to the history, and what it answers.
LEMMA HandleFacts ==
    ASSUME NEW c \in Conns, HandleCommand(c)
    PROVE  \E command \in Parses(Encode(call[Head(link[c].requests)])) \ {ParseError},
              ok \in BOOLEAN, reply \in AnyReply :
              /\ Serves(c) /\ Answer(c, reply) /\ (reply.ok => ok)
              /\ ran' = [ran EXCEPT ![Head(link[c].requests)] =
                            Append(@, [command |-> command, ok |-> ok])]
<1> DEFINE h == Head(link[c].requests)
           frame == Encode(call[h])
<1>1. PICK command \in Parses(frame) \ {ParseError}, ok \in BOOLEAN :
        /\ ran' = [ran EXCEPT ![h] = Append(@, [command |-> command, ok |-> ok])]
        /\ IF ok THEN \E shape \in Replies[command.cmd] : Answer(c, OkReply(shape))
                 ELSE Answer(c, ErrReply)
  BY DEF HandleCommand
<1> HIDE DEF frame
<1>2. command.cmd \in DOMAIN Replies
  BY EveryCommandIsAnswered
<1>3. \E reply \in AnyReply : Answer(c, reply) /\ (reply.ok => ok)
  <2>1. CASE ok
    <3>1. PICK shape \in Replies[command.cmd] : Answer(c, OkReply(shape))
      BY <1>1, <2>1
    <3>2. OkReply(shape) \in AnyReply
      BY <1>2 DEF AnyReply
    <3> QED
      BY <2>1, <3>1, <3>2
  <2>2. CASE ~ok
    <3>1. ErrReply \in AnyReply /\ ~ErrReply.ok
      BY DEF AnyReply, ErrReply
    <3> QED
      BY <1>1, <2>2, <3>1
  <2> QED
    BY <2>1, <2>2
<1>4. Serves(c)
  BY DEF HandleCommand
<1> QED
  BY <1>1, <1>3, <1>4 DEF frame

LEMMA OnceStep ==
    ASSUME Typed, Owned, Typed', Once, [Next]_vars
    PROVE  Once'
<1> USE DEF handlers, pool, server
<1>0. ASSUME UNCHANGED ran, \A c \in Conns : link'[c].requests = link[c].requests,
             \A h \in Handlers : pc[h] \in {"sent", "done"} => pc'[h] \in {"sent", "done"}
      PROVE  Once'
  BY <1>0, OnceStays
<1>1. ASSUME NEW h \in Handlers, Request(h) \/ Lock(h) PROVE Once'
  <2>1. UNCHANGED <<ran, link>> /\ \A k \in Handlers : pc[k] \in {"sent", "done"} => pc'[k] = pc[k]
    BY <1>1 DEF Request, Lock, Typed
  <2> QED
    BY <1>0, <2>1
<1>2. ASSUME NEW h \in Handlers, AcquireLive(h) PROVE Once'
  <2>1. /\ UNCHANGED ran /\ link' = [link EXCEPT ![Head(slots)].place = "held"] /\ slots # <<>>
        /\ pc[h] = "receiving" /\ pc' = [pc EXCEPT ![h] = "ready"]
    BY <1>2 DEF AcquireLive, CanReceive
  <2>2. Head(slots) \in Conns /\ link[Head(slots)] \in Links
    BY <2>1, HeadOfSlots
  <2>3. \A c \in Conns : link'[c].requests = link[c].requests
    BY <2>1, <2>2 DEF Typed, Links
  <2>4. \A k \in Handlers : pc[k] \in {"sent", "done"} => pc'[k] = pc[k]
    BY <2>1 DEF Typed
  <2> QED
    BY <1>0, <2>1, <2>3, <2>4
<1>3. ASSUME NEW h \in Handlers, MeetDead(h) PROVE Once'
  <2>1. /\ UNCHANGED <<ran, pc>> /\ slots # <<>>
        /\ link' = [link EXCEPT ![Head(slots)] = Close(link[Head(slots)])]
    BY <1>3 DEF MeetDead, CanReceive
  <2>2. /\ Head(slots) \in Conns
        /\ Close(link[Head(slots)]).requests = link[Head(slots)].requests
    BY <2>1, HeadOfSlots, CloseIsALink
  <2>3. \A c \in Conns : link'[c].requests = link[c].requests
    BY <2>1, <2>2 DEF Typed
  <2> QED
    BY <1>0, <2>1, <2>3
<1>4. ASSUME NEW place \in {"held", "arriving"}, Unused # {}, UNCHANGED ran,
             link' = [link EXCEPT ![NewConn] = Fresh(place)],
             \A k \in Handlers : pc[k] \in {"sent", "done"} => pc'[k] = pc[k]
      PROVE  Once'
  <2>1. NewConn \in Conns /\ link[NewConn].requests = <<>> /\ Fresh(place).requests = <<>>
    BY <1>4, NewConnIsFree, FreshIsALink DEF Idle
  <2>2. \A c \in Conns : link'[c].requests = link[c].requests
    BY <1>4, <2>1 DEF Typed
  <2> QED
    BY <1>0, <1>4, <2>2
<1>5. ASSUME NEW h \in Handlers, ConnectDirectly(h) PROVE Once'
  <2>1. pc[h] = "receiving" /\ UNCHANGED ran
    BY <1>5 DEF ConnectDirectly
  <2>2. \A k \in Handlers : pc[k] \in {"sent", "done"} => pc'[k] = pc[k]
    BY <1>5, <2>1 DEF ConnectDirectly, Ends, Finish, Typed
  <2>3. CASE Unused # {} /\ link' = [link EXCEPT ![NewConn] = Fresh("held")]
    BY <1>4, <2>1, <2>2, <2>3
  <2>4. CASE UNCHANGED link
    BY <1>0, <2>1, <2>2, <2>4
  <2> QED
    BY <1>5, <2>3, <2>4 DEF ConnectDirectly
<1>6. ASSUME NEW h \in Handlers, Send(h) PROVE Once'
  BY <1>6, OnceSend
<1>7. ASSUME NEW h \in Handlers, MissingArgument(h) \/ IoError(h) PROVE Once'
  <2>1. /\ pc[h] \in {"ready", "sent"} /\ Leave(h, link[conn[h]]) /\ UNCHANGED ran
        /\ pc' = [pc EXCEPT ![h] = "done"]
    BY <1>7 DEF MissingArgument, IoError, Ends, Finish
  <2>2. link[conn[h]] \in Links
    BY <2>1, OwnConn
  <2> QED
    BY <1>0, <2>1, <2>2, LeaveRequests
<1>8. ASSUME NEW h \in Handlers, Receive(h) PROVE Once'
  <2> DEFINE l == [link[conn[h]] EXCEPT !.answers = Tail(@), !.used = TRUE]
  <2>1. /\ pc[h] = "sent" /\ link[conn[h]].answers # <<>> /\ Leave(h, l) /\ UNCHANGED ran
        /\ pc' = [pc EXCEPT ![h] = "done"]
    BY <1>8 DEF Receive, Ends, Finish
  <2>2. l \in Links /\ l.requests = link[conn[h]].requests
    <3>1. link[conn[h]] \in Links
      BY <2>1, OwnConn
    <3> QED
      BY <2>1, <3>1, ReadOnce DEF Links
  <2> HIDE DEF l
  <2> QED
    BY <1>0, <2>1, <2>2, LeaveRequests
<1>9. ASSUME NEW h \in Handlers, Cancel(h) PROVE Once'
  <2>1. pc' = [pc EXCEPT ![h] = "done"] /\ UNCHANGED ran
    BY <1>9 DEF Cancel, Finish
  <2>2. CASE UNCHANGED link
    BY <1>0, <2>1, <2>2 DEF Typed
  <2>3. CASE pc[h] = "sent" /\ Leave(h, [link[conn[h]] EXCEPT !.stray = TRUE])
    <3> DEFINE l == [link[conn[h]] EXCEPT !.stray = TRUE]
    <3>1. l \in Links /\ l.requests = link[conn[h]].requests
      BY <2>3, OwnConn DEF Links
    <3>2. Leave(h, l)
      BY <2>3
    <3> HIDE DEF l
    <3> QED
      BY <1>0, <2>1, <2>3, <3>1, <3>2, LeaveRequests
  <2> QED
    BY <1>9, <2>2, <2>3 DEF Cancel
<1>10. ASSUME NEW c \in Conns, HangUp(c) PROVE Once'
  <2> DEFINE l == [link[c] EXCEPT !.open = FALSE, !.requests = <<>>]
  <2>1. link' = [link EXCEPT ![c] = l] /\ UNCHANGED <<pc, ran>>
    BY <1>10 DEF HangUp
  <2>2. l.requests = <<>>
    BY HangUpFacts
  <2> HIDE DEF l
  <2>3. \A d \in Conns : link'[d].requests = link[d].requests \/ link'[d].requests = <<>>
    BY <2>1, <2>2 DEF Typed
  <2> QED
    BY <2>1, <2>3, OnceStays
<1>11. ASSUME NEW c \in Conns, RejectFrame(c) PROVE Once'
  <2>1. Serves(c) /\ UNCHANGED <<pc, ran>> /\ \E reply \in AnyReply : Answer(c, reply)
    BY <1>11, ServerAnswers DEF RejectFrame
  <2>2. DOMAIN ran' = Handlers
    BY <2>1 DEF Once
  <2> QED
    BY <2>1, <2>2, OnceAnswer
<1>12. ASSUME NEW c \in Conns, HandleCommand(c) PROVE Once'
  <2>1. PICK command \in Parses(Encode(call[Head(link[c].requests)])) \ {ParseError},
             ok \in BOOLEAN, reply \in AnyReply :
          /\ Serves(c) /\ Answer(c, reply)
          /\ ran' = [ran EXCEPT ![Head(link[c].requests)] =
                        Append(@, [command |-> command, ok |-> ok])]
    BY <1>12, HandleFacts
  <2>2. UNCHANGED pc
    BY <1>12 DEF HandleCommand
  <2> DEFINE h == link[c].requests[1]
  <2>3. /\ Head(link[c].requests) = h /\ h \in Handlers /\ Len(link[c].requests) \in Nat
        /\ Len(link[c].requests) >= 1
    BY <2>1, FirstRequest
  <2>4. ran[h] = <<>> /\ DOMAIN ran = Handlers
    BY <2>3 DEF Once
  <2> HIDE DEF h
  <2>5. /\ DOMAIN ran' = Handlers /\ \A k \in Handlers : k # h => ran'[k] = ran[k]
        /\ ran'[h] = <<[command |-> command, ok |-> ok]>>
    <3> DEFINE r == [command |-> command, ok |-> ok]
    <3>1. ran' = [ran EXCEPT ![h] = Append(ran[h], r)]
      BY <2>1, <2>3
    <3> HIDE DEF r
    <3>2. Append(<<>>, r) = <<r>>
      OBVIOUS
    <3> QED
      BY <2>3, <2>4, <3>1, <3>2 DEF r
  <2> QED
    BY <2>1, <2>2, <2>5, OnceAnswer DEF h
<1>13. ASSUME NEW c \in Conns, Arrive(c) PROVE Once'
  <2>1. UNCHANGED <<ran, pc>> /\ link' = [link EXCEPT ![c].place = "slots"]
    BY <1>13 DEF Arrive
  <2>2. \A d \in Conns : link'[d].requests = link[d].requests
    BY <2>1 DEF Typed, Links
  <2> QED
    BY <1>0, <2>1, <2>2
<1>14. ASSUME Replace PROVE Once'
  BY <1>4, <1>14 DEF Replace
<1>15. ASSUME Stop PROVE Once'
  <2>1. UNCHANGED <<pc, ran>> /\ \A c \in Conns : link'[c].requests = <<>>
    BY <1>15, HangUpFacts DEF Stop
  <2> QED
    BY <2>1, OnceStays
<1>16. ASSUME ReplaceFails \/ Restart \/ UNCHANGED vars PROVE Once'
  BY <1>0, <1>16 DEF ReplaceFails, Restart, vars
<1> QED
  BY <1>1, <1>2, <1>3, <1>5, <1>6, <1>7, <1>8, <1>9, <1>10, <1>11, <1>12, <1>13, <1>14, <1>15,
     <1>16 DEF Next, HandlerStep, ServerStep
-----------------------------------------------------------------------------
(* Answers and statuses tell what was run *)

\* The answers after a step are those before it, and true ones (New); statuses
\* are those before it, or true.
LEMMA TruthKept ==
    ASSUME Typed, Typed', Once, Truthful, NEW New,
           DOMAIN call' = Handlers, DOMAIN status' = Handlers,
           answer' \in [Handlers -> [of : Handlers \cup {0}, stray : BOOLEAN]],
           \A h \in Handlers : pc'[h] # "idle" => call'[h] \in Calls[h],
           \A h \in Handlers : pc'[h] # "done" => status'[h] = 0,
           \A h \in Handlers : pc[h] \in {"sent", "done"} =>
                /\ pc'[h] \in {"sent", "done"} /\ call'[h] = call[h]
                /\ ran'[h] = ran[h] \/ ran[h] = <<>>,
           \A c \in Conns : \A i \in 1 .. Len(link'[c].answers) :
                \/ link'[c].answers[i] \in New
                \/ \E j \in 1 .. Len(link[c].answers) : link'[c].answers[i] = link[c].answers[j],
           (\A a \in New : TrueAnswer(a))',
           \A h \in Handlers :
                \/ status'[h] = status[h] /\ answer'[h] = answer[h]
                \/ status'[h] \notin {200, 404} \/ answer'[h].stray \/ call'[h].op \in ListOps
                \/ RanAsMeant(h)'
    PROVE  Truthful'
<1>1. ASSUME NEW h \in Handlers, pc[h] \in {"sent", "done"}, RanAsMeant(h)
      PROVE  RanAsMeant(h)'
  <2>1. ran[h] # <<>>
    BY <1>1 DEF RanAsMeant
  <2>2. ran'[h] = ran[h] /\ call'[h] = call[h]
    BY <1>1, <2>1
  <2> QED
    BY <1>1, <2>2 DEF RanAsMeant
<1>2. ASSUME NEW c \in Conns, NEW j \in 1 .. Len(link[c].answers), NEW a, a = link[c].answers[j]
      PROVE  TrueAnswer(a)'
  <2>1. TrueAnswer(a)
    BY <1>2 DEF Truthful
  <2>2. link[c].answers \in Seq(SentAnswers)
    BY DEF Typed, Links
  <2>3. a \in SentAnswers
    BY <1>2, <2>2
  <2>4. a.of \in Handlers
    BY <2>3 DEF SentAnswers
  <2> QED
    BY <1>1, <2>1, <2>4 DEF TrueAnswer
<1>3. \A c \in Conns : \A i \in 1 .. Len(link'[c].answers) : TrueAnswer(link[c].answers[i])'
  <2> SUFFICES ASSUME NEW c \in Conns, NEW i \in 1 .. Len(link'[c].answers)
               PROVE  TrueAnswer(link[c].answers[i])'
    OBVIOUS
  <2>1. PICK a : a = link'[c].answers[i]
    OBVIOUS
  <2>2. TrueAnswer(a)'
    BY <1>2, <2>1
  <2> QED
    BY <2>1, <2>2 DEF TrueAnswer, RanAsMeant
<1>4. ASSUME NEW h \in Handlers, status'[h] \in {200, 404}, ~answer'[h].stray,
             call'[h].op \notin ListOps
      PROVE  RanAsMeant(h)'
  <2>1. CASE status'[h] = status[h] /\ answer'[h] = answer[h]
    <3>1. pc[h] = "done"
      BY <1>4, <2>1 DEF Truthful
    <3>2. call'[h] = call[h]
      BY <3>1
    <3>3. RanAsMeant(h)
      BY <1>4, <2>1, <3>2 DEF Truthful
    <3> QED
      BY <1>1, <3>1, <3>3
  <2> QED
    BY <1>4, <2>1
<1> QED
  BY <1>3, <1>4 DEF Truthful

\* A step that reads and runs nothing and ends no request.
LEMMA TruthStays ==
    ASSUME Typed, Typed', Once, Truthful, AnswersAreMine, UNCHANGED <<call, answer, status, ran>>,
           \A h \in Handlers : pc'[h] = pc[h] \/ pc[h] \in {"locking", "receiving", "ready"},
           \A c \in Conns : link'[c].answers = link[c].answers \/ link'[c].answers = <<>>
    PROVE  Truthful' /\ AnswersAreMine'
<1>1. /\ DOMAIN call' = Handlers /\ DOMAIN status' = Handlers
      /\ answer' \in [Handlers -> [of : Handlers \cup {0}, stray : BOOLEAN]]
      /\ \A h \in Handlers : pc'[h] # "idle" => call'[h] \in Calls[h]
      /\ \A h \in Handlers : pc'[h] # "done" => status'[h] = 0
  BY DEF Truthful
<1>2. \A c \in Conns : \A i \in 1 .. Len(link'[c].answers) :
        \E j \in 1 .. Len(link[c].answers) : link'[c].answers[i] = link[c].answers[j]
  OBVIOUS
<1>3. Truthful'
  <2>1. PICK New : New = {}
    OBVIOUS
  <2>2. \A c \in Conns : \A i \in 1 .. Len(link'[c].answers) :
          \/ link'[c].answers[i] \in New
          \/ \E j \in 1 .. Len(link[c].answers) : link'[c].answers[i] = link[c].answers[j]
    BY <1>2
  <2>3. (\A a \in New : TrueAnswer(a))'
    BY <2>1
  <2>4. \A h \in Handlers : pc[h] \in {"sent", "done"} =>
          /\ pc'[h] \in {"sent", "done"} /\ call'[h] = call[h]
          /\ ran'[h] = ran[h] \/ ran[h] = <<>>
    OBVIOUS
  <2>5. \A h \in Handlers :
          \/ status'[h] = status[h] /\ answer'[h] = answer[h]
          \/ status'[h] \notin {200, 404} \/ answer'[h].stray \/ call'[h].op \in ListOps
          \/ RanAsMeant(h)'
    OBVIOUS
  <2> QED
    BY <1>1, <2>2, <2>3, <2>4, <2>5, TruthKept, Zenon
<1> QED
  BY <1>3 DEF AnswersAreMine

\* A request that ends without an answer does not report a success.
LEMMA TruthEnds ==
    ASSUME Typed, Typed', Once, Truthful, AnswersAreMine, UNCHANGED <<call, answer, ran>>,
           NEW h \in Handlers, NEW code, code \notin {200, 404}, pc[h] # "idle",
           pc' = [pc EXCEPT ![h] = "done"], status' = [status EXCEPT ![h] = code],
           \A c \in Conns : link'[c].answers = link[c].answers \/ link'[c].answers = <<>>
    PROVE  Truthful' /\ AnswersAreMine'
<1>0. /\ \A k \in Handlers : pc'[k] = IF k = h THEN "done" ELSE pc[k]
      /\ \A k \in Handlers : status'[k] = IF k = h THEN code ELSE status[k]
  BY DEF Typed, Truthful
<1>1. /\ DOMAIN call' = Handlers /\ DOMAIN status' = Handlers
      /\ answer' \in [Handlers -> [of : Handlers \cup {0}, stray : BOOLEAN]]
      /\ \A k \in Handlers : pc'[k] # "idle" => call'[k] \in Calls[k]
      /\ \A k \in Handlers : pc'[k] # "done" => status'[k] = 0
  BY <1>0 DEF Truthful
<1>2. \A c \in Conns : \A i \in 1 .. Len(link'[c].answers) :
        \E j \in 1 .. Len(link[c].answers) : link'[c].answers[i] = link[c].answers[j]
  OBVIOUS
<1>3. Truthful'
  <2>1. PICK New : New = {}
    OBVIOUS
  <2>2. \A c \in Conns : \A i \in 1 .. Len(link'[c].answers) :
          \/ link'[c].answers[i] \in New
          \/ \E j \in 1 .. Len(link[c].answers) : link'[c].answers[i] = link[c].answers[j]
    BY <1>2
  <2>3. (\A a \in New : TrueAnswer(a))'
    BY <2>1
  <2>4. \A k \in Handlers : pc[k] \in {"sent", "done"} =>
          /\ pc'[k] \in {"sent", "done"} /\ call'[k] = call[k]
          /\ ran'[k] = ran[k] \/ ran[k] = <<>>
    BY <1>0
  <2>5. \A k \in Handlers :
          \/ status'[k] = status[k] /\ answer'[k] = answer[k]
          \/ status'[k] \notin {200, 404} \/ answer'[k].stray \/ call'[k].op \in ListOps
          \/ RanAsMeant(k)'
    BY <1>0
  <2> QED
    BY <1>1, <2>2, <2>3, <2>4, <2>5, TruthKept, Zenon
<1> QED
  BY <1>3 DEF AnswersAreMine

\* The statuses of a request that failed.
LEMMA FailureCodes ==
    ASSUME Truthful, NEW h \in Handlers, pc[h] # "idle"
    PROVE  /\ StatusOf[call[h].op]["io"] = 500 /\ StatusOf[call[h].op]["err"] = 400
           /\ call[h].op \in NeedsBody => StatusOf[call[h].op]["missing"] = 400
<1>1. PICK c : c = call[h] /\ c \in Calls[h]
  BY DEF Truthful
<1>2. PICK op \in DOMAIN Requests : op = c.op
  BY <1>1, ClientAssumption
<1>3. /\ StatusOf[op]["io"] = 500 /\ StatusOf[op]["err"] = 400
      /\ op \in NeedsBody => StatusOf[op]["missing"] = 400
  BY FailuresAreReported
<1> QED
  BY <1>1, <1>2, <1>3

\* An answer that is read: the rest stays, and a success is one that was run.
LEMMA TruthReceive ==
    ASSUME Typed, Owned, Typed', Clean, Once, Truthful, AnswersAreMine, NEW h \in Handlers, Receive(h)
    PROVE  Truthful' /\ AnswersAreMine'
<1> USE DEF handlers, pool, server
<1> DEFINE old == link[conn[h]]
           l   == [old EXCEPT !.answers = Tail(@), !.used = TRUE]
           a   == Head(old.answers)
<1>1. /\ pc[h] = "sent" /\ old.answers # <<>> /\ Leave(h, l)
      /\ UNCHANGED <<call, ran>> /\ pc' = [pc EXCEPT ![h] = "done"]
      /\ answer' = [answer EXCEPT ![h] = [of |-> a.of, stray |-> old.stray]]
  BY DEF Receive, Ends, Finish
<1>2. PICK result \in Results(call[h].op, a.reply) :
        status' = [status EXCEPT ![h] = StatusOf[call[h].op][result]]
  BY DEF Receive, Ends, Finish
<1>3. conn[h] \in Conns /\ old \in Links /\ old.answers \in Seq(SentAnswers)
  BY <1>1, OwnConn DEF Links
<1>4. /\ l \in Links /\ l.requests = old.requests /\ l.answers = Tail(old.answers)
  BY <1>1, <1>3, ReadOnce DEF Links
<1>5. /\ a = old.answers[1] /\ a \in SentAnswers /\ 1 \in 1 .. Len(old.answers)
      /\ \A i \in 1 .. Len(Tail(old.answers)) :
            i + 1 \in 1 .. Len(old.answers) /\ Tail(old.answers)[i] = old.answers[i + 1]
  <2>1. \A s \in Seq(SentAnswers) : s # <<>> =>
          /\ Head(s) = s[1] /\ s[1] \in SentAnswers /\ 1 \in 1 .. Len(s)
          /\ \A i \in 1 .. Len(Tail(s)) : i + 1 \in 1 .. Len(s) /\ Tail(s)[i] = s[i + 1]
    OBVIOUS
  <2> QED
    BY <1>1, <1>3, <2>1
<1>6. a.of \in Handlers /\ old.stray \in BOOLEAN /\ TrueAnswer(a)
  BY <1>3, <1>5 DEF SentAnswers, Links, Truthful
<1>7. ~old.stray => a.of = h
  BY <1>1, <1>5 DEF Clean, CleanHandler, Idle
<1>8. /\ \A c \in Conns : \/ link'[c].answers = link[c].answers
                          \/ c = conn[h] /\ link'[c].answers \in {<<>>, Tail(old.answers)}
      /\ \A k \in Handlers : pc'[k] = IF k = h THEN "done" ELSE pc[k]
  <2> HIDE DEF l
  <2> QED
    BY <1>1, <1>4, LeaveRequests
<1> HIDE DEF l, a
<1>9. /\ \A k \in Handlers : status'[k] = IF k = h THEN StatusOf[call[h].op][result] ELSE status[k]
      /\ \A k \in Handlers : answer'[k] = IF k = h THEN [of |-> a.of, stray |-> old.stray] ELSE answer[k]
      /\ DOMAIN status' = Handlers
  BY <1>1, <1>2 DEF Truthful
<1>10. /\ DOMAIN call' = Handlers
       /\ answer' \in [Handlers -> [of : Handlers \cup {0}, stray : BOOLEAN]]
       /\ \A k \in Handlers : pc'[k] # "idle" => call'[k] \in Calls[k]
       /\ \A k \in Handlers : pc'[k] # "done" => status'[k] = 0
  <2>1. [of |-> a.of, stray |-> old.stray] \in [of : Handlers \cup {0}, stray : BOOLEAN]
    BY <1>6
  <2> QED
    BY <1>1, <1>8, <1>9, <2>1 DEF Truthful
<1>11. \A c \in Conns : \A i \in 1 .. Len(link'[c].answers) :
         \E j \in 1 .. Len(link[c].answers) : link'[c].answers[i] = link[c].answers[j]
  <2> SUFFICES ASSUME NEW c \in Conns, NEW i \in 1 .. Len(link'[c].answers)
               PROVE  \E j \in 1 .. Len(link[c].answers) : link'[c].answers[i] = link[c].answers[j]
    OBVIOUS
  <2>1. CASE link'[c].answers = link[c].answers
    BY <2>1
  <2>2. CASE c = conn[h] /\ link'[c].answers = <<>>
    BY <2>2
  <2>3. CASE c = conn[h] /\ link'[c].answers = Tail(old.answers)
    <3>1. PICK n : n = i + 1
      OBVIOUS
    <3> QED
      BY <1>5, <2>3, <3>1
  <2> QED
    BY <1>8, <2>1, <2>2, <2>3
<1>12. ASSUME StatusOf[call[h].op][result] \in {200, 404}, ~old.stray, call[h].op \notin ListOps
       PROVE  RanAsMeant(h)'
  <2>1. a.reply.ok
    <3> SUFFICES ASSUME ~a.reply.ok PROVE FALSE
      OBVIOUS
    <3>1. result = "err"
      BY <1>2, ErrorsAreErrors
    <3>2. StatusOf[call[h].op]["err"] = 400
      BY <1>1, FailureCodes
    <3> QED
      BY <1>12, <3>1, <3>2
  <2>2. RanAsMeant(h)
    BY <1>6, <1>7, <1>12, <2>1 DEF TrueAnswer
  <2> QED
    BY <1>1, <2>2 DEF RanAsMeant
<1>13. Truthful'
  <2>1. PICK New : New = {}
    OBVIOUS
  <2>2. \A c \in Conns : \A i \in 1 .. Len(link'[c].answers) :
          \/ link'[c].answers[i] \in New
          \/ \E j \in 1 .. Len(link[c].answers) : link'[c].answers[i] = link[c].answers[j]
    BY <1>11
  <2>3. (\A b \in New : TrueAnswer(b))'
    BY <2>1
  <2>4. \A k \in Handlers : pc[k] \in {"sent", "done"} =>
          /\ pc'[k] \in {"sent", "done"} /\ call'[k] = call[k]
          /\ ran'[k] = ran[k] \/ ran[k] = <<>>
    BY <1>1, <1>8
  <2>5. \A k \in Handlers :
          \/ status'[k] = status[k] /\ answer'[k] = answer[k]
          \/ status'[k] \notin {200, 404} \/ answer'[k].stray \/ call'[k].op \in ListOps
          \/ RanAsMeant(k)'
    BY <1>1, <1>9, <1>12
  <2> QED
    BY <1>9, <1>10, <2>2, <2>3, <2>4, <2>5, TruthKept, Zenon
<1>14. AnswersAreMine'
  BY <1>7, <1>9 DEF AnswersAreMine
<1> QED
  BY <1>13, <1>14

\* A command that is handled: what its answer says is what was run.
LEMMA TruthAnswer ==
    ASSUME Typed, Owned, Typed', Clean, Once, Truthful, AnswersAreMine,
           NEW c \in Conns, Serves(c), NEW reply \in AnyReply, Answer(c, reply),
           UNCHANGED <<pc, call, status, answer>>,
           NEW h \in Handlers, h = link[c].requests[1],
           \A k \in Handlers : k # h => ran'[k] = ran[k],
           reply.ok /\ call[h].op \notin ListOps => RanAsMeant(h)'
    PROVE  Truthful' /\ AnswersAreMine'
<1>2. pc[h] \in {"sent", "done"} /\ ran[h] = <<>>
  <2>1. Len(link[c].requests) \in Nat /\ Len(link[c].requests) >= 1
    BY FirstRequest
  <2> QED
    BY <2>1 DEF Once
<1>3. PICK new : new = [of |-> h, reply |-> reply]
  OBVIOUS
<1>4. /\ \A d \in Conns : d # c => link'[d] = link[d]
      /\ link'[c].answers = link[c].answers \/ link'[c].answers = Append(link[c].answers, new)
  BY <1>3, AnswerFacts
<1>5. PICK New : New = {new}
  OBVIOUS
<1>6. \A d \in Conns : \A i \in 1 .. Len(link'[d].answers) :
        \/ link'[d].answers[i] \in New
        \/ \E j \in 1 .. Len(link[d].answers) : link'[d].answers[i] = link[d].answers[j]
  <2> SUFFICES ASSUME NEW d \in Conns, NEW i \in 1 .. Len(link'[d].answers)
               PROVE  \/ link'[d].answers[i] \in New
                      \/ \E j \in 1 .. Len(link[d].answers) : link'[d].answers[i] = link[d].answers[j]
    OBVIOUS
  <2>1. CASE link'[d].answers = link[d].answers
    BY <2>1
  <2>2. CASE d = c /\ link'[c].answers = Append(link[c].answers, new)
    <3>1. link[c].answers \in Seq(SentAnswers)
      BY DEF Typed, Links
    <3>2. \A s \in Seq(SentAnswers) : \A n \in 1 .. Len(Append(s, new)) :
            Append(s, new)[n] = new \/ (n \in 1 .. Len(s) /\ Append(s, new)[n] = s[n])
      OBVIOUS
    <3>3. PICK s \in Seq(SentAnswers) : s = link[c].answers
      BY <3>1
    <3>4. link'[d].answers = Append(s, new)
      BY <2>2, <3>3
    <3>5. Append(s, new)[i] = new \/ (i \in 1 .. Len(s) /\ Append(s, new)[i] = s[i])
      BY <3>2, <3>4
    <3> QED
      BY <1>5, <2>2, <3>3, <3>4, <3>5
  <2> QED
    BY <1>4, <2>1, <2>2
<1>7. (\A a \in New : TrueAnswer(a))'
  <2>1. new.of = h /\ new.reply = reply
    BY <1>3
  <2>2. reply.ok /\ call'[h].op \notin ListOps => RanAsMeant(h)'
    OBVIOUS
  <2>3. TrueAnswer(new)'
    BY <1>2, <2>1, <2>2 DEF TrueAnswer
  <2> QED
    BY <1>5, <2>3
<1>8. /\ DOMAIN call' = Handlers /\ DOMAIN status' = Handlers
      /\ answer' \in [Handlers -> [of : Handlers \cup {0}, stray : BOOLEAN]]
      /\ \A k \in Handlers : pc'[k] # "idle" => call'[k] \in Calls[k]
      /\ \A k \in Handlers : pc'[k] # "done" => status'[k] = 0
  BY DEF Truthful
<1>9. \A k \in Handlers : pc[k] \in {"sent", "done"} =>
        /\ pc'[k] \in {"sent", "done"} /\ call'[k] = call[k]
        /\ ran'[k] = ran[k] \/ ran[k] = <<>>
  BY <1>2
<1>10. \A k \in Handlers :
        \/ status'[k] = status[k] /\ answer'[k] = answer[k]
        \/ status'[k] \notin {200, 404} \/ answer'[k].stray \/ call'[k].op \in ListOps
        \/ RanAsMeant(k)'
  OBVIOUS
<1>11. Truthful'
  BY <1>6, <1>7, <1>8, <1>9, <1>10, TruthKept, Zenon
<1> QED
  BY <1>11 DEF AnswersAreMine

LEMMA TruthStep ==
    ASSUME Typed, Owned, Typed', Clean, Once, Truthful, AnswersAreMine, [Next]_vars
    PROVE  Truthful' /\ AnswersAreMine'
<1> USE DEF handlers, pool, server
<1>1. ASSUME NEW h \in Handlers, Request(h) PROVE Truthful' /\ AnswersAreMine'
  <2>1. PICK c \in Calls[h] : call' = [call EXCEPT ![h] = c]
    BY <1>1 DEF Request
  <2>2. /\ pc[h] = "idle" /\ pc' = [pc EXCEPT ![h] = "locking"]
        /\ UNCHANGED <<link, answer, status, ran>>
    BY <1>1 DEF Request
  <2>3. /\ \A k \in Handlers : pc'[k] = IF k = h THEN "locking" ELSE pc[k]
        /\ \A k \in Handlers : call'[k] = IF k = h THEN c ELSE call[k]
        /\ DOMAIN call' = Handlers
    BY <2>1, <2>2 DEF Typed, Truthful
  <2>4. /\ DOMAIN call' = Handlers /\ DOMAIN status' = Handlers
        /\ answer' \in [Handlers -> [of : Handlers \cup {0}, stray : BOOLEAN]]
        /\ \A k \in Handlers : pc'[k] # "idle" => call'[k] \in Calls[k]
        /\ \A k \in Handlers : pc'[k] # "done" => status'[k] = 0
    BY <2>2, <2>3 DEF Truthful
  <2>5. PICK New : New = {}
    OBVIOUS
  <2>6. \A d \in Conns : \A i \in 1 .. Len(link'[d].answers) :
          \/ link'[d].answers[i] \in New
          \/ \E j \in 1 .. Len(link[d].answers) : link'[d].answers[i] = link[d].answers[j]
    BY <2>2
  <2>7. (\A a \in New : TrueAnswer(a))'
    BY <2>5
  <2>8. \A k \in Handlers : pc[k] \in {"sent", "done"} =>
          /\ pc'[k] \in {"sent", "done"} /\ call'[k] = call[k]
          /\ ran'[k] = ran[k] \/ ran[k] = <<>>
    BY <2>2, <2>3
  <2>9. \A k \in Handlers :
          \/ status'[k] = status[k] /\ answer'[k] = answer[k]
          \/ status'[k] \notin {200, 404} \/ answer'[k].stray \/ call'[k].op \in ListOps
          \/ RanAsMeant(k)'
    BY <2>2
  <2>10. Truthful'
    BY <2>4, <2>6, <2>7, <2>8, <2>9, TruthKept, Zenon
  <2> QED
    BY <2>2, <2>10 DEF AnswersAreMine
<1>2. ASSUME NEW h \in Handlers, Lock(h) PROVE Truthful' /\ AnswersAreMine'
  <2>1. /\ UNCHANGED <<call, answer, status, ran, link>> /\ pc[h] = "locking"
        /\ pc' = [pc EXCEPT ![h] = "receiving"]
    BY <1>2 DEF Lock
  <2>2. \A k \in Handlers : pc'[k] = pc[k] \/ pc[k] \in {"locking", "receiving", "ready"}
    BY <2>1 DEF Typed
  <2> QED
    BY <2>1, <2>2, TruthStays
<1>3. ASSUME NEW h \in Handlers, AcquireLive(h) PROVE Truthful' /\ AnswersAreMine'
  <2>1. /\ UNCHANGED <<call, answer, status, ran>> /\ pc[h] = "receiving" /\ slots # <<>>
        /\ link' = [link EXCEPT ![Head(slots)].place = "held"] /\ pc' = [pc EXCEPT ![h] = "ready"]
    BY <1>3 DEF AcquireLive, CanReceive
  <2>2. \A k \in Handlers : pc'[k] = pc[k] \/ pc[k] \in {"locking", "receiving", "ready"}
    BY <2>1 DEF Typed
  <2>3. Head(slots) \in Conns /\ link[Head(slots)] \in Links
    BY <2>1, HeadOfSlots
  <2>4. \A c \in Conns : link'[c].answers = link[c].answers
    BY <2>1, <2>3 DEF Typed, Links
  <2> QED
    BY <2>1, <2>2, <2>4, TruthStays
<1>4. ASSUME NEW h \in Handlers, MeetDead(h) PROVE Truthful' /\ AnswersAreMine'
  <2>1. /\ UNCHANGED <<call, answer, status, ran, pc>> /\ slots # <<>>
        /\ link' = [link EXCEPT ![Head(slots)] = Close(link[Head(slots)])]
    BY <1>4 DEF MeetDead, CanReceive
  <2>2. Head(slots) \in Conns /\ Close(link[Head(slots)]).answers = <<>>
    BY <2>1, HeadOfSlots, CloseIsALink
  <2>3. \A c \in Conns : link'[c].answers = link[c].answers \/ link'[c].answers = <<>>
    BY <2>1, <2>2 DEF Typed
  <2> QED
    BY <2>1, <2>3, TruthStays
<1>5. ASSUME NEW place \in {"held", "arriving"}, Unused # {},
             link' = [link EXCEPT ![NewConn] = Fresh(place)]
      PROVE  \A c \in Conns : link'[c].answers = link[c].answers \/ link'[c].answers = <<>>
  <2>1. NewConn \in Conns /\ Fresh(place).answers = <<>>
    BY <1>5, NewConnIsFree, FreshIsALink DEF Idle
  <2> QED
    BY <1>5, <2>1 DEF Typed
<1>6. ASSUME NEW h \in Handlers, ConnectDirectly(h) PROVE Truthful' /\ AnswersAreMine'
  <2>1. pc[h] = "receiving" /\ UNCHANGED <<call, answer, ran>>
    BY <1>6 DEF ConnectDirectly
  <2>2. CASE /\ Unused # {} /\ link' = [link EXCEPT ![NewConn] = Fresh("held")]
             /\ pc' = [pc EXCEPT ![h] = "ready"] /\ UNCHANGED status
    <3>1. \A k \in Handlers : pc'[k] = pc[k] \/ pc[k] \in {"locking", "receiving", "ready"}
      BY <2>1, <2>2 DEF Typed
    <3> QED
      BY <1>5, <2>1, <2>2, <3>1, TruthStays
  <2>3. CASE Ends(h, "io") /\ UNCHANGED link
    <3>1. PICK code : code = StatusOf[call[h].op]["io"]
      OBVIOUS
    <3>2. code \notin {200, 404}
      <4>1. pc[h] # "idle"
        BY <2>1
      <4>2. StatusOf[call[h].op]["io"] = 500
        BY <4>1, FailureCodes
      <4> QED
        BY <3>1, <4>2
    <3>3. pc' = [pc EXCEPT ![h] = "done"] /\ status' = [status EXCEPT ![h] = code]
      BY <2>3, <3>1 DEF Ends, Finish
    <3>4. \A c \in Conns : link'[c].answers = link[c].answers \/ link'[c].answers = <<>>
      BY <2>3
    <3>5. pc[h] # "idle" /\ UNCHANGED <<call, answer, ran>>
      BY <2>1
    <3> QED
      BY <3>2, <3>3, <3>4, <3>5, TruthEnds, Zenon
  <2> QED
    BY <1>6, <2>2, <2>3 DEF ConnectDirectly
<1>7. ASSUME NEW h \in Handlers, Send(h) PROVE Truthful' /\ AnswersAreMine'
  <2>1. /\ UNCHANGED <<call, answer, status, ran>> /\ pc[h] = "ready"
        /\ link' = [link EXCEPT ![conn[h]].requests = IF link[conn[h]].open THEN Append(@, h) ELSE @]
        /\ pc' = [pc EXCEPT ![h] = "sent"]
    BY <1>7 DEF Send
  <2>2. \A k \in Handlers : pc'[k] = pc[k] \/ pc[k] \in {"locking", "receiving", "ready"}
    BY <2>1 DEF Typed
  <2>3. \A c \in Conns : link'[c].answers = link[c].answers
    BY <2>1 DEF Typed, Links
  <2> QED
    BY <2>1, <2>2, <2>3, TruthStays
<1>8. ASSUME NEW h \in Handlers, MissingArgument(h) \/ IoError(h) PROVE Truthful' /\ AnswersAreMine'
  <2>1. /\ pc[h] \in {"ready", "sent"} /\ Leave(h, link[conn[h]]) /\ UNCHANGED <<call, answer, ran>>
        /\ pc' = [pc EXCEPT ![h] = "done"]
    BY <1>8 DEF MissingArgument, IoError, Ends, Finish
  <2>3. PICK l \in Links : l = link[conn[h]]
    BY <2>1, OwnConn
  <2>4. Leave(h, l) /\ l.requests = link[conn[h]].requests /\ l.answers = link[conn[h]].answers
    BY <2>1, <2>3
  <2>5. \A c \in Conns : link'[c].answers = link[c].answers \/ link'[c].answers = <<>>
    <3>1. \A c \in Conns : \/ link'[c].answers = link[c].answers
                           \/ c = conn[h] /\ link'[c].answers \in {<<>>, l.answers}
      BY <2>1, <2>4, LeaveRequests
    <3> QED
      BY <2>4, <3>1
  <2>6. /\ pc[h] # "idle" /\ UNCHANGED <<call, answer, ran>>
        /\ pc' = [pc EXCEPT ![h] = "done"]
    BY <2>1
  <2>7. ASSUME NEW code, code \notin {200, 404}, status' = [status EXCEPT ![h] = code]
        PROVE  Truthful' /\ AnswersAreMine'
    BY <2>5, <2>6, <2>7, TruthEnds, Zenon
  <2>8. CASE MissingArgument(h)
    <3>1. PICK code : code = StatusOf[call[h].op]["missing"]
      OBVIOUS
    <3>2. code \notin {200, 404}
      <4>1. call[h].op \in NeedsBody
        BY <2>8 DEF MissingArgument
      <4> QED
        BY <2>6, <3>1, <4>1, FailureCodes
    <3>3. status' = [status EXCEPT ![h] = code]
      BY <2>8, <3>1 DEF MissingArgument, Ends, Finish
    <3> QED
      BY <2>7, <3>2, <3>3
  <2>9. CASE IoError(h)
    <3>1. PICK code : code = StatusOf[call[h].op]["io"]
      OBVIOUS
    <3>2. code \notin {200, 404}
      BY <2>6, <3>1, FailureCodes
    <3>3. status' = [status EXCEPT ![h] = code]
      BY <2>9, <3>1 DEF IoError, Ends, Finish
    <3> QED
      BY <2>7, <3>2, <3>3
  <2> QED
    BY <1>8, <2>8, <2>9
<1>9. ASSUME NEW h \in Handlers, Cancel(h) PROVE Truthful' /\ AnswersAreMine'
  <2>1. /\ pc[h] # "idle" /\ UNCHANGED <<call, answer, ran>>
        /\ pc' = [pc EXCEPT ![h] = "done"] /\ status' = [status EXCEPT ![h] = 0]
    BY <1>9 DEF Cancel, Finish
  <2>4. PICK code : code = 0 /\ code \notin {200, 404}
    OBVIOUS
  <2>2. CASE UNCHANGED link
    BY <2>1, <2>2, <2>4, TruthEnds
  <2>3. CASE pc[h] = "sent" /\ Leave(h, [link[conn[h]] EXCEPT !.stray = TRUE])
    <3> DEFINE l == [link[conn[h]] EXCEPT !.stray = TRUE]
    <3>1. /\ l \in Links /\ l.requests = link[conn[h]].requests
          /\ l.answers = link[conn[h]].answers
      BY <2>3, OwnConn DEF Links
    <3>2. Leave(h, l)
      BY <2>3
    <3> HIDE DEF l
    <3>3. \A c \in Conns : link'[c].answers = link[c].answers \/ link'[c].answers = <<>>
      BY <2>1, <2>3, <3>1, <3>2, LeaveRequests
    <3> QED
      BY <2>1, <2>4, <3>3, TruthEnds
  <2> QED
    BY <1>9, <2>2, <2>3 DEF Cancel
<1>10. ASSUME NEW c \in Conns, HangUp(c) PROVE Truthful' /\ AnswersAreMine'
  <2> DEFINE l == [link[c] EXCEPT !.open = FALSE, !.requests = <<>>]
  <2>1. link' = [link EXCEPT ![c] = l] /\ UNCHANGED <<pc, call, answer, status, ran>>
    BY <1>10 DEF HangUp
  <2>2. l.answers = link[c].answers
    BY HangUpFacts
  <2> HIDE DEF l
  <2>3. \A d \in Conns : link'[d].answers = link[d].answers
    BY <2>1, <2>2 DEF Typed
  <2> QED
    BY <2>1, <2>3, TruthStays
<1>11. ASSUME NEW c \in Conns, RejectFrame(c) PROVE Truthful' /\ AnswersAreMine'
  <2>1. /\ Serves(c) /\ UNCHANGED <<pc, call, answer, status, ran>> /\ Answer(c, ErrReply)
        /\ ErrReply \in AnyReply /\ ~ErrReply.ok
    BY <1>11 DEF RejectFrame, AnyReply, ErrReply
  <2>2. PICK h \in Handlers : h = link[c].requests[1]
    BY <2>1, FirstRequest
  <2>3. PICK reply \in AnyReply : reply = ErrReply
    BY <2>1
  <2> QED
    BY <2>1, <2>2, <2>3, TruthAnswer
<1>12. ASSUME NEW c \in Conns, HandleCommand(c) PROVE Truthful' /\ AnswersAreMine'
  <2>1. PICK command \in Parses(Encode(call[Head(link[c].requests)])) \ {ParseError},
             ok \in BOOLEAN, reply \in AnyReply :
          /\ Serves(c) /\ Answer(c, reply) /\ (reply.ok => ok)
          /\ ran' = [ran EXCEPT ![Head(link[c].requests)] =
                        Append(@, [command |-> command, ok |-> ok])]
    BY <1>12, HandleFacts
  <2>2. UNCHANGED <<pc, call, answer, status>>
    BY <1>12 DEF HandleCommand
  <2>3. PICK h \in Handlers : /\ h = link[c].requests[1] /\ Head(link[c].requests) = h
                              /\ Len(link[c].requests) \in Nat /\ Len(link[c].requests) >= 1
    BY <2>1, FirstRequest
  <2>4. ran[h] = <<>> /\ DOMAIN ran = Handlers /\ pc[h] \in {"sent", "done"}
    BY <2>3 DEF Once
  <2>5. PICK r : r = [command |-> command, ok |-> ok]
    OBVIOUS
  <2>6. \A k \in Handlers : ran'[k] = IF k = h THEN <<r>> ELSE ran[k]
    <3>1. ran' = [ran EXCEPT ![h] = Append(ran[h], r)]
      BY <2>1, <2>3, <2>5
    <3>2. Append(<<>>, r) = <<r>>
      OBVIOUS
    <3> QED
      BY <2>4, <3>1, <3>2
  <2>7. ASSUME reply.ok, call[h].op \notin ListOps
        PROVE  RanAsMeant(h)'
    <3>1. PICK k : k = call[h]
      OBVIOUS
    <3>2. /\ k.op \in GroupOps \cup KvOps
          /\ k.args = [i \in DOMAIN Requests[k.op].kinds |-> k.args[i]]
      <4>1. k \in Calls[h]
        BY <2>4, <3>1 DEF Truthful
      <4>2. /\ k.op \in DOMAIN Requests
            /\ k.args = [i \in DOMAIN Requests[k.op].kinds |-> k.args[i]]
        BY <4>1, ClientAssumption
      <4> QED
        BY <2>7, <3>1, <4>2, TableDomains
    <3>3. Parses(Encode(k)) = {Intended(k)}
      BY <3>2, ReadAsMeant
    <3>4. command = Intended(k) /\ ok = TRUE
      BY <2>1, <2>3, <2>7, <3>1, <3>3
    <3>5. call'[h] = k /\ ran'[h] = <<[command |-> Intended(k), ok |-> TRUE]>>
      BY <2>2, <2>5, <2>6, <3>1, <3>4
    <3> QED
      BY <3>5 DEF RanAsMeant
  <2>8. \A k \in Handlers : k # h => ran'[k] = ran[k]
    BY <2>6
  <2> QED
    BY <2>1, <2>2, <2>3, <2>7, <2>8, TruthAnswer
<1>13. ASSUME NEW c \in Conns, Arrive(c) PROVE Truthful' /\ AnswersAreMine'
  <2>1. /\ UNCHANGED <<pc, call, answer, status, ran>>
        /\ link' = [link EXCEPT ![c].place = "slots"]
    BY <1>13 DEF Arrive
  <2>2. \A d \in Conns : link'[d].answers = link[d].answers
    BY <2>1 DEF Typed, Links
  <2> QED
    BY <2>1, <2>2, TruthStays
<1>14. ASSUME Replace PROVE Truthful' /\ AnswersAreMine'
  <2>1. /\ UNCHANGED <<pc, call, answer, status, ran>> /\ Unused # {}
        /\ link' = [link EXCEPT ![NewConn] = Fresh("arriving")]
    BY <1>14 DEF Replace
  <2> QED
    BY <1>5, <2>1, TruthStays
<1>15. ASSUME Stop PROVE Truthful' /\ AnswersAreMine'
  <2>1. UNCHANGED <<pc, call, answer, status, ran>> /\ \A c \in Conns : link'[c].answers = link[c].answers
    BY <1>15, HangUpFacts DEF Stop
  <2> QED
    BY <2>1, TruthStays
<1>16. ASSUME ReplaceFails \/ Restart \/ UNCHANGED vars PROVE Truthful' /\ AnswersAreMine'
  <2>1. UNCHANGED <<pc, call, answer, status, ran, link>>
    BY <1>16 DEF ReplaceFails, Restart, vars
  <2> QED
    BY <2>1, TruthStays
<1>17. ASSUME NEW h \in Handlers, Receive(h) PROVE Truthful' /\ AnswersAreMine'
  BY <1>17, TruthReceive
<1> QED
  BY <1>1, <1>2, <1>3, <1>4, <1>6, <1>7, <1>8, <1>9, <1>10, <1>11, <1>12, <1>13, <1>14, <1>15,
     <1>16, <1>17 DEF Next, HandlerStep, ServerStep
-----------------------------------------------------------------------------
(* The results *)

LEMMA InitIsIn == Init => IInv
<1> SUFFICES ASSUME Init PROVE IInv
  OBVIOUS
<1>0. <<>> \in Seq(SentAnswers) /\ <<>> \in Seq(Handlers)
  OBVIOUS
<1>1. \A c \in Conns : /\ c <= Size => link[c] = Fresh("slots")
                       /\ ~(c <= Size) => link[c] = Closed
  BY DEF Init
<1>2. /\ Fresh("slots") \in Links /\ Fresh("slots").place = "slots" /\ Idle(Fresh("slots"))
      /\ Closed \in Links /\ Closed.place = "none" /\ Idle(Closed)
      /\ Fresh("slots").open
  BY FreshIsALink
<1>3. slots \in Seq(Conns) /\ Len(slots) = Size /\ \A i \in 1 .. Size : slots[i] = i
  BY ClientAssumption DEF Init
<1>4. Typed
  <2>1. link \in [Conns -> Links]
    BY <1>1, <1>2 DEF Init
  <2> QED
    BY <1>3, <2>1 DEF Init, Typed
<1>5. IsInjective(slots) /\ ToSet(slots) = 1 .. Size
  <2>1. DOMAIN slots = 1 .. Size
    BY <1>3, ClientAssumption
  <2> QED
    BY <1>3, <2>1 DEF IsInjective, ToSet
<1>6. Owned
  <2>1. \A c \in Conns : link[c].place = "slots" <=> c \in 1 .. Size
    BY <1>1, <1>2, ClientAssumption
  <2>2. \A c \in Conns : link[c].place # "held" /\ c # 0
    BY <1>1, <1>2, ClientAssumption
  <2>3. /\ \A h \in Handlers : conn[h] = 0 /\ pc[h] = "idle"
        /\ \A h \in Handlers : receiver # h
    BY ClientAssumption DEF Init
  <2>4. Len(slots) <= Size
    BY <1>3, ClientAssumption
  <2> QED
    BY <1>5, <2>1, <2>2, <2>3, <2>4 DEF Owned
<1>7. Enough
  <2>1. InUse = 1 .. Size
    <3>1. \A c \in Conns : link[c].place # "none" <=> c <= Size
      BY <1>1, <1>2
    <3>2. /\ \A c \in Conns : c \in Nat /\ c >= 1
          /\ \A n \in 1 .. Size : n \in Conns
      BY ClientAssumption
    <3>3. Size \in Nat
      BY ClientAssumption
    <3> QED
      BY <3>1, <3>2, <3>3 DEF InUse
  <2>2. Cardinality(1 .. Size) = Size
    <3>1. 1 \in Int /\ Size \in Int /\ 1 <= Size
      BY ClientAssumption
    <3>2. Cardinality(1 .. Size) = IF 1 > Size THEN 0 ELSE Size - 1 + 1
      BY <3>1, FS_Interval, Zenon
    <3> QED
      BY <3>1, <3>2
  <2> QED
    BY <2>1, <2>2, ClientAssumption DEF Enough, Init
<1>8. Clean
  <2>1. \A c \in Conns : Idle(link[c])
    BY <1>1, <1>2
  <2>2. \A h \in Handlers : pc[h] = "idle"
    BY DEF Init
  <2> QED
    BY <2>1, <2>2 DEF Clean, CleanConn, CleanHandler, Idle
<1>9. \A c \in Conns : link[c].requests = <<>> /\ link[c].answers = <<>>
  BY <1>1, <1>2 DEF Idle
<1>10. Once
  BY <1>9 DEF Once, Init
<1>11. answer \in [Handlers -> [of : Handlers \cup {0}, stray : BOOLEAN]]
  BY DEF Init, NoAnswer
<1>12. Truthful
  BY <1>9, <1>11 DEF Truthful, Init
<1>13. AnswersAreMine
  BY DEF AnswersAreMine, Init
<1> QED
  BY <1>4, <1>6, <1>7, <1>8, <1>10, <1>12, <1>13 DEF IInv

LEMMA HeldPlaces ==
    ASSUME Typed, Owned
    PROVE  At("held") = Held
<1>1. \A h \in Handlers : conn[h] \in Conns \/ conn[h] = 0
  BY DEF Typed
<1>2. 0 \notin Conns
  BY ClientAssumption
<1>3. \A c \in Conns : link[c].place = "held" <=> \E h \in Handlers : conn[h] = c
  BY DEF Owned
<1>4. ASSUME NEW c \in At("held") PROVE c \in Held
  BY <1>2, <1>3 DEF At, Held
<1>5. ASSUME NEW c \in Held PROVE c \in At("held")
  <2>1. PICK h \in Handlers : c = conn[h]
    BY DEF Held
  <2>2. c \in Conns
    BY <1>1, <2>1 DEF Held
  <2> QED
    BY <1>3, <2>1, <2>2 DEF At
<1> QED
  BY <1>4, <1>5

LEMMA Invariance == Spec => []IInv
<1>1. IInv /\ [Next]_vars => IInv'
  <2> SUFFICES ASSUME IInv, [Next]_vars PROVE IInv'
    OBVIOUS
  <2>1. Typed /\ Owned /\ Enough /\ Clean /\ Once /\ Truthful /\ AnswersAreMine
    BY DEF IInv
  <2>2. Typed' /\ Owned'
    BY <2>1, OwnedStep
  <2>3. Enough'
    BY <2>1, <2>2, EnoughStep
  <2>4. Clean'
    BY <2>1, <2>2, CleanStep
  <2>5. Once'
    BY <2>1, <2>2, OnceStep
  <2>6. Truthful' /\ AnswersAreMine'
    BY <2>1, <2>2, TruthStep
  <2> QED
    BY <2>2, <2>3, <2>4, <2>5, <2>6 DEF IInv
<1> QED
  BY <1>1, InitIsIn, PTL DEF Spec

\* Every connection of the pool has one owner: it is in the channel, held by one
\* handler, on its way back or closed (acquire, Drop for PooledClient and
\* spawn_replacement in client/src/client/pool.rs), and the channel never holds
\* more than POOL_SIZE.
THEOREM OneOwner == Spec => []TypeOK
<1>1. IInv => TypeOK
  <2> SUFFICES ASSUME Typed, Owned PROVE TypeOK
    BY DEF IInv
  <2>1. At("slots") = ToSet(slots)
    <3>1. ToSet(slots) \subseteq Conns
      BY DEF Typed, ToSet
    <3> QED
      BY <3>1 DEF At, Owned
  <2>2. At("held") = Held
    BY HeldPlaces
  <2> QED
    BY <2>1, <2>2 DEF TypeOK, Typed, Owned
<1> QED
  BY <1>1, Invariance, PTL

\* The pool loses no slot but to replacements that found the server down: every
\* connection that acquire or Drop gives up has a task of spawn_replacement that
\* is to connect in its place, or was one too many.
THEOREM NoSlotIsLost == Spec => []SlotsAreReplaced
<1>1. IInv => SlotsAreReplaced
  <2> SUFFICES ASSUME Typed, Owned, Enough PROVE SlotsAreReplaced
    BY DEF IInv
  <2> DEFINE S == At("slots")
             H == At("held")
             A == At("arriving")
  <2>1. H = Held
    BY HeldPlaces
  <2>2. IsFiniteSet(S) /\ IsFiniteSet(H) /\ IsFiniteSet(A)
    <3>1. S \subseteq Conns /\ H \subseteq Conns /\ A \subseteq Conns
      BY DEF At
    <3> QED
      BY <3>1, ClientAssumption, FS_Subset
  <2>3. InUse = S \cup H \cup A
    BY DEF InUse, At, Typed, Links
  <2>4. S \cap H = {} /\ (S \cup H) \cap A = {}
    BY DEF At
  <2>5. Cardinality(S) = Len(slots)
    BY SlotsCount
  <2> HIDE DEF S, H, A
  <2>6. IsFiniteSet(S \cup H) /\ Cardinality(S \cup H) = Cardinality(S) + Cardinality(H)
    <3>1. /\ IsFiniteSet(S \cup H)
          /\ Cardinality(S \cup H) = Cardinality(S) + Cardinality(H) - Cardinality(S \cap H)
      BY <2>2, FS_Union
    <3>2. Cardinality(S \cap H) = 0
      BY <2>4, FS_EmptySet
    <3>3. Cardinality(S) \in Nat /\ Cardinality(H) \in Nat
      BY <2>2, FS_CardinalityType
    <3> QED
      BY <3>1, <3>2, <3>3
  <2>7. Cardinality((S \cup H) \cup A) = Cardinality(S) + Cardinality(H) + Cardinality(A)
    <3>1. Cardinality((S \cup H) \cup A) =
            Cardinality(S \cup H) + Cardinality(A) - Cardinality((S \cup H) \cap A)
      BY <2>2, <2>6, FS_Union
    <3>2. Cardinality((S \cup H) \cap A) = 0
      BY <2>4, FS_EmptySet
    <3>3. Cardinality(S \cup H) \in Nat /\ Cardinality(A) \in Nat
      BY <2>2, <2>6, FS_CardinalityType
    <3> QED
      BY <2>6, <3>1, <3>2, <3>3
  <2>8. Cardinality(InUse) + replacing + lost >= Size
    BY DEF Enough
  <2> QED
    BY <2>1, <2>3, <2>5, <2>7, <2>8 DEF SlotsAreReplaced, A
<1> QED
  BY <1>1, Invariance, PTL

\* Whoever reads an answer from a pooled connection reads that of its own
\* request: Drop for PooledClient never gives back a connection with an answer
\* under way, but for a request that is given up between its send and its answer.
THEOREM OwnAnswers == Spec => []AnswersAreMine
<1>1. IInv => AnswersAreMine
  BY DEF IInv
<1> QED
  BY <1>1, Invariance, PTL

\* A success that the HTTP layer reports for a group or a key call was run by the
\* server, once, as this call: both ends of the wire agree on these commands
\* (client/src/client/client.rs and parse_command), and no handler sends twice.
THEOREM SuccessIsTrue == Spec => []SuccessesHappened
<1>1. IInv => SuccessesHappened
  <2> SUFFICES ASSUME Once, Truthful, NEW h \in Handlers
               PROVE  /\ Len(ran[h]) <= 1
                      /\ status[h] \in {200, 404} /\ ~answer[h].stray /\ call[h].op \notin ListOps
                            => ran[h] = <<[command |-> Intended(call[h]), ok |-> TRUE]>>
    BY DEF IInv, SuccessesHappened
  <2>1. Len(ran[h]) <= 1
    <3>1. ran[h] = <<>> \/ ran[h] = <<ran[h][1]>>
      BY DEF Once
    <3>2. PICK x : x = ran[h][1]
      OBVIOUS
    <3>3. ran[h] = <<>> \/ ran[h] = <<x>>
      BY <3>1, <3>2
    <3>4. Len(<<>>) = 0 /\ Len(<<x>>) = 1
      OBVIOUS
    <3>5. CASE ran[h] = <<>>
      BY <3>4, <3>5
    <3>6. CASE ran[h] = <<x>>
      BY <3>4, <3>6
    <3> QED
      BY <3>3, <3>5, <3>6
  <2> QED
    BY <2>1 DEF Truthful, RanAsMeant
<1> QED
  BY <1>1, Invariance, PTL
=============================================================================
