-------------------------------- MODULE Wire --------------------------------
(***************************************************************************)
(* The frames of client/src/client/client.rs and of server/src/server/     *)
(* proto.rs, written down once for each end, since the two share no code.  *)
(* A frame is an opcode and its fields; a field is a kind and a value:     *)
(*   str      u16 length and UTF-8 bytes      u32, u64   little endian     *)
(*   bytes    u32 length and bytes                                         *)
(*   entries  u32 count, then u64 and bytes each                           *)
(*   blobs    u32 count, then bytes each                                   *)
(* A client method is named by the Command it is meant to have run.        *)
(***************************************************************************)
EXTENDS Integers, Sequences

Frame(tag, kinds) == [tag |-> tag, kinds |-> kinds]

\* One table of two, and one whose rows are numbered from first on.
Join(f, g) == [x \in DOMAIN f \cup DOMAIN g |-> IF x \in DOMAIN f THEN f[x] ELSE g[x]]
From(first, rows) == [n \in first .. first + Len(rows) - 1 |-> rows[n - first + 1]]

GroupRequests ==
    [CreateGroup |-> Frame(1, <<"str">>),
     DropGroup   |-> Frame(2, <<"str">>),
     Add         |-> Frame(3, <<"str", "u64", "bytes">>),
     AddRange    |-> Frame(4, <<"str", "entries">>),
     Read        |-> Frame(5, <<"str", "u64">>),
     ReadRange   |-> Frame(6, <<"str", "u64", "u64">>),
     Remove      |-> Frame(7, <<"str", "u64">>),
     ListGroups  |-> Frame(8, <<>>),
     GroupStats  |-> Frame(9, <<"str">>)]

KvRequests ==
    [SetKey |-> Frame(16, <<"str", "str", "u64", "bytes">>),
     GetKey |-> Frame(17, <<"str", "str">>),
     DelKey |-> Frame(18, <<"str", "str">>),
     Keys   |-> Frame(19, <<"str">>),
     Flush  |-> Frame(20, <<"str">>)]

ListRequests ==
    [LPush      |-> Frame(32, <<"str", "bytes">>),
     LPushRange |-> Frame(33, <<"str", "blobs">>),
     LPop       |-> Frame(34, <<"str">>),
     LPopRange  |-> Frame(35, <<"str", "u32", "u32">>),
     LPopCount  |-> Frame(36, <<"str", "u32">>),
     LLen       |-> Frame(37, <<"str">>),
     LFlush     |-> Frame(38, <<"str">>)]

Requests == Join(GroupRequests, Join(KvRequests, ListRequests))

GroupOps == DOMAIN GroupRequests
KvOps    == DOMAIN KvRequests
ListOps  == DOMAIN ListRequests

\* A call: the method and the values of its fields, in the frame's order.
Encode(call) == [tag    |-> Requests[call.op].tag,
                 fields |-> [i \in DOMAIN call.args |->
                                <<Requests[call.op].kinds[i], call.args[i]>>]]
-----------------------------------------------------------------------------
(* parse_command.  The list commands read a database name in front of the  *)
(* key and drop it.                                                        *)

Arm(cmd, kinds)     == [cmd |-> cmd, kinds |-> kinds, skip |-> 0]
ListArm(cmd, kinds) == [cmd |-> cmd, kinds |-> <<"str", "str">> \o kinds, skip |-> 1]

GroupArms ==
    From(1, <<Arm("CreateGroup", <<"str">>),
              Arm("DropGroup", <<"str">>),
              Arm("Add", <<"str", "u64", "bytes">>),
              Arm("AddRange", <<"str", "entries">>),
              Arm("Read", <<"str", "u64">>),
              Arm("ReadRange", <<"str", "u64", "u64">>),
              Arm("Remove", <<"str", "u64">>),
              Arm("ListGroups", <<>>),
              Arm("GroupStats", <<"str">>)>>)

KvArms_SwapsDelAndGet ==
    From(16, <<Arm("SetKey", <<"str", "str", "u64", "bytes">>),
               Arm("DelKey", <<"str", "str">>),
               Arm("GetKey", <<"str", "str">>),
               Arm("Keys", <<"str">>),
               Arm("Flush", <<"str">>)>>)

KvArms ==
    From(16, <<Arm("SetKey", <<"str", "str", "u64", "bytes">>),
               Arm("GetKey", <<"str", "str">>),
               Arm("DelKey", <<"str", "str">>),
               Arm("Keys", <<"str">>),
               Arm("Flush", <<"str">>)>>)

ListArms ==
    Join(From(21, <<ListArm("LPush", <<"bytes">>),
                    ListArm("LPushRange", <<"blobs">>),
                    ListArm("LPop", <<>>),
                    ListArm("LPopRange", <<"u32", "u32">>),
                    ListArm("LPopCount", <<"u32">>)>>),
         From(32, <<ListArm("LLen", <<>>),
                    ListArm("LFlush", <<>>)>>))

HaArms ==
    From(34, <<Arm("HaRegisterFollower", <<"str">>),
               Arm("HaHeartBeat", <<>>),
               Arm("HaSync", <<"blobs">>)>>)

Arms == Join(Join(GroupArms, KvArms), Join(ListArms, HaArms))

ParseError == [cmd |-> "ParseError", args |-> <<>>]

\* What the bytes of a field of another kind, or of what follows it, are
\* taken for.
Garbage == "garbage"

\* What the frame may be taken for.  Bytes behind the last field are ignored.
\* A field read as another kind gives garbage from there on, or the cursor
\* runs off the end of the frame.
Parses(frame) ==
    IF frame.tag \notin DOMAIN Arms THEN {ParseError}
    ELSE LET arm == Arms[frame.tag]
             fits(i) == i <= Len(frame.fields) /\ frame.fields[i][1] = arm.kinds[i]
             read(i) == IF \A n \in 1 .. i : fits(n) THEN frame.fields[i][2] ELSE Garbage
             command == [cmd  |-> arm.cmd,
                         args |-> [i \in 1 .. Len(arm.kinds) - arm.skip |-> read(i + arm.skip)]]
         IN  IF \A i \in DOMAIN arm.kinds : fits(i) THEN {command}
             ELSE {ParseError, command}

\* What the caller of a method wants to have run.
Intended(call) == [cmd |-> call.op, args |-> call.args]
-----------------------------------------------------------------------------
(* handle_command: the shapes of the answer to a command that succeeds.  A *)
(* failing one, and a frame that does not parse, is answered with an error.*)

GroupReplies ==
    [CreateGroup |-> {"empty"}, DropGroup  |-> {"empty"},
     Add         |-> {"u64"},   AddRange   |-> {"u64 pair"},
     Read        |-> {"entry"}, ReadRange  |-> {"entries"},
     Remove      |-> {"empty"}, ListGroups |-> {"strings"},
     GroupStats  |-> {"stats"}]

KvReplies ==
    [SetKey |-> {"empty"}, GetKey |-> {"bytes", "empty"}, DelKey |-> {"empty"},
     Keys   |-> {"strings"}, Flush |-> {"empty"}]

ListReplies ==
    [LPush     |-> {"empty"}, LPushRange |-> {"empty"}, LPop |-> {"bytes"},
     LPopRange |-> {"blobs"}, LPopCount  |-> {"blobs"},
     LLen      |-> {"u64"},   LFlush     |-> {"empty"}]

HaReplies ==
    [HaRegisterFollower |-> {"empty"}, HaHeartBeat |-> {"bytes"}, HaSync |-> {"empty"}]

Replies == Join(Join(GroupReplies, KvReplies), Join(ListReplies, HaReplies))

\* The commands whose handlers can panic: memory that ran out, a range that is
\* reversed or too long, entries of a sync that are not base64 of an entry.
MayPanic == {"Add", "AddRange", "ReadRange", "LPush", "LPushRange", "LPopRange", "HaSync"}

OkReply(shape) == [ok |-> TRUE, shape |-> shape]
ErrReply       == [ok |-> FALSE, shape |-> "message"]
-----------------------------------------------------------------------------
(* What a client method makes of an answer.                                *)

\* The methods that only look at the status (check_status).
StatusOnly == {"CreateGroup", "DropGroup", "Remove", "SetKey", "DelKey", "Flush",
               "LPush", "LPushRange", "LFlush"}

Optional == {"GetKey", "LPop"}

Expected ==
    [Add |-> "u64", AddRange |-> "u64 pair", Read |-> "entry",
     ReadRange |-> "entries", ListGroups |-> "strings", GroupStats |-> "stats",
     GetKey |-> "bytes", Keys |-> "strings", LPop |-> "bytes",
     LPopRange |-> "blobs", LPopCount |-> "blobs", LLen |-> "u64"]

\* An empty value reads as none.  An answer of another shape passes the length
\* checks or not, and is read as some value, reported as an error or indexed
\* out of bounds.
Decode(op, reply) ==
    CASE ~reply.ok -> {"err"}
      [] reply.ok /\ op \in StatusOnly -> {"ok"}
      [] reply.ok /\ op \in Optional /\ reply.shape = "empty" -> {"none"}
      [] reply.ok /\ op \in Optional /\ reply.shape = "bytes" -> {"ok", "none"}
      [] reply.ok /\ op \notin StatusOnly \cup Optional /\ reply.shape = Expected[op] -> {"ok"}
      [] reply.ok /\ op \in Optional /\ reply.shape \notin {"empty", "bytes"} ->
            {"ok", "none", "panic"}
      [] OTHER -> {"ok", "err", "panic"}
=============================================================================
