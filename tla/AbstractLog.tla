---------------------------- MODULE AbstractLog ----------------------------
(***************************************************************************)
(* What a log promises its users: numbered entries that only an accepted   *)
(* append extends, always by the next number and exactly as they were      *)
(* given, that only a trim shrinks, always from the front, and replies     *)
(* that say what happened.  A rejected append changes nothing.  SegLog     *)
(* implements this with an index over segments of raw memory.              *)
(***************************************************************************)
EXTENDS Naturals

CONSTANTS Timestamps,  \* the timestamps callers pass
          Payloads     \* the payloads callers pass

VARIABLES entries,     \* the live entries, by id
          next,        \* the id the next entry gets
          reply        \* what the last call returned

vars == <<entries, next, reply>>

Entry(id, ts, p) == [id |-> id, timestamp |-> ts, payload |-> p]

Reply(kind, ids) == [kind |-> kind, ids |-> ids]

\* What an append that stores nothing ends with: LogError, or a panic.
Failures == {"EntryTooLarge", "MaxSegmentsReached", "AllocationFailed", "panic"}

Init == /\ entries = [id \in {} |-> Entry(0, 0, <<>>)]
        /\ next = 1
        /\ reply = Reply("none", {})

Append(ts, p) ==
    /\ entries' = [id \in DOMAIN entries \cup {next} |->
                      IF id = next THEN Entry(next, ts, p) ELSE entries[id]]
    /\ next' = next + 1
    /\ reply' = Reply("appended", {next})

Reject == /\ \E failure \in Failures : reply' = Reply(failure, {})
          /\ UNCHANGED <<entries, next>>

\* Ids stay below next, so cutoffs above next trim what next trims.
Trim(cutoff) ==
    LET kept == {id \in DOMAIN entries : id >= cutoff}
    IN  /\ entries' = [id \in kept |-> entries[id]]
        /\ reply' = Reply("trimmed", DOMAIN entries \ kept)
        /\ UNCHANGED next

Next == \/ \E ts \in Timestamps, p \in Payloads : Append(ts, p)
        \/ Reject
        \/ \E cutoff \in 0 .. next : Trim(cutoff)

Spec == Init /\ [][Next]_vars
=============================================================================
