------------------------------- MODULE SegLog -------------------------------
(***************************************************************************)
(* The append-only log of server/src/db/seg_log.rs: entries are copied     *)
(* into zeroed segments of raw memory, and an index maps each live id to   *)
(* the place of its bytes.  Memory is modelled in words: the id, the       *)
(* timestamp and the length of an entry's header take a word each and a    *)
(* payload byte takes one.  Every call has the log to itself (&mut self),  *)
(* so one call is one action.                                              *)
(***************************************************************************)
EXTENDS Integers, Sequences, FiniteSets

CONSTANTS SEGMENT_SIZE,      \* words in a segment
          INITIAL_SEGMENTS,  \* segments SegLog::new allocates
          MAX_SEGMENTS,      \* segments allocate_seg stops at
          Timestamps,        \* the timestamps callers pass
          Payloads,          \* the payloads callers pass
          MaxId              \* bound: no append past this id

HEADER_SIZE == 3

ASSUME SizeAssumption == SEGMENT_SIZE \in Nat /\ SEGMENT_SIZE >= HEADER_SIZE
ASSUME SegmentsAssumption ==
    /\ INITIAL_SEGMENTS \in Nat \ {0}
    /\ MAX_SEGMENTS \in Nat
    /\ INITIAL_SEGMENTS <= MAX_SEGMENTS
ASSUME InputAssumption ==
    Timestamps \subseteq Nat /\ Payloads \subseteq Seq(Nat) /\ MaxId \in Nat

VARIABLES segs,          \* contents of the segments, allocated or not yet
          segs_len,      \* segs.len(): the first segs_len are allocated
          active_seg,    \* the segment appends write to
          write_cursor,  \* the first free word of it
          idx,           \* id -> EntryLoc, for the live entries
          next_id,
          entry_count,
          reply          \* what the last call returned: a kind and the ids in it

vars == <<segs, segs_len, active_seg, write_cursor, idx, next_id, entry_count, reply>>

Words    == 0 .. SEGMENT_SIZE - 1
Zeroed   == [w \in Words |-> 0]
EntryLoc == [segment_idx : Nat, offset : Nat, len : Nat]

Reply(kind, ids) == [kind |-> kind, ids |-> ids]

Init == /\ segs = [s \in 0 .. MAX_SEGMENTS - 1 |-> Zeroed]
        /\ segs_len = INITIAL_SEGMENTS
        /\ active_seg = 0
        /\ write_cursor = 0
        /\ idx = [id \in {} |-> [segment_idx |-> 0, offset |-> 0, len |-> 0]]
        /\ next_id = 1
        /\ entry_count = 0
        /\ reply = Reply("none", {})
-----------------------------------------------------------------------------
(* append *)

TotalSize(p) == HEADER_SIZE + Len(p)

\* Mutated form: the header stores the length of the whole entry.
EntryWord_TotalLen(id, ts, p, k) ==
    CASE k = 0 -> id
      [] k = 1 -> ts
      [] k = 2 -> TotalSize(p)
      [] OTHER -> p[k - 2]

\* Word k of an entry as append lays it out.
EntryWord(id, ts, p, k) ==
    CASE k = 0 -> id
      [] k = 1 -> ts
      [] k = 2 -> Len(p)
      [] OTHER -> p[k - 2]

\* The part of append that stores the entry at word `off` of segment `s`.
Store(s, off, ts, p) ==
    /\ segs' = [segs EXCEPT ![s] = [w \in Words |->
                   IF w \in off .. off + TotalSize(p) - 1
                   THEN EntryWord(next_id, ts, p, w - off) ELSE segs[s][w]]]
    /\ idx' = [id \in DOMAIN idx \cup {next_id} |->
                   IF id = next_id
                   THEN [segment_idx |-> s, offset |-> off, len |-> TotalSize(p)]
                   ELSE idx[id]]
    /\ active_seg' = s
    /\ write_cursor' = off + TotalSize(p)
    /\ next_id' = next_id + 1
    /\ entry_count' = entry_count + 1
    /\ reply' = Reply("appended", {next_id})

Fails(kind) == /\ reply' = Reply(kind, {})
               /\ UNCHANGED <<segs, segs_len, idx, next_id, entry_count>>

TooLarge(p)  == TotalSize(p) > SEGMENT_SIZE

\* Mutated form: the entry's own size is left out of the rollover test.
RollsOver_IgnoresEntry(p) == ~TooLarge(p) /\ write_cursor >= SEGMENT_SIZE

RollsOver(p) == ~TooLarge(p) /\ write_cursor + TotalSize(p) > SEGMENT_SIZE
Fits(p)      == ~TooLarge(p) /\ ~RollsOver(p)

RejectTooLarge(p) == /\ TooLarge(p)
                     /\ Fails("EntryTooLarge")
                     /\ UNCHANGED <<active_seg, write_cursor>>

AppendHere(ts, p) == /\ Fits(p)
                     /\ active_seg < segs_len
                     /\ Store(active_seg, write_cursor, ts, p)
                     /\ UNCHANGED segs_len

\* Mutated form: a missing segment is allocated where it is found missing.
AppendPanics_Retries(p) == /\ Fits(p)
                           /\ active_seg >= segs_len
                           /\ segs_len < MAX_SEGMENTS
                           /\ segs_len' = segs_len + 1
                           /\ \E ts \in Timestamps : Store(active_seg, write_cursor, ts, p)

\* segs[active_seg] is out of bounds: the active segment was never allocated.
AppendPanics(p) == /\ Fits(p)
                   /\ active_seg >= segs_len
                   /\ Fails("panic")
                   /\ UNCHANGED <<active_seg, write_cursor>>

\* Mutated form: the rollover rewinds the cursor and stays in its segment.
AppendToNext_Rewinds(ts, p) == /\ RollsOver(p)
                               /\ Store(active_seg, 0, ts, p)
                               /\ UNCHANGED segs_len

AppendToNext(ts, p) == /\ RollsOver(p)
                       /\ active_seg + 1 < segs_len
                       /\ Store(active_seg + 1, 0, ts, p)
                       /\ UNCHANGED segs_len

AppendGrows(ts, p) == /\ RollsOver(p)
                      /\ active_seg + 1 >= segs_len
                      /\ segs_len < MAX_SEGMENTS
                      /\ segs_len' = segs_len + 1
                      /\ Store(active_seg + 1, 0, ts, p)

\* The cursor has moved on when allocate_seg fails, and stays moved.
AllocateFails(p) == /\ RollsOver(p)
                    /\ active_seg + 1 >= segs_len
                    /\ Fails(IF segs_len >= MAX_SEGMENTS
                             THEN "MaxSegmentsReached" ELSE "AllocationFailed")
                    /\ active_seg' = active_seg + 1
                    /\ write_cursor' = 0

AppendEntry(ts, p) ==
    /\ next_id <= MaxId
    /\ \/ RejectTooLarge(p)
       \/ AppendHere(ts, p)
       \/ AppendPanics(p)
       \/ AppendToNext(ts, p)
       \/ AppendGrows(ts, p)
       \/ AllocateFails(p)
-----------------------------------------------------------------------------
(* trim, and the reads *)

First(ids) == CHOOSE id \in ids : \A other \in ids : id <= other

\* Mutated form: the first live segment is zeroed too.
DeadSegments_Inclusive(kept) ==
    IF kept = {} THEN {} ELSE 0 .. idx[First(kept)].segment_idx

\* The segments trim zeroes once `kept` is what remains of the index.
DeadSegments(kept) ==
    IF kept = {} THEN {} ELSE 0 .. idx[First(kept)].segment_idx - 1

\* Mutated form: the counter misses the removals.
Trim_KeepsCount(cutoff) ==
    LET kept == {id \in DOMAIN idx : id >= cutoff}
    IN  /\ idx' = [id \in kept |-> idx[id]]
        /\ segs' = [s \in DOMAIN segs |->
                       IF s \in DeadSegments(kept) THEN Zeroed ELSE segs[s]]
        /\ reply' = Reply("trimmed", DOMAIN idx \ kept)
        /\ UNCHANGED <<segs_len, active_seg, write_cursor, next_id, entry_count>>

Trim(cutoff) ==
    LET kept    == {id \in DOMAIN idx : id >= cutoff}
        removed == DOMAIN idx \ kept
    IN  /\ idx' = [id \in kept |-> idx[id]]
        /\ entry_count' = entry_count - Cardinality(removed)
        /\ segs' = [s \in DOMAIN segs |->
                       IF s \in DeadSegments(kept) THEN Zeroed ELSE segs[s]]
        /\ reply' = Reply("trimmed", removed)
        /\ UNCHANGED <<segs_len, active_seg, write_cursor, next_id>>

\* read(id), of a live id: the length comes from memory, not from the index.
Read(id) ==
    LET at  == idx[id].offset
        mem == segs[idx[id].segment_idx]
    IN  [id |-> mem[at], timestamp |-> mem[at + 1],
         payload |-> [k \in 1 .. mem[at + 2] |-> mem[at + 2 + k]]]

\* get_raw_entry_slice(id), of a live id: the length comes from the index.
RawEntrySlice(id) ==
    [k \in 1 .. idx[id].len |-> segs[idx[id].segment_idx][idx[id].offset + k - 1]]

Next == \/ \E ts \in Timestamps, p \in Payloads : AppendEntry(ts, p)
        \/ \E cutoff \in 0 .. MaxId + 1 : Trim(cutoff)

Spec == Init /\ [][Next]_vars
-----------------------------------------------------------------------------
(* Properties *)

Kinds == {"none", "appended", "trimmed", "EntryTooLarge", "MaxSegmentsReached",
          "AllocationFailed", "panic"}

\* The types of SegLog's fields.  active_seg may be one past the allocated
\* segments: that is where a failed allocation leaves it.
TypeOK == /\ segs \in [0 .. MAX_SEGMENTS - 1 -> [Words -> Nat]]
          /\ segs_len \in INITIAL_SEGMENTS .. MAX_SEGMENTS
          /\ active_seg \in 0 .. segs_len
          /\ write_cursor \in 0 .. SEGMENT_SIZE
          /\ next_id \in Nat \ {0}
          /\ DOMAIN idx \subseteq 1 .. next_id - 1
          /\ \A id \in DOMAIN idx : idx[id] \in EntryLoc
          /\ entry_count \in Nat
          /\ reply \in [kind : Kinds, ids : SUBSET Nat]

\* The index never has a hole: whatever appends, failures and trims happened,
\* the live ids are the last entry_count ones that append gave out, so the
\* counter group_stats reports and the usize subtraction in trim are right.
LiveIdsAreASuffix ==
    \E first \in 1 .. next_id :
        /\ DOMAIN idx = first .. next_id - 1
        /\ entry_count = next_id - first

\* The raw pointer arithmetic of read and append stays inside allocated
\* memory that belongs to the entry: every live entry lies inside one
\* allocated segment, below the write cursor, after all entries with
\* smaller ids, overlapping none.
EndOf(loc) == loc.offset + loc.len

LayoutOrdered ==
    /\ \A id \in DOMAIN idx :
          /\ idx[id].segment_idx < segs_len
          /\ idx[id].segment_idx <= active_seg
          /\ EndOf(idx[id]) <= SEGMENT_SIZE
          /\ idx[id].segment_idx = active_seg => EndOf(idx[id]) <= write_cursor
    /\ \A i, j \in DOMAIN idx : i < j =>
          \/ idx[i].segment_idx < idx[j].segment_idx
          \/ /\ idx[i].segment_idx = idx[j].segment_idx
             /\ EndOf(idx[i]) <= idx[j].offset

\* The two ways to read an entry agree (the wire-format test, in every state):
\* the length get_raw_entry_slice takes from the index is the one read finds
\* in memory, and the id stored in memory is the id the index was asked for.
RawSliceAgrees ==
    \A id \in DOMAIN idx :
        /\ idx[id].len >= HEADER_SIZE
        /\ RawEntrySlice(id)[1] = id
        /\ RawEntrySlice(id)[3] = idx[id].len - HEADER_SIZE
        /\ SubSeq(RawEntrySlice(id), HEADER_SIZE + 1, idx[id].len) = Read(id).payload

\* A failed allocation is final: the cursor then points past the segments,
\* every later append fails, and no memory that becomes free is ever asked
\* for, while the entries that are there stay readable and trimmable.
FailedAllocationIsFinal ==
    [][active_seg = segs_len => next_id' = next_id /\ segs_len' = segs_len]_vars

\* The log promises what AbstractLog states: an entry that append accepted
\* reads back as it was given until a trim removes it, ids are never reused,
\* a trim removes exactly the ids it returns, a failed append no entry at all.
Log == INSTANCE AbstractLog
           WITH entries <- [id \in DOMAIN idx |-> Read(id)], next <- next_id

ImplementsAbstractLog == Log!Spec
=============================================================================
