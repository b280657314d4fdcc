---------------------------- MODULE SegLogProofs ----------------------------
(***************************************************************************)
(* Proofs about SegLog, for every segment size, every number of segments   *)
(* and every set of payloads.  The inductive invariant adds two facts to   *)
(* the properties of SegLog: what the header of a live entry holds, and    *)
(* that an active segment that does not exist has nothing written to it.   *)
(***************************************************************************)
EXTENDS SegLog, FiniteSetTheorems, TLAPS

\* Word k of a live entry, as it is in memory.
Word(id, k) == segs[idx[id].segment_idx][idx[id].offset + k]

\* Memory holds the id and the payload length of every live entry where the
\* index says they are.
HeadersStored ==
    \A id \in DOMAIN idx : /\ idx[id].len >= HEADER_SIZE
                           /\ Word(id, 0) = id
                           /\ Word(id, 2) = idx[id].len - HEADER_SIZE

\* A cursor into a segment that was never allocated is at its start, so no
\* append rolls over a second time.
CursorOK == active_seg = segs_len => write_cursor = 0

IInv == /\ TypeOK
        /\ LiveIdsAreASuffix
        /\ LayoutOrdered
        /\ HeadersStored
        /\ CursorOK

\* Where append may store: right behind what is written, or at the start of
\* a segment no entry is in.
Placed(s, off, p) ==
    /\ s \in Nat /\ off \in Nat
    /\ s < segs_len'
    /\ segs_len' \in segs_len .. MAX_SEGMENTS
    /\ off + TotalSize(p) <= SEGMENT_SIZE
    /\ \/ s = active_seg /\ off = write_cursor
       \/ s = active_seg + 1 /\ off = 0

LEMMA SizeFacts ==
    ASSUME NEW p \in Payloads
    PROVE  /\ p \in Seq(Nat) /\ Len(p) \in Nat
           /\ TotalSize(p) = 3 + Len(p)
           /\ TotalSize(p) \in Nat /\ TotalSize(p) >= 3
  BY InputAssumption DEF TotalSize, HEADER_SIZE

LEMMA EntryWordType ==
    ASSUME NEW id \in Nat, NEW ts \in Timestamps, NEW p \in Payloads,
           NEW k \in 0 .. TotalSize(p) - 1
    PROVE  EntryWord(id, ts, p, k) \in Nat
<1>1. ts \in Nat
  BY InputAssumption
<1>2. CASE k \in {0, 1, 2}
  BY <1>1, <1>2, SizeFacts DEF EntryWord
<1>3. CASE k \notin {0, 1, 2}
  <2>1. k - 2 \in 1 .. Len(p)
    BY <1>3, SizeFacts
  <2>2. p[k - 2] \in Nat
    BY <2>1, SizeFacts
  <2> QED
    BY <1>3, <2>2 DEF EntryWord
<1> QED
  BY <1>2, <1>3

\* Storing an entry leaves the words of the live entries alone.
LEMMA StoreKeepsWords ==
    ASSUME TypeOK, LayoutOrdered,
           NEW s, NEW off, NEW ts \in Timestamps, NEW p \in Payloads,
           Placed(s, off, p), Store(s, off, ts, p),
           NEW id \in DOMAIN idx, NEW k \in Nat, k < idx[id].len
    PROVE  /\ idx'[id] = idx[id]
           /\ Word(id, k)' = Word(id, k)
<1>1. idx'[id] = idx[id] /\ idx[id] \in EntryLoc
  BY DEF Store, TypeOK
<1>2. idx[id].segment_idx \in Nat /\ idx[id].offset \in Nat /\ idx[id].len \in Nat
  BY <1>1 DEF EntryLoc
<1>3. idx[id].segment_idx <= active_seg /\ idx[id].segment_idx < segs_len
      /\ EndOf(idx[id]) <= SEGMENT_SIZE
      /\ (idx[id].segment_idx = active_seg => EndOf(idx[id]) <= write_cursor)
  BY DEF LayoutOrdered
<1>4. idx[id].segment_idx \in DOMAIN segs /\ idx[id].offset + k \in Words
  <2>1. DOMAIN segs = 0 .. MAX_SEGMENTS - 1 /\ segs_len <= MAX_SEGMENTS /\ segs_len \in Nat
    BY SegmentsAssumption DEF TypeOK
  <2>2. idx[id].segment_idx \in DOMAIN segs
    BY <2>1, <1>2, <1>3, SegmentsAssumption
  <2>3. idx[id].offset + k \in Words
    BY <1>2, <1>3, SizeAssumption DEF EndOf, Words
  <2> QED
    BY <2>2, <2>3
<1>5. CASE s = idx[id].segment_idx
  <2>1. off = write_cursor /\ s = active_seg
    BY <1>2, <1>3, <1>5 DEF Placed, TypeOK
  <2>2. idx[id].offset + k < off
    BY <2>1, <1>2, <1>3, <1>5 DEF EndOf, TypeOK
  <2>3. idx[id].offset + k \notin off .. off + TotalSize(p) - 1
    BY <2>2, <1>2, SizeFacts DEF Placed
  <2> QED
    BY <1>1, <1>4, <1>5, <2>3 DEF Store, Word
<1>6. CASE s # idx[id].segment_idx
  BY <1>1, <1>4, <1>6 DEF Store, Word
<1> QED
  BY <1>1, <1>5, <1>6

\* A stored entry is where the index says.  (n names next_id before the step.)
LEMMA StoreWritesWords ==
    ASSUME TypeOK,
           NEW s, NEW off, NEW ts \in Timestamps, NEW p \in Payloads,
           Placed(s, off, p), Store(s, off, ts, p),
           NEW n, n = next_id,
           NEW k \in 0 .. TotalSize(p) - 1
    PROVE  /\ idx'[n] = [segment_idx |-> s, offset |-> off, len |-> TotalSize(p)]
           /\ Word(n, k)' = EntryWord(n, ts, p, k)
<1>1. idx'[n] = [segment_idx |-> s, offset |-> off, len |-> TotalSize(p)]
  BY DEF Store
<1>2. TotalSize(p) \in Nat /\ s \in Nat /\ off \in Nat /\ off + TotalSize(p) <= SEGMENT_SIZE
      /\ s < MAX_SEGMENTS /\ DOMAIN segs = 0 .. MAX_SEGMENTS - 1
  BY SizeFacts, SegmentsAssumption DEF Placed, TypeOK
<1>3. s \in DOMAIN segs /\ off + k \in Words /\ off + k \in off .. off + TotalSize(p) - 1
  BY <1>2, SizeAssumption, SegmentsAssumption DEF Words
<1>4. (off + k) - off = k
  BY <1>2
<1>5. segs'[s] = [w \in Words |->
                   IF w \in off .. off + TotalSize(p) - 1
                   THEN EntryWord(next_id, ts, p, w - off) ELSE segs[s][w]]
  BY <1>3 DEF Store
<1>6. segs'[s][off + k] = EntryWord(next_id, ts, p, (off + k) - off)
  BY <1>3, <1>5
<1> QED
  BY <1>1, <1>4, <1>6 DEF Word

LEMMA StoreType ==
    ASSUME TypeOK, NEW s, NEW off, NEW ts \in Timestamps, NEW p \in Payloads,
           Placed(s, off, p), Store(s, off, ts, p)
    PROVE  TypeOK'
<1>1. s \in Nat /\ off \in Nat /\ TotalSize(p) \in Nat
  BY SizeFacts DEF Placed
<1>2. segs' \in [0 .. MAX_SEGMENTS - 1 -> [Words -> Nat]]
  <2>1. next_id \in Nat /\ segs \in [0 .. MAX_SEGMENTS - 1 -> [Words -> Nat]]
    BY DEF TypeOK
  <2>2. s \in 0 .. MAX_SEGMENTS - 1
    BY <1>1, SegmentsAssumption DEF Placed, TypeOK
  <2>3. ASSUME NEW w \in Words, w \in off .. off + TotalSize(p) - 1
        PROVE  EntryWord(next_id, ts, p, w - off) \in Nat
    <3>1. w - off \in 0 .. TotalSize(p) - 1
      BY <1>1, <2>3
    <3> QED
      BY <2>1, <3>1, EntryWordType
  <2>4. [w \in Words |-> IF w \in off .. off + TotalSize(p) - 1
                         THEN EntryWord(next_id, ts, p, w - off) ELSE segs[s][w]]
          \in [Words -> Nat]
    BY <2>1, <2>2, <2>3
  <2> QED
    BY <2>1, <2>4 DEF Store
<1>3. /\ segs_len' \in INITIAL_SEGMENTS .. MAX_SEGMENTS
      /\ active_seg' \in 0 .. segs_len'
      /\ write_cursor' \in 0 .. SEGMENT_SIZE
      /\ next_id' \in Nat \ {0}
      /\ entry_count' \in Nat
  BY <1>1, SizeAssumption, SegmentsAssumption DEF TypeOK, Store, Placed
<1>4. DOMAIN idx' \subseteq 1 .. next_id' - 1
  BY DEF TypeOK, Store
<1>5. \A id \in DOMAIN idx' : idx'[id] \in EntryLoc
  BY <1>1 DEF TypeOK, Store, EntryLoc
<1>6. reply' \in [kind : Kinds, ids : SUBSET Nat]
  BY DEF TypeOK, Store, Reply, Kinds
<1> QED
  BY <1>2, <1>3, <1>4, <1>5, <1>6 DEF TypeOK

LEMMA StoreSuffix ==
    ASSUME TypeOK, LiveIdsAreASuffix,
           NEW s, NEW off, NEW ts, NEW p, Store(s, off, ts, p)
    PROVE  LiveIdsAreASuffix'
<1>1. PICK first \in 1 .. next_id :
        DOMAIN idx = first .. next_id - 1 /\ entry_count = next_id - first
  BY DEF LiveIdsAreASuffix
<1>2. DOMAIN idx' = first .. next_id' - 1
  BY <1>1 DEF Store, TypeOK
<1>3. first \in 1 .. next_id' /\ entry_count' = next_id' - first
  BY <1>1 DEF Store, TypeOK
<1> QED
  BY <1>2, <1>3 DEF LiveIdsAreASuffix

LEMMA StoreLayout ==
    ASSUME TypeOK, LayoutOrdered,
           NEW s, NEW off, NEW ts \in Timestamps, NEW p \in Payloads,
           Placed(s, off, p), Store(s, off, ts, p)
    PROVE  LayoutOrdered'
<1>1. s \in Nat /\ off \in Nat /\ TotalSize(p) \in Nat /\ active_seg \in Nat
      /\ segs_len \in Nat /\ segs_len' \in Nat /\ segs_len <= segs_len' /\ write_cursor \in Nat
      /\ next_id \in Nat
  BY SizeFacts, SegmentsAssumption, SizeAssumption DEF Placed, TypeOK
<1>2. ASSUME NEW id \in DOMAIN idx
      PROVE  /\ idx[id].segment_idx \in Nat /\ idx[id].offset \in Nat /\ idx[id].len \in Nat
             /\ id \in Nat /\ id < next_id
  BY DEF TypeOK, EntryLoc
<1>3. /\ DOMAIN idx' = DOMAIN idx \cup {next_id}
      /\ idx'[next_id] = [segment_idx |-> s, offset |-> off, len |-> TotalSize(p)]
      /\ \A id \in DOMAIN idx : idx'[id] = idx[id]
      /\ active_seg' = s /\ write_cursor' = off + TotalSize(p)
  BY <1>2 DEF Store
<1>4. ASSUME NEW id \in DOMAIN idx
      PROVE  /\ idx[id].segment_idx < segs_len'
             /\ idx[id].segment_idx <= s
             /\ EndOf(idx[id]) <= SEGMENT_SIZE
             /\ idx[id].segment_idx = s => EndOf(idx[id]) <= off
  BY <1>1, <1>2 DEF LayoutOrdered, Placed
<1>5. ASSUME NEW id \in DOMAIN idx'
      PROVE  /\ idx'[id].segment_idx < segs_len'
             /\ idx'[id].segment_idx <= active_seg'
             /\ EndOf(idx'[id]) <= SEGMENT_SIZE
             /\ idx'[id].segment_idx = active_seg' => EndOf(idx'[id]) <= write_cursor'
  <2>1. CASE id = next_id
    <3>1. idx'[id].segment_idx = s /\ idx'[id].offset = off /\ idx'[id].len = TotalSize(p)
      BY <2>1, <1>3
    <3>2. EndOf(idx'[id]) = off + TotalSize(p)
      BY <3>1 DEF EndOf
    <3>3. s < segs_len' /\ off + TotalSize(p) <= SEGMENT_SIZE
      BY DEF Placed
    <3>4. active_seg' = s /\ write_cursor' = off + TotalSize(p)
      BY <1>3
    <3> QED
      BY <3>1, <3>2, <3>3, <3>4, <1>1
  <2>2. CASE id \in DOMAIN idx
    <3>1. EndOf(idx[id]) \in Nat
      BY <2>2, <1>2 DEF EndOf
    <3> QED
      BY <3>1, <2>2, <1>1, <1>3, <1>4
  <2> QED
    BY <1>3, <2>1, <2>2
<1>6. ASSUME NEW i \in DOMAIN idx', NEW j \in DOMAIN idx', i < j
      PROVE  \/ idx'[i].segment_idx < idx'[j].segment_idx
             \/ /\ idx'[i].segment_idx = idx'[j].segment_idx
                /\ EndOf(idx'[i]) <= idx'[j].offset
  <2>1. CASE i \in DOMAIN idx /\ j \in DOMAIN idx
    BY <2>1, <1>3, <1>6 DEF LayoutOrdered
  <2>2. CASE i \in DOMAIN idx /\ j = next_id
    BY <2>2, <1>1, <1>2, <1>3, <1>4
  <2>3. i # next_id
    BY <1>1, <1>2, <1>3, <1>6
  <2> QED
    BY <1>3, <2>1, <2>2, <2>3
<1> QED
  BY <1>5, <1>6 DEF LayoutOrdered, EndOf

LEMMA StoreHeaders ==
    ASSUME TypeOK, LayoutOrdered, HeadersStored,
           NEW s, NEW off, NEW ts \in Timestamps, NEW p \in Payloads,
           Placed(s, off, p), Store(s, off, ts, p)
    PROVE  HeadersStored'
<1> SUFFICES ASSUME NEW id \in DOMAIN idx'
             PROVE  /\ idx'[id].len >= HEADER_SIZE
                    /\ Word(id, 0)' = id
                    /\ Word(id, 2)' = idx'[id].len - HEADER_SIZE
  BY DEF HeadersStored, Word
<1>1. CASE id = next_id
  <2>1. 0 \in 0 .. TotalSize(p) - 1 /\ 2 \in 0 .. TotalSize(p) - 1
    BY SizeFacts
  <2>2. /\ idx'[id] = [segment_idx |-> s, offset |-> off, len |-> TotalSize(p)]
        /\ Word(id, 0)' = EntryWord(id, ts, p, 0)
        /\ Word(id, 2)' = EntryWord(id, ts, p, 2)
    BY <1>1, <2>1, StoreWritesWords
  <2> QED
    BY <2>2, SizeFacts DEF EntryWord, HEADER_SIZE
<1>2. CASE id \in DOMAIN idx
  <2>1. idx[id].len \in Nat /\ idx[id].len >= 3
    BY <1>2 DEF TypeOK, EntryLoc, HeadersStored, HEADER_SIZE
  <2>2. 0 < idx[id].len /\ 2 < idx[id].len
    BY <2>1
  <2>3. idx'[id] = idx[id] /\ Word(id, 0)' = Word(id, 0) /\ Word(id, 2)' = Word(id, 2)
    BY <1>2, <2>2, StoreKeepsWords
  <2> QED
    BY <1>2, <2>3 DEF HeadersStored
<1> QED
  BY <1>1, <1>2 DEF Store

LEMMA StoreInv ==
    ASSUME IInv, NEW s, NEW off, NEW ts \in Timestamps, NEW p \in Payloads,
           Placed(s, off, p), Store(s, off, ts, p)
    PROVE  IInv'
<1>1. CursorOK'
  BY DEF Placed, Store, CursorOK, IInv, TypeOK
<1> QED
  BY <1>1, StoreType, StoreSuffix, StoreLayout, StoreHeaders DEF IInv

\* What a trim keeps, and that it zeroes no segment a kept entry is in: the
\* first kept entry exists because the live ids are an interval.
LEMMA TrimKeeps ==
    ASSUME TypeOK, LiveIdsAreASuffix, LayoutOrdered,
           NEW cutoff \in Nat, Trim(cutoff)
    PROVE  /\ DOMAIN idx' = {id \in DOMAIN idx : id >= cutoff}
           /\ \A id \in DOMAIN idx' : /\ idx'[id] = idx[id]
                                      /\ segs'[idx[id].segment_idx] = segs[idx[id].segment_idx]
<1> DEFINE kept == {id \in DOMAIN idx : id >= cutoff}
<1>1. DOMAIN idx' = kept /\ \A id \in kept : idx'[id] = idx[id]
  BY DEF Trim
<1>2. ASSUME NEW id \in kept
      PROVE  segs'[idx[id].segment_idx] = segs[idx[id].segment_idx]
  <2>1. PICK first \in 1 .. next_id : DOMAIN idx = first .. next_id - 1
    BY DEF LiveIdsAreASuffix
  <2>2. \E low \in kept : \A other \in kept : low <= other
    <3>1. next_id \in Nat /\ first \in Nat /\ id \in first .. next_id - 1 /\ id >= cutoff
      BY <2>1, <1>2 DEF TypeOK
    <3>2. CASE cutoff <= first
      <4>1. first \in kept
        BY <3>1, <3>2, <2>1
      <4>2. \A other \in kept : first <= other
        BY <3>1, <2>1
      <4> QED
        BY <4>1, <4>2
    <3>3. CASE cutoff > first
      <4>1. cutoff \in kept
        BY <3>1, <3>3, <2>1
      <4>2. \A other \in kept : cutoff <= other
        BY <3>1, <2>1
      <4> QED
        BY <4>1, <4>2
    <3> QED
      BY <3>1, <3>2, <3>3
  <2>3. First(kept) \in kept /\ First(kept) <= id
    BY <2>2, <1>2 DEF First
  <2>4. First(kept) \in DOMAIN idx /\ id \in DOMAIN idx /\ id \in Nat /\ First(kept) \in Nat
    BY <2>3, <1>2 DEF TypeOK
  <2>5. /\ idx[id].segment_idx \in Nat
        /\ idx[First(kept)].segment_idx \in Nat
    BY <2>4 DEF TypeOK, EntryLoc
  <2>6. idx[First(kept)].segment_idx <= idx[id].segment_idx
    <3>1. CASE First(kept) = id
      BY <3>1, <2>5
    <3>2. CASE First(kept) < id
      BY <3>2, <2>4, <2>5 DEF LayoutOrdered
    <3> QED
      BY <2>3, <2>4, <3>1, <3>2
  <2>7. idx[id].segment_idx \notin DeadSegments(kept)
    BY <2>5, <2>6, <1>2 DEF DeadSegments
  <2>8. idx[id].segment_idx \in DOMAIN segs
    BY <2>4, <2>5, SegmentsAssumption DEF LayoutOrdered, TypeOK
  <2> QED
    BY <2>7, <2>8 DEF Trim
<1> QED
  BY <1>1, <1>2

LEMMA TrimSuffix ==
    ASSUME TypeOK, LiveIdsAreASuffix, NEW cutoff \in Nat, Trim(cutoff)
    PROVE  LiveIdsAreASuffix' /\ entry_count' \in Nat
<1> DEFINE kept == {id \in DOMAIN idx : id >= cutoff}
<1>1. PICK first \in 1 .. next_id :
        DOMAIN idx = first .. next_id - 1 /\ entry_count = next_id - first
  BY DEF LiveIdsAreASuffix
<1>2. next_id \in Nat /\ first \in Nat /\ first >= 1 /\ first <= next_id
  BY <1>1 DEF TypeOK
<1>3. PICK low \in first .. next_id : kept = low .. next_id - 1
  <2>1. CASE cutoff <= first
    BY <2>1, <1>1, <1>2
  <2>2. CASE cutoff > first /\ cutoff <= next_id
    <3>1. kept = cutoff .. next_id - 1
      BY <2>2, <1>1, <1>2
    <3> QED
      BY <2>2, <1>2, <3>1
  <2>3. CASE cutoff > next_id
    <3>1. kept = next_id .. next_id - 1
      BY <2>3, <1>1, <1>2
    <3> QED
      BY <1>2, <3>1
  <2> QED
    BY <1>2, <2>1, <2>2, <2>3
<1>4. DOMAIN idx \ kept = first .. low - 1
  BY <1>1, <1>2, <1>3
<1>5. Cardinality(first .. low - 1) = low - first
  BY <1>2, <1>3, FS_Interval
<1>6. entry_count' = next_id - low
  <2>1. entry_count' = entry_count - Cardinality(DOMAIN idx \ kept)
    BY DEF Trim
  <2>2. entry_count' = entry_count - (low - first)
    BY <2>1, <1>4, <1>5
  <2>3. low \in Nat /\ entry_count = next_id - first
    BY <1>1, <1>2, <1>3
  <2> QED
    BY <2>2, <2>3, <1>2
<1>7. DOMAIN idx' = kept /\ next_id' = next_id
  BY DEF Trim
<1> QED
  BY <1>2, <1>3, <1>6, <1>7 DEF LiveIdsAreASuffix

LEMMA TrimInv ==
    ASSUME IInv, NEW cutoff \in Nat, Trim(cutoff)
    PROVE  IInv'
<1> USE DEF IInv
<1>1. UNCHANGED <<segs_len, active_seg, write_cursor, next_id>>
  BY DEF Trim
<1>2. TypeOK'
  <2>1. segs' \in [0 .. MAX_SEGMENTS - 1 -> [Words -> Nat]]
    BY DEF Trim, TypeOK, Zeroed
  <2>2. DOMAIN idx' \subseteq DOMAIN idx /\ \A id \in DOMAIN idx' : idx'[id] = idx[id]
    BY TrimKeeps
  <2>3. reply' \in [kind : Kinds, ids : SUBSET Nat]
    BY DEF Trim, TypeOK, Reply, Kinds
  <2>4. entry_count' \in Nat
    BY TrimSuffix
  <2> QED
    BY <1>1, <2>1, <2>2, <2>3, <2>4 DEF TypeOK
<1>3. LiveIdsAreASuffix'
  BY TrimSuffix
<1>4. LayoutOrdered'
  <2>1. DOMAIN idx' \subseteq DOMAIN idx /\ \A id \in DOMAIN idx' : idx'[id] = idx[id]
    BY TrimKeeps
  <2> QED
    BY <1>1, <2>1 DEF LayoutOrdered, EndOf
<1>5. HeadersStored'
  BY TrimKeeps DEF HeadersStored, Word
<1>6. CursorOK'
  BY <1>1 DEF CursorOK
<1> QED
  BY <1>2, <1>3, <1>4, <1>5, <1>6

LEMMA FailsInv ==
    ASSUME IInv, NEW kind \in Kinds, Fails(kind),
           active_seg' \in 0 .. segs_len, write_cursor' \in 0 .. SEGMENT_SIZE,
           \/ UNCHANGED <<active_seg, write_cursor>>
           \/ active_seg' = active_seg + 1 /\ write_cursor' = 0
    PROVE  IInv'
<1> USE DEF IInv
<1>1. UNCHANGED <<segs, segs_len, idx, next_id, entry_count>>
  BY DEF Fails
<1>2. TypeOK'
  BY <1>1 DEF TypeOK, Fails, Reply
<1>3. LiveIdsAreASuffix'
  BY <1>1 DEF LiveIdsAreASuffix
<1>4. LayoutOrdered'
  <2>1. CASE UNCHANGED <<active_seg, write_cursor>>
    BY <1>1, <2>1 DEF LayoutOrdered, EndOf
  <2>2. CASE active_seg' = active_seg + 1 /\ write_cursor' = 0
    <3>1. \A id \in DOMAIN idx : idx[id].segment_idx \in Nat
      BY DEF TypeOK, EntryLoc
    <3>2. active_seg \in Nat
      BY SegmentsAssumption DEF TypeOK
    <3>3. \A id \in DOMAIN idx : idx[id].segment_idx <= active_seg'
                               /\ idx[id].segment_idx # active_seg'
      BY <2>2, <3>1, <3>2 DEF LayoutOrdered
    <3> QED
      BY <1>1, <3>3 DEF LayoutOrdered, EndOf
  <2> QED
    BY <2>1, <2>2
<1>5. HeadersStored'
  BY <1>1 DEF HeadersStored, Word
<1>6. CursorOK'
  BY <1>1 DEF CursorOK
<1> QED
  BY <1>2, <1>3, <1>4, <1>5, <1>6

\* An append that stores an entry stores it where nothing else is.
LEMMA AppendPlaces ==
    ASSUME IInv, NEW ts \in Timestamps, NEW p \in Payloads,
           AppendHere(ts, p) \/ AppendToNext(ts, p) \/ AppendGrows(ts, p)
    PROVE  \E s, off : Placed(s, off, p) /\ Store(s, off, ts, p)
<1>1. active_seg \in Nat /\ segs_len \in Nat /\ write_cursor \in Nat /\ SEGMENT_SIZE \in Nat
      /\ active_seg <= segs_len /\ segs_len <= MAX_SEGMENTS /\ MAX_SEGMENTS \in Nat
  BY SizeAssumption, SegmentsAssumption DEF IInv, TypeOK
<1>2. TotalSize(p) \in Nat
  BY SizeFacts
<1>3. CASE AppendHere(ts, p)
  <2>1. Placed(active_seg, write_cursor, p)
    BY <1>1, <1>2, <1>3 DEF AppendHere, Fits, RollsOver, TooLarge, Placed
  <2> QED
    BY <1>3, <2>1 DEF AppendHere
<1>4. CASE AppendToNext(ts, p)
  <2>1. Placed(active_seg + 1, 0, p)
    BY <1>1, <1>2, <1>4 DEF AppendToNext, RollsOver, TooLarge, Placed
  <2> QED
    BY <1>4, <2>1 DEF AppendToNext
<1>5. CASE AppendGrows(ts, p)
  <2>1. active_seg < segs_len
    BY <1>1, <1>2, <1>5 DEF AppendGrows, RollsOver, TooLarge, IInv, CursorOK
  <2>2. Placed(active_seg + 1, 0, p)
    BY <1>1, <1>2, <1>5, <2>1 DEF AppendGrows, RollsOver, TooLarge, Placed
  <2> QED
    BY <1>5, <2>2 DEF AppendGrows
<1> QED
  BY <1>3, <1>4, <1>5

\* An append preserves the invariant, whichever way it goes.
LEMMA AppendInv ==
    ASSUME IInv, NEW ts \in Timestamps, NEW p \in Payloads, AppendEntry(ts, p)
    PROVE  IInv'
<1>1. active_seg \in Nat /\ segs_len \in Nat /\ write_cursor \in Nat /\ SEGMENT_SIZE \in Nat
      /\ active_seg <= segs_len /\ write_cursor <= SEGMENT_SIZE
  BY SizeAssumption, SegmentsAssumption DEF IInv, TypeOK
<1>2. CASE AppendHere(ts, p) \/ AppendToNext(ts, p) \/ AppendGrows(ts, p)
  BY <1>2, AppendPlaces, StoreInv
<1>3. CASE RejectTooLarge(p)
  BY <1>1, <1>3, FailsInv DEF RejectTooLarge, Kinds
<1>4. CASE AppendPanics(p)
  BY <1>1, <1>4, FailsInv DEF AppendPanics, Kinds
<1>5. CASE AllocateFails(p)
  <2>1. active_seg < segs_len
    BY <1>1, <1>5, SizeFacts DEF AllocateFails, RollsOver, TooLarge, IInv, CursorOK
  <2>2. active_seg' = active_seg + 1 /\ write_cursor' = 0 /\ active_seg' \in 0 .. segs_len
        /\ write_cursor' \in 0 .. SEGMENT_SIZE
    BY <1>1, <1>5, <2>1 DEF AllocateFails
  <2>3. \E kind \in Kinds : Fails(kind)
    BY <1>5 DEF AllocateFails, Kinds
  <2> QED
    BY <2>2, <2>3, FailsInv
<1> QED
  BY <1>2, <1>3, <1>4, <1>5 DEF AppendEntry

\* The inductive invariant holds in every state the log can reach.
THEOREM InductiveInvariant == Spec => []IInv
<1>1. Init => IInv
  <2> SUFFICES ASSUME Init PROVE IInv
    OBVIOUS
  <2>1. TypeOK
    BY SizeAssumption, SegmentsAssumption DEF Init, TypeOK, Zeroed, Reply, Kinds, EntryLoc
  <2>2. LiveIdsAreASuffix
    <3>1. DOMAIN idx = {} /\ next_id = 1 /\ entry_count = 0
      BY DEF Init
    <3> QED
      BY <3>1 DEF LiveIdsAreASuffix
  <2>3. LayoutOrdered /\ HeadersStored
    BY DEF Init, LayoutOrdered, HeadersStored
  <2>4. CursorOK
    BY DEF Init, CursorOK
  <2> QED
    BY <2>1, <2>2, <2>3, <2>4 DEF IInv
<1>2. IInv /\ [Next]_vars => IInv'
  <2> SUFFICES ASSUME IInv, [Next]_vars PROVE IInv'
    OBVIOUS
  <2>1. CASE Next
    <3>1. 0 .. MaxId + 1 \subseteq Nat
      BY InputAssumption
    <3> QED
      BY <2>1, <3>1, AppendInv, TrimInv DEF Next
  <2>2. CASE UNCHANGED vars
    BY <2>2 DEF vars, IInv, TypeOK, LiveIdsAreASuffix, LayoutOrdered, HeadersStored,
                CursorOK, Word, EndOf
  <2> QED
    BY <2>1, <2>2
<1> QED
  BY <1>1, <1>2, PTL DEF Spec

\* The fields keep their types; the raw offsets never leave a segment.
THEOREM TypeCorrect == Spec => []TypeOK
  BY InductiveInvariant, PTL DEF IInv

\* The live ids are always the last entry_count ones given out.
THEOREM SuffixCorrect == Spec => []LiveIdsAreASuffix
  BY InductiveInvariant, PTL DEF IInv

\* Live entries never overlap and always lie in allocated, written memory.
THEOREM LayoutCorrect == Spec => []LayoutOrdered
  BY InductiveInvariant, PTL DEF IInv

\* After a failed allocation no append stores anything or allocates anything.
THEOREM AllocationFailureFinal == Spec => FailedAllocationIsFinal
<1>1. ASSUME IInv, [Next]_vars
      PROVE  [active_seg = segs_len => next_id' = next_id /\ segs_len' = segs_len]_vars
  <2> SUFFICES ASSUME Next, active_seg = segs_len
               PROVE  next_id' = next_id /\ segs_len' = segs_len
    BY <1>1
  <2>1. ASSUME NEW cutoff, Trim(cutoff)
        PROVE  next_id' = next_id /\ segs_len' = segs_len
    BY <2>1 DEF Trim
  <2>2. ASSUME NEW ts \in Timestamps, NEW p \in Payloads, AppendEntry(ts, p)
        PROVE  next_id' = next_id /\ segs_len' = segs_len
    <3>1. segs_len \in Nat /\ SEGMENT_SIZE \in Nat /\ write_cursor = 0
      BY <1>1, SizeAssumption, SegmentsAssumption DEF IInv, TypeOK, CursorOK
    <3>2. ~RollsOver(p)
      BY <3>1, SizeFacts DEF RollsOver, TooLarge
    <3>3. RejectTooLarge(p) \/ AppendPanics(p)
      BY <2>2, <3>1, <3>2 DEF AppendEntry, AppendHere, AppendToNext, AppendGrows, AllocateFails
    <3> QED
      BY <3>3 DEF RejectTooLarge, AppendPanics, Fails
  <2> QED
    BY <2>1, <2>2 DEF Next
<1> QED
  BY <1>1, InductiveInvariant, PTL DEF Spec, FailedAllocationIsFinal

\* The raw slice and the decoded read of a live entry always agree.
THEOREM RawSliceCorrect == Spec => []RawSliceAgrees
<1>1. ASSUME IInv, NEW id \in DOMAIN idx
      PROVE  /\ idx[id].len >= HEADER_SIZE
             /\ RawEntrySlice(id)[1] = id
             /\ RawEntrySlice(id)[3] = idx[id].len - HEADER_SIZE
             /\ SubSeq(RawEntrySlice(id), HEADER_SIZE + 1, idx[id].len) = Read(id).payload
  <2>1. idx[id].len \in Nat /\ idx[id].len >= 3 /\ idx[id].offset \in Nat
        /\ Word(id, 0) = id /\ Word(id, 2) = idx[id].len - 3
    BY <1>1 DEF IInv, TypeOK, EntryLoc, HeadersStored, HEADER_SIZE
  <2> DEFINE raw == RawEntrySlice(id)
             mem == segs[idx[id].segment_idx]
             at == idx[id].offset
             len == idx[id].len
  <2>2. raw = [k \in 1 .. len |-> mem[at + k - 1]]
    BY DEF RawEntrySlice
  <2>3. raw[1] = id /\ raw[3] = len - 3
    <3>1. at + 1 - 1 = at + 0 /\ at + 3 - 1 = at + 2
      BY <2>1
    <3>2. mem[at + 0] = id /\ mem[at + 2] = len - 3
      BY <2>1 DEF Word
    <3>3. 1 \in 1 .. len /\ 3 \in 1 .. len
      BY <2>1
    <3>4. raw[1] = mem[at + 1 - 1] /\ raw[3] = mem[at + 3 - 1]
      BY <2>2, <3>3
    <3> QED
      BY <3>1, <3>2, <3>4
  <2>4. SubSeq(raw, 4, len) = [k \in 1 .. len - 3 |-> raw[k + 3]]
    BY <2>1
  <2>5. Read(id).payload = [k \in 1 .. len - 3 |-> mem[at + 2 + k]]
    BY <2>1 DEF Read, Word
  <2>6. \A k \in 1 .. len - 3 : raw[k + 3] = mem[at + 2 + k]
    <3> SUFFICES ASSUME NEW k \in 1 .. len - 3 PROVE raw[k + 3] = mem[at + 2 + k]
      OBVIOUS
    <3>1. k + 3 \in 1 .. len /\ at + (k + 3) - 1 = at + 2 + k
      BY <2>1
    <3> QED
      BY <2>2, <3>1
  <2> HIDE DEF raw, mem, at
  <2>7. SubSeq(raw, 4, len) = Read(id).payload
    BY <2>4, <2>5, <2>6
  <2>8. HEADER_SIZE = 3 /\ 3 + 1 = 4
    BY DEF HEADER_SIZE
  <2> QED
    BY <2>1, <2>3, <2>7, <2>8 DEF raw
<1>2. IInv => RawSliceAgrees
  BY <1>1 DEF RawSliceAgrees
<1> QED
  BY <1>2, InductiveInvariant, PTL
-----------------------------------------------------------------------------
(* Refinement: memory seen through the index is AbstractLog. *)

\* A kept entry reads the same before and after an append stores another.
LEMMA StoreKeepsReads ==
    ASSUME IInv, NEW s, NEW off, NEW ts \in Timestamps, NEW p \in Payloads,
           Placed(s, off, p), Store(s, off, ts, p), NEW id \in DOMAIN idx
    PROVE  Read(id)' = Read(id)
<1> USE DEF IInv
<1>1. idx[id].len \in Nat /\ idx[id].len >= 3 /\ idx[id].offset \in Nat
      /\ Word(id, 2) = idx[id].len - 3
  BY DEF TypeOK, EntryLoc, HeadersStored, HEADER_SIZE
<1>2. \A k \in Nat : k < idx[id].len => Word(id, k)' = Word(id, k) /\ idx'[id] = idx[id]
  BY StoreKeepsWords
<1>3. idx'[id] = idx[id]
  BY <1>1, <1>2
<1>4. Word(id, 0)' = Word(id, 0) /\ Word(id, 1)' = Word(id, 1) /\ Word(id, 2)' = Word(id, 2)
  BY <1>1, <1>2
<1>5. ASSUME NEW k \in 1 .. Word(id, 2) PROVE Word(id, 2 + k)' = Word(id, 2 + k)
  BY <1>1, <1>2
<1> DEFINE mem == segs[idx[id].segment_idx]
           at == idx[id].offset
           mem2 == segs'[idx[id].segment_idx]
<1>6. mem2[at] = mem[at] /\ mem2[at + 1] = mem[at + 1] /\ mem2[at + 2] = mem[at + 2]
  BY <1>1, <1>3, <1>4 DEF Word
<1>7. \A k \in 1 .. mem[at + 2] : mem2[at + 2 + k] = mem[at + 2 + k]
  <2> SUFFICES ASSUME NEW k \in 1 .. mem[at + 2] PROVE mem2[at + 2 + k] = mem[at + 2 + k]
    OBVIOUS
  <2>1. k \in 1 .. Word(id, 2)
    BY DEF Word
  <2>2. at + (2 + k) = at + 2 + k
    BY <1>1, <2>1
  <2> QED
    BY <1>3, <1>5, <2>1, <2>2 DEF Word
<1>8. Read(id) = [id |-> mem[at], timestamp |-> mem[at + 1],
                  payload |-> [k \in 1 .. mem[at + 2] |-> mem[at + 2 + k]]]
  BY DEF Read
<1>9. Read(id)' = [id |-> mem2[at], timestamp |-> mem2[at + 1],
                   payload |-> [k \in 1 .. mem2[at + 2] |-> mem2[at + 2 + k]]]
  BY <1>3 DEF Read
<1> HIDE DEF mem, mem2, at
<1> QED
  BY <1>6, <1>7, <1>8, <1>9

\* The entry an append stores reads as it was given.
LEMMA StoreReads ==
    ASSUME IInv, NEW s, NEW off, NEW ts \in Timestamps, NEW p \in Payloads,
           Placed(s, off, p), Store(s, off, ts, p), NEW n, n = next_id
    PROVE  Read(n)' = [id |-> n, timestamp |-> ts, payload |-> p]
<1> USE DEF IInv
<1>1. TotalSize(p) = 3 + Len(p) /\ Len(p) \in Nat /\ p \in Seq(Nat) /\ off \in Nat
  BY SizeFacts DEF Placed
<1>2. idx'[n] = [segment_idx |-> s, offset |-> off, len |-> TotalSize(p)]
  BY DEF Store
<1>3. \A k \in 0 .. TotalSize(p) - 1 : Word(n, k)' = EntryWord(n, ts, p, k)
  BY StoreWritesWords
<1>4. \A k \in 0 .. TotalSize(p) - 1 : segs'[s][off + k] = EntryWord(n, ts, p, k)
  BY <1>2, <1>3 DEF Word
<1>5. /\ segs'[s][off + 0] = n
      /\ segs'[s][off + 1] = ts
      /\ segs'[s][off + 2] = Len(p)
  BY <1>1, <1>4 DEF EntryWord
<1>6. \A k \in 1 .. Len(p) : segs'[s][off + 2 + k] = p[k]
  <2> SUFFICES ASSUME NEW k \in 1 .. Len(p) PROVE segs'[s][off + 2 + k] = p[k]
    OBVIOUS
  <2>1. 2 + k \in 0 .. TotalSize(p) - 1 /\ off + (2 + k) = off + 2 + k
        /\ 2 + k # 0 /\ 2 + k # 1 /\ 2 + k # 2 /\ (2 + k) - 2 = k
    BY <1>1
  <2> QED
    BY <1>4, <2>1 DEF EntryWord
<1>7. off + 0 = off
  BY <1>1
<1>8. Read(n)' = [id |-> segs'[s][off], timestamp |-> segs'[s][off + 1],
                  payload |-> [k \in 1 .. segs'[s][off + 2] |-> segs'[s][off + 2 + k]]]
  BY <1>2 DEF Read
<1>9. p = [k \in 1 .. Len(p) |-> p[k]]
  BY <1>1
<1> QED
  BY <1>5, <1>6, <1>7, <1>8, <1>9

\* The log as its users see it, and what each step does to it.
Entries == [id \in DOMAIN idx |-> Read(id)]

LEMMA StoreAppends ==
    ASSUME IInv, NEW s, NEW off, NEW ts \in Timestamps, NEW p \in Payloads,
           Placed(s, off, p), Store(s, off, ts, p)
    PROVE  Log!Append(ts, p)
<1>1. PICK n : n = next_id
  OBVIOUS
<1>2. DOMAIN idx' = DOMAIN idx \cup {n} /\ n \notin DOMAIN idx
  BY <1>1 DEF Store, IInv, TypeOK
<1>3. Entries' = [id \in DOMAIN Entries \cup {n} |->
                     IF id = n THEN [id |-> n, timestamp |-> ts, payload |-> p] ELSE Entries[id]]
  <2>1. Entries' = [id \in DOMAIN idx' |-> Read(id)']
    BY DEF Entries
  <2>2. \A id \in DOMAIN idx : Read(id)' = Read(id)
    BY StoreKeepsReads
  <2>3. Read(n)' = [id |-> n, timestamp |-> ts, payload |-> p]
    BY <1>1, StoreReads
  <2>4. DOMAIN Entries = DOMAIN idx /\ \A id \in DOMAIN idx : Entries[id] = Read(id)
    BY DEF Entries
  <2> QED
    BY <1>2, <2>1, <2>2, <2>3, <2>4
<1>4. next_id' = n + 1 /\ reply' = [kind |-> "appended", ids |-> {n}]
  BY <1>1 DEF Store, Reply
<1> QED
  BY <1>1, <1>3, <1>4 DEF Log!Append, Log!Entry, Log!Reply, Entries

LEMMA FailsRejects ==
    ASSUME NEW kind \in Log!Failures, Fails(kind)
    PROVE  Log!Reject
<1>1. UNCHANGED <<segs, idx, next_id>> /\ reply' = [kind |-> kind, ids |-> {}]
  BY DEF Fails, Reply
<1>2. [id \in DOMAIN idx |-> Read(id)]' = [id \in DOMAIN idx |-> Read(id)]
  BY <1>1 DEF Read
<1> QED
  BY <1>1, <1>2 DEF Log!Reject, Log!Reply

LEMMA TrimTrims ==
    ASSUME IInv, NEW cutoff \in Nat, Trim(cutoff)
    PROVE  \E c \in 0 .. next_id : Log!Trim(c)
<1>1. PICK c \in 0 .. next_id :
        {id \in DOMAIN idx : id >= c} = {id \in DOMAIN idx : id >= cutoff}
  <2>0. next_id \in Nat /\ \A id \in DOMAIN idx : id \in Nat /\ id < next_id
    BY DEF IInv, TypeOK
  <2>1. CASE cutoff <= next_id
    BY <2>0, <2>1
  <2>2. CASE cutoff > next_id
    <3>1. {id \in DOMAIN idx : id >= next_id} = {id \in DOMAIN idx : id >= cutoff}
      BY <2>0, <2>2
    <3> QED
      BY <2>0, <3>1
  <2> QED
    BY <2>0, <2>1, <2>2
<1> DEFINE kept == {id \in DOMAIN idx : id >= cutoff}
<1>2. DOMAIN idx' = kept
      /\ \A id \in kept : idx'[id] = idx[id]
                         /\ segs'[idx[id].segment_idx] = segs[idx[id].segment_idx]
  BY TrimKeeps DEF IInv
<1>3. \A id \in kept : Read(id)' = Read(id)
  BY <1>2 DEF Read
<1>4. Entries' = [id \in kept |-> Entries[id]]
  <2>1. Entries' = [id \in DOMAIN idx' |-> Read(id)']
    BY DEF Entries
  <2>2. \A id \in DOMAIN idx : Entries[id] = Read(id)
    BY DEF Entries
  <2> QED
    BY <1>2, <1>3, <2>1, <2>2
<1>5. DOMAIN Entries = DOMAIN idx
  BY DEF Entries
<1>6. next_id' = next_id /\ reply' = [kind |-> "trimmed", ids |-> DOMAIN idx \ kept]
  BY DEF Trim, Reply
<1>7. Log!Trim(c)
  BY <1>1, <1>4, <1>5, <1>6 DEF Log!Trim, Log!Reply, Entries
<1> QED
  BY <1>7

\* SegLog implements AbstractLog: every append that returns Ok(id) makes
\* exactly the caller's entry readable under id and disturbs no other, and
\* every other step is a trim from the front or changes nothing a reader sees.
THEOREM Refinement == Spec => ImplementsAbstractLog
<1>1. Init => Log!Init
  BY DEF Init, Log!Init, Log!Reply, Reply
<1>2. ASSUME IInv, [Next]_vars PROVE [Log!Next]_(Log!vars)
  <2>1. ASSUME NEW ts \in Timestamps, NEW p \in Payloads, AppendEntry(ts, p)
        PROVE  Log!Next
    <3>1. CASE RejectTooLarge(p) \/ AppendPanics(p) \/ AllocateFails(p)
      <4>1. PICK kind \in Log!Failures : Fails(kind)
        BY <3>1 DEF RejectTooLarge, AppendPanics, AllocateFails, Log!Failures
      <4> QED
        BY <4>1, FailsRejects DEF Log!Next
    <3>2. CASE AppendHere(ts, p) \/ AppendToNext(ts, p) \/ AppendGrows(ts, p)
      <4>1. \E s, off : Placed(s, off, p) /\ Store(s, off, ts, p)
        BY <1>2, <2>1, <3>2, AppendPlaces
      <4> QED
        BY <1>2, <4>1, StoreAppends DEF Log!Next
    <3> QED
      BY <2>1, <3>1, <3>2 DEF AppendEntry
  <2>2. ASSUME NEW cutoff \in 0 .. MaxId + 1, Trim(cutoff) PROVE Log!Next
    <3>1. cutoff \in Nat
      BY InputAssumption
    <3> QED
      BY <1>2, <2>2, <3>1, TrimTrims DEF Log!Next
  <2>3. CASE UNCHANGED vars
    BY <2>3 DEF vars, Log!vars, Read
  <2> QED
    BY <1>2, <2>1, <2>2, <2>3 DEF Next
<1> QED
  BY <1>1, <1>2, InductiveInvariant, PTL DEF Spec, ImplementsAbstractLog, Log!Spec
=============================================================================
