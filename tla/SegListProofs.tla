--------------------------- MODULE SegListProofs ---------------------------
(***************************************************************************)
(* Proofs about SegList, for every set of keys and payloads and every size *)
(* of the pool.                                                            *)
(***************************************************************************)
EXTENDS SegList, ProofLemmas, SequenceTheorems

(* What a store and a call in progress are *)

AllSegs == 1 .. CAPACITY
Lists   == UNION {[K -> Seq(AllSegs)] : K \in SUBSET Keys}

StoreStates == [written : Lists, free_segs : Seq(AllSegs),
                mem : [AllSegs -> Payloads \ Oversized], allocated : 0 .. CAPACITY]

\* The segments 1 .. P have one owner each, the pool or a key, and what nobody
\* owns is zeroed.
Keeps(l, P) ==
    /\ l.free_segs \in Seq(1 .. P) /\ IsInjective(l.free_segs)
    /\ \A k \in Keys : /\ Segs(l, k) \in Seq(1 .. P) /\ IsInjective(Segs(l, k))
                       /\ ToSet(Segs(l, k)) \cap ToSet(l.free_segs) = {}
    /\ \A j, k \in Keys : j # k => ToSet(Segs(l, j)) \cap ToSet(Segs(l, k)) = {}
    /\ \A s \in 1 .. P :
        s \in ToSet(l.free_segs) \/ \E k \in Keys : s \in ToSet(Segs(l, k))
    /\ \A s \in AllSegs : l.mem[s] # Empty => \E k \in Keys : s \in ToSet(Segs(l, k))

\* The allocator gave P segments that were kept, and then, when it ran dry,
\* fewer than a chunk that were lost.
Lost(a, P) == a = P \/ (a = CAPACITY /\ a - P < CHUNK)

Sound(l) == \E P \in 0 .. l.allocated : Keeps(l, P) /\ Lost(l.allocated, P)

SoundStores == {l \in StoreStates : Sound(l)}

Outcomes   == {"ok", "panic", "EntryTooLarge", "KeyNotFound", "OutOfRange"}
SoundCalls == [list : SoundStores, result : Outcomes, items : Seq(Payloads)]

\* The queue of a key.
View(l, k) == [i \in 1 .. Len(Segs(l, k)) |-> l.mem[Segs(l, k)[i]]]

IInv == list \in SoundStores /\ reply.items \in Seq(Payloads)

LEMMA ListsAre ==
    ASSUME NEW w
    PROVE  w \in Lists <=> DOMAIN w \subseteq Keys /\ w \in [DOMAIN w -> Seq(AllSegs)]
<1>1. ASSUME w \in Lists PROVE DOMAIN w \subseteq Keys /\ w \in [DOMAIN w -> Seq(AllSegs)]
  <2>1. PICK K \in SUBSET Keys : w \in [K -> Seq(AllSegs)]
    BY <1>1 DEF Lists
  <2>2. DOMAIN w = K
    BY <2>1
  <2> QED
    BY <2>1, <2>2
<1>2. ASSUME DOMAIN w \subseteq Keys, w \in [DOMAIN w -> Seq(AllSegs)] PROVE w \in Lists
  BY <1>2 DEF Lists
<1> QED
  BY <1>1, <1>2

LEMMA SegsAre ==
    ASSUME NEW l \in StoreStates, NEW k
    PROVE  Segs(l, k) \in Seq(AllSegs) /\ (k \notin DOMAIN l.written => Segs(l, k) = <<>>)
<1>1. l.written \in Lists
  BY DEF StoreStates
<1>2. l.written \in [DOMAIN l.written -> Seq(AllSegs)]
  BY <1>1, ListsAre
<1>3. CASE k \in DOMAIN l.written
  BY <1>2, <1>3 DEF Segs
<1>4. CASE k \notin DOMAIN l.written
  BY <1>4 DEF Segs
<1> QED
  BY <1>3, <1>4

\* entry(key).or_insert_with, and get_mut.
LEMMA SetSegsFacts ==
    ASSUME NEW l \in StoreStates, NEW key \in Keys, NEW segs \in Seq(AllSegs), NEW w,
           \/ w = SetSegs(l.written, key, segs)
           \/ key \in DOMAIN l.written /\ w = [l.written EXCEPT ![key] = segs]
    PROVE  /\ w \in Lists
           /\ \A k \in Keys : (IF k \in DOMAIN w THEN w[k] ELSE <<>>) =
                                    IF k = key THEN segs ELSE Segs(l, k)
<1>1. DOMAIN l.written \subseteq Keys /\ l.written \in [DOMAIN l.written -> Seq(AllSegs)]
  BY ListsAre DEF StoreStates
<1>2. /\ DOMAIN w = DOMAIN l.written \cup {key}
      /\ \A k \in DOMAIN w : w[k] = IF k = key THEN segs ELSE l.written[k]
      /\ w = [k \in DOMAIN w |-> w[k]]
  BY <1>1 DEF SetSegs
<1>3. w \in [DOMAIN w -> Seq(AllSegs)] /\ DOMAIN w \subseteq Keys
  BY <1>1, <1>2
<1>4. w \in Lists
  BY <1>3, ListsAre
<1>5. \A k \in Keys : (IF k \in DOMAIN w THEN w[k] ELSE <<>>) = IF k = key THEN segs ELSE Segs(l, k)
  BY <1>2 DEF Segs
<1> QED
  BY <1>4, <1>5
-----------------------------------------------------------------------------
(* What grow_segs, push and pop do to the owners and to the queues *)

LEMMA FreshSegs ==
    ASSUME NEW a \in Nat
    PROVE  /\ Fresh(a + 1) \in Seq(a + 1 .. a + CHUNK) /\ Len(Fresh(a + 1)) = CHUNK
           /\ IsInjective(Fresh(a + 1)) /\ ToSet(Fresh(a + 1)) = a + 1 .. a + CHUNK
<1> DEFINE f == Fresh(a + 1)
<1>1. CHUNK \in Nat /\ CHUNK >= 1
  BY SegListAssumption
<1>2. /\ f = [i \in 1 .. CHUNK |-> a + 1 + i - 1] /\ DOMAIN f = 1 .. CHUNK
      /\ \A i \in 1 .. CHUNK : f[i] = a + i
  BY <1>1 DEF Fresh
<1>3. f \in Seq(a + 1 .. a + CHUNK) /\ Len(f) = CHUNK
  BY <1>1, <1>2
<1> HIDE DEF f
<1>4. IsInjective(f)
  BY <1>1, <1>2 DEF IsInjective
<1>5. ASSUME NEW n \in a + 1 .. a + CHUNK PROVE \E i \in DOMAIN f : f[i] = n
  <2>1. n - a \in 1 .. CHUNK /\ f[n - a] = n
    BY <1>1, <1>2
  <2> QED
    BY <1>2, <2>1
<1>6. \A i \in DOMAIN f : f[i] \in a + 1 .. a + CHUNK
  BY <1>1, <1>2
<1>7. ToSet(f) = a + 1 .. a + CHUNK
  BY <1>5, <1>6 DEF ToSet
<1> QED
  BY <1>3, <1>4, <1>7 DEF f

\* A larger pool holds what a smaller one does.
LEMMA WiderSeq ==
    ASSUME NEW S, NEW T, S \subseteq T, NEW s \in Seq(S)
    PROVE  s \in Seq(T) /\ ToSet(s) \subseteq S
  BY DEF ToSet

\* m is l with a chunk of new segments at the end of the pool.
Grows(l, m) ==
    /\ l.allocated + CHUNK <= CAPACITY
    /\ m = [written |-> l.written, free_segs |-> l.free_segs \o Fresh(l.allocated + 1),
            mem |-> l.mem, allocated |-> l.allocated + CHUNK]

Grown(l, m) == m \in SoundStores /\ m.free_segs # <<>> /\ \A k \in Keys : View(m, k) = View(l, k)

LEMMA GrowStore ==
    ASSUME NEW l \in SoundStores, NEW m, Grows(l, m)
    PROVE  Grown(l, m)
<1> SUFFICES ASSUME l.allocated + CHUNK <= CAPACITY,
                    m = [written |-> l.written, free_segs |-> l.free_segs \o Fresh(l.allocated + 1),
                         mem |-> l.mem, allocated |-> l.allocated + CHUNK]
             PROVE  m \in SoundStores /\ m.free_segs # <<>> /\ \A k \in Keys : View(m, k) = View(l, k)
  BY DEF Grows, Grown
<1> DEFINE a == l.allocated
           b == a + CHUNK
           f == Fresh(a + 1)
<1>20. Keeps(l, a)
  <2>1. a \in 0 .. CAPACITY /\ a + CHUNK <= CAPACITY /\ CHUNK \in Nat /\ CHUNK >= 1
        /\ CAPACITY \in Nat
    BY SegListAssumption DEF SoundStores, StoreStates
  <2>2. PICK P \in 0 .. a : Keeps(l, P) /\ Lost(a, P)
    BY DEF SoundStores, Sound
  <2>3. P = a
    BY ONLY <2>1, <2>2 DEF Lost
  <2> QED
    BY <2>2, <2>3
<1>1. /\ l \in StoreStates /\ a \in Nat /\ b \in Nat /\ CHUNK \in Nat /\ CHUNK >= 1
      /\ CAPACITY \in Nat /\ b <= CAPACITY
      /\ l.free_segs \in Seq(1 .. a) /\ IsInjective(l.free_segs) /\ l.written \in Lists
      /\ l.mem \in [AllSegs -> Payloads \ Oversized]
  BY <1>20, SegListAssumption DEF SoundStores, Keeps, StoreStates
<1>2. f \in Seq(a + 1 .. b) /\ Len(f) = CHUNK /\ IsInjective(f) /\ ToSet(f) = a + 1 .. b
  BY <1>1, FreshSegs
<1>3. /\ m.written = l.written /\ m.free_segs = l.free_segs \o f /\ m.mem = l.mem
      /\ m.allocated = b
  OBVIOUS
<1> HIDE DEF a, b, f
<1>4. 1 .. a \subseteq 1 .. b /\ a + 1 .. b \subseteq 1 .. b /\ 1 .. b \subseteq AllSegs
  BY <1>1 DEF AllSegs, b
<1>13. /\ \A s \in 1 .. b : s \in 1 .. a \/ s \in a + 1 .. b
       /\ \A s \in 1 .. a : s \notin a + 1 .. b
  <2>1. a \in Nat /\ b \in Nat
    BY <1>1
  <2> QED
    BY ONLY <2>1
<1>5. l.free_segs \in Seq(1 .. b) /\ f \in Seq(1 .. b) /\ ToSet(l.free_segs) \subseteq 1 .. a
  BY <1>1, <1>2, <1>4, WiderSeq
<1>6. ToSet(l.free_segs) \cap ToSet(f) = {}
  BY <1>1, <1>2, <1>5
<1>7. /\ m.free_segs \in Seq(1 .. b) /\ IsInjective(m.free_segs)
      /\ ToSet(m.free_segs) = ToSet(l.free_segs) \cup ToSet(f)
      /\ Len(m.free_segs) = Len(l.free_segs) + CHUNK
  <2>1. PICK T : T = 1 .. b
    OBVIOUS
  <2>2. PICK s \in Seq(T), t \in Seq(T) : s = l.free_segs /\ t = f
    BY <1>5, <2>1
  <2>3. IsInjective(s) /\ IsInjective(t) /\ ToSet(s) \cap ToSet(t) = {}
    BY <1>1, <1>2, <1>6, <2>2
  <2>4. /\ s \o t \in Seq(T) /\ Len(s \o t) = Len(s) + Len(t)
        /\ IsInjective(s \o t) /\ ToSet(s \o t) = ToSet(s) \cup ToSet(t)
    BY <2>3, InjectiveConcat
  <2> QED
    BY <1>2, <1>3, <2>1, <2>2, <2>4
<1>8. m.free_segs # <<>>
  <2>1. PICK s : s = m.free_segs
    OBVIOUS
  <2>2. PICK n \in Nat : n = Len(l.free_segs)
    BY <1>1
  <2>3. Len(s) = n + CHUNK /\ CHUNK \in Nat /\ CHUNK >= 1
    BY <1>1, <1>7, <2>1, <2>2
  <2>4. s # <<>>
    BY ONLY <2>3
  <2> QED
    BY <2>1, <2>4
<1>9. m \in StoreStates
  <2>1. m.free_segs \in Seq(AllSegs)
    BY <1>4, <1>7, WiderSeq
  <2>2. b \in 0 .. CAPACITY
    BY <1>1
  <2> QED
    BY <1>1, <1>3, <2>1, <2>2 DEF StoreStates, b, a
<1>10. \A k \in Keys : Segs(m, k) = Segs(l, k)
  BY <1>3 DEF Segs
<1>11. \A k \in Keys : View(m, k) = View(l, k)
  BY <1>3, <1>10 DEF View
<1>12. Sound(m)
  <2>1. \A k \in Keys : /\ Segs(l, k) \in Seq(1 .. a) /\ IsInjective(Segs(l, k))
                        /\ ToSet(Segs(l, k)) \cap ToSet(l.free_segs) = {}
    BY <1>20 DEF Keeps
  <2>2. \A k \in Keys : Segs(l, k) \in Seq(1 .. b) /\ ToSet(Segs(l, k)) \subseteq 1 .. a
    BY <1>4, <2>1, WiderSeq
  <2>3. \A k \in Keys : ToSet(Segs(m, k)) \cap ToSet(m.free_segs) = {}
    BY <1>2, <1>7, <1>10, <1>13, <2>1, <2>2
  <2>4. \A s \in 1 .. b : s \in ToSet(m.free_segs) \/ \E k \in Keys : s \in ToSet(Segs(m, k))
    <3> SUFFICES ASSUME NEW s \in 1 .. b
                 PROVE  s \in ToSet(m.free_segs) \/ \E k \in Keys : s \in ToSet(Segs(m, k))
      OBVIOUS
    <3>1. CASE s \in 1 .. a
      BY <3>1, <1>7, <1>10, <1>20 DEF Keeps
    <3>2. CASE s \in a + 1 .. b
      BY <3>2, <1>2, <1>7
    <3> QED
      BY <3>1, <3>2, <1>13
  <2>5. /\ \A j, k \in Keys : j # k => ToSet(Segs(m, j)) \cap ToSet(Segs(m, k)) = {}
        /\ \A s \in AllSegs : m.mem[s] # Empty => \E k \in Keys : s \in ToSet(Segs(m, k))
    BY <1>3, <1>10, <1>20 DEF Keeps
  <2>6. Keeps(m, b)
    BY <1>3, <1>7, <1>10, <2>1, <2>2, <2>3, <2>4, <2>5 DEF Keeps
  <2>7. b \in 0 .. m.allocated /\ Lost(m.allocated, b)
    BY <1>1, <1>3 DEF Lost
  <2> QED
    BY <2>6, <2>7 DEF Sound
<1> QED
  BY <1>8, <1>9, <1>11, <1>12 DEF SoundStores

\* m is l after the allocator ran dry in the middle of a chunk.
Withers(l, m) ==
    /\ l.allocated + CHUNK > CAPACITY
    /\ m = [written |-> l.written, free_segs |-> l.free_segs, mem |-> l.mem, allocated |-> CAPACITY]

Withered(l, m) == m \in SoundStores /\ \A k \in Keys : View(m, k) = View(l, k)

\* grow_segs that panics: what it was given is lost, and nothing else changes.
LEMMA WitherStore ==
    ASSUME NEW l \in SoundStores, NEW m, Withers(l, m)
    PROVE  Withered(l, m)
<1>1. PICK P \in 0 .. l.allocated : Keeps(l, P) /\ Lost(l.allocated, P)
  BY DEF SoundStores, Sound
<1>2. /\ l \in StoreStates /\ l.allocated \in 0 .. CAPACITY /\ CAPACITY \in Nat /\ CHUNK \in Nat
      /\ l.written \in Lists /\ l.free_segs \in Seq(AllSegs)
      /\ l.mem \in [AllSegs -> Payloads \ Oversized]
  BY SegListAssumption DEF SoundStores, StoreStates
<1>3. /\ m = [written |-> l.written, free_segs |-> l.free_segs, mem |-> l.mem, allocated |-> CAPACITY]
      /\ l.allocated + CHUNK > CAPACITY
  BY DEF Withers
<1>4. m.written = l.written /\ m.free_segs = l.free_segs /\ m.mem = l.mem /\ m.allocated = CAPACITY
  BY <1>3
<1>5. \A k \in Keys : Segs(m, k) = Segs(l, k)
  BY <1>4 DEF Segs
<1>6. m \in StoreStates
  <2>1. CAPACITY \in 0 .. CAPACITY
    BY <1>2
  <2> QED
    BY ONLY <1>2, <1>3, <2>1 DEF StoreStates
<1>7. Keeps(m, P)
  BY ONLY <1>1, <1>4, <1>5 DEF Keeps
<1>8. P \in 0 .. m.allocated /\ Lost(m.allocated, P)
  BY ONLY <1>1, <1>2, <1>3, <1>4 DEF Lost
<1>9. \A k \in Keys : View(m, k) = View(l, k)
  BY <1>4, <1>5 DEF View
<1> QED
  BY <1>6, <1>7, <1>8, <1>9 DEF Withered, SoundStores, Sound

\* The items of a key are payloads.
LEMMA ViewIsAQueue ==
    ASSUME NEW l \in StoreStates, NEW k
    PROVE  /\ View(l, k) \in Seq(Payloads \ Oversized) /\ Len(View(l, k)) = Len(Segs(l, k))
           /\ Len(View(l, k)) \in Nat
           /\ \A i \in 1 .. Len(Segs(l, k)) : View(l, k)[i] = l.mem[Segs(l, k)[i]]
<1>1. Segs(l, k) \in Seq(AllSegs) /\ l.mem \in [AllSegs -> Payloads \ Oversized]
  BY SegsAre DEF StoreStates
<1>2. PICK s \in Seq(AllSegs) : s = Segs(l, k)
  BY <1>1
<1>3. PICK v : v = [i \in 1 .. Len(s) |-> l.mem[s[i]]]
  OBVIOUS
<1>4. Len(s) \in Nat /\ \A i \in 1 .. Len(s) : v[i] = l.mem[s[i]] /\ v[i] \in Payloads \ Oversized
  BY <1>1, <1>3
<1>5. v \in Seq(Payloads \ Oversized) /\ Len(v) = Len(s)
  BY <1>3, <1>4
<1> QED
  BY <1>2, <1>3, <1>4, <1>5 DEF View

\* m is l with p in the pool's first segment, which now ends the list.
Puts(l, key, p, m) ==
    /\ l.free_segs # <<>>
    /\ m = [written |-> SetSegs(l.written, key, Append(Segs(l, key), Head(l.free_segs))),
            free_segs |-> Tail(l.free_segs),
            mem |-> [l.mem EXCEPT ![Head(l.free_segs)] = p], allocated |-> l.allocated]

Stored(l, key, p, m) ==
    /\ m \in SoundStores /\ View(m, key) = Append(View(l, key), p)
    /\ \A k \in Keys : k # key => View(m, k) = View(l, k)

\* push: the item goes to the end of its queue, and no other queue changes.
LEMMA PutStore ==
    ASSUME NEW l \in SoundStores, NEW key \in Keys, NEW p \in Payloads \ Oversized, NEW m,
           Puts(l, key, p, m)
    PROVE  Stored(l, key, p, m)
<1> SUFFICES ASSUME l.free_segs # <<>>,
                    m = [written |-> SetSegs(l.written, key, Append(Segs(l, key), Head(l.free_segs))),
                         free_segs |-> Tail(l.free_segs),
                         mem |-> [l.mem EXCEPT ![Head(l.free_segs)] = p], allocated |-> l.allocated]
             PROVE  /\ m \in SoundStores /\ View(m, key) = Append(View(l, key), p)
                    /\ \A k \in Keys : k # key => View(m, k) = View(l, k)
  BY DEF Puts, Stored
<1>20. PICK a \in 0 .. l.allocated : Keeps(l, a) /\ Lost(l.allocated, a)
  BY DEF SoundStores, Sound
<1> DEFINE f == l.free_segs
           seg == Head(f)
           old == Segs(l, key)
           new == Append(old, seg)
           A == 1 .. a
<1>1. /\ l \in StoreStates /\ l.written \in Lists /\ l.allocated \in 0 .. CAPACITY
      /\ l.mem \in [AllSegs -> Payloads \ Oversized] /\ a \in 0 .. CAPACITY
  BY SegListAssumption DEF SoundStores, StoreStates
<1>2. /\ f \in Seq(A) /\ IsInjective(f) /\ A \subseteq AllSegs
      /\ \A k \in Keys : /\ Segs(l, k) \in Seq(A) /\ IsInjective(Segs(l, k))
                         /\ ToSet(Segs(l, k)) \cap ToSet(f) = {}
      /\ \A j, k \in Keys : j # k => ToSet(Segs(l, j)) \cap ToSet(Segs(l, k)) = {}
      /\ \A s \in A : s \in ToSet(f) \/ \E k \in Keys : s \in ToSet(Segs(l, k))
      /\ \A s \in AllSegs : l.mem[s] # Empty => \E k \in Keys : s \in ToSet(Segs(l, k))
  <2>1. A \subseteq AllSegs
    BY <1>1, SegListAssumption DEF AllSegs
  <2> QED
    BY <1>20, <2>1 DEF Keeps
<1>3. /\ m.written = SetSegs(l.written, key, new) /\ m.free_segs = Tail(f)
      /\ m.mem = [l.mem EXCEPT ![seg] = p] /\ m.allocated = l.allocated
  OBVIOUS
<1> HIDE DEF f, seg, new, A
<1>4. /\ Tail(f) \in Seq(A) /\ seg \in A /\ seg \in ToSet(f)
      /\ IsInjective(Tail(f)) /\ ToSet(Tail(f)) = ToSet(f) \ {seg}
  BY <1>2, InjectiveTail DEF f, seg
<1>5. \A k \in Keys : seg \notin ToSet(Segs(l, k))
  BY <1>2, <1>4
<1>6. old \in Seq(A) /\ IsInjective(old) /\ seg \notin ToSet(old)
  BY <1>2, <1>5
<1>7. /\ new \in Seq(A) /\ IsInjective(new) /\ ToSet(new) = ToSet(old) \cup {seg}
  BY <1>4, <1>6, InjectiveAppend DEF new
<1>8. new \in Seq(AllSegs) /\ Tail(f) \in Seq(AllSegs)
  BY <1>2, <1>4, <1>7, WiderSeq
<1>9. /\ m.written \in Lists
      /\ \A k \in Keys : Segs(m, k) = IF k = key THEN new ELSE Segs(l, k)
  <2>1. PICK segs \in Seq(AllSegs) : segs = new
    BY <1>8
  <2>2. PICK w : w = SetSegs(l.written, key, segs)
    OBVIOUS
  <2>3. /\ w \in Lists
        /\ \A k \in Keys : (IF k \in DOMAIN w THEN w[k] ELSE <<>>) =
                                IF k = key THEN segs ELSE Segs(l, k)
    BY <1>1, <2>2, SetSegsFacts
  <2> QED
    BY <1>3, <2>1, <2>2, <2>3 DEF Segs
<1>10. /\ m.mem \in [AllSegs -> Payloads \ Oversized]
       /\ \A s \in AllSegs : m.mem[s] = IF s = seg THEN p ELSE l.mem[s]
  BY <1>1, <1>2, <1>3, <1>4
<1>11. m \in StoreStates
  <2>1. m = [written |-> m.written, free_segs |-> m.free_segs, mem |-> m.mem,
             allocated |-> m.allocated]
    OBVIOUS
  <2> QED
    BY <1>1, <1>3, <1>8, <1>9, <1>10, <2>1 DEF StoreStates
<1>12. Sound(m)
  <2>1. \A k \in Keys : /\ Segs(m, k) \in Seq(A) /\ IsInjective(Segs(m, k))
                        /\ ToSet(Segs(m, k)) =
                              IF k = key THEN ToSet(Segs(l, k)) \cup {seg} ELSE ToSet(Segs(l, k))
    BY <1>2, <1>7, <1>9
  <2>2. \A k \in Keys : ToSet(Segs(m, k)) \cap ToSet(Tail(f)) = {}
    BY <1>2, <1>4, <2>1
  <2>3. ASSUME NEW j \in Keys, NEW k \in Keys, j # k
        PROVE  ToSet(Segs(m, j)) \cap ToSet(Segs(m, k)) = {}
    <3>1. ToSet(Segs(l, j)) \cap ToSet(Segs(l, k)) = {}
      BY <1>2, <2>3
    <3>2. seg \notin ToSet(Segs(l, j)) /\ seg \notin ToSet(Segs(l, k))
      BY <1>5
    <3> QED
      BY <2>1, <2>3, <3>1, <3>2
  <2>4. \A s \in A : s \in ToSet(Tail(f)) \/ \E k \in Keys : s \in ToSet(Segs(m, k))
    BY <1>2, <1>4, <2>1
  <2>5. \A s \in AllSegs : m.mem[s] # Empty => \E k \in Keys : s \in ToSet(Segs(m, k))
    BY <1>2, <1>10, <2>1
  <2> QED
    <3>1. Keeps(m, a)
      BY <1>3, <1>4, <2>1, <2>2, <2>3, <2>4, <2>5 DEF Keeps, A
    <3> QED
      BY <1>3, <1>20, <3>1 DEF Sound
<1>13. ASSUME NEW k \in Keys, NEW i \in 1 .. Len(Segs(l, k))
       PROVE  Segs(l, k)[i] \in AllSegs /\ m.mem[Segs(l, k)[i]] = l.mem[Segs(l, k)[i]]
  <2>1. PICK s \in Seq(A) : s = Segs(l, k)
    BY <1>2
  <2>2. s[i] \in A /\ s[i] \in ToSet(s)
    BY <2>1 DEF ToSet
  <2> QED
    BY <1>2, <1>5, <1>10, <2>1, <2>2
<1>14. ASSUME NEW k \in Keys, k # key PROVE View(m, k) = View(l, k)
  <2>1. PICK s : s = Segs(l, k)
    OBVIOUS
  <2>2. Segs(m, k) = s
    BY <1>9, <1>14, <2>1
  <2>3. \A i \in 1 .. Len(s) : m.mem[s[i]] = l.mem[s[i]]
    BY <1>13, <2>1
  <2>4. [i \in 1 .. Len(s) |-> m.mem[s[i]]] = [i \in 1 .. Len(s) |-> l.mem[s[i]]]
    BY ONLY <2>3
  <2> QED
    BY ONLY <2>1, <2>2, <2>4, Zenon DEF View
<1>15. View(m, key) = Append(View(l, key), p)
  <2> DEFINE u == View(m, key)
             v == View(l, key)
             n == Len(old)
  <2>1. /\ v \in Seq(Payloads \ Oversized) /\ Len(v) = n /\ n \in Nat
        /\ \A i \in 1 .. n : v[i] = l.mem[old[i]]
    BY <1>1, ViewIsAQueue
  <2>2. /\ u \in Seq(Payloads \ Oversized) /\ Len(u) = Len(new)
        /\ \A i \in 1 .. Len(new) : u[i] = m.mem[new[i]]
    <3>1. Segs(m, key) = new
      BY <1>9
    <3>2. PICK s \in StoreStates : s = m
      BY <1>11
    <3>3. /\ View(s, key) \in Seq(Payloads \ Oversized) /\ Len(View(s, key)) = Len(Segs(s, key))
          /\ \A i \in 1 .. Len(Segs(s, key)) : View(s, key)[i] = s.mem[Segs(s, key)[i]]
      BY ONLY ViewIsAQueue, s \in StoreStates
    <3> HIDE DEF u, v, n, old
    <3>4. /\ View(m, key) \in Seq(Payloads \ Oversized) /\ Len(View(m, key)) = Len(new)
          /\ \A i \in 1 .. Len(new) : View(m, key)[i] = m.mem[new[i]]
      BY ONLY <3>1, <3>2, <3>3, Zenon
    <3> QED
      BY ONLY <3>4, Zenon DEF u
  <2>3. Len(new) = n + 1 /\ new[n + 1] = seg /\ \A i \in 1 .. n : new[i] = old[i]
    BY <1>4, <1>6 DEF new
  <2>4. u[n + 1] = p
    <3>1. n + 1 \in 1 .. Len(new)
      BY <2>1, <2>3
    <3>2. u[n + 1] = m.mem[seg]
      BY <2>2, <2>3, <3>1
    <3> QED
      BY <1>2, <1>4, <1>10, <3>2
  <2>5. \A i \in 1 .. n : u[i] = v[i]
    <3> SUFFICES ASSUME NEW i \in 1 .. n PROVE u[i] = v[i]
      OBVIOUS
    <3>1. i \in 1 .. Len(new) /\ new[i] = old[i]
      BY <2>1, <2>3
    <3>2. m.mem[old[i]] = l.mem[old[i]]
      BY <1>13
    <3> QED
      BY <2>1, <2>2, <3>1, <3>2
  <2> HIDE DEF u, v, n
  <2>6. u = Append(v, p)
    BY <2>1, <2>2, <2>3, <2>4, <2>5
  <2> QED
    BY <2>6 DEF u, v
<1> QED
  BY <1>11, <1>12, <1>14, <1>15 DEF SoundStores

\* m is l without the run that leaves rest of the list.
Drained(l, key, run, rest, m) ==
    \E M \in [AllSegs -> Payloads \ Oversized] :
        /\ m = [written |-> [l.written EXCEPT ![key] = rest], free_segs |-> l.free_segs \o run,
                mem |-> M, allocated |-> l.allocated]
        /\ \A s \in AllSegs : M[s] = IF s \in ToSet(run) THEN Empty ELSE l.mem[s]

Takes(l, key, a, b, m) ==
    /\ key \in DOMAIN l.written
    /\ \E run, rest : IsDrain(Segs(l, key), a, b, run, rest) /\ Drained(l, key, run, rest, m)

\* The items a + 1 to b leave the queue of the key, and no other queue changes.
Taken(l, key, a, b, m) ==
    /\ m \in SoundStores
    /\ View(m, key) = SubSeq(View(l, key), 1, a) \o SubSeq(View(l, key), b + 1, Len(View(l, key)))
    /\ \A k \in Keys : k # key => View(m, k) = View(l, k)

\* pop, pop_range and flush: a run of segments leaves the list for the end of
\* the pool and is zeroed, and the same run of items leaves the queue.
LEMMA DrainStore ==
    ASSUME NEW l \in SoundStores, NEW key \in Keys, NEW a, NEW b, NEW m, Takes(l, key, a, b, m)
    PROVE  Taken(l, key, a, b, m)
<1> SUFFICES ASSUME key \in DOMAIN l.written, NEW old \in Seq(AllSegs), old = Segs(l, key),
                    NEW run, NEW rest, IsDrain(old, a, b, run, rest),
                    NEW f, f = l.free_segs \o run,
                    NEW M \in [AllSegs -> Payloads \ Oversized],
                    \A s \in AllSegs : M[s] = IF s \in ToSet(run) THEN Empty ELSE l.mem[s],
                    NEW w, w = [l.written EXCEPT ![key] = rest],
                    m = [written |-> w, free_segs |-> f, mem |-> M, allocated |-> l.allocated]
             PROVE  /\ m \in SoundStores
                    /\ View(m, key) = SubSeq(View(l, key), 1, a)
                                        \o SubSeq(View(l, key), b + 1, Len(View(l, key)))
                    /\ \A k \in Keys : k # key => View(m, k) = View(l, k)
  <2>1. PICK run, rest : IsDrain(Segs(l, key), a, b, run, rest) /\ Drained(l, key, run, rest, m)
    BY DEF Takes
  <2>2. PICK M \in [AllSegs -> Payloads \ Oversized] :
          /\ m = [written |-> [l.written EXCEPT ![key] = rest], free_segs |-> l.free_segs \o run,
                  mem |-> M, allocated |-> l.allocated]
          /\ \A s \in AllSegs : M[s] = IF s \in ToSet(run) THEN Empty ELSE l.mem[s]
    BY <2>1 DEF Drained
  <2>3. key \in DOMAIN l.written
    BY DEF Takes
  <2>4. PICK old \in Seq(AllSegs) : old = Segs(l, key)
    BY SegsAre DEF SoundStores
  <2>5. IsDrain(old, a, b, run, rest)
    BY <2>1, <2>4
  <2> QED
    BY <2>2, <2>3, <2>4, <2>5 DEF Taken
<1>20. PICK n \in 0 .. l.allocated : Keeps(l, n) /\ Lost(l.allocated, n)
  BY DEF SoundStores, Sound
<1> DEFINE A == 1 .. n
<1>1. /\ l \in StoreStates /\ l.written \in Lists /\ n \in 0 .. CAPACITY
      /\ l.allocated \in 0 .. CAPACITY /\ l.mem \in [AllSegs -> Payloads \ Oversized]
  BY SegListAssumption DEF SoundStores, StoreStates
<1>2. /\ l.free_segs \in Seq(A) /\ IsInjective(l.free_segs) /\ A \subseteq AllSegs
      /\ \A k \in Keys : /\ Segs(l, k) \in Seq(A) /\ IsInjective(Segs(l, k))
                         /\ ToSet(Segs(l, k)) \cap ToSet(l.free_segs) = {}
      /\ \A j, k \in Keys : j # k => ToSet(Segs(l, j)) \cap ToSet(Segs(l, k)) = {}
      /\ \A s \in A : s \in ToSet(l.free_segs) \/ \E k \in Keys : s \in ToSet(Segs(l, k))
      /\ \A s \in AllSegs : l.mem[s] # Empty => \E k \in Keys : s \in ToSet(Segs(l, k))
  <2>1. A \subseteq AllSegs
    BY <1>1, SegListAssumption DEF AllSegs
  <2> QED
    BY <1>20, <2>1 DEF Keeps
<1>3. m.written = w /\ m.free_segs = f /\ m.mem = M /\ m.allocated = l.allocated
  OBVIOUS
<1>4. /\ run \in Seq(A) /\ IsInjective(run) /\ rest \in Seq(A) /\ IsInjective(rest)
      /\ ToSet(run) \cap ToSet(rest) = {} /\ ToSet(run) \cup ToSet(rest) = ToSet(old)
  <2>1. old \in Seq(A) /\ IsInjective(old)
    BY <1>2
  <2> HIDE DEF A
  <2> QED
    BY ONLY <2>1, IsDrain(old, a, b, run, rest), InjectiveDrain
<1> HIDE DEF A
<1>5. /\ f \in Seq(A) /\ IsInjective(f) /\ ToSet(f) = ToSet(l.free_segs) \cup ToSet(run)
  <2>1. PICK s \in Seq(A) : s = l.free_segs
    BY <1>2
  <2>2. ToSet(s) \cap ToSet(run) = {} /\ IsInjective(s)
    BY <1>2, <1>4, <2>1
  <2>3. run \in Seq(A) /\ IsInjective(run)
    BY <1>4
  <2>4. s \o run \in Seq(A) /\ IsInjective(s \o run) /\ ToSet(s \o run) = ToSet(s) \cup ToSet(run)
    BY ONLY s \in Seq(A), <2>2, <2>3, InjectiveConcat
  <2> QED
    BY <2>1, <2>4
<1>6. f \in Seq(AllSegs) /\ rest \in Seq(AllSegs)
  BY <1>2, <1>4, <1>5, WiderSeq
<1>7. w \in Lists /\ \A k \in Keys : Segs(m, k) = IF k = key THEN rest ELSE Segs(l, k)
  <2>1. /\ w \in Lists
        /\ \A k \in Keys : (IF k \in DOMAIN w THEN w[k] ELSE <<>>) =
                                IF k = key THEN rest ELSE Segs(l, k)
    <3>1. rest \in Seq(AllSegs) /\ l \in StoreStates
      BY <1>1, <1>6
    <3>2. \/ w = SetSegs(l.written, key, rest)
          \/ key \in DOMAIN l.written /\ w = [l.written EXCEPT ![key] = rest]
      OBVIOUS
    <3> QED
      BY ONLY <3>1, <3>2, key \in Keys, SetSegsFacts, Zenon
  <2> QED
    BY <1>3, <2>1 DEF Segs
<1>8. m \in StoreStates
  BY <1>1, <1>6, <1>7 DEF StoreStates
<1>9. Sound(m)
  <2>1. \A k \in Keys : /\ Segs(m, k) \in Seq(A) /\ IsInjective(Segs(m, k))
                        /\ ToSet(Segs(m, k)) \subseteq ToSet(Segs(l, k))
                        /\ (k # key => ToSet(Segs(m, k)) = ToSet(Segs(l, k)))
                        /\ (k = key => ToSet(Segs(m, k)) = ToSet(rest))
    BY <1>2, <1>4, <1>7
  <2>2. ASSUME NEW k \in Keys PROVE ToSet(Segs(m, k)) \cap ToSet(f) = {}
    <3>1. CASE k = key
      <4>1. ToSet(Segs(m, k)) = ToSet(rest) /\ ToSet(old) \cap ToSet(l.free_segs) = {}
        BY <1>2, <2>1, <3>1
      <4> QED
        BY <1>4, <1>5, <4>1
    <3>2. CASE k # key
      <4>1. ToSet(Segs(l, k)) \cap ToSet(old) = {}
        BY <1>2, <3>2
      <4> QED
        BY <1>2, <1>4, <1>5, <2>1, <3>2, <4>1
    <3> QED
      BY <3>1, <3>2
  <2>3. ASSUME NEW j \in Keys, NEW k \in Keys, j # k
        PROVE  ToSet(Segs(m, j)) \cap ToSet(Segs(m, k)) = {}
    <3>1. ToSet(Segs(l, j)) \cap ToSet(Segs(l, k)) = {}
      BY <1>2, <2>3
    <3>2. ToSet(Segs(m, j)) \subseteq ToSet(Segs(l, j)) /\ ToSet(Segs(m, k)) \subseteq ToSet(Segs(l, k))
      BY <2>1
    <3> QED
      BY ONLY <3>1, <3>2
  <2>4. ASSUME NEW s, s \notin ToSet(run), NEW k \in Keys, s \in ToSet(Segs(l, k))
        PROVE  s \in ToSet(Segs(m, k))
    BY <1>4, <2>1, <2>4
  <2>5. \A s \in A : s \in ToSet(f) \/ \E k \in Keys : s \in ToSet(Segs(m, k))
    BY <1>2, <1>5, <2>4
  <2>6. \A s \in AllSegs : M[s] # Empty => \E k \in Keys : s \in ToSet(Segs(m, k))
    BY <1>2, <2>4
  <2>7. f \in Seq(1 .. n) /\ IsInjective(f) /\ m.free_segs = f /\ m.mem = M /\ A = 1 .. n
    BY <1>3, <1>5 DEF A
  <2>8. Keeps(m, n)
    BY ONLY <2>1, <2>2, <2>3, <2>5, <2>6, <2>7 DEF Keeps
  <2> QED
    BY <1>3, <1>20, <2>8 DEF Sound
<1>10. ASSUME NEW k \in Keys, NEW i \in 1 .. Len(Segs(l, k)), Segs(l, k)[i] \notin ToSet(run)
       PROVE  M[Segs(l, k)[i]] = l.mem[Segs(l, k)[i]]
  <2>1. PICK s \in Seq(A) : s = Segs(l, k)
    BY <1>2
  <2>2. s[i] \in A
    BY <2>1
  <2> QED
    BY <1>2, <1>10, <2>1, <2>2
<1>11. ASSUME NEW k \in Keys, k # key PROVE View(m, k) = View(l, k)
  <2>1. Segs(m, k) = Segs(l, k) /\ ToSet(Segs(l, k)) \cap ToSet(run) = {}
    BY <1>2, <1>4, <1>7, <1>11
  <2>2. PICK s \in Seq(A) : s = Segs(l, k)
    BY <1>2
  <2>3. \A i \in 1 .. Len(s) : s[i] \in ToSet(s)
    BY DEF ToSet
  <2>4. \A i \in 1 .. Len(s) : M[s[i]] = l.mem[s[i]]
    BY <1>10, <2>1, <2>2, <2>3
  <2> QED
    BY <1>3, <2>1, <2>2, <2>4 DEF View
<1>12. View(m, key) = SubSeq(View(l, key), 1, a) \o SubSeq(View(l, key), b + 1, Len(View(l, key)))
  <2>1. PICK s \in StoreStates : s = m
    BY <1>8
  <2>2. PICK P : P = Payloads \ Oversized
    OBVIOUS
  <2>3. /\ View(s, key) \in Seq(P) /\ Len(View(s, key)) = Len(Segs(s, key))
        /\ \A i \in 1 .. Len(Segs(s, key)) : View(s, key)[i] = s.mem[Segs(s, key)[i]]
    BY <2>2, ViewIsAQueue
  <2>4. /\ View(l, key) \in Seq(P) /\ Len(View(l, key)) = Len(old)
        /\ \A i \in 1 .. Len(old) : View(l, key)[i] = l.mem[old[i]]
    BY <1>1, <2>2, ViewIsAQueue
  <2>5. PICK v \in Seq(P) : v = View(l, key)
    BY <2>4
  <2>6. PICK u \in Seq(P) : u = View(s, key)
    BY <2>3
  <2>7. PICK c : c = Len(old)
    OBVIOUS
  <2>8. /\ Len(v) = c /\ c \in Nat /\ a \in 0 .. c /\ b \in a .. c
        /\ \A i \in 1 .. c : v[i] = l.mem[old[i]]
    BY <2>4, <2>5, <2>7 DEF IsDrain
  <2>9. Len(u) = Len(rest) /\ \A i \in 1 .. Len(rest) : u[i] = M[rest[i]]
    <3>1. Segs(s, key) = rest /\ s.mem = M
      BY <1>3, <1>7, <2>1
    <3> QED
      BY ONLY <2>3, <2>6, <3>1, Zenon
  <2>10. /\ Len(rest) = c - (b - a)
         /\ \A i \in 1 .. Len(rest) : rest[i] = IF i <= a THEN old[i] ELSE old[i + (b - a)]
    BY ONLY <2>7, DrainElements, old \in Seq(AllSegs), IsDrain(old, a, b, run, rest)
  <2>11. PICK out : out = SubSeq(v, 1, a) \o SubSeq(v, b + 1, Len(v))
    OBVIOUS
  <2>12. /\ out \in Seq(P) /\ Len(out) = c - (b - a)
         /\ \A i \in 1 .. Len(out) : out[i] = IF i <= a THEN v[i] ELSE v[i + (b - a)]
    <3>1. PICK took : took = SubSeq(v, a + 1, b)
      OBVIOUS
    <3>2. IsDrain(v, a, b, took, out)
      BY ONLY <2>8, <2>11, <3>1 DEF IsDrain
    <3>3. /\ out \in Seq(P) /\ Len(out) = Len(v) - (b - a)
          /\ \A i \in 1 .. Len(out) : out[i] = IF i <= a THEN v[i] ELSE v[i + (b - a)]
      BY ONLY <3>2, v \in Seq(P), DrainElements
    <3> QED
      BY ONLY <2>8, <3>3
  <2>13. ASSUME NEW i \in 1 .. c - (b - a) PROVE u[i] = out[i]
    <3>1. PICK j : j = IF i <= a THEN i ELSE i + (b - a)
      OBVIOUS
    <3>2. j \in 1 .. c
      BY ONLY <2>8, <3>1, i \in 1 .. c - (b - a)
    <3>3. rest[i] = old[j] /\ out[i] = v[j] /\ u[i] = M[rest[i]] /\ v[j] = l.mem[old[j]]
      BY ONLY <2>8, <2>9, <2>10, <2>12, <3>1, <3>2, i \in 1 .. c - (b - a), Zenon
    <3>4. rest[i] \notin ToSet(run)
      <4>1. rest[i] \in ToSet(rest)
        <5>1. i \in 1 .. Len(rest)
          BY ONLY <2>10, i \in 1 .. c - (b - a)
        <5>2. DOMAIN rest = 1 .. Len(rest)
          BY <1>4
        <5> QED
          BY ONLY <5>1, <5>2 DEF ToSet
      <4> QED
        BY <1>4, <4>1
    <3>5. M[old[j]] = l.mem[old[j]]
      BY <1>10, <2>7, <3>2, <3>3, <3>4
    <3> QED
      BY <3>3, <3>5
  <2>14. u = out
    <3>1. Len(u) = Len(out) /\ \A i \in 1 .. Len(u) : u[i] = out[i]
      BY <2>9, <2>10, <2>12, <2>13
    <3> QED
      BY ONLY <2>12, <3>1, u \in Seq(P)
  <2> QED
    BY <2>1, <2>5, <2>6, <2>11, <2>14
<1> QED
  BY <1>8, <1>9, <1>11, <1>12 DEF SoundStores

\* What a drained run holds.
Holds(l, run, took) == took = [i \in 1 .. Len(run) |-> l.mem[run[i]]]

LEMMA DrainedItems ==
    ASSUME NEW l \in StoreStates, NEW key, NEW old \in Seq(AllSegs), old = Segs(l, key),
           NEW a, NEW b, NEW run, NEW rest, IsDrain(old, a, b, run, rest),
           NEW took, Holds(l, run, took)
    PROVE  took = SubSeq(View(l, key), a + 1, b) /\ took \in Seq(Payloads)
<1>1. PICK P : P = Payloads \ Oversized
  OBVIOUS
<1>2. /\ View(l, key) \in Seq(P) /\ Len(View(l, key)) = Len(old)
      /\ \A i \in 1 .. Len(old) : View(l, key)[i] = l.mem[old[i]]
  BY <1>1, ViewIsAQueue
<1>3. PICK v \in Seq(P) : v = View(l, key)
  BY <1>2
<1>4. PICK c \in Nat : c = Len(old)
  OBVIOUS
<1>5. a \in 0 .. c /\ b \in a .. c /\ Len(v) = c /\ \A i \in 1 .. c : v[i] = l.mem[old[i]]
  BY <1>2, <1>3, <1>4 DEF IsDrain
<1>6. Len(run) = b - a /\ \A i \in 1 .. b - a : run[i] = old[a + i]
  BY ONLY DrainElements, old \in Seq(AllSegs), IsDrain(old, a, b, run, rest)
<1>7. PICK out : out = SubSeq(v, a + 1, b)
  OBVIOUS
<1>8. out \in Seq(P) /\ Len(out) = b - a /\ \A i \in 1 .. b - a : out[i] = v[a + i]
  BY ONLY <1>5, <1>7, v \in Seq(P)
<1>9. ASSUME NEW i \in 1 .. b - a PROVE l.mem[run[i]] = out[i]
  <2>1. PICK j : j = a + i
    OBVIOUS
  <2>2. j \in 1 .. c
    BY ONLY <1>5, <2>1, i \in 1 .. b - a
  <2> QED
    BY ONLY <1>5, <1>6, <1>8, <2>1, <2>2, i \in 1 .. b - a, Zenon
<1>10. out = [i \in 1 .. b - a |-> out[i]]
  BY <1>8, <1>5
<1>11. took = out
  BY <1>6, <1>9, <1>10 DEF Holds
<1>12. out \in Seq(Payloads)
  BY <1>1, <1>8
<1> QED
  BY <1>3, <1>7, <1>11, <1>12

\* pop takes the first segment, flush takes them all.
LEMMA HeadDrain ==
    ASSUME NEW T, NEW s \in Seq(T), s # <<>>
    PROVE  /\ IsDrain(s, 0, 1, <<Head(s)>>, Tail(s))
           /\ Tail(s) = SubSeq(s, 1, 0) \o SubSeq(s, 1 + 1, Len(s))
           /\ <<Head(s)>> = SubSeq(s, 0 + 1, 1)
<1>1. Len(s) \in Nat /\ Len(s) >= 1 /\ Head(s) = s[1] /\ s[1] \in T
  OBVIOUS
<1>2. SubSeq(s, 0 + 1, 1) = <<s[1]>>
  <2>1. PICK x : x = SubSeq(s, 0 + 1, 1)
    OBVIOUS
  <2>2. x \in Seq(T) /\ Len(x) = 1 /\ x[1] = s[1]
    BY <1>1, <2>1
  <2>3. x = <<s[1]>>
    BY ONLY <1>1, <2>2
  <2> QED
    BY <2>1, <2>3
<1>3. Tail(s) = SubSeq(s, 1, 0) \o SubSeq(s, 1 + 1, Len(s))
  <2>1. PICK x : x = SubSeq(s, 1, 0)
    OBVIOUS
  <2>2. PICK y : y = SubSeq(s, 2, Len(s))
    OBVIOUS
  <2>3. x \in Seq(T) /\ Len(x) = 0
    BY <1>1, <2>1
  <2>4. y \in Seq(T) /\ Len(y) = Len(s) - 1 /\ \A i \in 1 .. Len(s) - 1 : y[i] = s[i + 1]
    <3>1. PICK b \in 1 .. Len(s) : b = 1
      BY <1>1
    <3>2. y = SubSeq(s, b + 1, Len(s))
      BY <2>2, <3>1
    <3>3. y \in Seq(T) /\ Len(y) = Len(s) - b /\ \A i \in 1 .. Len(s) - b : y[i] = s[b + i]
      BY ONLY <1>1, <3>2, s \in Seq(T), b \in 1 .. Len(s)
    <3>4. \A i \in 1 .. Len(s) - 1 : 1 + i = i + 1
      BY ONLY <1>1
    <3> QED
      BY ONLY <3>1, <3>3, <3>4
  <2>5. PICK u : u = x \o y
    OBVIOUS
  <2>6. u \in Seq(T) /\ Len(u) = Len(y) /\ \A i \in 1 .. Len(y) : u[i] = y[i]
    <3>1. u \in Seq(T) /\ Len(u) = Len(x) + Len(y)
          /\ \A i \in 1 .. Len(x) + Len(y) : u[i] = IF i <= Len(x) THEN x[i] ELSE y[i - Len(x)]
      BY ONLY <2>3, <2>4, <2>5
    <3> QED
      BY ONLY <2>3, <2>4, <3>1
  <2>10. Tail(s) \in Seq(T)
    OBVIOUS
  <2>7. PICK t \in Seq(T) : t = Tail(s)
    BY <2>10
  <2>8. Len(t) = Len(s) - 1 /\ \A i \in 1 .. Len(s) - 1 : t[i] = s[i + 1]
    BY <1>1, <2>7
  <2>9. t = u
    BY ONLY <1>1, <2>4, <2>6, <2>8, t \in Seq(T)
  <2> QED
    BY <2>1, <2>2, <2>5, <2>7, <2>9
<1> QED
  BY <1>1, <1>2, <1>3 DEF IsDrain

LEMMA WholeDrain ==
    ASSUME NEW T, NEW s \in Seq(T)
    PROVE  /\ IsDrain(s, 0, Len(s), s, <<>>)
           /\ SubSeq(s, 1, 0) \o SubSeq(s, Len(s) + 1, Len(s)) = <<>>
<1>1. Len(s) \in Nat
  OBVIOUS
<1>2. SubSeq(s, 0 + 1, Len(s)) = s
  OBVIOUS
<1>3. SubSeq(s, 1, 0) \o SubSeq(s, Len(s) + 1, Len(s)) = <<>>
  <2>4. SubSeq(s, 1, 0) \in Seq(T) /\ Len(SubSeq(s, 1, 0)) = 0
    BY <1>1
  <2>5. SubSeq(s, Len(s) + 1, Len(s)) \in Seq(T) /\ Len(SubSeq(s, Len(s) + 1, Len(s))) = 0
    BY <1>1
  <2>1. PICK x \in Seq(T), y \in Seq(T) :
          x = SubSeq(s, 1, 0) /\ y = SubSeq(s, Len(s) + 1, Len(s)) /\ Len(x) = 0 /\ Len(y) = 0
    BY ONLY <2>4, <2>5, Zenon
  <2>2. Len(x \o y) = 0 /\ x \o y \in Seq(T)
    BY ONLY <2>1
  <2>3. x \o y = <<>>
    BY ONLY <2>2
  <2> QED
    BY <2>1, <2>3
<1> QED
  BY <1>1, <1>2, <1>3 DEF IsDrain
-----------------------------------------------------------------------------
(* One push and one pop *)

LEMMA PopOneStep ==
    ASSUME NEW c \in SoundCalls, c.result = "ok", NEW key \in Keys, NEW d, d = PopOne(c, key)
    PROVE  /\ d \in SoundCalls
           /\ \A k \in Keys : k # key => View(d.list, k) = View(c.list, k)
           /\ View(c.list, key) = <<>> =>
                d.list = c.list /\ d.result = "KeyNotFound" /\ d.items = c.items
           /\ View(c.list, key) # <<>> =>
                /\ d.result = "ok" /\ View(d.list, key) = Tail(View(c.list, key))
                /\ d.items = Append(c.items, Head(View(c.list, key)))
<1>1. PICK l \in SoundStores, q \in Seq(Payloads) :
        c = [list |-> l, result |-> "ok", items |-> q]
  BY DEF SoundCalls
<1>2. PICK old : old = Segs(l, key)
  OBVIOUS
<1>3. l \in StoreStates /\ old \in Seq(AllSegs) /\ (key \notin DOMAIN l.written => old = <<>>)
  BY <1>2, SegsAre DEF SoundStores
<1>4. c.list = l /\ c.items = q
  BY <1>1
<1>5. /\ View(l, key) \in Seq(Payloads \ Oversized) /\ Len(View(l, key)) = Len(old)
      /\ \A i \in 1 .. Len(old) : View(l, key)[i] = l.mem[old[i]]
  BY <1>2, <1>3, ViewIsAQueue
<1>6. View(l, key) = <<>> <=> old = <<>>
  BY ONLY <1>3, <1>5
<1>7. CASE old = <<>>
  <2>1. d = [list |-> l, result |-> "KeyNotFound", items |-> q]
    BY <1>1, <1>2, <1>7 DEF PopOne, Errs
  <2> QED
    BY <1>4, <1>6, <1>7, <2>1 DEF SoundCalls, Outcomes
<1>8. CASE old # <<>>
  <2>1. key \in DOMAIN l.written
    BY <1>3, <1>8
  <2>2. PICK seg \in AllSegs : seg = Head(old)
    BY <1>3, <1>8
  <2>3. PICK rest : rest = Tail(old)
    OBVIOUS
  <2>4. PICK run : run = <<seg>>
    OBVIOUS
  <2>5. PICK m : m = GiveBack([l EXCEPT !.written[key] = rest], seg)
    OBVIOUS
  <2>6. d = [list |-> m, result |-> "ok", items |-> Append(q, l.mem[seg])]
    BY <1>1, <1>2, <1>3, <1>8, <2>2, <2>3, <2>5 DEF PopOne, StoreStates
  <2>7. IsDrain(old, 0, 1, run, rest)
    BY <1>3, <1>8, <2>2, <2>3, <2>4, HeadDrain
  <2>8. Drained(l, key, run, rest, m)
    <3>1. PICK lw \in Lists, lf \in Seq(AllSegs), lm \in [AllSegs -> Payloads \ Oversized],
               la \in 0 .. CAPACITY :
            l = [written |-> lw, free_segs |-> lf, mem |-> lm, allocated |-> la]
      BY <1>3 DEF StoreStates
    <3>2. PICK M : M = [lm EXCEPT ![seg] = Empty]
      OBVIOUS
    <3>3. /\ M \in [AllSegs -> Payloads \ Oversized]
          /\ \A s \in AllSegs : M[s] = IF s = seg THEN Empty ELSE lm[s]
      BY <3>2, SegListAssumption
    <3>4. lf \o run = Append(lf, seg) /\ ToSet(run) = {seg}
      BY <2>4 DEF ToSet
    <3>5. m = [written |-> [lw EXCEPT ![key] = rest], free_segs |-> Append(lf, seg), mem |-> M,
               allocated |-> la]
      BY <2>5, <3>1, <3>2 DEF GiveBack
    <3> QED
      BY <3>1, <3>3, <3>4, <3>5 DEF Drained
  <2>9. PICK v \in Seq(Payloads \ Oversized) : v = View(l, key)
    BY <1>5
  <2>17. /\ m \in SoundStores
         /\ View(m, key) = SubSeq(v, 1, 0) \o SubSeq(v, 1 + 1, Len(v))
         /\ \A k \in Keys : k # key => View(m, k) = View(l, k)
    <3>1. PICK a, b : a = 0 /\ b = 1
      OBVIOUS
    <3>2. Takes(l, key, a, b, m)
      BY <1>2, <2>1, <2>7, <2>8, <3>1 DEF Takes
    <3>3. Taken(l, key, a, b, m)
      BY ONLY l \in SoundStores, key \in Keys, <3>2, DrainStore
    <3> QED
      BY <2>9, <3>1, <3>3 DEF Taken
  <2>18. v # <<>>
    BY <1>6, <1>8, <2>9
  <2>19. View(m, key) = Tail(v)
    BY <2>17, <2>18, HeadDrain
  <2>20. l.mem[seg] = Head(v) /\ l.mem[seg] \in Payloads
    <3>1. Len(old) >= 1 /\ Len(old) \in Nat /\ Head(old) = old[1] /\ Head(v) = v[1]
      BY <1>3, <1>8, <2>18
    <3>2. v[1] = l.mem[old[1]]
      BY <1>5, <2>9, <3>1
    <3>3. l.mem[seg] \in Payloads
      BY <1>3 DEF StoreStates
    <3> QED
      BY <2>2, <3>1, <3>2, <3>3
  <2>21. Append(q, l.mem[seg]) \in Seq(Payloads)
    BY <2>20
  <2>22. d \in SoundCalls
    BY <2>6, <2>17, <2>21 DEF SoundCalls, Outcomes
  <2>23. d.list = m /\ d.result = "ok" /\ d.items = Append(q, Head(v))
    BY <2>6, <2>20
  <2> QED
    BY <1>4, <2>9, <2>17, <2>18, <2>19, <2>22, <2>23
<1> QED
  BY <1>7, <1>8

LEMMA GrowStep ==
    ASSUME NEW c \in SoundCalls, c.result = "ok", NEW d, d = grow_segs(c)
    PROVE  /\ d \in SoundCalls /\ d.items = c.items
           /\ \A k \in Keys : View(d.list, k) = View(c.list, k)
           /\ d.result = "ok" => d.list.free_segs # <<>>
<1>1. PICK l \in SoundStores, q \in Seq(Payloads) :
        c = [list |-> l, result |-> "ok", items |-> q]
  BY DEF SoundCalls
<1>2. CASE l.allocated + CHUNK > CAPACITY
  <2>1. PICK lw \in Lists, lf \in Seq(AllSegs), lm \in [AllSegs -> Payloads \ Oversized],
             la \in 0 .. CAPACITY :
          l = [written |-> lw, free_segs |-> lf, mem |-> lm, allocated |-> la]
    BY DEF SoundStores, StoreStates
  <2>2. PICK m : m = [written |-> lw, free_segs |-> lf, mem |-> lm, allocated |-> CAPACITY]
    OBVIOUS
  <2>3. d = [list |-> m, result |-> "panic", items |-> q]
    <3>1. [c EXCEPT !.list.allocated = CAPACITY] = [list |-> m, result |-> "ok", items |-> q]
      <4>1. [l EXCEPT !.allocated = CAPACITY] = m
        BY ONLY <2>1, <2>2
      <4>2. [c EXCEPT !.list = m] = [list |-> m, result |-> "ok", items |-> q]
        BY ONLY <1>1
      <4>3. c.list = l
        BY <1>1
      <4> QED
        BY ONLY <4>1, <4>2, <4>3
    <3> QED
      BY <1>1, <1>2, <3>1 DEF grow_segs, Errs
  <2>4. Withered(l, m)
    <3>1. Withers(l, m)
      BY <1>2, <2>1, <2>2 DEF Withers
    <3> QED
      BY <3>1, WitherStore
  <2> QED
    BY <1>1, <2>3, <2>4 DEF Withered, SoundCalls, Outcomes
<1>3. CASE ~(l.allocated + CHUNK > CAPACITY)
  <2>1. PICK lw \in Lists, lf \in Seq(AllSegs), lm \in [AllSegs -> Payloads \ Oversized],
             la \in 0 .. CAPACITY :
          l = [written |-> lw, free_segs |-> lf, mem |-> lm, allocated |-> la]
    BY DEF SoundStores, StoreStates
  <2>2. PICK m : m = [written |-> lw, free_segs |-> lf \o Fresh(la + 1),
                      mem |-> lm, allocated |-> la + CHUNK]
    OBVIOUS
  <2>3. d = [list |-> m, result |-> "ok", items |-> q]
    BY <1>1, <1>3, <2>1, <2>2 DEF grow_segs
  <2>4. Grows(l, m)
    BY <1>3, <2>1, <2>2, SegListAssumption DEF Grows
  <2>5. Grown(l, m)
    BY <2>4, GrowStore
  <2> QED
    BY <1>1, <2>3, <2>5 DEF Grown, SoundCalls, Outcomes
<1> QED
  BY <1>2, <1>3

LEMMA PushOneStep ==
    ASSUME NEW c \in SoundCalls, c.result = "ok", NEW key \in Keys, NEW p \in Payloads,
           NEW d, d = PushOne(c, key, p)
    PROVE  /\ d \in SoundCalls /\ d.items = c.items
           /\ \A k \in Keys : k # key => View(d.list, k) = View(c.list, k)
           /\ View(d.list, key) = IF d.result = "ok" THEN Append(View(c.list, key), p)
                                                     ELSE View(c.list, key)
<1>1. PICK g : g = IF c.list.free_segs = <<>> THEN grow_segs(c) ELSE c
  OBVIOUS
<1>2. /\ g \in SoundCalls /\ g.items = c.items
      /\ \A k \in Keys : View(g.list, k) = View(c.list, k)
      /\ g.result = "ok" => g.list.free_segs # <<>>
  BY <1>1, GrowStep
<1>3. d = CASE g.result # "ok" -> g
            [] g.result = "ok" /\ p \in Oversized -> Errs(g, "EntryTooLarge")
            [] OTHER ->
                 [g EXCEPT !.list.free_segs = Tail(@),
                           !.list.mem[Head(g.list.free_segs)] = p,
                           !.list.written =
                               SetSegs(@, key, Append(Segs(g.list, key), Head(g.list.free_segs)))]
  BY <1>1 DEF PushOne
<1>4. CASE g.result # "ok"
  BY <1>2, <1>3, <1>4
<1>5. CASE g.result = "ok" /\ p \in Oversized
  <2>1. PICK l \in SoundStores, q \in Seq(Payloads) :
          g = [list |-> l, result |-> "ok", items |-> q]
    BY <1>2, <1>5 DEF SoundCalls
  <2>2. d = [list |-> l, result |-> "EntryTooLarge", items |-> q]
    BY <1>3, <1>5, <2>1 DEF Errs
  <2> QED
    BY <1>2, <2>1, <2>2 DEF SoundCalls, Outcomes
<1>6. CASE g.result = "ok" /\ p \notin Oversized
  <2>1. PICK l \in SoundStores, q \in Seq(Payloads) :
          g = [list |-> l, result |-> "ok", items |-> q]
    BY <1>2, <1>6 DEF SoundCalls
  <2>2. PICK lw \in Lists, lf \in Seq(AllSegs), lm \in [AllSegs -> Payloads \ Oversized],
             la \in 0 .. CAPACITY :
          l = [written |-> lw, free_segs |-> lf, mem |-> lm, allocated |-> la]
    BY DEF SoundStores, StoreStates
  <2>3. PICK w : w = SetSegs(lw, key, Append(Segs(l, key), Head(lf)))
    OBVIOUS
  <2>4. PICK f : f = Tail(lf)
    OBVIOUS
  <2>5. PICK M : M = [lm EXCEPT ![Head(lf)] = p]
    OBVIOUS
  <2>6. PICK m : m = [written |-> w, free_segs |-> f, mem |-> M, allocated |-> la]
    OBVIOUS
  <2>7. d = [list |-> m, result |-> "ok", items |-> q]
    <3>1. g.list = l /\ l.free_segs = lf /\ l.mem = lm /\ l.written = lw
      BY <2>1, <2>2
    <3>2. d = [g EXCEPT !.list.free_segs = Tail(@), !.list.mem[Head(lf)] = p,
                        !.list.written = SetSegs(@, key, Append(Segs(l, key), Head(lf)))]
      BY <1>3, <1>6, <3>1
    <3>3. d = [list |-> [l EXCEPT !.free_segs = Tail(@), !.mem[Head(lf)] = p,
                        !.written = SetSegs(@, key, Append(Segs(l, key), Head(lf)))],
               result |-> "ok", items |-> q]
      BY ONLY <2>1, <3>2
    <3>4. [l EXCEPT !.free_segs = Tail(@), !.mem[Head(lf)] = p,
                    !.written = SetSegs(@, key, Append(Segs(l, key), Head(lf)))]
            = [written |-> SetSegs(lw, key, Append(Segs(l, key), Head(lf))),
               free_segs |-> Tail(lf), mem |-> [lm EXCEPT ![Head(lf)] = p], allocated |-> la]
      <4>1. PICK new, h : new = Append(Segs(l, key), Head(lf)) /\ h = Head(lf)
        OBVIOUS
      <4>2. PICK low : low = SetSegs(lw, key, new)
        OBVIOUS
      <4>3. [l EXCEPT !.free_segs = Tail(@), !.mem[h] = p, !.written = SetSegs(@, key, new)]
              = [l EXCEPT !.free_segs = Tail(lf), !.mem = [lm EXCEPT ![h] = p], !.written = low]
        BY ONLY <2>2, <4>2
      <4>4. [l EXCEPT !.free_segs = f, !.mem = M, !.written = low]
              = [written |-> low, free_segs |-> f, mem |-> M, allocated |-> la]
        <5>1. [l EXCEPT !.free_segs = f]
                = [written |-> lw, free_segs |-> f, mem |-> lm, allocated |-> la]
          BY ONLY <2>2
        <5>2. PICK l1 : l1 = [written |-> lw, free_segs |-> f, mem |-> lm, allocated |-> la]
          OBVIOUS
        <5>3. [l1 EXCEPT !.mem = M] = [written |-> lw, free_segs |-> f, mem |-> M, allocated |-> la]
          BY ONLY <5>2
        <5>4. PICK l2 : l2 = [written |-> lw, free_segs |-> f, mem |-> M, allocated |-> la]
          OBVIOUS
        <5>5. [l2 EXCEPT !.written = low]
                = [written |-> low, free_segs |-> f, mem |-> M, allocated |-> la]
          BY ONLY <5>4
        <5>6. [l EXCEPT !.free_segs = f, !.mem = M, !.written = low]
               = [[[l EXCEPT !.free_segs = f] EXCEPT !.mem = M] EXCEPT !.written = low]
          OBVIOUS
        <5> QED
          BY ONLY <5>1, <5>2, <5>3, <5>4, <5>5, <5>6
      <4> QED
        BY ONLY <2>4, <2>5, <4>1, <4>2, <4>3, <4>4
    <3> QED
      BY ONLY <2>3, <2>4, <2>5, <2>6, <3>3, <3>4
  <2>8. Puts(l, key, p, m)
    <3>1. lf # <<>>
      BY <1>2, <1>6, <2>1, <2>2
    <3> QED
      BY <2>2, <2>3, <2>4, <2>5, <2>6, <3>1 DEF Puts
  <2>9. p \in Payloads \ Oversized
    BY <1>6
  <2>10. Stored(l, key, p, m)
    BY ONLY l \in SoundStores, key \in Keys, <2>8, <2>9, PutStore
  <2>11. /\ m \in SoundStores /\ View(m, key) = Append(View(l, key), p)
         /\ \A k \in Keys : k # key => View(m, k) = View(l, k)
    BY <2>10 DEF Stored
  <2>12. d.list = m /\ d.result = "ok" /\ d.items = q /\ g.list = l /\ g.items = q
    BY <2>1, <2>7
  <2>13. d \in SoundCalls
    BY <2>7, <2>11 DEF SoundCalls, Outcomes
  <2> QED
    BY <1>2, <2>11, <2>12, <2>13
<1> QED
  BY <1>4, <1>5, <1>6
-----------------------------------------------------------------------------
(* The loops.  FiniteRecursion shows that there is a function that satisfies *)
(* the loop's equation, so the one the model chooses does; then by induction *)
(* over the rounds.                                                          *)

LEMMA AppendPrefix ==
    ASSUME NEW T, NEW v \in Seq(T), NEW s \in Seq(T), NEW n \in 1 .. Len(s)
    PROVE  Append(v \o SubSeq(s, 1, n - 1), s[n]) = v \o SubSeq(s, 1, n)
<1>1. Len(s) \in Nat /\ s[n] \in T
  OBVIOUS
<1>2. PICK x : x = SubSeq(s, 1, n - 1)
  OBVIOUS
<1>3. PICK y : y = SubSeq(s, 1, n)
  OBVIOUS
<1>4. x \in Seq(T) /\ Len(x) = n - 1 /\ \A i \in 1 .. n - 1 : x[i] = s[i]
  BY <1>1, <1>2
<1>5. y \in Seq(T) /\ Len(y) = n /\ \A i \in 1 .. n : y[i] = s[i]
  BY <1>1, <1>3
<1>6. Append(x, s[n]) = y
  <2>1. PICK z : z = Append(x, s[n])
    OBVIOUS
  <2>2. z \in Seq(T) /\ Len(z) = n /\ z[n] = s[n] /\ \A i \in 1 .. n - 1 : z[i] = s[i]
    BY <1>1, <1>4, <2>1
  <2>3. \A i \in 1 .. n : z[i] = y[i]
    BY ONLY <1>5, <2>2, n \in 1 .. Len(s), <1>1
  <2>4. z = y
    BY ONLY <1>5, <2>2, <2>3
  <2> QED
    BY <2>1, <2>4
<1>7. Append(v \o x, s[n]) = v \o Append(x, s[n])
  <2>1. PICK e \in T, m \in Nat, k \in Nat : e = s[n] /\ m = Len(v) /\ k = Len(x)
    BY <1>1, <1>4
  <2>2. PICK y1 : y1 = Append(v \o x, e)
    OBVIOUS
  <2>3. PICK y2 : y2 = v \o Append(x, e)
    OBVIOUS
  <2>4. /\ v \o x \in Seq(T) /\ Len(v \o x) = m + k
        /\ \A i \in 1 .. m + k : (v \o x)[i] = IF i <= m THEN v[i] ELSE x[i - m]
    <3>1. x \in Seq(T)
      BY <1>4
    <3>2. /\ v \o x \in Seq(T) /\ Len(v \o x) = Len(v) + Len(x)
          /\ \A i \in 1 .. Len(v) + Len(x) : (v \o x)[i] = IF i <= Len(v) THEN v[i] ELSE x[i - Len(v)]
      BY ONLY <3>1, v \in Seq(T)
    <3> QED
      BY ONLY <2>1, <3>2, Zenon
  <2>5. /\ y1 \in Seq(T) /\ Len(y1) = m + k + 1
        /\ \A i \in 1 .. m + k + 1 :
              y1[i] = IF i <= m THEN v[i] ELSE IF i <= m + k THEN x[i - m] ELSE e
    BY ONLY <2>2, <2>4, e \in T, m \in Nat, k \in Nat
  <2>6. /\ Append(x, e) \in Seq(T) /\ Len(Append(x, e)) = k + 1
        /\ \A i \in 1 .. k + 1 : Append(x, e)[i] = IF i <= k THEN x[i] ELSE e
    BY ONLY <1>4, <2>1, e \in T
  <2>7. /\ y2 \in Seq(T) /\ Len(y2) = m + k + 1
        /\ \A i \in 1 .. m + k + 1 :
              y2[i] = IF i <= m THEN v[i] ELSE IF i <= m + k THEN x[i - m] ELSE e
    BY ONLY <2>1, <2>3, <2>6, v \in Seq(T), m \in Nat, k \in Nat
  <2>8. y1 = y2
    BY ONLY <2>5, <2>7
  <2> QED
    BY <2>1, <2>2, <2>3, <2>8
<1> QED
  BY ONLY <1>2, <1>3, <1>6, <1>7

LEMMA PushLoop ==
    ASSUME NEW c \in SoundCalls, NEW key \in Keys, NEW items \in Seq(Payloads)
    PROVE  \E after \in [0 .. Len(items) -> SoundCalls] :
              /\ PushEach(c, key, items) = after[Len(items)] /\ after[0] = c
              /\ \A i \in 1 .. Len(items) :
                    after[i] = IF after[i - 1].result = "ok"
                                 THEN PushOne(after[i - 1], key, items[i]) ELSE after[i - 1]
<1>1. PICK N \in Nat : N = Len(items)
  OBVIOUS
<1> DEFINE Round(i, x) == IF x.result = "ok" THEN PushOne(x, key, items[i]) ELSE x
           Body(g) == [i \in 0 .. N |-> IF i = 0 THEN c ELSE Round(i, g[i - 1])]
<1>2. ASSUME NEW i \in 1 .. N, NEW x \in SoundCalls PROVE Round(i, x) \in SoundCalls
  <2>1. items[i] \in Payloads
    BY <1>1
  <2> QED
    BY <2>1, PushOneStep
<1> HIDE DEF Round
<1>3. PICK D : D = [i \in 1 .. N |-> [x \in SoundCalls |-> Round(i, x)]]
  OBVIOUS
<1>4. D \in Rounds(SoundCalls, N)
  BY <1>2, <1>3 DEF Rounds
<1>14. PICK g : Loops(SoundCalls, N, c, D, g)
  BY ONLY <1>4, N \in Nat, c \in SoundCalls, FiniteRecursion, Zenon
<1>5. g \in [0 .. N -> SoundCalls] /\ g[0] = c /\ \A i \in 1 .. N : g[i] = D[i][g[i - 1]]
  BY <1>14 DEF Loops
<1>6. \A i \in 1 .. N : i - 1 \in 0 .. N /\ g[i] = Round(i, g[i - 1])
  BY <1>3, <1>5
<1>7. g = Body(g)
  BY <1>5, <1>6
<1>8. PICK after : after = CHOOSE f : f = Body(f)
  OBVIOUS
<1>9. after = Body(after)
  BY <1>7, <1>8
<1>10. after[0] = c /\ \A i \in 1 .. N : after[i] = Round(i, after[i - 1])
  BY <1>9
<1>11. \A n \in 0 .. N : after[n] = g[n]
  <2> DEFINE Good == {n \in 0 .. N : after[n] = g[n]}
  <2>1. 0 \in Good
    BY <1>5, <1>10
  <2>2. \A n \in 1 .. N : n - 1 \in Good => n \in Good
    BY <1>6, <1>10
  <2> HIDE DEF Good
  <2>3. \A n \in 0 .. N : n \in Good
    BY <2>1, <2>2, IntervalInduction
  <2> QED
    BY <2>3 DEF Good
<1>12. after \in [0 .. N -> SoundCalls]
  <2>1. after = [i \in 0 .. N |-> after[i]]
    BY <1>9
  <2>2. \A i \in 0 .. N : after[i] \in SoundCalls
    BY <1>5, <1>11
  <2> QED
    BY ONLY <2>1, <2>2
<1>13. PushEach(c, key, items) = after[N]
  BY <1>1, <1>8 DEF PushEach, Round
<1> QED
  BY <1>1, <1>10, <1>12, <1>13 DEF Round

PushedEach(c, key, items, d) ==
    /\ d \in SoundCalls /\ d.items = c.items
    /\ \A k \in Keys : k # key => View(d.list, k) = View(c.list, k)
    /\ c.result # "ok" => d = c
    /\ c.result = "ok" =>
         \E n \in 0 .. Len(items) :
             /\ View(d.list, key) = View(c.list, key) \o SubSeq(items, 1, n)
             /\ d.result = "ok" <=> n = Len(items)

\* push_range stores a prefix of its items, all of them when it succeeds.
LEMMA PushEachStep ==
    ASSUME NEW c \in SoundCalls, NEW key \in Keys, NEW items \in Seq(Payloads),
           NEW d, d = PushEach(c, key, items)
    PROVE  PushedEach(c, key, items, d)
<1>1. PICK N \in Nat : N = Len(items)
  OBVIOUS
<1>2. PICK after \in [0 .. N -> SoundCalls] :
        /\ d = after[N] /\ after[0] = c
        /\ \A i \in 1 .. N : after[i] = IF after[i - 1].result = "ok"
                                          THEN PushOne(after[i - 1], key, items[i]) ELSE after[i - 1]
  BY <1>1, PushLoop
<1> DEFINE v == View(c.list, key)
           Done(x, n) == /\ View(x.list, key) = v \o SubSeq(items, 1, n)
                         /\ n \in 0 .. N
           Same(x) == /\ x.items = c.items
                      /\ \A k \in Keys : k # key => View(x.list, k) = View(c.list, k)
           Good == {n \in 0 .. N :
                      /\ Same(after[n]) /\ (c.result # "ok" => after[n] = c)
                      /\ c.result = "ok" =>
                           \E m \in 0 .. n : Done(after[n], m) /\ (after[n].result = "ok" <=> m = n)}
<1>3. c.list \in StoreStates /\ v \in Seq(Payloads)
  <2>1. c.list \in StoreStates
    BY DEF SoundCalls, SoundStores
  <2>2. v \in Seq(Payloads \ Oversized)
    BY <2>1, ViewIsAQueue
  <2> QED
    BY <2>1, <2>2
<1> HIDE DEF v
<1>4. 0 \in Good
  <2>1. PICK e : e = SubSeq(items, 1, 0)
    OBVIOUS
  <2>2. e = <<>>
    BY <2>1
  <2>3. v \o e = v
    BY <1>3, <2>2
  <2>4. Done(c, 0)
    BY <2>1, <2>3 DEF v
  <2>5. Same(after[0]) /\ (c.result # "ok" => after[0] = c) /\ Done(after[0], 0)
    BY ONLY <1>2, <2>4, Zenon
  <2>6. 0 \in 0 .. N /\ 0 \in 0 .. 0
    OBVIOUS
  <2>7. c.result = "ok" => after[0].result = "ok"
    BY <1>2
  <2> HIDE DEF Same, Done
  <2> QED
    BY ONLY <2>5, <2>6, <2>7
<1>5. ASSUME NEW n \in 1 .. N, n - 1 \in Good PROVE n \in Good
  <2>1. PICK x \in SoundCalls : x = after[n - 1]
    BY <1>2
  <2>2. PICK y \in SoundCalls : y = after[n]
    BY <1>2
  <2>3. Same(x) /\ (c.result # "ok" => x = c)
    BY <1>5, <2>1
  <2>4. y = IF x.result = "ok" THEN PushOne(x, key, items[n]) ELSE x
    BY <1>2, <2>1, <2>2
  <2>5. n \in 0 .. N /\ n - 1 \in 0 .. N /\ items[n] \in Payloads
    BY <1>1
  <2>6. CASE c.result # "ok"
    BY <2>2, <2>3, <2>4, <2>5, <2>6
  <2>7. CASE c.result = "ok"
    <3>1. PICK m \in 0 .. n - 1 : Done(x, m) /\ (x.result = "ok" <=> m = n - 1)
      BY <1>5, <2>1, <2>7
    <3>2. m \in 0 .. n /\ m # n
      OBVIOUS
    <3>3. CASE x.result # "ok"
      BY <2>2, <2>3, <2>4, <2>5, <2>7, <3>1, <3>2, <3>3
    <3>4. CASE x.result = "ok"
      <4>1. y = PushOne(x, key, items[n]) /\ m = n - 1
        BY <2>4, <3>1, <3>4
      <4>2. PICK p \in Payloads : p = items[n]
        BY <2>5
      <4>3. /\ y.items = x.items
            /\ \A k \in Keys : k # key => View(y.list, k) = View(x.list, k)
            /\ View(y.list, key) = IF y.result = "ok" THEN Append(View(x.list, key), p)
                                                      ELSE View(x.list, key)
        BY ONLY <3>4, <4>1, <4>2, x \in SoundCalls, key \in Keys, p \in Payloads, PushOneStep
      <4>4. Same(y)
        BY <2>3, <4>3
      <4>5. CASE y.result = "ok"
        <5>1. Append(v \o SubSeq(items, 1, n - 1), items[n]) = v \o SubSeq(items, 1, n)
          BY <1>1, <1>3, AppendPrefix
        <5>2. Done(y, n) /\ n \in 0 .. n
          <6>1. View(y.list, key) = Append(View(x.list, key), items[n])
            BY <4>2, <4>3, <4>5
          <6>2. View(x.list, key) = v \o SubSeq(items, 1, n - 1)
            BY ONLY <3>1, <4>1, Zenon
          <6>3. View(y.list, key) = v \o SubSeq(items, 1, n)
            BY ONLY <5>1, <6>1, <6>2, Zenon
          <6> QED
            BY ONLY <2>5, <6>3, n \in 1 .. N
        <5> QED
          BY <2>2, <2>5, <2>7, <4>4, <4>5, <5>2
      <4>6. CASE y.result # "ok"
        <5>1. Done(y, m)
          BY <3>1, <4>3, <4>6
        <5> QED
          BY <2>2, <2>5, <2>7, <3>2, <4>4, <4>6, <5>1
      <4> QED
        BY <4>5, <4>6
    <3> QED
      BY <3>3, <3>4
  <2> QED
    BY <2>6, <2>7
<1>6. \A n \in 1 .. N : n - 1 \in Good => n \in Good
  BY <1>5
<1> HIDE DEF Good
<1>7. \A n \in 0 .. N : n \in Good
  BY ONLY <1>4, <1>6, N \in Nat, IntervalInduction
<1>8. N \in Good
  BY <1>7
<1>9. /\ Same(d) /\ (c.result # "ok" => d = c)
      /\ c.result = "ok" => \E m \in 0 .. N : Done(d, m) /\ (d.result = "ok" <=> m = N)
  BY <1>2, <1>8 DEF Good
<1> QED
  BY <1>1, <1>2, <1>9 DEF v, PushedEach

LEMMA PopLoop ==
    ASSUME NEW c \in SoundCalls, NEW key \in Keys, NEW N \in Nat
    PROVE  \E after \in [0 .. N -> SoundCalls] :
              /\ PopEach(c, key, N) = after[N] /\ after[0] = c
              /\ \A i \in 1 .. N :
                    after[i] = IF after[i - 1].result = "ok"
                                 THEN PopOne(after[i - 1], key) ELSE after[i - 1]
<1> DEFINE Round(x) == IF x.result = "ok" THEN PopOne(x, key) ELSE x
           Body(g) == [i \in 0 .. N |-> IF i = 0 THEN c ELSE Round(g[i - 1])]
<1>2. ASSUME NEW x \in SoundCalls PROVE Round(x) \in SoundCalls
  BY PopOneStep
<1> HIDE DEF Round
<1>3. PICK D : D = [i \in 1 .. N |-> [x \in SoundCalls |-> Round(x)]]
  OBVIOUS
<1>4. D \in Rounds(SoundCalls, N)
  BY <1>2, <1>3 DEF Rounds
<1>14. PICK g : Loops(SoundCalls, N, c, D, g)
  BY ONLY <1>4, N \in Nat, c \in SoundCalls, FiniteRecursion, Zenon
<1>5. g \in [0 .. N -> SoundCalls] /\ g[0] = c /\ \A i \in 1 .. N : g[i] = D[i][g[i - 1]]
  BY <1>14 DEF Loops
<1>6. \A i \in 1 .. N : i - 1 \in 0 .. N /\ g[i] = Round(g[i - 1])
  BY <1>3, <1>5
<1>7. g = Body(g)
  BY <1>5, <1>6
<1>8. PICK after : after = CHOOSE f : f = Body(f)
  OBVIOUS
<1>9. after = Body(after)
  BY <1>7, <1>8
<1>10. after[0] = c /\ \A i \in 1 .. N : after[i] = Round(after[i - 1])
  BY <1>9
<1>11. \A n \in 0 .. N : after[n] = g[n]
  <2> DEFINE Good == {n \in 0 .. N : after[n] = g[n]}
  <2>1. 0 \in Good
    BY <1>5, <1>10
  <2>2. \A n \in 1 .. N : n - 1 \in Good => n \in Good
    BY <1>6, <1>10
  <2> HIDE DEF Good
  <2>3. \A n \in 0 .. N : n \in Good
    BY <2>1, <2>2, IntervalInduction
  <2> QED
    BY <2>3 DEF Good
<1>12. after \in [0 .. N -> SoundCalls]
  <2>1. after = [i \in 0 .. N |-> after[i]]
    BY <1>9
  <2>2. \A i \in 0 .. N : after[i] \in SoundCalls
    BY <1>5, <1>11
  <2> QED
    BY ONLY <2>1, <2>2
<1>13. PopEach(c, key, N) = after[N]
  BY <1>8 DEF PopEach, Round
<1> QED
  BY <1>10, <1>12, <1>13 DEF Round

\* One more pop of a queue that has lost its first n - 1 items.
LEMMA PopNext ==
    ASSUME NEW T, NEW q \in Seq(T), NEW n \in Nat, n >= 1, n - 1 <= Len(q),
           NEW rest, rest = SubSeq(q, n, Len(q)), rest # <<>>
    PROVE  /\ n <= Len(q) /\ Tail(rest) = SubSeq(q, n + 1, Len(q))
           /\ Append(SubSeq(q, 1, n - 1), Head(rest)) = SubSeq(q, 1, n)
<1>1. PICK L \in Nat : L = Len(q)
  OBVIOUS
<1>2. rest \in Seq(T) /\ Len(rest) = L - n + 1 /\ \A i \in 1 .. L - n + 1 : rest[i] = q[n + i - 1]
  BY <1>1
<1>3. Len(rest) >= 1 /\ n <= L
  BY ONLY <1>2, n \in Nat, L \in Nat, rest # <<>>
<1>4. Head(rest) = q[n] /\ q[n] \in T
  <2>1. Head(rest) = rest[1] /\ 1 \in 1 .. L - n + 1 /\ n + 1 - 1 = n
    BY ONLY <1>2, <1>3, n \in Nat, L \in Nat, rest # <<>>
  <2>2. rest[1] = q[n + 1 - 1]
    BY ONLY <1>2, <2>1
  <2>3. q[n] \in T
    BY <1>1, <1>3
  <2> QED
    BY ONLY <2>1, <2>2, <2>3
<1>5. Tail(rest) = SubSeq(q, n + 1, Len(q))
  <2>1. Tail(rest) \in Seq(T)
    BY <1>2
  <2>2. PICK t \in Seq(T) : t = Tail(rest)
    BY <2>1
  <2>3. PICK u : u = SubSeq(q, n + 1, Len(q))
    OBVIOUS
  <2>4. Len(t) = L - n /\ \A i \in 1 .. L - n : t[i] = rest[i + 1]
    BY ONLY <1>2, <1>3, <2>2, n \in Nat, L \in Nat, rest # <<>>
  <2>5. u \in Seq(T) /\ Len(u) = L - n /\ \A i \in 1 .. L - n : u[i] = q[n + i]
    BY ONLY <1>1, <1>3, <2>3, n \in Nat, q \in Seq(T)
  <2>6. ASSUME NEW i \in 1 .. L - n PROVE t[i] = u[i]
    <3>1. PICK j : j = i + 1
      OBVIOUS
    <3>2. j \in 1 .. L - n + 1 /\ n + j - 1 = n + i
      BY ONLY <3>1, n \in Nat, L \in Nat, i \in 1 .. L - n
    <3>3. t[i] = rest[j] /\ rest[j] = q[n + j - 1] /\ u[i] = q[n + i]
      BY ONLY <1>2, <2>4, <2>5, <3>1, <3>2, i \in 1 .. L - n, Zenon
    <3> QED
      BY <3>2, <3>3
  <2>7. t = u
    BY ONLY <2>4, <2>5, <2>6, t \in Seq(T), n \in Nat, L \in Nat
  <2> QED
    BY <2>2, <2>3, <2>7
<1>6. Append(SubSeq(q, 1, n - 1), q[n]) = SubSeq(q, 1, n)
  <2>6. <<>> \in Seq(T)
    OBVIOUS
  <2>1. PICK e \in Seq(T) : e = <<>>
    BY <2>6, Zenon
  <2>2. n \in 1 .. Len(q)
    BY <1>1, <1>3
  <2>3. Append(e \o SubSeq(q, 1, n - 1), q[n]) = e \o SubSeq(q, 1, n)
    BY ONLY <2>2, e \in Seq(T), q \in Seq(T), AppendPrefix, Zenon
  <2>4. SubSeq(q, 1, n - 1) \in Seq(T) /\ SubSeq(q, 1, n) \in Seq(T)
    BY <1>1, <1>3
  <2>5. e \o SubSeq(q, 1, n - 1) = SubSeq(q, 1, n - 1) /\ e \o SubSeq(q, 1, n) = SubSeq(q, 1, n)
    BY ONLY <2>1, <2>4, ConcatEmptySeq
  <2> QED
    BY ONLY <2>3, <2>5, Zenon
<1> QED
  BY <1>1, <1>3, <1>4, <1>5, <1>6

PoppedEach(c, key, N, d) ==
    /\ d \in SoundCalls
    /\ \A k \in Keys : k # key => View(d.list, k) = View(c.list, k)
    /\ d.result # "ok" => View(d.list, key) = <<>>
    /\ d.result = "ok" =>
         /\ N <= Len(View(c.list, key))
         /\ View(d.list, key) = SubSeq(View(c.list, key), N + 1, Len(View(c.list, key)))
         /\ d.items = SubSeq(View(c.list, key), 1, N)

\* n pops return the first n items, or empty the queue and fail.
LEMMA PopEachStep ==
    ASSUME NEW c \in SoundCalls, c.result = "ok", c.items = <<>>, NEW key \in Keys,
           NEW N \in Nat, NEW d, d = PopEach(c, key, N)
    PROVE  PoppedEach(c, key, N, d)
<1>1. PICK after \in [0 .. N -> SoundCalls] :
        /\ d = after[N] /\ after[0] = c
        /\ \A i \in 1 .. N : after[i] = IF after[i - 1].result = "ok"
                                          THEN PopOne(after[i - 1], key) ELSE after[i - 1]
  <2>1. \E after \in [0 .. N -> SoundCalls] :
            /\ PopEach(c, key, N) = after[N] /\ after[0] = c
            /\ \A i \in 1 .. N :
                  after[i] = IF after[i - 1].result = "ok"
                               THEN PopOne(after[i - 1], key) ELSE after[i - 1]
    BY ONLY PopLoop, c \in SoundCalls, key \in Keys, N \in Nat, Zenon
  <2> QED
    BY ONLY <2>1, d = PopEach(c, key, N), Zenon
<1>2. PICK q : q = View(c.list, key)
  OBVIOUS
<1>3. c.list \in StoreStates /\ q \in Seq(Payloads) /\ Len(q) \in Nat
  <2>1. c.list \in StoreStates
    BY DEF SoundCalls, SoundStores
  <2>2. q \in Seq(Payloads \ Oversized)
    BY <1>2, <2>1, ViewIsAQueue
  <2> QED
    BY <2>1, <2>2
<1> DEFINE Same(x) == \A k \in Keys : k # key => View(x.list, k) = View(c.list, k)
           Popped(x, n) == /\ n <= Len(q) /\ View(x.list, key) = SubSeq(q, n + 1, Len(q))
                           /\ x.items = SubSeq(q, 1, n)
           Good == {n \in 0 .. N : /\ Same(after[n])
                                   /\ after[n].result # "ok" => View(after[n].list, key) = <<>>
                                   /\ after[n].result = "ok" => Popped(after[n], n)}
<1>4. 0 \in Good
  <2>1. SubSeq(q, 0 + 1, Len(q)) = q /\ SubSeq(q, 1, 0) = <<>> /\ 0 <= Len(q)
    BY <1>3
  <2>2. Popped(c, 0)
    BY ONLY <1>2, <2>1, c.items = <<>>, Zenon
  <2>3. Same(c)
    OBVIOUS
  <2> HIDE DEF Popped, Same
  <2>4. Popped(after[0], 0) /\ Same(after[0]) /\ after[0].result = "ok"
    BY ONLY <1>1, <2>2, <2>3, c.result = "ok", Zenon
  <2>5. 0 \in 0 .. N
    OBVIOUS
  <2> QED
    BY ONLY <2>4, <2>5
<1>5. ASSUME NEW n \in 1 .. N, n - 1 \in Good PROVE n \in Good
  <2>1. PICK x \in SoundCalls : x = after[n - 1]
    BY <1>1
  <2>2. PICK y \in SoundCalls : y = after[n]
    BY <1>1
  <2>3. y = IF x.result = "ok" THEN PopOne(x, key) ELSE x
    BY <1>1, <2>1, <2>2
  <2>4. n \in 0 .. N /\ n \in Nat /\ n >= 1 /\ n - 1 + 1 = n
    OBVIOUS
  <2>5. /\ Same(x) /\ (x.result # "ok" => View(x.list, key) = <<>>)
        /\ (x.result = "ok" => Popped(x, n - 1))
    BY <1>5, <2>1
  <2>6. CASE x.result # "ok"
    BY <2>2, <2>3, <2>4, <2>5, <2>6
  <2>7. CASE x.result = "ok"
    <3>1. /\ Same(y)
          /\ View(x.list, key) = <<>> => y.list = x.list /\ y.result = "KeyNotFound"
          /\ View(x.list, key) # <<>> =>
                /\ y.result = "ok" /\ View(y.list, key) = Tail(View(x.list, key))
                /\ y.items = Append(x.items, Head(View(x.list, key)))
      <4>1. y = PopOne(x, key)
        BY <2>3, <2>7
      <4>2. /\ \A k \in Keys : k # key => View(y.list, k) = View(x.list, k)
            /\ View(x.list, key) = <<>> => y.list = x.list /\ y.result = "KeyNotFound"
            /\ View(x.list, key) # <<>> =>
                  /\ y.result = "ok" /\ View(y.list, key) = Tail(View(x.list, key))
                  /\ y.items = Append(x.items, Head(View(x.list, key)))
        BY ONLY <2>7, <4>1, x \in SoundCalls, key \in Keys, PopOneStep
      <4> QED
        BY <2>5, <4>2
    <3>2. n - 1 <= Len(q) /\ View(x.list, key) = SubSeq(q, n, Len(q))
          /\ x.items = SubSeq(q, 1, n - 1)
      BY ONLY <2>4, <2>5, <2>7, Zenon
    <3>3. CASE View(x.list, key) = <<>>
      <4>1. y.result # "ok" /\ View(y.list, key) = <<>>
        BY <3>1, <3>3
      <4> HIDE DEF Same, Popped
      <4> QED
        BY <2>2, <2>4, <3>1, <4>1
    <3>4. CASE View(x.list, key) # <<>>
      <4>1. PICK rest : rest = SubSeq(q, n, Len(q))
        OBVIOUS
      <4>2. rest # <<>> /\ n \in Nat /\ n >= 1 /\ n - 1 <= Len(q) /\ q \in Seq(Payloads)
        BY ONLY <1>3, <2>4, <3>2, <3>4, <4>1, Zenon
      <4>3. /\ n <= Len(q) /\ Tail(rest) = SubSeq(q, n + 1, Len(q))
            /\ Append(SubSeq(q, 1, n - 1), Head(rest)) = SubSeq(q, 1, n)
        BY ONLY <4>1, <4>2, PopNext
      <4>4. View(y.list, key) = Tail(rest) /\ y.items = Append(SubSeq(q, 1, n - 1), Head(rest))
            /\ y.result = "ok"
        BY ONLY <3>1, <3>2, <3>4, <4>1, Zenon
      <4>5. Popped(y, n)
        BY ONLY <4>3, <4>4, Zenon
      <4> HIDE DEF Same, Popped
      <4> QED
        BY <2>2, <2>4, <3>1, <4>4, <4>5
    <3> QED
      BY <3>3, <3>4
  <2> QED
    BY <2>6, <2>7
<1>6. \A n \in 1 .. N : n - 1 \in Good => n \in Good
  BY <1>5
<1> HIDE DEF Good
<1>7. \A n \in 0 .. N : n \in Good
  BY ONLY <1>4, <1>6, N \in Nat, IntervalInduction
<1>8. N \in Good
  BY <1>7
<1>9. /\ Same(d) /\ (d.result # "ok" => View(d.list, key) = <<>>)
      /\ (d.result = "ok" => Popped(d, N))
  BY <1>1, <1>8 DEF Good
<1>10. d \in SoundCalls
  BY <1>1
<1> QED
  BY ONLY <1>2, <1>9, <1>10, Zenon DEF PoppedEach

GivenBack(x, seg, m) ==
    /\ m \in StoreStates /\ m.written = x.written /\ m.allocated = x.allocated
    /\ m.free_segs = Append(x.free_segs, seg)
    /\ \A s \in AllSegs : m.mem[s] = IF s = seg THEN Empty ELSE x.mem[s]

LEMMA GiveBackStep ==
    ASSUME NEW x \in StoreStates, NEW seg \in AllSegs, NEW m, m = GiveBack(x, seg)
    PROVE  GivenBack(x, seg, m)
<1>1. PICK lw \in Lists, lf \in Seq(AllSegs), lm \in [AllSegs -> Payloads \ Oversized],
           la \in 0 .. CAPACITY :
        x = [written |-> lw, free_segs |-> lf, mem |-> lm, allocated |-> la]
  BY DEF StoreStates
<1>2. PICK M : M = [lm EXCEPT ![seg] = Empty]
  OBVIOUS
<1>3. /\ M \in [AllSegs -> Payloads \ Oversized]
      /\ \A s \in AllSegs : M[s] = IF s = seg THEN Empty ELSE lm[s]
  BY <1>2, SegListAssumption
<1>6. Append(lf, seg) \in Seq(AllSegs)
  OBVIOUS
<1>4. PICK f \in Seq(AllSegs) : f = Append(lf, seg)
  BY ONLY <1>6, Zenon
<1>5. m = [written |-> lw, free_segs |-> f, mem |-> M, allocated |-> la]
  BY <1>1, <1>2, <1>4 DEF GiveBack
<1>7. m \in StoreStates
  BY ONLY <1>3, <1>5, lw \in Lists, f \in Seq(AllSegs), la \in 0 .. CAPACITY DEF StoreStates
<1>8. m.written = lw /\ m.free_segs = f /\ m.mem = M /\ m.allocated = la
  BY ONLY <1>5
<1>9. x.written = lw /\ x.free_segs = lf /\ x.mem = lm /\ x.allocated = la
  BY ONLY <1>1
<1> QED
  BY ONLY <1>3, <1>4, <1>7, <1>8, <1>9, Zenon DEF GivenBack

LEMMA GiveBackLoop ==
    ASSUME NEW l \in StoreStates, NEW segs \in Seq(AllSegs)
    PROVE  \E after \in [0 .. Len(segs) -> StoreStates] :
              /\ GiveBackEach(l, segs) = after[Len(segs)] /\ after[0] = l
              /\ \A i \in 1 .. Len(segs) : after[i] = GiveBack(after[i - 1], segs[i])
<1>1. PICK N \in Nat : N = Len(segs)
  OBVIOUS
<1> DEFINE Round(i, x) == GiveBack(x, segs[i])
           Body(g) == [i \in 0 .. N |-> IF i = 0 THEN l ELSE Round(i, g[i - 1])]
<1>2. ASSUME NEW i \in 1 .. N, NEW x \in StoreStates PROVE Round(i, x) \in StoreStates
  <2>1. segs[i] \in AllSegs
    BY <1>1
  <2> QED
    BY <2>1, GiveBackStep DEF GivenBack
<1> HIDE DEF Round
<1>3. PICK D : D = [i \in 1 .. N |-> [x \in StoreStates |-> Round(i, x)]]
  OBVIOUS
<1>4. D \in Rounds(StoreStates, N)
  BY <1>2, <1>3 DEF Rounds
<1>14. PICK g : Loops(StoreStates, N, l, D, g)
  BY ONLY <1>4, N \in Nat, l \in StoreStates, FiniteRecursion, Zenon
<1>5. g \in [0 .. N -> StoreStates] /\ g[0] = l /\ \A i \in 1 .. N : g[i] = D[i][g[i - 1]]
  BY <1>14 DEF Loops
<1>6. \A i \in 1 .. N : i - 1 \in 0 .. N /\ g[i] = Round(i, g[i - 1])
  BY <1>3, <1>5
<1>7. g = Body(g)
  BY <1>5, <1>6
<1>8. PICK after : after = CHOOSE f : f = Body(f)
  OBVIOUS
<1>9. after = Body(after)
  BY <1>7, <1>8
<1>10. after[0] = l /\ \A i \in 1 .. N : after[i] = Round(i, after[i - 1])
  BY <1>9
<1>11. \A n \in 0 .. N : after[n] = g[n]
  <2> DEFINE Good == {n \in 0 .. N : after[n] = g[n]}
  <2>1. 0 \in Good
    BY <1>5, <1>10
  <2>2. \A n \in 1 .. N : n - 1 \in Good => n \in Good
    BY <1>6, <1>10
  <2> HIDE DEF Good
  <2>3. \A n \in 0 .. N : n \in Good
    BY <2>1, <2>2, IntervalInduction
  <2> QED
    BY <2>3 DEF Good
<1>12. after \in [0 .. N -> StoreStates]
  <2>1. after = [i \in 0 .. N |-> after[i]]
    BY <1>9
  <2>2. \A i \in 0 .. N : after[i] \in StoreStates
    BY <1>5, <1>11
  <2> QED
    BY ONLY <2>1, <2>2
<1>13. GiveBackEach(l, segs) = after[N]
  BY <1>1, <1>8 DEF GiveBackEach, Round
<1> QED
  BY <1>1, <1>10, <1>12, <1>13 DEF Round

AllGivenBack(l, segs, m) ==
    /\ m \in StoreStates /\ m.written = l.written /\ m.allocated = l.allocated
    /\ m.free_segs = l.free_segs \o segs
    /\ \A s \in AllSegs : m.mem[s] = IF s \in ToSet(segs) THEN Empty ELSE l.mem[s]

\* drain and flush give every segment of the run back, in order and zeroed.
LEMMA GiveBackEachStep ==
    ASSUME NEW l \in StoreStates, NEW segs \in Seq(AllSegs), NEW m, m = GiveBackEach(l, segs)
    PROVE  AllGivenBack(l, segs, m)
<1>1. PICK N \in Nat : N = Len(segs)
  OBVIOUS
<1>2. PICK after \in [0 .. N -> StoreStates] :
        /\ m = after[N] /\ after[0] = l
        /\ \A i \in 1 .. N : after[i] = GiveBack(after[i - 1], segs[i])
  BY <1>1, GiveBackLoop
<1>3. l.free_segs \in Seq(AllSegs)
  BY DEF StoreStates
<1> DEFINE Free(x, n) == x.free_segs = l.free_segs \o SubSeq(segs, 1, n)
           Kept(x) == x.written = l.written /\ x.allocated = l.allocated
           Zeroed(x, n) == \A s \in AllSegs : x.mem[s] = IF \E i \in 1 .. n : segs[i] = s
                                                           THEN Empty ELSE l.mem[s]
           Good == {n \in 0 .. N : Free(after[n], n) /\ Kept(after[n]) /\ Zeroed(after[n], n)}
<1>4. 0 \in Good
  <2>1. PICK e : e = SubSeq(segs, 1, 0)
    OBVIOUS
  <2>2. e = <<>>
    BY <2>1
  <2>3. l.free_segs \o e = l.free_segs
    BY <1>3, <2>2
  <2>4. Free(l, 0) /\ Kept(l)
    BY <2>1, <2>3
  <2>5. Zeroed(l, 0)
    OBVIOUS
  <2> HIDE DEF Free, Kept, Zeroed
  <2> QED
    BY <1>2, <2>4, <2>5
<1>5. ASSUME NEW n \in 1 .. N, n - 1 \in Good PROVE n \in Good
  <2>1. PICK x \in StoreStates : x = after[n - 1]
    BY <1>2
  <2>2. PICK y \in StoreStates : y = after[n]
    BY <1>2
  <2>3. PICK seg \in AllSegs : seg = segs[n]
    BY <1>1
  <2>4. /\ y.written = x.written /\ y.allocated = x.allocated
        /\ y.free_segs = Append(x.free_segs, seg)
        /\ \A s \in AllSegs : y.mem[s] = IF s = seg THEN Empty ELSE x.mem[s]
    <3>1. y = GiveBack(x, seg)
      BY <1>2, <2>1, <2>2, <2>3
    <3>2. GivenBack(x, seg, y)
      BY ONLY <3>1, x \in StoreStates, seg \in AllSegs, GiveBackStep
    <3> QED
      BY ONLY <3>2, Zenon DEF GivenBack
  <2>5. Free(x, n - 1) /\ Kept(x) /\ Zeroed(x, n - 1)
    BY <1>5, <2>1
  <2>6. Free(y, n)
    <3>1. PICK f \in Seq(AllSegs) : f = l.free_segs
      BY <1>3
    <3>2. Append(f \o SubSeq(segs, 1, n - 1), segs[n]) = f \o SubSeq(segs, 1, n)
      BY ONLY <1>1, f \in Seq(AllSegs), segs \in Seq(AllSegs), n \in 1 .. N, AppendPrefix
    <3> QED
      BY ONLY <2>3, <2>4, <2>5, <3>1, <3>2, Zenon
  <2>7. Kept(y)
    BY <2>4, <2>5
  <2>8. Zeroed(y, n)
    <3> SUFFICES ASSUME NEW s \in AllSegs
                 PROVE  y.mem[s] = IF \E i \in 1 .. n : segs[i] = s THEN Empty ELSE l.mem[s]
      OBVIOUS
    <3>1. (\E i \in 1 .. n : segs[i] = s) <=> (s = seg \/ \E i \in 1 .. n - 1 : segs[i] = s)
      BY <2>3
    <3>2. y.mem[s] = IF s = seg THEN Empty ELSE x.mem[s]
      BY <2>4
    <3>3. x.mem[s] = IF \E i \in 1 .. n - 1 : segs[i] = s THEN Empty ELSE l.mem[s]
      BY <2>5
    <3> QED
      BY ONLY <3>1, <3>2, <3>3, Zenon
  <2>9. n \in 0 .. N
    OBVIOUS
  <2> HIDE DEF Free, Kept, Zeroed
  <2> QED
    BY <2>2, <2>6, <2>7, <2>8, <2>9
<1>6. \A n \in 1 .. N : n - 1 \in Good => n \in Good
  BY <1>5
<1> HIDE DEF Good
<1>7. \A n \in 0 .. N : n \in Good
  BY ONLY <1>4, <1>6, N \in Nat, IntervalInduction
<1>8. N \in Good
  BY <1>7
<1>9. Free(m, N) /\ Kept(m) /\ Zeroed(m, N)
  BY <1>2, <1>8 DEF Good
<1>10. SubSeq(segs, 1, N) = segs
  BY <1>1
<1>11. \A s : (\E i \in 1 .. N : segs[i] = s) <=> s \in ToSet(segs)
  BY <1>1 DEF ToSet
<1>12. m \in StoreStates
  BY <1>2
<1> QED
  BY ONLY <1>9, <1>10, <1>11, <1>12, Zenon DEF AllGivenBack

LEMMA DrainRun ==
    ASSUME NEW l \in SoundStores, NEW key \in Keys, key \in DOMAIN l.written,
           NEW a, NEW b, NEW run, NEW rest, IsDrain(Segs(l, key), a, b, run, rest),
           NEW m, m = GiveBackEach([l EXCEPT !.written[key] = rest], run)
    PROVE  Taken(l, key, a, b, m)
<1>1. PICK lw \in Lists, lf \in Seq(AllSegs), lm \in [AllSegs -> Payloads \ Oversized],
           la \in 0 .. CAPACITY :
        l = [written |-> lw, free_segs |-> lf, mem |-> lm, allocated |-> la]
  BY DEF SoundStores, StoreStates
<1>2. l \in StoreStates /\ l.written = lw /\ l.free_segs = lf /\ l.mem = lm /\ l.allocated = la
  BY <1>1 DEF SoundStores
<1>3. PICK old \in Seq(AllSegs) : old = Segs(l, key)
  BY <1>2, SegsAre
<1>4. run \in Seq(AllSegs) /\ rest \in Seq(AllSegs)
  BY <1>3, DrainElements
<1>5. PICK w : w = [lw EXCEPT ![key] = rest]
  OBVIOUS
<1>6. w \in Lists
  <2>1. \/ w = SetSegs(l.written, key, rest)
        \/ key \in DOMAIN l.written /\ w = [l.written EXCEPT ![key] = rest]
    BY <1>2, <1>5
  <2> QED
    BY ONLY <1>2, <1>4, <2>1, key \in Keys, SetSegsFacts, Zenon
<1>7. PICK g : g = [written |-> w, free_segs |-> lf, mem |-> lm, allocated |-> la]
  OBVIOUS
<1>8. [l EXCEPT !.written[key] = rest] = g
  BY ONLY <1>1, <1>5, <1>7
<1>9. g \in StoreStates /\ g.written = w /\ g.free_segs = lf /\ g.mem = lm /\ g.allocated = la
  BY <1>6, <1>7 DEF StoreStates
<1>10. /\ m \in StoreStates /\ m.written = w /\ m.allocated = la
       /\ m.free_segs = lf \o run
       /\ \A s \in AllSegs : m.mem[s] = IF s \in ToSet(run) THEN Empty ELSE lm[s]
  <2>1. m = GiveBackEach(g, run)
    BY <1>8
  <2>2. /\ m \in StoreStates /\ m.written = g.written /\ m.allocated = g.allocated
        /\ m.free_segs = g.free_segs \o run
        /\ \A s \in AllSegs : m.mem[s] = IF s \in ToSet(run) THEN Empty ELSE g.mem[s]
    <3>1. AllGivenBack(g, run, m)
      BY ONLY <1>4, <1>9, <2>1, GiveBackEachStep
    <3> QED
      BY ONLY <3>1, Zenon DEF AllGivenBack
  <2> QED
    BY ONLY <1>9, <2>2, Zenon
<1>11. Drained(l, key, run, rest, m)
  <2>1. PICK M \in [AllSegs -> Payloads \ Oversized] : M = m.mem
    BY <1>10 DEF StoreStates
  <2>2. m = [written |-> m.written, free_segs |-> m.free_segs, mem |-> m.mem,
             allocated |-> m.allocated]
    BY <1>10 DEF StoreStates
  <2>3. m = [written |-> w, free_segs |-> lf \o run, mem |-> M, allocated |-> la]
    BY ONLY <1>10, <2>1, <2>2, Zenon
  <2>4. m = [written |-> [l.written EXCEPT ![key] = rest], free_segs |-> l.free_segs \o run,
             mem |-> M, allocated |-> l.allocated]
    BY ONLY <1>2, <1>5, <2>3, Zenon
  <2>5. \A s \in AllSegs : M[s] = IF s \in ToSet(run) THEN Empty ELSE l.mem[s]
    BY ONLY <1>2, <1>10, <2>1, Zenon
  <2> QED
    BY ONLY <2>4, <2>5, M \in [AllSegs -> Payloads \ Oversized], Zenon DEF Drained
<1>12. Takes(l, key, a, b, m)
  BY ONLY <1>11, key \in DOMAIN l.written, IsDrain(Segs(l, key), a, b, run, rest), Zenon DEF Takes
<1> QED
  BY ONLY <1>12, l \in SoundStores, key \in Keys, DrainStore
-----------------------------------------------------------------------------
(* The calls *)

\* What a call may do to the queues and answer, as AbstractList has it.
OneKey(l, m, key) == \A k \in Keys : k # key => View(m, k) = View(l, k)
SameQueues(l, m)  == \A k \in Keys : View(m, k) = View(l, k)

PushedOne(l, m, op, ok, n, out) ==
    \E key \in Keys, item \in Payloads :
        /\ OneKey(l, m, key) /\ View(m, key) = Append(View(l, key), item)
        /\ op = "push" /\ ok /\ n = 0 /\ out = <<>>

PushedSome(l, m, op, ok, n, out) ==
    \E key \in Keys, items \in Batches : \E x \in 0 .. Len(items) :
        /\ OneKey(l, m, key) /\ View(m, key) = View(l, key) \o SubSeq(items, 1, x)
        /\ op = "push_range" /\ (ok <=> x = Len(items)) /\ n = 0 /\ out = <<>>

\* Which items a pop, a pop_count and a pop_range take.
RunOf(op, n, from, to) ==
    \/ op = "pop" /\ n = 1 /\ from = 0 /\ to = 1
    \/ op = "pop_count" /\ n \in Nat /\ from = 0 /\ to = n + 1
    \/ op = "pop_range" /\ n = to - from

TookSome(l, m, op, ok, n, out) ==
    \E key \in Keys : \E to \in 0 .. Len(View(l, key)) : \E from \in 0 .. to :
        /\ Taken(l, key, from, to, m) /\ ok /\ out = SubSeq(View(l, key), from + 1, to)
        /\ RunOf(op, n, from, to)

TookAll(l, m, op, ok, n, out) ==
    \E key \in Keys : /\ OneKey(l, m, key) /\ View(m, key) = <<>> /\ n = 0 /\ out = <<>>
                      /\ (op = "flush" /\ ok) \/ (op = "pop_count" /\ ~ok)

CountedOne(l, m, op, ok, n, out) ==
    \E key \in Keys : /\ SameQueues(l, m) /\ op = "len" /\ ok
                      /\ n = Len(View(l, key)) /\ out = <<>>

Failed(l, m, op, ok, n, out) ==
    /\ SameQueues(l, m) /\ ~ok /\ n = 0 /\ out = <<>>
    /\ op \in {"push", "push_range", "pop", "pop_range", "flush"}

AbsStep(l, m, op, ok, n, out) ==
    \/ PushedOne(l, m, op, ok, n, out) \/ PushedSome(l, m, op, ok, n, out)
    \/ TookSome(l, m, op, ok, n, out)  \/ TookAll(l, m, op, ok, n, out)
    \/ CountedOne(l, m, op, ok, n, out)   \/ Failed(l, m, op, ok, n, out)

Good == /\ list' \in SoundStores /\ reply'.items \in Seq(Payloads)
        /\ AbsStep(list, list', reply'.op, reply'.result = "ok", reply'.n, reply'.items)

LEMMA CallIsSound ==
    ASSUME IInv
    PROVE  /\ Call \in SoundCalls /\ Call.list = list /\ Call.result = "ok" /\ Call.items = <<>>
           /\ list \in SoundStores /\ list \in StoreStates
<1>1. <<>> \in Seq(Payloads)
  OBVIOUS
<1>2. PICK none \in Seq(Payloads) : none = <<>>
  BY <1>1, Zenon
<1>3. Call = [list |-> list, result |-> "ok", items |-> none]
  BY <1>2 DEF Call
<1>4. list \in SoundStores /\ list \in StoreStates
  BY DEF IInv, SoundStores
<1> QED
  BY <1>2, <1>3, <1>4 DEF SoundCalls, Outcomes

\* A call that comes back with d leaves d's store and answers d's items, or none.
LEMMA Answered ==
    ASSUME NEW d \in SoundCalls, NEW op, NEW n, Returns(op, n, d)
    PROVE  /\ list' = d.list /\ list' \in SoundStores /\ reply'.items \in Seq(Payloads)
           /\ (reply'.result = "ok" <=> d.result = "ok")
           /\ (d.result = "ok" => reply'.items = d.items) /\ (d.result # "ok" => reply'.items = <<>>)
           /\ reply'.op = op /\ (d.result = "ok" => reply'.n = n) /\ (d.result # "ok" => reply'.n = 0)
<1>1. d.list \in SoundStores /\ d.items \in Seq(Payloads) /\ <<>> \in Seq(Payloads)
  BY DEF SoundCalls
<1>2. list' = d.list /\ reply' = [op |-> op, result |-> d.result,
                                  n |-> IF d.result = "ok" THEN n ELSE 0,
                                  items |-> IF d.result = "ok" THEN d.items ELSE <<>>]
  BY DEF Returns
<1>3. /\ reply'.result = d.result /\ reply'.items = IF d.result = "ok" THEN d.items ELSE <<>>
      /\ reply'.op = op /\ reply'.n = IF d.result = "ok" THEN n ELSE 0
  BY <1>2
<1> QED
  BY ONLY <1>1, <1>2, <1>3, Zenon

LEMMA BatchesAre ==
    /\ \A items \in Batches : items \in Seq(Payloads)
    /\ <<>> \in Batches /\ \A p \in Payloads : <<p>> \in Batches
<1>1. MaxBatch \in Nat /\ MaxBatch >= 1
  BY SegListAssumption
<1>2. Batches = UNION {[1 .. m -> Payloads] : m \in 0 .. MaxBatch}
  BY DEF Batches, BoundedSeq, SeqOf
<1>3. ASSUME NEW items \in Batches PROVE items \in Seq(Payloads)
  <2>1. PICK m \in 0 .. MaxBatch : items \in [1 .. m -> Payloads]
    BY <1>2
  <2> QED
    BY <1>1, <2>1
<1>4. <<>> \in Batches
  <2>1. <<>> \in [1 .. 0 -> Payloads] /\ 0 \in 0 .. MaxBatch
    BY <1>1
  <2> QED
    BY <1>2, <2>1
<1>5. ASSUME NEW p \in Payloads PROVE <<p>> \in Batches
  <2>1. <<p>> \in [1 .. 1 -> Payloads] /\ 1 \in 0 .. MaxBatch
    BY <1>1
  <2> QED
    BY <1>2, <2>1
<1> QED
  BY <1>3, <1>4, <1>5

\* The queue of a key of a sound store.
LEMMA QueueIs ==
    ASSUME NEW l \in SoundStores, NEW key
    PROVE  /\ View(l, key) \in Seq(Payloads) /\ Len(View(l, key)) \in Nat
           /\ Len(View(l, key)) = Len(Segs(l, key))
<1>1. l \in StoreStates
  BY DEF SoundStores
<1>2. View(l, key) \in Seq(Payloads \ Oversized) /\ Len(View(l, key)) = Len(Segs(l, key))
  BY <1>1, ViewIsAQueue
<1> QED
  BY <1>2

LEMMA PushGood ==
    ASSUME IInv, NEW key \in Keys, NEW p \in Payloads, push(key, p)
    PROVE  Good
<1>1. PICK c : c = Call
  OBVIOUS
<1>2. PICK d : d = PushOne(c, key, p)
  OBVIOUS
<1>3. c \in SoundCalls /\ c.result = "ok" /\ c.items = <<>> /\ c.list = list
  BY <1>1, CallIsSound
<1>4. /\ d \in SoundCalls /\ d.items = c.items
      /\ \A k \in Keys : k # key => View(d.list, k) = View(c.list, k)
      /\ View(d.list, key) = IF d.result = "ok" THEN Append(View(c.list, key), p)
                                                ELSE View(c.list, key)
  BY <1>2, <1>3, PushOneStep
<1>5. Returns("push", 0, d)
  BY <1>1, <1>2 DEF push
<1>6. /\ list' = d.list /\ list' \in SoundStores /\ reply'.items \in Seq(Payloads)
      /\ (reply'.result = "ok" <=> d.result = "ok") /\ reply'.items = <<>>
      /\ reply'.op = "push" /\ reply'.n = 0
  BY <1>3, <1>4, <1>5, Answered
<1>7. OneKey(list, list', key)
  BY <1>3, <1>4, <1>6 DEF OneKey
<1>8. CASE d.result = "ok"
  <2>1. View(list', key) = Append(View(list, key), p) /\ reply'.result = "ok"
    BY <1>3, <1>4, <1>6, <1>8
  <2>2. PushedOne(list, list', reply'.op, reply'.result = "ok", reply'.n, reply'.items)
    BY <1>6, <1>7, <2>1 DEF PushedOne
  <2> QED
    BY <1>6, <2>2 DEF AbsStep, Good
<1>9. CASE d.result # "ok"
  <2>1. SameQueues(list, list') /\ reply'.result # "ok"
    BY <1>3, <1>4, <1>6, <1>7, <1>9 DEF SameQueues, OneKey
  <2>2. Failed(list, list', reply'.op, reply'.result = "ok", reply'.n, reply'.items)
    BY <1>6, <2>1 DEF Failed
  <2> QED
    BY <1>6, <2>2 DEF AbsStep, Good
<1> QED
  BY <1>8, <1>9

LEMMA PushRangeGood ==
    ASSUME IInv, NEW key \in Keys, NEW items \in Batches, push_range(key, items)
    PROVE  Good
<1>1. PICK c : c = Call
  OBVIOUS
<1>2. PICK s : s = IF Len(list.free_segs) < Len(items) THEN grow_segs(c) ELSE c
  OBVIOUS
<1>3. PICK d : d = PushEach(s, key, items)
  OBVIOUS
<1>4. c \in SoundCalls /\ c.result = "ok" /\ c.items = <<>> /\ c.list = list
  BY <1>1, CallIsSound
<1>5. s \in SoundCalls /\ s.items = <<>> /\ \A k \in Keys : View(s.list, k) = View(list, k)
  BY <1>2, <1>4, GrowStep
<1>6. items \in Seq(Payloads)
  BY BatchesAre
<1>7. /\ d \in SoundCalls /\ d.items = s.items
      /\ \A k \in Keys : k # key => View(d.list, k) = View(s.list, k)
      /\ s.result # "ok" => d = s
      /\ s.result = "ok" =>
           \E n \in 0 .. Len(items) :
               /\ View(d.list, key) = View(s.list, key) \o SubSeq(items, 1, n)
               /\ d.result = "ok" <=> n = Len(items)
  <2>1. PushedEach(s, key, items, d)
    BY ONLY <1>3, <1>5, <1>6, key \in Keys, PushEachStep
  <2> QED
    BY ONLY <2>1, Zenon DEF PushedEach
<1>8. Returns("push_range", 0, d)
  BY <1>1, <1>2, <1>3 DEF push_range
<1>9. /\ list' = d.list /\ list' \in SoundStores /\ reply'.items \in Seq(Payloads)
      /\ (reply'.result = "ok" <=> d.result = "ok") /\ reply'.items = <<>>
      /\ reply'.op = "push_range" /\ reply'.n = 0
  BY <1>5, <1>7, <1>8, Answered
<1>10. OneKey(list, list', key)
  BY <1>5, <1>7, <1>9 DEF OneKey
<1>11. CASE s.result # "ok"
  <2>1. SameQueues(list, list') /\ reply'.result # "ok"
    BY <1>5, <1>7, <1>9, <1>11 DEF SameQueues
  <2>2. Failed(list, list', reply'.op, reply'.result = "ok", reply'.n, reply'.items)
    BY <1>9, <2>1 DEF Failed
  <2> QED
    BY <1>9, <2>2 DEF AbsStep, Good
<1>12. CASE s.result = "ok"
  <2>1. PICK n \in 0 .. Len(items) :
               /\ View(d.list, key) = View(s.list, key) \o SubSeq(items, 1, n)
               /\ d.result = "ok" <=> n = Len(items)
    BY <1>7, <1>12
  <2>2. View(list', key) = View(list, key) \o SubSeq(items, 1, n)
    BY ONLY <1>5, <1>9, <2>1, key \in Keys, Zenon
  <2>3. reply'.result = "ok" <=> n = Len(items)
    BY <1>9, <2>1
  <2>4. PushedSome(list, list', reply'.op, reply'.result = "ok", reply'.n, reply'.items)
    BY <1>9, <1>10, <2>2, <2>3 DEF PushedSome
  <2> QED
    BY <1>9, <2>4 DEF AbsStep, Good
<1> QED
  BY <1>11, <1>12

LEMMA PopGood ==
    ASSUME IInv, NEW key \in Keys, pop(key)
    PROVE  Good
<1>1. PICK c : c = Call
  OBVIOUS
<1>2. PICK d : d = PopOne(c, key)
  OBVIOUS
<1>3. c \in SoundCalls /\ c.result = "ok" /\ c.items = <<>> /\ c.list = list /\ list \in SoundStores
  BY <1>1, CallIsSound
<1>4. PICK v \in Seq(Payloads) : v = View(list, key)
  BY <1>3, QueueIs
<1>5. /\ d \in SoundCalls
      /\ \A k \in Keys : k # key => View(d.list, k) = View(list, k)
      /\ v = <<>> => d.list = list /\ d.result = "KeyNotFound"
      /\ v # <<>> => /\ d.result = "ok" /\ View(d.list, key) = Tail(v)
                     /\ d.items = Append(c.items, Head(v))
  <2>1. /\ d \in SoundCalls
        /\ \A k \in Keys : k # key => View(d.list, k) = View(c.list, k)
        /\ View(c.list, key) = <<>> =>
             d.list = c.list /\ d.result = "KeyNotFound" /\ d.items = c.items
        /\ View(c.list, key) # <<>> =>
             /\ d.result = "ok" /\ View(d.list, key) = Tail(View(c.list, key))
             /\ d.items = Append(c.items, Head(View(c.list, key)))
    BY ONLY <1>2, <1>3, key \in Keys, PopOneStep
  <2> QED
    BY ONLY <1>3, <1>4, <2>1, Zenon
<1>6. Returns("pop", 1, d)
  BY <1>1, <1>2 DEF pop
<1>7. /\ list' = d.list /\ list' \in SoundStores /\ reply'.items \in Seq(Payloads)
      /\ (reply'.result = "ok" <=> d.result = "ok")
      /\ (d.result = "ok" => reply'.items = d.items) /\ (d.result # "ok" => reply'.items = <<>>)
      /\ reply'.op = "pop" /\ (d.result = "ok" => reply'.n = 1) /\ (d.result # "ok" => reply'.n = 0)
  BY <1>5, <1>6, Answered
<1>8. CASE v = <<>>
  <2>1. SameQueues(list, list') /\ reply'.result # "ok" /\ reply'.items = <<>> /\ reply'.n = 0
    BY <1>5, <1>7, <1>8 DEF SameQueues
  <2>2. Failed(list, list', reply'.op, reply'.result = "ok", reply'.n, reply'.items)
    BY <1>7, <2>1 DEF Failed
  <2> QED
    BY <1>7, <2>2 DEF AbsStep, Good
<1>9. CASE v # <<>>
  <2>1. PICK a, b : a = 0 /\ b = 1
    OBVIOUS
  <2>2. Tail(v) = SubSeq(v, 1, a) \o SubSeq(v, b + 1, Len(v)) /\ <<Head(v)>> = SubSeq(v, a + 1, b)
    <3>1. Tail(v) = SubSeq(v, 1, 0) \o SubSeq(v, 1 + 1, Len(v)) /\ <<Head(v)>> = SubSeq(v, 0 + 1, 1)
      BY ONLY <1>9, v \in Seq(Payloads), HeadDrain
    <3> QED
      BY ONLY <2>1, <3>1, Zenon
  <2>3. View(list', key) = SubSeq(v, 1, a) \o SubSeq(v, b + 1, Len(v))
    BY ONLY <1>5, <1>7, <1>9, <2>2, Zenon
  <2>4. Taken(list, key, a, b, list')
    <3>1. \A k \in Keys : k # key => View(list', k) = View(list, k)
      BY ONLY <1>5, <1>7, Zenon
    <3> QED
      BY ONLY <1>4, <1>7, <2>3, <3>1, Zenon DEF Taken
  <2>5. reply'.result = "ok" /\ reply'.items = SubSeq(v, a + 1, b)
    <3>1. Append(<<>>, Head(v)) = <<Head(v)>>
      BY <1>9
    <3> QED
      BY ONLY <1>3, <1>5, <1>7, <1>9, <2>2, <3>1, Zenon
  <2>6. b \in 0 .. Len(v) /\ a \in 0 .. b
    BY <1>9, <2>1
  <2>7. RunOf(reply'.op, reply'.n, a, b)
    BY <1>5, <1>7, <1>9, <2>1 DEF RunOf
  <2>8. TookSome(list, list', reply'.op, reply'.result = "ok", reply'.n, reply'.items)
    BY ONLY <1>4, <2>4, <2>5, <2>6, <2>7, key \in Keys, Zenon DEF TookSome
  <2> QED
    BY <1>7, <2>8 DEF AbsStep, Good
<1> QED
  BY <1>8, <1>9

LEMMA PopCountGood ==
    ASSUME IInv, NEW key \in Keys, NEW count \in Nat, pop_count(key, count)
    PROVE  Good
<1>1. PICK c : c = Call
  OBVIOUS
<1>2. PICK b \in Nat : b = count + 1
  OBVIOUS
<1>3. PICK d : d = PopEach(c, key, b)
  OBVIOUS
<1>4. c \in SoundCalls /\ c.result = "ok" /\ c.items = <<>> /\ c.list = list /\ list \in SoundStores
  BY <1>1, CallIsSound
<1>5. PICK v \in Seq(Payloads) : v = View(list, key)
  BY <1>4, QueueIs
<1>6. /\ d \in SoundCalls
      /\ \A k \in Keys : k # key => View(d.list, k) = View(list, k)
      /\ d.result # "ok" => View(d.list, key) = <<>>
      /\ d.result = "ok" => /\ b <= Len(v) /\ View(d.list, key) = SubSeq(v, b + 1, Len(v))
                            /\ d.items = SubSeq(v, 1, b)
  <2>1. PoppedEach(c, key, b, d)
    BY ONLY <1>3, <1>4, b \in Nat, key \in Keys, PopEachStep
  <2> QED
    BY ONLY <1>4, <1>5, <2>1, Zenon DEF PoppedEach
<1>7. Returns("pop_count", count, d)
  BY <1>1, <1>2, <1>3 DEF pop_count
<1>8. /\ list' = d.list /\ list' \in SoundStores /\ reply'.items \in Seq(Payloads)
      /\ (reply'.result = "ok" <=> d.result = "ok")
      /\ (d.result = "ok" => reply'.items = d.items) /\ (d.result # "ok" => reply'.items = <<>>)
      /\ reply'.op = "pop_count"
      /\ (d.result = "ok" => reply'.n = count) /\ (d.result # "ok" => reply'.n = 0)
  BY <1>6, <1>7, Answered
<1>9. \A k \in Keys : k # key => View(list', k) = View(list, k)
  BY ONLY <1>6, <1>8, Zenon
<1>12. OneKey(list, list', key)
  BY <1>9 DEF OneKey
<1>10. CASE d.result # "ok"
  <2>1. View(list', key) = <<>> /\ reply'.items = <<>> /\ reply'.n = 0 /\ reply'.result # "ok"
    BY <1>6, <1>8, <1>10
  <2>2. TookAll(list, list', reply'.op, reply'.result = "ok", reply'.n, reply'.items)
    BY <1>8, <1>12, <2>1 DEF TookAll
  <2> QED
    BY <1>8, <2>2 DEF AbsStep, Good
<1>11. CASE d.result = "ok"
  <2>1. PICK a : a = 0
    OBVIOUS
  <2>2. b \in 0 .. Len(v) /\ a \in 0 .. b
    BY <1>6, <1>11, <2>1
  <2>3. SubSeq(v, b + 1, Len(v)) = SubSeq(v, 1, a) \o SubSeq(v, b + 1, Len(v))
    <3>1. SubSeq(v, 1, a) = <<>>
      BY <2>1
    <3>2. SubSeq(v, b + 1, Len(v)) \in Seq(Payloads)
      BY <2>2
    <3>3. PICK y \in Seq(Payloads) : y = SubSeq(v, b + 1, Len(v))
      BY ONLY <3>2, Zenon
    <3>4. <<>> \o y = y
      OBVIOUS
    <3> QED
      BY ONLY <3>1, <3>3, <3>4, Zenon
  <2>4. Taken(list, key, a, b, list')
    <3>1. View(list', key) = SubSeq(v, 1, a) \o SubSeq(v, b + 1, Len(v))
      BY ONLY <1>6, <1>8, <1>11, <2>3, Zenon
    <3> QED
      BY ONLY <1>5, <1>8, <1>9, <3>1, Zenon DEF Taken
  <2>5. a + 1 = 1
    BY <2>1
  <2>6. reply'.result = "ok" /\ reply'.items = SubSeq(v, a + 1, b)
    BY ONLY <1>6, <1>8, <1>11, <2>5, Zenon
  <2>7. RunOf(reply'.op, reply'.n, a, b)
    BY <1>2, <1>8, <1>11, <2>1 DEF RunOf
  <2>8. TookSome(list, list', reply'.op, reply'.result = "ok", reply'.n, reply'.items)
    BY ONLY <1>5, <2>2, <2>4, <2>6, <2>7, key \in Keys, Zenon DEF TookSome
  <2> QED
    BY <1>8, <2>8 DEF AbsStep, Good
<1> QED
  BY <1>10, <1>11

\* len touches no queue: the entry it may make is empty.
LEMMA LenGood ==
    ASSUME IInv, NEW key \in Keys, len(key)
    PROVE  Good
<1>1. list \in SoundStores /\ list \in StoreStates
  BY CallIsSound
<1>2. PICK l : l = list
  OBVIOUS
<1>3. PICK lw \in Lists, lf \in Seq(AllSegs), lm \in [AllSegs -> Payloads \ Oversized],
           la \in 0 .. CAPACITY :
        l = [written |-> lw, free_segs |-> lf, mem |-> lm, allocated |-> la]
  BY <1>1, <1>2 DEF StoreStates
<1>4. PICK old \in Seq(AllSegs) : old = Segs(l, key)
  BY <1>1, <1>2, SegsAre
<1>5. PICK w : w = SetSegs(l.written, key, old)
  OBVIOUS
<1>6. /\ w \in Lists
      /\ \A k \in Keys : (IF k \in DOMAIN w THEN w[k] ELSE <<>>) = IF k = key THEN old ELSE Segs(l, k)
  <2>1. l \in StoreStates
    BY <1>1, <1>2
  <2>2. \/ w = SetSegs(l.written, key, old)
        \/ key \in DOMAIN l.written /\ w = [l.written EXCEPT ![key] = old]
    BY <1>5
  <2> QED
    BY ONLY <2>1, <2>2, key \in Keys, old \in Seq(AllSegs), SetSegsFacts, Zenon
<1>7. PICK m : m = [written |-> w, free_segs |-> lf, mem |-> lm, allocated |-> la]
  OBVIOUS
<1>8. list' = m
  <2>1. list' = [l EXCEPT !.written = w]
    BY <1>2, <1>4, <1>5 DEF len
  <2> QED
    BY ONLY <1>3, <1>7, <2>1
<1>9. m.written = w /\ m.free_segs = l.free_segs /\ m.mem = l.mem /\ m.allocated = l.allocated
  BY <1>3, <1>7
<1>10. \A k \in Keys : Segs(m, k) = Segs(l, k)
  BY ONLY <1>4, <1>6, <1>9, Zenon DEF Segs
<1>11. \A k \in Keys : View(m, k) = View(l, k)
  BY <1>9, <1>10 DEF View
<1>12. m \in SoundStores
  <2>1. m \in StoreStates
    BY <1>6, <1>7 DEF StoreStates
  <2>2. Sound(l)
    BY <1>1, <1>2 DEF SoundStores
  <2>3. Sound(m)
    BY ONLY <1>9, <1>10, <2>2 DEF Sound, Keeps
  <2> QED
    BY <2>1, <2>3 DEF SoundStores
<1>13. /\ reply'.items = <<>> /\ reply'.items \in Seq(Payloads) /\ reply'.result = "ok"
       /\ reply'.op = "len" /\ reply'.n = Len(Segs(list, key))
  BY DEF len
<1>14. Len(View(list, key)) = Len(Segs(list, key))
  BY <1>1, QueueIs
<1>15. list' \in SoundStores /\ SameQueues(list, list')
  BY ONLY <1>2, <1>8, <1>11, <1>12, Zenon DEF SameQueues
<1>16. CountedOne(list, list', reply'.op, reply'.result = "ok", reply'.n, reply'.items)
  BY <1>13, <1>14, <1>15 DEF CountedOne
<1> QED
  BY <1>13, <1>15, <1>16 DEF AbsStep, Good

LEMMA FlushGood ==
    ASSUME IInv, NEW key \in Keys, flush(key)
    PROVE  Good
<1>1. list \in SoundStores /\ list \in StoreStates
  BY CallIsSound
<1>2. PICK l : l = list
  OBVIOUS
<1>3. PICK c : c = Call
  OBVIOUS
<1>4. c \in SoundCalls /\ c.result = "ok" /\ c.items = <<>> /\ c.list = l
  BY <1>2, <1>3, CallIsSound
<1>5. PICK q \in Seq(Payloads) : c = [list |-> l, result |-> "ok", items |-> q] /\ q = <<>>
  BY <1>4 DEF SoundCalls
<1>6. CASE key \notin DOMAIN l.written
  <2>1. PICK d : d = [list |-> l, result |-> "KeyNotFound", items |-> q]
    OBVIOUS
  <2>2. Returns("flush", 0, d)
    BY <1>2, <1>3, <1>5, <1>6, <2>1 DEF flush, Errs
  <2>3. d \in SoundCalls
    BY <1>1, <1>2, <2>1 DEF SoundCalls, Outcomes
  <2>4. d.list = l /\ d.result # "ok"
    BY <2>1
  <2>5. list' = l /\ list' \in SoundStores /\ reply'.items = <<>> /\ reply'.items \in Seq(Payloads)
        /\ reply'.result # "ok" /\ reply'.op = "flush" /\ reply'.n = 0
    BY <2>2, <2>3, <2>4, Answered
  <2>6. SameQueues(list, list')
    BY <1>2, <2>5 DEF SameQueues
  <2>7. Failed(list, list', reply'.op, reply'.result = "ok", reply'.n, reply'.items)
    BY <2>5, <2>6 DEF Failed
  <2> QED
    BY <2>5, <2>7 DEF AbsStep, Good
<1>7. CASE key \in DOMAIN l.written
  <2>1. PICK old \in Seq(AllSegs) : old = Segs(l, key)
    BY <1>1, <1>2, SegsAre
  <2>2. l.written[key] = old
    BY <1>7, <2>1 DEF Segs
  <2>3. PICK b : b = Len(old)
    OBVIOUS
  <2>4. PICK a : a = 0
    OBVIOUS
  <2>5. PICK rest : rest = <<>>
    OBVIOUS
  <2>6. IsDrain(old, a, b, old, rest)
    BY <2>3, <2>4, <2>5, WholeDrain
  <2>7. PICK m : m = GiveBackEach([l EXCEPT !.written[key] = rest], old)
    OBVIOUS
  <2>8. Taken(l, key, a, b, m)
    <3>1. l \in SoundStores
      BY <1>1, <1>2
    <3>2. IsDrain(Segs(l, key), a, b, old, rest)
      BY <2>1, <2>6
    <3> QED
      BY ONLY <1>7, <2>7, <3>1, <3>2, key \in Keys, DrainRun
  <2>9. PICK d : d = [list |-> m, result |-> "ok", items |-> q]
    OBVIOUS
  <2>10. Returns("flush", 0, d)
    <3>1. [c EXCEPT !.list = m] = d
      BY <1>5, <2>9
    <3>2. [Call EXCEPT !.list = GiveBackEach([list EXCEPT !.written[key] = <<>>], list.written[key])] = d
      BY ONLY <1>2, <1>3, <2>2, <2>5, <2>7, <3>1, Zenon
    <3>3. key \in DOMAIN list.written
      BY <1>2, <1>7
    <3> QED
      BY <3>2, <3>3 DEF flush
  <2>11. m \in SoundStores
    BY <2>8 DEF Taken
  <2>12. d \in SoundCalls
    BY <2>9, <2>11 DEF SoundCalls, Outcomes
  <2>13. d.list = m /\ d.result = "ok" /\ d.items = <<>>
    BY <1>5, <2>9
  <2>14. list' = m /\ list' \in SoundStores /\ reply'.items = <<>> /\ reply'.items \in Seq(Payloads)
         /\ reply'.result = "ok" /\ reply'.op = "flush" /\ reply'.n = 0
    BY <2>10, <2>12, <2>13, Answered
  <2>15. PICK v \in Seq(Payloads) : v = View(l, key)
    BY <1>1, <1>2, QueueIs
  <2>16. Len(v) = b
    BY <1>1, <1>2, <2>1, <2>3, <2>15, QueueIs
  <2>17. View(m, key) = <<>>
    <3>1. View(m, key) = SubSeq(v, 1, a) \o SubSeq(v, b + 1, Len(v))
      BY ONLY <2>8, <2>15, Zenon DEF Taken
    <3>2. SubSeq(v, 1, 0) \o SubSeq(v, Len(v) + 1, Len(v)) = <<>>
      BY ONLY v \in Seq(Payloads), WholeDrain
    <3> QED
      BY ONLY <2>4, <2>16, <3>1, <3>2, Zenon
  <2>18. OneKey(list, list', key)
    BY ONLY <1>2, <2>8, <2>14, Zenon DEF Taken, OneKey
  <2>19. View(list', key) = <<>>
    BY <2>14, <2>17
  <2>20. TookAll(list, list', reply'.op, reply'.result = "ok", reply'.n, reply'.items)
    BY <2>14, <2>18, <2>19 DEF TookAll
  <2> QED
    BY <2>14, <2>20 DEF AbsStep, Good
<1> QED
  BY <1>6, <1>7

LEMMA PopRangeGood ==
    ASSUME IInv, NEW key \in Keys, NEW start \in Nat, NEW end \in Nat, pop_range(key, start, end)
    PROVE  Good
<1>1. list \in SoundStores /\ list \in StoreStates
  BY CallIsSound
<1>2. PICK l : l = list
  OBVIOUS
<1>3. PICK c : c = Call
  OBVIOUS
<1>4. c \in SoundCalls /\ c.result = "ok" /\ c.items = <<>> /\ c.list = l
  BY <1>2, <1>3, CallIsSound
<1>5. PICK q \in Seq(Payloads) : c = [list |-> l, result |-> "ok", items |-> q] /\ q = <<>>
  BY <1>4 DEF SoundCalls
<1>6. PICK old \in Seq(AllSegs) : old = Segs(l, key)
  BY <1>1, <1>2, SegsAre
<1>7. PICK run : run = SubSeq(old, start + 1, end)
  OBVIOUS
<1>8. PICK rest : rest = SubSeq(old, 1, start) \o SubSeq(old, end + 1, Len(old))
  OBVIOUS
<1>9. PICK took : took = [i \in 1 .. Len(run) |-> l.mem[run[i]]]
  OBVIOUS
<1>10. PICK m : m = GiveBackEach([l EXCEPT !.written[key] = rest], run)
  OBVIOUS
<1>11. Returns("pop_range", end - start,
            CASE key \notin DOMAIN l.written -> Errs(c, "KeyNotFound")
              [] key \in DOMAIN l.written /\ end > Len(old) -> Errs(c, "OutOfRange")
              [] key \in DOMAIN l.written /\ end <= Len(old) /\ start > end -> Errs(c, "panic")
              [] OTHER -> [c EXCEPT !.list = m, !.items = took])
  BY <1>2, <1>3, <1>6, <1>7, <1>8, <1>9, <1>10 DEF pop_range
<1>12. CASE \/ key \notin DOMAIN l.written \/ end > Len(old) \/ start > end
  <2>1. PICK r \in Outcomes \ {"ok"} : Returns("pop_range", end - start, Errs(c, r))
    BY <1>11, <1>12 DEF Outcomes
  <2>2. PICK d : d = [list |-> l, result |-> r, items |-> q]
    OBVIOUS
  <2>3. Returns("pop_range", end - start, d)
    BY <1>5, <2>1, <2>2 DEF Errs
  <2>4. d \in SoundCalls
    BY <1>1, <1>2, <2>2 DEF SoundCalls
  <2>5. d.list = l /\ d.result # "ok"
    BY <2>2
  <2>6. list' = l /\ list' \in SoundStores /\ reply'.items = <<>> /\ reply'.items \in Seq(Payloads)
        /\ reply'.result # "ok" /\ reply'.op = "pop_range" /\ reply'.n = 0
    BY <2>3, <2>4, <2>5, Answered
  <2>7. SameQueues(list, list')
    BY <1>2, <2>6 DEF SameQueues
  <2>8. Failed(list, list', reply'.op, reply'.result = "ok", reply'.n, reply'.items)
    BY <2>6, <2>7 DEF Failed
  <2> QED
    BY <2>6, <2>8 DEF AbsStep, Good
<1>13. CASE key \in DOMAIN l.written /\ end <= Len(old) /\ start <= end
  <2>1. start \in 0 .. end /\ end \in 0 .. Len(old) /\ end \in start .. Len(old)
        /\ start \in 0 .. Len(old) /\ ~(end > Len(old)) /\ ~(start > end)
    BY <1>13
  <2>2. IsDrain(old, start, end, run, rest)
    BY ONLY <1>7, <1>8, <2>1 DEF IsDrain
  <2>3. Taken(l, key, start, end, m)
    <3>1. l \in SoundStores
      BY <1>1, <1>2
    <3>2. IsDrain(Segs(l, key), start, end, run, rest)
      BY <1>6, <2>2
    <3> QED
      BY ONLY <1>10, <1>13, <3>1, <3>2, key \in Keys, DrainRun
  <2>4. took = SubSeq(View(l, key), start + 1, end) /\ took \in Seq(Payloads)
    <3>1. l \in StoreStates
      BY <1>1, <1>2
    <3>2. Holds(l, run, took)
      BY <1>9 DEF Holds
    <3> QED
      BY ONLY <1>6, <2>2, <3>1, <3>2, old \in Seq(AllSegs), DrainedItems
  <2>5. PICK d : d = [list |-> m, result |-> "ok", items |-> took]
    OBVIOUS
  <2>6. Returns("pop_range", end - start, d)
    <3>1. [c EXCEPT !.list = m, !.items = took] = d
      <4>1. PICK x : x = [list |-> m, result |-> "ok", items |-> q]
        OBVIOUS
      <4>2. [c EXCEPT !.list = m] = x
        BY ONLY <1>5, <4>1
      <4>3. [x EXCEPT !.items = took] = d
        BY ONLY <2>5, <4>1
      <4>4. [c EXCEPT !.list = m, !.items = took] = [[c EXCEPT !.list = m] EXCEPT !.items = took]
        OBVIOUS
      <4> QED
        BY ONLY <4>2, <4>3, <4>4
    <3> QED
      BY ONLY <1>11, <1>13, <2>1, <3>1
  <2>7. m \in SoundStores
    BY <2>3 DEF Taken
  <2>8. d \in SoundCalls
    BY <2>4, <2>5, <2>7 DEF SoundCalls, Outcomes
  <2>9. d.list = m /\ d.result = "ok" /\ d.items = took
    BY <2>5
  <2>10. list' = m /\ list' \in SoundStores /\ reply'.items = took /\ reply'.items \in Seq(Payloads)
         /\ reply'.result = "ok" /\ reply'.op = "pop_range" /\ reply'.n = end - start
    BY <2>6, <2>8, <2>9, Answered
  <2>11. Len(View(list, key)) = Len(old)
    BY <1>1, <1>2, <1>6, QueueIs
  <2>12. Taken(list, key, start, end, list') /\ reply'.items = SubSeq(View(list, key), start + 1, end)
         /\ end \in 0 .. Len(View(list, key))
    BY ONLY <1>2, <2>1, <2>3, <2>4, <2>10, <2>11, Zenon
  <2>13. RunOf(reply'.op, reply'.n, start, end)
    BY <2>10 DEF RunOf
  <2>14. TookSome(list, list', reply'.op, reply'.result = "ok", reply'.n, reply'.items)
    BY ONLY <2>1, <2>10, <2>12, <2>13, key \in Keys, Zenon DEF TookSome
  <2> QED
    BY <2>10, <2>14 DEF AbsStep, Good
<1> QED
  BY <1>12, <1>13
-----------------------------------------------------------------------------
(* The theorems *)

LEMMA InitSound == Init => IInv
<1> SUFFICES ASSUME Init PROVE IInv
  OBVIOUS
<1>1. CHUNK \in Nat /\ CHUNK >= 1 /\ CAPACITY \in Nat /\ CHUNK <= CAPACITY
      /\ Empty \in Payloads \ Oversized
  BY SegListAssumption
<1>2. PICK f : f = Fresh(1)
  OBVIOUS
<1>3. f \in Seq(1 .. CHUNK) /\ IsInjective(f) /\ ToSet(f) = 1 .. CHUNK
  <2>1. PICK z \in Nat : z = 0
    OBVIOUS
  <2>2. Fresh(z + 1) \in Seq(z + 1 .. z + CHUNK) /\ IsInjective(Fresh(z + 1))
        /\ ToSet(Fresh(z + 1)) = z + 1 .. z + CHUNK
    BY ONLY z \in Nat, FreshSegs
  <2>3. z + 1 = 1 /\ z + CHUNK = CHUNK
    BY <1>1, <2>1
  <2> QED
    BY ONLY <1>2, <2>2, <2>3, Zenon
<1>4. PICK w : w = [k \in {} |-> <<>>]
  OBVIOUS
<1>5. PICK M : M = [s \in 1 .. CAPACITY |-> Empty]
  OBVIOUS
<1>6. PICK l : l = [written |-> w, free_segs |-> f, mem |-> M, allocated |-> CHUNK]
  OBVIOUS
<1>7. list = l /\ reply.items \in Seq(Payloads)
  BY <1>2, <1>4, <1>5, <1>6 DEF Init
<1>8. w \in Lists /\ DOMAIN w = {}
  <2>1. DOMAIN w = {} /\ w = [k \in DOMAIN w |-> w[k]]
    BY <1>4
  <2>2. DOMAIN w \subseteq Keys /\ w \in [DOMAIN w -> Seq(AllSegs)]
    BY <2>1
  <2> QED
    BY <2>1, <2>2, ListsAre
<1>9. M \in [AllSegs -> Payloads \ Oversized] /\ \A s \in AllSegs : M[s] = Empty
  BY <1>1, <1>5 DEF AllSegs
<1>10. 1 .. CHUNK \subseteq AllSegs /\ CHUNK \in 0 .. CAPACITY
  BY <1>1 DEF AllSegs
<1>11. f \in Seq(AllSegs)
  BY <1>3, <1>10, WiderSeq
<1>12. l \in StoreStates
  BY ONLY <1>6, <1>8, <1>9, <1>10, <1>11 DEF StoreStates
<1>13. l.written = w /\ l.free_segs = f /\ l.mem = M /\ l.allocated = CHUNK
  BY <1>6
<1>14. \A k \in Keys : Segs(l, k) = <<>>
  BY <1>8, <1>13 DEF Segs
<1>15. <<>> \in Seq(1 .. CHUNK) /\ IsInjective(<<>>) /\ ToSet(<<>>) = {}
  BY DEF IsInjective, ToSet
<1>16. Sound(l)
  <2>1. Keeps(l, CHUNK)
    BY ONLY <1>3, <1>9, <1>13, <1>14, <1>15 DEF Keeps
  <2>2. CHUNK \in 0 .. l.allocated /\ Lost(l.allocated, CHUNK)
    BY <1>1, <1>13 DEF Lost
  <2> QED
    BY <2>1, <2>2 DEF Sound
<1> QED
  BY <1>7, <1>12, <1>16 DEF IInv, SoundStores

LEMMA NextGood ==
    ASSUME IInv, Next
    PROVE  Good
<1>1. PICK key \in Keys :
        \/ \E p \in Payloads : push(key, p) /\ Bounded(key)
        \/ pop(key)
        \/ \E items \in Batches : push_range(key, items) /\ Bounded(key)
        \/ \E count \in 0 .. MaxLen : pop_count(key, count)
        \/ \E start, end \in 0 .. MaxLen + 1 : pop_range(key, start, end)
        \/ len(key)
        \/ flush(key)
  BY DEF Next
<1>2. (\E p \in Payloads : push(key, p)) => Good
  BY PushGood
<1>3. pop(key) => Good
  BY PopGood
<1>4. (\E items \in Batches : push_range(key, items)) => Good
  BY PushRangeGood
<1>5. ASSUME NEW count \in 0 .. MaxLen, pop_count(key, count) PROVE Good
  <2>1. count \in Nat
    BY SegListAssumption
  <2> QED
    BY <1>5, <2>1, PopCountGood
<1>6. ASSUME NEW start \in 0 .. MaxLen + 1, NEW end \in 0 .. MaxLen + 1, pop_range(key, start, end)
      PROVE  Good
  <2>1. start \in Nat /\ end \in Nat
    BY SegListAssumption
  <2> QED
    BY <1>6, <2>1, PopRangeGood
<1>7. len(key) => Good
  BY LenGood
<1>8. flush(key) => Good
  BY FlushGood
<1> QED
  BY <1>1, <1>2, <1>3, <1>4, <1>5, <1>6, <1>7, <1>8

LEMMA InductiveInvariant == Spec => []IInv
<1>1. Init => IInv
  BY InitSound
<1>2. IInv /\ [Next]_vars => IInv'
  <2> SUFFICES ASSUME IInv, [Next]_vars PROVE IInv'
    OBVIOUS
  <2>1. CASE Next
    <3>1. Good
      BY <2>1, NextGood
    <3> QED
      BY <3>1 DEF Good, IInv
  <2>2. CASE UNCHANGED vars
    <3>1. list' = list /\ reply' = reply
      BY <2>2 DEF vars
    <3> QED
      BY <3>1 DEF IInv
  <2> QED
    BY <2>1, <2>2
<1> QED
  BY <1>1, <1>2, PTL DEF Spec

LEMMA SoundHas ==
    ASSUME IInv
    PROVE  /\ list.allocated \in 0 .. CAPACITY /\ DOMAIN list.written \subseteq Keys
           /\ list.mem \in [AllSegs -> Payloads \ Oversized] /\ Sound(list)
           /\ \A k \in DOMAIN list.written : k \in Keys /\ Segs(list, k) = list.written[k]
           /\ \A k \in Keys : k \notin DOMAIN list.written => Segs(list, k) = <<>>
<1>1. list \in StoreStates /\ Sound(list)
  BY DEF IInv, SoundStores
<1>2. list.allocated \in 0 .. CAPACITY /\ list.written \in Lists
      /\ list.mem \in [AllSegs -> Payloads \ Oversized]
  BY <1>1 DEF StoreStates
<1>3. DOMAIN list.written \subseteq Keys
  BY <1>2, ListsAre
<1> QED
  BY <1>1, <1>2, <1>3 DEF Segs

\* The pool, the lists and the memory of seg_list.rs keep their types: no list
\* or pool ever holds a segment that was not allocated, and no memory an item
\* that does not fit.
THEOREM TypesHold == Spec => []TypeOK
<1>1. IInv => TypeOK
  <2> SUFFICES ASSUME IInv PROVE TypeOK
    OBVIOUS
  <2>3. PICK P \in 0 .. list.allocated : Keeps(list, P)
    BY SoundHas DEF Sound
  <2>4. 1 .. P \subseteq Segments
    BY SoundHas, SegListAssumption DEF Segments
  <2>5. /\ list.free_segs \in Seq(1 .. P)
        /\ \A k \in DOMAIN list.written : list.written[k] \in Seq(1 .. P)
    BY <2>3, SoundHas DEF Keeps
  <2>1. /\ list.free_segs \in Seq(Segments)
        /\ \A k \in DOMAIN list.written : list.written[k] \in Seq(Segments)
    BY ONLY <2>4, <2>5, WiderSeq
  <2>2. reply.items \in Seq(Payloads)
    BY DEF IInv
  <2> QED
    BY <2>1, <2>2, SoundHas DEF TypeOK, AllSegs
<1> QED
  BY <1>1, InductiveInvariant, PTL

\* What pop_one, pop_range and flush give back is zeroed, and what grow_segs
\* adds is: memory of a segment that no list owns spells the empty item.
THEOREM PoolIsZeroed == Spec => []FreeSegmentsAreZeroed
<1>1. IInv => FreeSegmentsAreZeroed
  <2> SUFFICES ASSUME IInv, NEW seg \in 1 .. CAPACITY, list.mem[seg] # Empty
               PROVE  \E k \in DOMAIN list.written : Contains(list.written[k], seg)
    BY DEF FreeSegmentsAreZeroed
  <2>6. PICK P \in 0 .. list.allocated : Keeps(list, P)
    BY SoundHas DEF Sound
  <2>1. PICK k \in Keys : seg \in ToSet(Segs(list, k))
    BY <2>6 DEF Keeps, AllSegs
  <2>2. Segs(list, k) # <<>>
    BY <2>1 DEF ToSet
  <2>3. k \in DOMAIN list.written /\ Segs(list, k) = list.written[k]
    BY <2>2, SoundHas
  <2>4. PICK s \in Seq(1 .. P) : s = Segs(list, k)
    BY <2>6 DEF Keeps
  <2>5. \E i \in 1 .. Len(s) : s[i] = seg
    BY <2>1, <2>4 DEF ToSet
  <2> QED
    BY <2>3, <2>4, <2>5 DEF Contains
<1> QED
  BY <1>1, InductiveInvariant, PTL

\* Where a segment is, in terms of the pool and of the lists.
LEMMA PlacesAre ==
    ASSUME IInv, NEW P \in 0 .. list.allocated, Keeps(list, P), NEW seg
    PROVE  /\ \A x : x \in Places(seg) <=>
                \/ \E i \in DOMAIN list.free_segs : list.free_segs[i] = seg /\ x = <<"free", i>>
                \/ \E k \in DOMAIN list.written : \E i \in DOMAIN list.written[k] :
                       list.written[k][i] = seg /\ x = <<k, i>>
           /\ Places(seg) # {} <=> \/ seg \in ToSet(list.free_segs)
                                  \/ \E k \in DOMAIN list.written : seg \in ToSet(list.written[k])
<1>1. PICK free, w : free = list.free_segs /\ w = list.written
  OBVIOUS
<1>2. /\ free \in Seq(1 .. P) /\ \A k \in DOMAIN w : w[k] \in Seq(1 .. P)
  BY <1>1, SoundHas DEF Keeps
<1>3. DOMAIN free = 1 .. Len(free) /\ \A k \in DOMAIN w : DOMAIN w[k] = 1 .. Len(w[k])
  BY <1>2
<1>4. \A x : x \in Places(seg) <=>
          \/ \E i \in DOMAIN free : free[i] = seg /\ x = <<"free", i>>
          \/ \E k \in DOMAIN w : \E i \in DOMAIN w[k] : w[k][i] = seg /\ x = <<k, i>>
  BY <1>1, <1>3 DEF Places
<1>5. Places(seg) # {} <=> \E x : x \in Places(seg)
  OBVIOUS
<1>6. /\ seg \in ToSet(free) <=> \E i \in DOMAIN free : free[i] = seg
      /\ \A k \in DOMAIN w : seg \in ToSet(w[k]) <=> \E i \in DOMAIN w[k] : w[k][i] = seg
  BY DEF ToSet
<1>7. (\E x : x \in Places(seg)) <=> seg \in ToSet(free) \/ \E k \in DOMAIN w : seg \in ToSet(w[k])
  BY ONLY <1>4, <1>6, Zenon
<1>8. Places(seg) # {} <=> seg \in ToSet(free) \/ \E k \in DOMAIN w : seg \in ToSet(w[k])
  BY ONLY <1>5, <1>7
<1> QED
  BY <1>1, <1>4, <1>8

\* A segment that is somewhere is there only.
LEMMA OnePlace ==
    ASSUME IInv, NEW P \in 0 .. list.allocated, Keeps(list, P), NEW seg, Places(seg) # {}
    PROVE  \E place \in Places(seg) : Places(seg) = {place}
<1>2. PICK free : free = list.free_segs
  OBVIOUS
<1>3. PICK w : w = list.written
  OBVIOUS
<1>4. IsInjective(free) /\ \A k \in DOMAIN w :
          /\ w[k] \in Seq(1 .. P) /\ IsInjective(w[k])
          /\ ToSet(w[k]) \cap ToSet(free) = {}
  BY <1>2, <1>3, SoundHas DEF Keeps
<1>5. \A j, k \in DOMAIN w : j # k => ToSet(w[j]) \cap ToSet(w[k]) = {}
  BY <1>3, SoundHas DEF Keeps
<1>6. seg \in ToSet(free) \/ \E k \in DOMAIN w : seg \in ToSet(w[k])
  BY <1>2, <1>3, PlacesAre
<1>8. \A x : x \in Places(seg) <=>
          \/ \E i \in DOMAIN free : free[i] = seg /\ x = <<"free", i>>
          \/ \E k \in DOMAIN w : \E i \in DOMAIN w[k] : w[k][i] = seg /\ x = <<k, i>>
  BY <1>2, <1>3, PlacesAre
<1>9. CASE seg \in ToSet(free)
  <2>1. PICK i \in DOMAIN free : free[i] = seg
    BY <1>9 DEF ToSet
  <2>2. \A j \in DOMAIN free : free[j] = seg => j = i
    BY <1>4, <2>1 DEF IsInjective
  <2>3. \A k \in DOMAIN w : \A j \in DOMAIN w[k] : w[k][j] # seg
    BY <1>4, <1>9 DEF ToSet
  <2>4. \A x : x \in Places(seg) <=> x = <<"free", i>>
    BY ONLY <1>8, <2>1, <2>2, <2>3, i \in DOMAIN free, Zenon
  <2>6. PICK place, all : place = <<"free", i>> /\ all = Places(seg)
    OBVIOUS
  <2>7. \A x : x \in all <=> x = place
    BY ONLY <2>4, <2>6, Zenon
  <2>8. place \in all /\ all = {place}
    BY ONLY <2>7
  <2> QED
    BY ONLY <2>6, <2>8, Zenon
<1>10. CASE seg \notin ToSet(free)
  <2>1. PICK k \in DOMAIN w : seg \in ToSet(w[k])
    BY <1>6, <1>10
  <2>2. PICK i \in DOMAIN w[k] : w[k][i] = seg
    BY <2>1 DEF ToSet
  <2>3. \A j \in DOMAIN free : free[j] # seg
    BY <1>10 DEF ToSet
  <2>4. ASSUME NEW j \in DOMAIN w, NEW n \in DOMAIN w[j], w[j][n] = seg PROVE j = k /\ n = i
    <3>1. seg \in ToSet(w[j])
      BY <2>4 DEF ToSet
    <3>2. j = k
      BY <1>5, <2>1, <3>1
    <3>3. IsInjective(w[k])
      BY <1>4
    <3> QED
      BY <2>2, <2>4, <3>2, <3>3 DEF IsInjective
  <2>5. \A x : x \in Places(seg) <=> x = <<k, i>>
    BY ONLY <1>8, <2>2, <2>3, <2>4, k \in DOMAIN w, i \in DOMAIN w[k], Zenon
  <2>6. PICK place, all : place = <<k, i>> /\ all = Places(seg)
    OBVIOUS
  <2>7. \A x : x \in all <=> x = place
    BY ONLY <2>5, <2>6, Zenon
  <2>8. place \in all /\ all = {place}
    BY ONLY <2>7
  <2> QED
    BY ONLY <2>6, <2>8, Zenon
<1> QED
  BY <1>9, <1>10

\* No pointer is used by two lists or freed twice: through every partial push,
\* failed pop, drain and flush a segment is at one position of the pool or of
\* one list, and at no other.  What is at none was given to a grow_segs that
\* found the allocator dry and panicked, and that is less than a chunk.
THEOREM OneOwnerEach == Spec => []EverySegmentHasOnePlace
<1>1. IInv => EverySegmentHasOnePlace
  <2> SUFFICES ASSUME IInv PROVE EverySegmentHasOnePlace
    OBVIOUS
  <2>1. PICK P \in 0 .. list.allocated : Keeps(list, P) /\ Lost(list.allocated, P)
    BY SoundHas DEF Sound
  <2>2. PICK a \in 0 .. CAPACITY : a = list.allocated
    BY SoundHas
  <2>3. P \in Nat /\ a \in Nat /\ P <= a /\ CHUNK \in Nat /\ CHUNK >= 1 /\ CAPACITY \in Nat
    BY <2>1, <2>2, SegListAssumption
  <2>4. PICK lost : lost = {seg \in Segments : Places(seg) = {}}
    OBVIOUS
  <2>5. \A seg \in Segments \ lost : \E place \in Places(seg) : Places(seg) = {place}
    BY <2>1, <2>4, OnePlace
  <2>6. ASSUME NEW seg \in 1 .. P PROVE Places(seg) # {}
    <3>1. seg \in ToSet(list.free_segs) \/ \E k \in Keys : seg \in ToSet(Segs(list, k))
      BY <2>1 DEF Keeps
    <3>2. ASSUME NEW k \in Keys, seg \in ToSet(Segs(list, k))
          PROVE  k \in DOMAIN list.written /\ seg \in ToSet(list.written[k])
      <4>1. Segs(list, k) # <<>>
        BY <3>2 DEF ToSet
      <4> QED
        BY <3>2, <4>1, SoundHas
    <3> QED
      BY <2>1, <3>1, <3>2, PlacesAre
  <2>7. lost \subseteq P + 1 .. a
    <3>1. \A seg \in 1 .. a : seg \in 1 .. P \/ seg \in P + 1 .. a
      BY ONLY <2>3
    <3> QED
      BY <2>2, <2>4, <2>6, <3>1 DEF Segments
  <2>8. CASE P = a
    <3>1. lost = {}
      BY <2>3, <2>7, <2>8
    <3>2. Cardinality(lost) = 0
      BY <3>1, FS_EmptySet
    <3> QED
      BY <2>3, <2>4, <2>5, <3>1, <3>2 DEF EverySegmentHasOnePlace
  <2>9. CASE P # a
    <3>1. a = CAPACITY /\ a - P < CHUNK
      BY <2>1, <2>2, <2>9 DEF Lost
    <3>2. IsFiniteSet(P + 1 .. a) /\ Cardinality(P + 1 .. a) = a - P
      <4>1. P + 1 \in Int /\ a \in Int /\ ~(P + 1 > a) /\ a - (P + 1) + 1 = a - P
        BY ONLY <2>3, <2>9
      <4> QED
        BY <4>1, FS_Interval
    <3>3. IsFiniteSet(lost) /\ Cardinality(lost) <= a - P
      BY ONLY <2>7, <3>2, FS_Subset
    <3>4. Cardinality(lost) \in Nat
      BY <3>3, FS_CardinalityType
    <3>5. Cardinality(lost) < CHUNK
      BY ONLY <2>3, <3>1, <3>3, <3>4
    <3> QED
      BY <2>2, <2>4, <2>5, <3>1, <3>5 DEF EverySegmentHasOnePlace
  <2> QED
    BY <2>8, <2>9
<1> QED
  BY <1>1, InductiveInvariant, PTL
-----------------------------------------------------------------------------
(* Refinement: the segments seen through the lists are AbstractList. *)

LEMMA QueuesAre == Queues = [k \in Keys |-> View(list, k)]
  BY DEF Queues, View

\* A queue that changes in one key only.
LEMMA OneQueue ==
    ASSUME NEW l, NEW m, NEW key \in Keys, NEW v, View(m, key) = v,
           \A k \in Keys : k # key => View(m, k) = View(l, k)
    PROVE  [k \in Keys |-> View(m, k)] = [[k \in Keys |-> View(l, k)] EXCEPT ![key] = v]
<1>1. PICK f : f = [k \in Keys |-> View(l, k)]
  OBVIOUS
<1>2. PICK g : g = [k \in Keys |-> View(m, k)]
  OBVIOUS
<1>3. \A k \in Keys : f[k] = View(l, k) /\ g[k] = View(m, k)
  BY <1>1, <1>2
<1>4. DOMAIN f = Keys /\ DOMAIN g = Keys /\ g = [k \in Keys |-> g[k]]
  BY <1>1, <1>2
<1>5. g = [f EXCEPT ![key] = v]
  BY ONLY <1>3, <1>4, key \in Keys, View(m, key) = v,
          \A k \in Keys : k # key => View(m, k) = View(l, k)
<1> QED
  BY <1>1, <1>2, <1>5

LEMMA GoodIsAbstract ==
    ASSUME IInv, Good
    PROVE  Abs!Next
<1>1. PICK ok \in BOOLEAN : ok = (reply'.result = "ok")
  OBVIOUS
<1>2. PICK op, n, out : op = reply'.op /\ n = reply'.n /\ out = reply'.items
  OBVIOUS
<1>3. PICK l : l = list
  OBVIOUS
<1>4. PICK m : m = list'
  OBVIOUS
<1>5. AbsStep(l, m, op, ok, n, out)
  BY <1>1, <1>2, <1>3, <1>4 DEF Good
<1>6. PICK before : before = [k \in Keys |-> View(l, k)]
  OBVIOUS
<1>7. PICK now : now = [k \in Keys |-> View(m, k)]
  OBVIOUS
<1>8. Queues = before /\ Queues' = now
  BY <1>3, <1>4, <1>6, <1>7, QueuesAre DEF Queues, View
<1>9. \A k \in Keys : before[k] = View(l, k) /\ now[k] = View(m, k)
  BY <1>6, <1>7
<1>10. [op |-> reply'.op, ok |-> reply'.result = "ok", n |-> reply'.n, items |-> reply'.items]
          = [op |-> op, ok |-> ok, n |-> n, items |-> out]
  BY <1>1, <1>2
<1>11. \A k \in Keys : Len(View(l, k)) \in Nat
  BY <1>3, QueueIs DEF IInv
<1>20. ASSUME NEW key \in Keys, NEW v, OneKey(l, m, key), View(m, key) = v
       PROVE  now = [before EXCEPT ![key] = v]
  BY <1>6, <1>7, <1>20, OneQueue DEF OneKey
<1>21. SameQueues(l, m) => now = before
  BY <1>6, <1>7 DEF SameQueues
<1>12. CASE PushedOne(l, m, op, ok, n, out)
  <2>1. PICK key \in Keys, item \in Payloads :
            /\ OneKey(l, m, key) /\ View(m, key) = Append(View(l, key), item)
            /\ op = "push" /\ ok /\ n = 0 /\ out = <<>>
    BY <1>12 DEF PushedOne
  <2>2. now = [before EXCEPT ![key] = Append(View(l, key), item)] /\ ok = TRUE
    BY <1>20, <2>1
  <2>3. Abs!Push(key, item)
    BY <1>8, <1>9, <1>10, <2>1, <2>2 DEF Abs!Push, Abs!Reply
  <2> QED
    BY <2>3 DEF Abs!Next
<1>13. CASE PushedSome(l, m, op, ok, n, out)
  <2>1. PICK key \in Keys, items \in Batches : \E x \in 0 .. Len(items) :
            /\ OneKey(l, m, key) /\ View(m, key) = View(l, key) \o SubSeq(items, 1, x)
            /\ op = "push_range" /\ (ok <=> x = Len(items)) /\ n = 0 /\ out = <<>>
    BY <1>13 DEF PushedSome
  <2>2. PICK x \in 0 .. Len(items) :
            /\ OneKey(l, m, key) /\ View(m, key) = View(l, key) \o SubSeq(items, 1, x)
            /\ op = "push_range" /\ (ok <=> x = Len(items)) /\ n = 0 /\ out = <<>>
    BY <2>1
  <2>3. now = [before EXCEPT ![key] = View(l, key) \o SubSeq(items, 1, x)]
    BY <1>20, <2>2
  <2>4. ok = (x = Len(items))
    BY <2>2
  <2>5. Abs!PushRange(key, items, x)
    BY <1>8, <1>9, <1>10, <2>2, <2>3, <2>4 DEF Abs!PushRange, Abs!Reply
  <2> QED
    BY <2>5 DEF Abs!Next
<1>14. CASE TookSome(l, m, op, ok, n, out)
  <2>1. PICK key \in Keys : \E to \in 0 .. Len(View(l, key)) : \E from \in 0 .. to :
            /\ Taken(l, key, from, to, m) /\ ok /\ out = SubSeq(View(l, key), from + 1, to)
            /\ RunOf(op, n, from, to)
    BY <1>14 DEF TookSome
  <2>2. PICK v : v = View(l, key)
    OBVIOUS
  <2>3. PICK to \in 0 .. Len(v) : \E from \in 0 .. to :
            /\ Taken(l, key, from, to, m) /\ ok /\ out = SubSeq(v, from + 1, to)
            /\ RunOf(op, n, from, to)
    BY <2>1, <2>2
  <2>4. PICK from \in 0 .. to :
            /\ Taken(l, key, from, to, m) /\ ok /\ out = SubSeq(v, from + 1, to)
            /\ RunOf(op, n, from, to)
    BY <2>3
  <2>5. PICK u : u = SubSeq(v, 1, from) \o SubSeq(v, to + 1, Len(v))
    OBVIOUS
  <2>6. View(m, key) = u /\ OneKey(l, m, key)
    BY ONLY <2>2, <2>4, <2>5, Zenon DEF Taken, OneKey
  <2>7. now = [before EXCEPT ![key] = u]
    BY <1>20, <2>6
  <2>8. before[key] = v /\ ok = TRUE /\ Len(v) \in Nat
    BY <1>9, <1>11, <2>2, <2>4
  <2>9. from \in Nat /\ to \in Nat /\ 0 <= from /\ from <= to /\ to <= Len(v)
    BY <2>8
  <2>10. Abs!Take(op, n, key, from, to)
    BY <1>8, <1>10, <2>4, <2>5, <2>7, <2>8, <2>9 DEF Abs!Take, Abs!Reply
  <2>11. CASE op = "pop" /\ n = 1 /\ from = 0 /\ to = 1
    <3>1. Abs!Pop(key)
      BY <2>10, <2>11 DEF Abs!Pop
    <3> QED
      BY <3>1 DEF Abs!Next
  <2>12. CASE op = "pop_count" /\ n \in Nat /\ from = 0 /\ to = n + 1
    <3>1. Abs!PopCount(key, n)
      BY <2>10, <2>12 DEF Abs!PopCount
    <3>2. n \in 0 .. Len(v)
      BY <2>8, <2>9, <2>12
    <3>3. n \in 0 .. Len(Queues[key])
      BY <1>8, <2>8, <3>2
    <3> QED
      BY <3>1, <3>3 DEF Abs!Next
  <2>13. CASE op = "pop_range" /\ n = to - from
    <3>1. Abs!PopRange(key, from, to)
      BY <2>10, <2>13 DEF Abs!PopRange
    <3>2. to \in 0 .. Len(Queues[key])
      BY <1>8, <2>8
    <3> QED
      BY <3>1, <3>2 DEF Abs!Next
  <2> QED
    BY <2>4, <2>11, <2>12, <2>13 DEF RunOf
<1>15. CASE TookAll(l, m, op, ok, n, out)
  <2>1. PICK key \in Keys : /\ OneKey(l, m, key) /\ View(m, key) = <<>> /\ n = 0 /\ out = <<>>
                            /\ (op = "flush" /\ ok) \/ (op = "pop_count" /\ ~ok)
    BY <1>15 DEF TookAll
  <2>2. now = [before EXCEPT ![key] = <<>>]
    BY <1>20, <2>1
  <2>3. CASE op = "flush" /\ ok
    <3>1. ok = TRUE
      BY <2>3
    <3>2. Abs!Flush(key)
      BY <1>8, <1>10, <2>1, <2>2, <2>3, <3>1 DEF Abs!Flush, Abs!Reply
    <3> QED
      BY <3>2 DEF Abs!Next
  <2>4. CASE op = "pop_count" /\ ~ok
    <3>1. ok = FALSE
      BY <2>4
    <3>2. Abs!PopCountRunsOut(key)
      BY <1>8, <1>10, <2>1, <2>2, <2>4, <3>1 DEF Abs!PopCountRunsOut, Abs!Reply
    <3> QED
      BY <3>2 DEF Abs!Next
  <2> QED
    BY <2>1, <2>3, <2>4
<1>16. CASE CountedOne(l, m, op, ok, n, out)
  <2>1. PICK key \in Keys : /\ SameQueues(l, m) /\ op = "len" /\ ok
                            /\ n = Len(View(l, key)) /\ out = <<>>
    BY <1>16 DEF CountedOne
  <2>2. now = before /\ ok = TRUE /\ before[key] = View(l, key)
    BY <1>9, <1>21, <2>1
  <2>3. Abs!Count(key)
    BY <1>8, <1>10, <2>1, <2>2 DEF Abs!Count, Abs!Reply
  <2> QED
    BY <2>3 DEF Abs!Next
<1>17. CASE Failed(l, m, op, ok, n, out)
  <2>1. now = before /\ ok = FALSE /\ n = 0 /\ out = <<>>
        /\ op \in {"push", "push_range", "pop", "pop_range", "flush"}
    BY <1>17, <1>21 DEF Failed
  <2>2. Abs!Fail(op)
    BY <1>8, <1>10, <2>1 DEF Abs!Fail, Abs!Reply
  <2> QED
    BY <2>1, <2>2 DEF Abs!Next
<1> QED
  BY <1>5, <1>12, <1>13, <1>14, <1>15, <1>16, <1>17 DEF AbsStep

\* The list store behaves as AbstractList: every call of seg_list.rs, the partial
\* and the failing ones too, acts on first-in first-out queues, one per key.  A
\* pop takes the oldest item and no other, a pop_count the oldest ones, a
\* pop_range those at its indices, and each returns exactly what it took.
THEOREM Refinement == Spec => ImplementsAbstractList
<1>1. Init => Abs!Init
  <2> SUFFICES ASSUME Init PROVE Abs!Init
    OBVIOUS
  <2>1. \A k \in Keys : Segs(list, k) = <<>>
    BY DEF Init, Segs
  <2>2. \A k \in Keys : View(list, k) = <<>>
    BY <2>1 DEF View
  <2>3. Queues = [k \in Keys |-> <<>>]
    BY <2>2, QueuesAre
  <2>4. [op |-> reply.op, ok |-> reply.result = "ok", n |-> reply.n, items |-> reply.items]
           = [op |-> "new", ok |-> TRUE, n |-> 0, items |-> <<>>]
    BY DEF Init
  <2> QED
    BY <2>3, <2>4 DEF Abs!Init, Abs!Reply
<1>2. ASSUME IInv, [Next]_vars PROVE [Abs!Next]_(Abs!vars)
  <2>1. CASE Next
    <3>1. Good
      BY <1>2, <2>1, NextGood
    <3> QED
      BY <1>2, <3>1, GoodIsAbstract
  <2>2. CASE UNCHANGED vars
    BY <2>2 DEF vars, Abs!vars, Queues, Segs
  <2> QED
    BY <1>2, <2>1, <2>2
<1> QED
  BY <1>1, <1>2, InductiveInvariant, PTL DEF Spec, ImplementsAbstractList, Abs!Spec
=============================================================================
