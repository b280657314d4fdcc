---------------------------- MODULE GroupsProofs ----------------------------
(***************************************************************************)
(* Proofs about Groups and its cache.                                      *)
(***************************************************************************)
EXTENDS Groups, ProofLemmas

-----------------------------------------------------------------------------
(* The cache as a record, and what the writes of lru.rs do to its slots *)

IsSlot(s) ==
    /\ s = [key |-> s.key, val |-> s.val, expires_at |-> s.expires_at,
            prev |-> s.prev, next |-> s.next]
    /\ s.expires_at \in Int

IsLru(c) ==
    /\ c = [map |-> c.map, slots |-> c.slots, free |-> c.free, head |-> c.head, tail |-> c.tail]
    /\ AList(c.slots) /\ AList(c.free)
    /\ \A i \in 1 .. Len(c.slots) : IsSlot(c.slots[i])

\* d is c with e in slot i.
WithSlot(c, i, e, d) ==
    /\ IsLru(d) /\ d.map = c.map /\ d.free = c.free /\ d.head = c.head /\ d.tail = c.tail
    /\ Len(d.slots) = Len(c.slots) /\ d.slots[i] = e
    /\ \A j \in 1 .. Len(c.slots) : j # i => d.slots[j] = c.slots[j]

LEMMA SlotWritten ==
    ASSUME NEW c, IsLru(c), NEW i \in 1 .. Len(c.slots), NEW e, IsSlot(e)
    PROVE  WithSlot(c, i, e, [c EXCEPT !.slots[i] = e])
<1>1. PICK map, slots, free, head, tail :
        c = [map |-> map, slots |-> slots, free |-> free, head |-> head, tail |-> tail]
  BY DEF IsLru
<1>2. PICK s : s = [slots EXCEPT ![i] = e]
  OBVIOUS
<1>3. c.map = map /\ c.slots = slots /\ c.free = free /\ c.head = head /\ c.tail = tail
  BY ONLY <1>1
<1>4. PICK N \in Nat : N = Len(slots) /\ slots = [j \in 1 .. N |-> slots[j]]
  BY <1>3 DEF IsLru, AList
<1>5. i \in 1 .. N /\ AList(free) /\ \A j \in 1 .. N : IsSlot(slots[j])
  BY <1>3, <1>4 DEF IsLru
<1>6. /\ s = [j \in 1 .. N |-> s[j]] /\ s[i] = e
      /\ \A j \in 1 .. N : j # i => s[j] = slots[j]
  BY ONLY <1>2, <1>4, <1>5
<1>7. Len(s) = N /\ AList(s)
  BY ONLY <1>6, N \in Nat DEF AList
<1>8. PICK d : d = [c EXCEPT !.slots[i] = e]
  OBVIOUS
<1>9. d = [map |-> map, slots |-> s, free |-> free, head |-> head, tail |-> tail]
  BY ONLY <1>1, <1>2, <1>8
<1>10. d.map = map /\ d.slots = s /\ d.free = free /\ d.head = head /\ d.tail = tail
  BY ONLY <1>9
<1>11. \A j \in 1 .. N : IsSlot(s[j])
  BY ONLY <1>5, <1>6, IsSlot(e)
<1>12. IsLru(d)
  BY ONLY <1>5, <1>7, <1>9, <1>10, <1>11 DEF IsLru
<1>13. WithSlot(c, i, e, d)
  BY ONLY <1>3, <1>4, <1>6, <1>7, <1>10, <1>12 DEF WithSlot
<1> QED
  BY ONLY <1>8, <1>13, Zenon

\* d is c with other links between the same entries.
Relinked(c, d) ==
    /\ IsLru(d) /\ d.map = c.map /\ d.free = c.free /\ Len(d.slots) = Len(c.slots)
    /\ \A j \in 1 .. Len(c.slots) : Item(d.slots[j]) = Item(c.slots[j])

SetsNext(c, i, x, d) ==
    /\ Relinked(c, d) /\ d.head = c.head /\ d.tail = c.tail
    /\ \A j \in 1 .. Len(c.slots) :
          /\ d.slots[j].prev = c.slots[j].prev
          /\ d.slots[j].next = IF j = i THEN x ELSE c.slots[j].next

SetsPrev(c, i, x, d) ==
    /\ Relinked(c, d) /\ d.head = c.head /\ d.tail = c.tail
    /\ \A j \in 1 .. Len(c.slots) :
          /\ d.slots[j].prev = IF j = i THEN x ELSE c.slots[j].prev
          /\ d.slots[j].next = c.slots[j].next

SetsEnds(c, h, t, d) ==
    /\ Relinked(c, d) /\ d.head = h /\ d.tail = t
    /\ \A j \in 1 .. Len(c.slots) :
          d.slots[j].prev = c.slots[j].prev /\ d.slots[j].next = c.slots[j].next

LEMMA NextWritten ==
    ASSUME NEW c, IsLru(c), NEW i \in 1 .. Len(c.slots), NEW x
    PROVE  SetsNext(c, i, x, [c EXCEPT !.slots[i].next = x])
<1>1. PICK s : s = c.slots[i]
  OBVIOUS
<1>2. PICK e : e = [s EXCEPT !.next = x]
  OBVIOUS
<1>3. PICK k, v, t, p, n :
        s = [key |-> k, val |-> v, expires_at |-> t, prev |-> p, next |-> n] /\ t \in Int
  BY <1>1 DEF IsLru, IsSlot
<1>4. e = [key |-> k, val |-> v, expires_at |-> t, prev |-> p, next |-> x]
  BY ONLY <1>2, <1>3
<1>5. IsSlot(e) /\ Item(e) = Item(s) /\ e.prev = s.prev /\ e.next = x
  BY ONLY <1>3, <1>4 DEF IsSlot, Item
<1>6. PICK d : d = [c EXCEPT !.slots[i].next = x]
  OBVIOUS
<1>7. d = [c EXCEPT !.slots[i] = e]
  BY ONLY <1>1, <1>2, <1>6
<1>8. WithSlot(c, i, e, d)
  <2>1. WithSlot(c, i, e, [c EXCEPT !.slots[i] = e])
    BY ONLY IsLru(c), i \in 1 .. Len(c.slots), <1>5, SlotWritten
  <2> QED
    BY ONLY <1>7, <2>1, Zenon
<1>9. Relinked(c, d)
  BY ONLY <1>1, <1>5, <1>8 DEF WithSlot, Relinked
<1>10. SetsNext(c, i, x, d)
  BY ONLY <1>1, <1>5, <1>8, <1>9 DEF WithSlot, SetsNext
<1> QED
  BY ONLY <1>6, <1>10, Zenon

LEMMA PrevWritten ==
    ASSUME NEW c, IsLru(c), NEW i \in 1 .. Len(c.slots), NEW x
    PROVE  SetsPrev(c, i, x, [c EXCEPT !.slots[i].prev = x])
<1>1. PICK s : s = c.slots[i]
  OBVIOUS
<1>2. PICK e : e = [s EXCEPT !.prev = x]
  OBVIOUS
<1>3. PICK k, v, t, p, n :
        s = [key |-> k, val |-> v, expires_at |-> t, prev |-> p, next |-> n] /\ t \in Int
  BY <1>1 DEF IsLru, IsSlot
<1>4. e = [key |-> k, val |-> v, expires_at |-> t, prev |-> x, next |-> n]
  BY ONLY <1>2, <1>3
<1>5. IsSlot(e) /\ Item(e) = Item(s) /\ e.prev = x /\ e.next = s.next
  BY ONLY <1>3, <1>4 DEF IsSlot, Item
<1>6. PICK d : d = [c EXCEPT !.slots[i].prev = x]
  OBVIOUS
<1>7. d = [c EXCEPT !.slots[i] = e]
  BY ONLY <1>1, <1>2, <1>6
<1>8. WithSlot(c, i, e, d)
  <2>1. WithSlot(c, i, e, [c EXCEPT !.slots[i] = e])
    BY ONLY IsLru(c), i \in 1 .. Len(c.slots), <1>5, SlotWritten
  <2> QED
    BY ONLY <1>7, <2>1, Zenon
<1>9. Relinked(c, d)
  BY ONLY <1>1, <1>5, <1>8 DEF WithSlot, Relinked
<1>10. SetsPrev(c, i, x, d)
  BY ONLY <1>1, <1>5, <1>8, <1>9 DEF WithSlot, SetsPrev
<1> QED
  BY ONLY <1>6, <1>10, Zenon

LEMMA EndsWritten ==
    ASSUME NEW c, IsLru(c), NEW x
    PROVE  /\ SetsEnds(c, x, c.tail, [c EXCEPT !.head = x])
           /\ SetsEnds(c, c.head, x, [c EXCEPT !.tail = x])
<1>1. PICK map, slots, free, head, tail :
        c = [map |-> map, slots |-> slots, free |-> free, head |-> head, tail |-> tail]
  BY DEF IsLru
<1>2. c.map = map /\ c.slots = slots /\ c.free = free /\ c.head = head /\ c.tail = tail
  BY ONLY <1>1
<1>3. /\ AList(slots) /\ AList(free) /\ \A i \in 1 .. Len(slots) : IsSlot(slots[i])
  BY <1>2 DEF IsLru
<1>4. PICK d : d = [c EXCEPT !.head = x]
  OBVIOUS
<1>5. d = [map |-> map, slots |-> slots, free |-> free, head |-> x, tail |-> tail]
  BY ONLY <1>1, <1>4
<1>6. d.map = map /\ d.slots = slots /\ d.free = free /\ d.head = x /\ d.tail = tail
  BY ONLY <1>5
<1>7. IsLru(d)
  BY ONLY <1>3, <1>5, <1>6 DEF IsLru
<1>8. SetsEnds(c, x, c.tail, d)
  BY ONLY <1>2, <1>6, <1>7 DEF SetsEnds, Relinked
<1>9. PICK b : b = [c EXCEPT !.tail = x]
  OBVIOUS
<1>10. b = [map |-> map, slots |-> slots, free |-> free, head |-> head, tail |-> x]
  BY ONLY <1>1, <1>9
<1>11. b.map = map /\ b.slots = slots /\ b.free = free /\ b.head = head /\ b.tail = x
  BY ONLY <1>10
<1>12. IsLru(b)
  BY ONLY <1>3, <1>10, <1>11 DEF IsLru
<1>13. SetsEnds(c, c.head, x, b)
  BY ONLY <1>2, <1>11, <1>12 DEF SetsEnds, Relinked
<1> QED
  BY ONLY <1>4, <1>8, <1>9, <1>13, Zenon

\* What detach does, slot by slot: p and n are the neighbours of the entry.
Skips(c, p, n, d) ==
    /\ Relinked(c, d)
    /\ d.head = IF p = NULL THEN n ELSE c.head
    /\ d.tail = IF n = NULL THEN p ELSE c.tail
    /\ \A j \in 1 .. Len(c.slots) :
          /\ d.slots[j].prev = IF j = n THEN p ELSE c.slots[j].prev
          /\ d.slots[j].next = IF j = p THEN n ELSE c.slots[j].next

LEMMA DetachSkips ==
    ASSUME NEW c, IsLru(c), NEW i \in 1 .. Len(c.slots),
           c.slots[i].prev \in 0 .. Len(c.slots), c.slots[i].next \in 0 .. Len(c.slots)
    PROVE  Skips(c, c.slots[i].prev, c.slots[i].next, detach(c, i))
<1>1. PICK p, n, N : p = c.slots[i].prev /\ n = c.slots[i].next /\ N = Len(c.slots)
  OBVIOUS
<1>2. p \in 0 .. N /\ n \in 0 .. N /\ N \in Nat
  BY <1>1 DEF IsLru, AList
<1>3. PICK f : f = IF p # NULL THEN [c EXCEPT !.slots[p].next = n] ELSE [c EXCEPT !.head = n]
  OBVIOUS
<1>4. PICK d : d = IF n # NULL THEN [f EXCEPT !.slots[n].prev = p] ELSE [f EXCEPT !.tail = p]
  OBVIOUS
<1>5. detach(c, i) = d
  BY ONLY <1>1, <1>3, <1>4, SMTT(30) DEF detach
<1>6. /\ Relinked(c, f) /\ f.tail = c.tail
      /\ f.head = IF p = NULL THEN n ELSE c.head
      /\ \A j \in 1 .. N : /\ f.slots[j].prev = c.slots[j].prev
                           /\ f.slots[j].next = IF j = p THEN n ELSE c.slots[j].next
  <2>1. CASE p # NULL
    <3>1. f = [c EXCEPT !.slots[p].next = n]
      BY ONLY <1>3, <2>1
    <3>2. p \in 1 .. Len(c.slots)
      BY ONLY <1>1, <1>2, <2>1 DEF NULL
    <3>3. SetsNext(c, p, n, f)
      BY ONLY <3>1, <3>2, IsLru(c), NextWritten, Zenon
    <3> QED
      BY ONLY <1>1, <2>1, <3>3 DEF SetsNext
  <2>2. CASE p = NULL
    <3>1. f = [c EXCEPT !.head = n]
      BY ONLY <1>3, <2>2
    <3>2. SetsEnds(c, n, c.tail, f)
      BY ONLY <3>1, IsLru(c), EndsWritten, Zenon
    <3>3. \A j \in 1 .. N : j # p
      BY ONLY <2>2, <1>2 DEF NULL
    <3> QED
      BY ONLY <1>1, <2>2, <3>2, <3>3 DEF SetsEnds
  <2> QED
    BY ONLY <2>1, <2>2
<1>7. IsLru(f) /\ Len(f.slots) = N
  BY ONLY <1>1, <1>6 DEF Relinked
<1>8. /\ Relinked(f, d) /\ d.head = f.head
      /\ d.tail = IF n = NULL THEN p ELSE f.tail
      /\ \A j \in 1 .. N : /\ d.slots[j].prev = IF j = n THEN p ELSE f.slots[j].prev
                           /\ d.slots[j].next = f.slots[j].next
  <2>1. CASE n # NULL
    <3>1. d = [f EXCEPT !.slots[n].prev = p]
      BY ONLY <1>4, <2>1
    <3>2. n \in 1 .. Len(f.slots)
      BY ONLY <1>7, <1>2, <2>1 DEF NULL
    <3>3. SetsPrev(f, n, p, d)
      BY ONLY <1>7, <3>1, <3>2, PrevWritten, Zenon
    <3> QED
      BY ONLY <1>7, <2>1, <3>3 DEF SetsPrev
  <2>2. CASE n = NULL
    <3>1. d = [f EXCEPT !.tail = p]
      BY ONLY <1>4, <2>2
    <3>2. SetsEnds(f, f.head, p, d)
      BY ONLY <1>7, <3>1, EndsWritten, Zenon
    <3>3. \A j \in 1 .. N : j # n
      BY ONLY <2>2, <1>2 DEF NULL
    <3> QED
      BY ONLY <1>7, <2>2, <3>2, <3>3 DEF SetsEnds
  <2> QED
    BY ONLY <2>1, <2>2
<1>9. Relinked(c, d)
  BY ONLY <1>6, <1>8 DEF Relinked
<1>10. Skips(c, p, n, d)
  BY ONLY <1>1, <1>6, <1>8, <1>9 DEF Skips
<1> QED
  BY ONLY <1>1, <1>5, <1>10, Zenon

\* What attach_front does, slot by slot.
Fronts(c, i, d) ==
    /\ Relinked(c, d) /\ d.head = i
    /\ d.tail = IF c.head = NULL THEN i ELSE c.tail
    /\ \A j \in 1 .. Len(c.slots) :
          /\ d.slots[j].prev = IF j = c.head THEN i
                               ELSE IF j = i THEN NULL ELSE c.slots[j].prev
          /\ d.slots[j].next = IF j = i THEN c.head ELSE c.slots[j].next

LEMMA AttachFronts ==
    ASSUME NEW c, IsLru(c), NEW i \in 1 .. Len(c.slots), c.head \in 0 .. Len(c.slots)
    PROVE  Fronts(c, i, attach_front(c, i))
<1>1. PICK h, N : h = c.head /\ N = Len(c.slots)
  OBVIOUS
<1>2. h \in 0 .. N /\ N \in Nat
  BY <1>1 DEF IsLru, AList
<1>3. PICK a : a = [c EXCEPT !.slots[i].prev = NULL]
  OBVIOUS
<1>4. PICK o : o = [a EXCEPT !.slots[i].next = h]
  OBVIOUS
<1>5. PICK b : b = IF h # NULL THEN [o EXCEPT !.slots[h].prev = i] ELSE [o EXCEPT !.tail = i]
  OBVIOUS
<1>6. PICK d : d = [b EXCEPT !.head = i]
  OBVIOUS
<1>7. SetsPrev(c, i, NULL, a)
  BY ONLY <1>3, IsLru(c), i \in 1 .. Len(c.slots), PrevWritten, Zenon
<1>8. IsLru(a) /\ Len(a.slots) = N /\ i \in 1 .. Len(a.slots)
  BY ONLY <1>1, <1>7, i \in 1 .. Len(c.slots) DEF SetsPrev, Relinked
<1>9. SetsNext(a, i, h, o)
  BY ONLY <1>4, <1>8, NextWritten, Zenon
<1>10. IsLru(o) /\ Len(o.slots) = N
  BY ONLY <1>8, <1>9 DEF SetsNext, Relinked
<1>11. /\ Relinked(o, b) /\ b.tail = IF h = NULL THEN i ELSE o.tail
       /\ \A j \in 1 .. N : /\ b.slots[j].prev = IF j = h THEN i ELSE o.slots[j].prev
                            /\ b.slots[j].next = o.slots[j].next
  <2>1. CASE h # NULL
    <3>1. b = [o EXCEPT !.slots[h].prev = i]
      BY ONLY <1>5, <2>1
    <3>2. h \in 1 .. Len(o.slots)
      BY ONLY <1>10, <1>2, <2>1 DEF NULL
    <3>3. SetsPrev(o, h, i, b)
      BY ONLY <1>10, <3>1, <3>2, PrevWritten, Zenon
    <3> QED
      BY ONLY <1>10, <2>1, <3>3 DEF SetsPrev
  <2>2. CASE h = NULL
    <3>1. b = [o EXCEPT !.tail = i]
      BY ONLY <1>5, <2>2
    <3>2. SetsEnds(o, o.head, i, b)
      BY ONLY <1>10, <3>1, EndsWritten, Zenon
    <3>3. \A j \in 1 .. N : j # h
      BY ONLY <2>2, <1>2 DEF NULL
    <3> QED
      BY ONLY <1>10, <2>2, <3>2, <3>3 DEF SetsEnds
  <2> QED
    BY ONLY <2>1, <2>2
<1>12. IsLru(b) /\ Len(b.slots) = N
  BY ONLY <1>10, <1>11 DEF Relinked
<1>13. SetsEnds(b, i, b.tail, d)
  BY ONLY <1>6, <1>12, EndsWritten, Zenon
<1>14. Relinked(c, d)
  BY ONLY <1>7, <1>9, <1>11, <1>13 DEF Relinked, SetsPrev, SetsNext, SetsEnds
<1>15. d.head = i /\ d.tail = IF h = NULL THEN i ELSE c.tail
  BY ONLY <1>7, <1>9, <1>11, <1>13 DEF SetsPrev, SetsNext, SetsEnds
<1>16. \A j \in 1 .. N :
          /\ d.slots[j].prev = IF j = h THEN i ELSE IF j = i THEN NULL ELSE c.slots[j].prev
          /\ d.slots[j].next = IF j = i THEN h ELSE c.slots[j].next
  BY ONLY <1>1, <1>7, <1>8, <1>9, <1>10, <1>11, <1>12, <1>13 DEF SetsPrev, SetsNext, SetsEnds
<1>17. Fronts(c, i, d)
  BY ONLY <1>1, <1>14, <1>15, <1>16 DEF Fronts
<1>18. attach_front(c, i) = d
  <2>1. o = [c EXCEPT !.slots[i].prev = NULL, !.slots[i].next = c.head]
    BY ONLY <1>1, <1>3, <1>4
  <2>2. b = IF c.head # NULL THEN [o EXCEPT !.slots[c.head].prev = i] ELSE [o EXCEPT !.tail = i]
    BY ONLY <1>1, <1>5, Zenon
  <2> QED
    BY ONLY <1>6, <2>1, <2>2 DEF attach_front
<1> QED
  BY ONLY <1>17, <1>18, Zenon
-----------------------------------------------------------------------------
(* The links and the sequence of slots they run over *)

Cut(q, m)    == [n \in 1 .. Len(q) - 1 |-> IF n < m THEN q[n] ELSE q[n + 1]]
Pushed(q, i) == [n \in 1 .. Len(q) + 1 |-> IF n = 1 THEN i ELSE q[n - 1]]

LEMMA CutIs ==
    ASSUME NEW q, AList(q), NEW m \in 1 .. Len(q)
    PROVE  /\ Len(q) \in Nat \ {0} /\ AList(Cut(q, m)) /\ Len(Cut(q, m)) = Len(q) - 1
           /\ \A n \in 1 .. Len(q) - 1 : Cut(q, m)[n] = IF n < m THEN q[n] ELSE q[n + 1]
<1>1. PICK L \in Nat : L = Len(q)
  BY DEF AList
<1>2. L # 0 /\ L - 1 \in Nat
  BY ONLY <1>1, m \in 1 .. Len(q)
<1>3. PICK r : r = [n \in 1 .. L - 1 |-> IF n < m THEN q[n] ELSE q[n + 1]]
  OBVIOUS
<1>4. Len(r) = L - 1 /\ r = [n \in 1 .. L - 1 |-> r[n]]
  BY ONLY <1>2, <1>3
<1>5. AList(r)
  BY ONLY <1>2, <1>4 DEF AList
<1>6. \A n \in 1 .. L - 1 : r[n] = IF n < m THEN q[n] ELSE q[n + 1]
  BY ONLY <1>3
<1>7. Cut(q, m) = r
  BY ONLY <1>1, <1>3 DEF Cut
<1> QED
  BY ONLY <1>1, <1>2, <1>4, <1>5, <1>6, <1>7

LEMMA PushedIs ==
    ASSUME NEW q, AList(q), NEW i
    PROVE  /\ Len(q) \in Nat /\ AList(Pushed(q, i)) /\ Len(Pushed(q, i)) = Len(q) + 1
           /\ \A n \in 1 .. Len(q) + 1 : Pushed(q, i)[n] = IF n = 1 THEN i ELSE q[n - 1]
<1>1. PICK L \in Nat : L = Len(q)
  BY DEF AList
<1>3. PICK r : r = [n \in 1 .. L + 1 |-> IF n = 1 THEN i ELSE q[n - 1]]
  OBVIOUS
<1>4. Len(r) = L + 1 /\ r = [n \in 1 .. L + 1 |-> r[n]]
  BY ONLY <1>1, <1>3
<1>5. AList(r)
  BY ONLY <1>1, <1>4 DEF AList
<1>6. \A n \in 1 .. L + 1 : r[n] = IF n = 1 THEN i ELSE q[n - 1]
  BY ONLY <1>3
<1>7. Pushed(q, i) = r
  BY ONLY <1>1, <1>3 DEF Pushed
<1> QED
  BY ONLY <1>1, <1>4, <1>5, <1>6, <1>7

Linked(c, q) ==
    /\ AList(q) /\ \A n \in 1 .. Len(q) : q[n] \in 1 .. Len(c.slots)
    /\ \A m, n \in 1 .. Len(q) : q[m] = q[n] => m = n
    /\ c.head = IF Len(q) = 0 THEN NULL ELSE q[1]
    /\ c.tail = IF Len(q) = 0 THEN NULL ELSE q[Len(q)]
    /\ \A n \in 1 .. Len(q) :
          /\ c.slots[q[n]].prev = IF n = 1 THEN NULL ELSE q[n - 1]
          /\ c.slots[q[n]].next = IF n = Len(q) THEN NULL ELSE q[n + 1]

LEMMA DetachCuts ==
    ASSUME NEW c, IsLru(c), NEW q, Linked(c, q), NEW m \in 1 .. Len(q)
    PROVE  Relinked(c, detach(c, q[m])) /\ Linked(detach(c, q[m]), Cut(q, m))
<1>1. PICK d, i, p, x, N, r :
        /\ d = detach(c, q[m]) /\ i = q[m] /\ p = c.slots[i].prev /\ x = c.slots[i].next
        /\ N = Len(c.slots) /\ r = Cut(q, m)
  OBVIOUS
<1>2. PICK L \in Nat : L = Len(q)
  BY DEF Linked, AList
<1>3. N \in Nat /\ L # 0 /\ m \in 1 .. L
  BY <1>1, <1>2 DEF IsLru, AList
<1>4. /\ \A n \in 1 .. L : q[n] \in 1 .. N
      /\ \A k, n \in 1 .. L : q[k] = q[n] => k = n
      /\ c.head = q[1] /\ c.tail = q[L]
      /\ \A n \in 1 .. L : /\ c.slots[q[n]].prev = IF n = 1 THEN NULL ELSE q[n - 1]
                           /\ c.slots[q[n]].next = IF n = L THEN NULL ELSE q[n + 1]
  BY <1>1, <1>2, <1>3 DEF Linked
<1>5. p = IF m = 1 THEN NULL ELSE q[m - 1]
  BY ONLY <1>1, <1>3, <1>4
<1>6. x = IF m = L THEN NULL ELSE q[m + 1]
  BY ONLY <1>1, <1>3, <1>4
<1>7. i \in 1 .. N /\ p \in 0 .. N /\ x \in 0 .. N
  <2>1. i \in 1 .. N
    BY ONLY <1>1, <1>3, <1>4
  <2>2. m # 1 => m - 1 \in 1 .. L
    BY ONLY <1>2, <1>3
  <2>3. m # L => m + 1 \in 1 .. L
    BY ONLY <1>2, <1>3
  <2>4. p \in 0 .. N
    BY ONLY <1>3, <1>4, <1>5, <2>2 DEF NULL
  <2>5. x \in 0 .. N
    BY ONLY <1>3, <1>4, <1>6, <2>3 DEF NULL
  <2> QED
    BY ONLY <2>1, <2>4, <2>5
<1>8. Skips(c, p, x, d)
  BY ONLY <1>1, <1>7, IsLru(c), DetachSkips
<1>9. /\ AList(r) /\ Len(r) = L - 1
      /\ \A n \in 1 .. L - 1 : r[n] = IF n < m THEN q[n] ELSE q[n + 1]
  BY ONLY <1>1, <1>2, <1>3, AList(q), CutIs DEF Linked
<1>10. Relinked(c, d) /\ Len(d.slots) = N
  BY ONLY <1>1, <1>8 DEF Skips, Relinked
<1>11. \A n \in 1 .. L - 1 : r[n] \in 1 .. N
  BY ONLY <1>2, <1>4, <1>9
<1>12. \A k, n \in 1 .. L - 1 : r[k] = r[n] => k = n
  <2> DEFINE At(n) == IF n < m THEN n ELSE n + 1
  <2>1. \A n \in 1 .. L - 1 : At(n) \in 1 .. L /\ r[n] = q[At(n)]
    BY ONLY <1>2, <1>3, <1>9
  <2>2. \A k, n \in 1 .. L - 1 : At(k) = At(n) => k = n
    BY ONLY <1>2, <1>3
  <2> HIDE DEF At
  <2> SUFFICES ASSUME NEW k \in 1 .. L - 1, NEW n \in 1 .. L - 1, r[k] = r[n] PROVE k = n
    OBVIOUS
  <2>3. q[At(k)] = q[At(n)]
    BY <2>1
  <2>4. At(k) = At(n)
    BY ONLY <1>4, <2>1, <2>3, k \in 1 .. L - 1, n \in 1 .. L - 1
  <2> QED
    BY <2>2, <2>4
<1>13. d.head = IF L - 1 = 0 THEN NULL ELSE r[1]
  <2>1. d.head = IF p = NULL THEN x ELSE c.head
    BY ONLY <1>8 DEF Skips
  <2>2. p = NULL <=> m = 1
    BY ONLY <1>2, <1>3, <1>4, <1>5 DEF NULL
  <2>3. CASE m = 1
    <3>1. L - 1 # 0 => 1 \in 1 .. L - 1 /\ r[1] = q[1 + 1]
      BY ONLY <1>2, <1>3, <1>9, <2>3
    <3> QED
      BY ONLY <1>2, <1>3, <1>6, <2>1, <2>2, <2>3, <3>1
  <2>4. CASE m # 1
    <3>1. L - 1 # 0 /\ 1 \in 1 .. L - 1 /\ 1 < m
      BY ONLY <1>2, <1>3, <2>4
    <3>2. r[1] = q[1]
      BY ONLY <1>9, <3>1
    <3> QED
      BY ONLY <1>4, <2>1, <2>2, <2>4, <3>1, <3>2
  <2> QED
    BY ONLY <2>3, <2>4
<1>14. d.tail = IF L - 1 = 0 THEN NULL ELSE r[L - 1]
  <2>1. d.tail = IF x = NULL THEN p ELSE c.tail
    BY ONLY <1>8 DEF Skips
  <2>2. x = NULL <=> m = L
    BY ONLY <1>2, <1>3, <1>4, <1>6 DEF NULL
  <2> QED
    BY ONLY <1>2, <1>3, <1>4, <1>5, <1>9, <2>1, <2>2
<1>15. ASSUME NEW n \in 1 .. L - 1
       PROVE  /\ d.slots[r[n]].prev = IF n = 1 THEN NULL ELSE r[n - 1]
              /\ d.slots[r[n]].next = IF n = L - 1 THEN NULL ELSE r[n + 1]
  <2>1. PICK j : j = r[n]
    OBVIOUS
  <2>2. j \in 1 .. N
    BY <1>11, <2>1
  <2>3. /\ d.slots[j].prev = IF j = x THEN p ELSE c.slots[j].prev
        /\ d.slots[j].next = IF j = p THEN x ELSE c.slots[j].next
    BY ONLY <1>1, <1>8, <2>2 DEF Skips
  <2>4. CASE n < m
    <3>1. n \in 1 .. L /\ j = q[n] /\ n # m + 1
      BY ONLY <1>2, <1>3, <1>9, <2>1, <2>4, n \in 1 .. L - 1
    <3>2. j # x
      BY ONLY <1>2, <1>3, <1>4, <1>6, <3>1 DEF NULL
    <3>3. j = p <=> n = m - 1
      BY ONLY <1>2, <1>3, <1>4, <1>5, <3>1 DEF NULL
    <3>4. d.slots[j].prev = IF n = 1 THEN NULL ELSE r[n - 1]
      BY ONLY <1>2, <1>3, <1>4, <1>9, <2>3, <2>4, <3>1, <3>2, n \in 1 .. L - 1
    <3>5. d.slots[j].next = IF n = L - 1 THEN NULL ELSE r[n + 1]
      <4>1. CASE n = m - 1
        <5>1. d.slots[j].next = x
          BY ONLY <2>3, <3>3, <4>1
        <5>2. n # L - 1 => n + 1 \in 1 .. L - 1 /\ ~(n + 1 < m) /\ n + 1 + 1 = m + 1
          BY ONLY <1>2, <1>3, <4>1, n \in 1 .. L - 1
        <5>3. n # L - 1 => r[n + 1] = q[m + 1]
          BY ONLY <1>9, <5>2
        <5>4. n = L - 1 <=> m = L
          BY ONLY <1>2, <1>3, <4>1, n \in 1 .. L - 1
        <5> QED
          BY ONLY <1>6, <5>1, <5>3, <5>4
      <4>2. CASE n # m - 1
        <5>1. n # L /\ n # L - 1 /\ n + 1 \in 1 .. L - 1 /\ n + 1 < m
          BY ONLY <1>2, <1>3, <2>4, <4>2, n \in 1 .. L - 1
        <5>2. r[n + 1] = q[n + 1]
          BY ONLY <1>9, <5>1
        <5>3. c.slots[j].next = q[n + 1]
          BY ONLY <1>4, <3>1, <5>1
        <5> QED
          BY ONLY <2>3, <3>3, <4>2, <5>1, <5>2, <5>3
      <4> QED
        BY ONLY <4>1, <4>2
    <3> QED
      BY ONLY <2>1, <3>4, <3>5
  <2>5. CASE ~(n < m)
    <3>1. n + 1 \in 1 .. L /\ j = q[n + 1] /\ n + 1 # m - 1
      BY ONLY <1>2, <1>3, <1>9, <2>1, <2>5, n \in 1 .. L - 1
    <3>2. j # p
      BY ONLY <1>2, <1>3, <1>4, <1>5, <3>1 DEF NULL
    <3>3. j = x <=> n + 1 = m + 1
      BY ONLY <1>2, <1>3, <1>4, <1>6, <3>1 DEF NULL
    <3>4. d.slots[j].prev = IF n = 1 THEN NULL ELSE r[n - 1]
      <4>1. CASE n = m
        BY ONLY <1>2, <1>3, <1>4, <1>5, <1>9, <2>3, <2>5, <3>1, <3>3, <4>1, n \in 1 .. L - 1, SMTT(30)
      <4>2. CASE n # m
        <5>1. n # 1 /\ n - 1 \in 1 .. L - 1 /\ ~(n - 1 < m) /\ n + 1 # 1 /\ n + 1 - 1 = n - 1 + 1
              /\ n + 1 # m + 1
          BY ONLY <1>2, <1>3, <2>5, <4>2, n \in 1 .. L - 1
        <5>2. r[n - 1] = q[n - 1 + 1]
          BY ONLY <1>9, <5>1
        <5>3. c.slots[j].prev = q[n + 1 - 1]
          BY ONLY <1>4, <3>1, <5>1
        <5> QED
          BY ONLY <2>3, <3>3, <5>1, <5>2, <5>3
      <4> QED
        BY ONLY <4>1, <4>2
    <3>5. d.slots[j].next = IF n = L - 1 THEN NULL ELSE r[n + 1]
      <4>1. c.slots[j].next = IF n + 1 = L THEN NULL ELSE q[n + 1 + 1]
        BY ONLY <1>4, <3>1
      <4>2. n = L - 1 <=> n + 1 = L
        BY ONLY <1>2, n \in 1 .. L - 1
      <4>3. n # L - 1 => n + 1 \in 1 .. L - 1 /\ ~(n + 1 < m)
        BY ONLY <1>2, <1>3, <2>5, n \in 1 .. L - 1
      <4>4. n # L - 1 => r[n + 1] = q[n + 1 + 1]
        BY ONLY <1>9, <4>3
      <4> QED
        BY ONLY <2>3, <3>2, <4>1, <4>2, <4>4
    <3> QED
      BY ONLY <2>1, <3>4, <3>5
  <2> QED
    BY ONLY <2>4, <2>5
<1>16. Linked(d, r)
  BY ONLY <1>9, <1>10, <1>11, <1>12, <1>13, <1>14, <1>15 DEF Linked
<1> QED
  BY ONLY <1>1, <1>10, <1>16, Zenon

LEMMA AttachPushes ==
    ASSUME NEW c, IsLru(c), NEW q, Linked(c, q), NEW i \in 1 .. Len(c.slots),
           \A n \in 1 .. Len(q) : q[n] # i
    PROVE  Relinked(c, attach_front(c, i)) /\ Linked(attach_front(c, i), Pushed(q, i))
<1>1. PICK d, N, r : d = attach_front(c, i) /\ N = Len(c.slots) /\ r = Pushed(q, i)
  OBVIOUS
<1>2. PICK L \in Nat : L = Len(q)
  BY DEF Linked, AList
<1>3. N \in Nat /\ i \in 1 .. N /\ \A n \in 1 .. L : q[n] # i
  BY <1>1, <1>2 DEF IsLru, AList
<1>4. /\ \A n \in 1 .. L : q[n] \in 1 .. N
      /\ \A k, n \in 1 .. L : q[k] = q[n] => k = n
      /\ c.head = IF L = 0 THEN NULL ELSE q[1]
      /\ c.tail = IF L = 0 THEN NULL ELSE q[L]
      /\ \A n \in 1 .. L : /\ c.slots[q[n]].prev = IF n = 1 THEN NULL ELSE q[n - 1]
                           /\ c.slots[q[n]].next = IF n = L THEN NULL ELSE q[n + 1]
  BY <1>1, <1>2 DEF Linked
<1>5. L # 0 => 1 \in 1 .. L /\ L \in 1 .. L
  BY ONLY <1>2
<1>6. c.head \in 0 .. N /\ c.head # i /\ (c.head = NULL <=> L = 0)
  BY ONLY <1>3, <1>4, <1>5 DEF NULL
<1>7. Fronts(c, i, d)
  BY ONLY <1>1, <1>3, <1>6, IsLru(c), AttachFronts
<1>8. /\ AList(r) /\ Len(r) = L + 1
      /\ \A n \in 1 .. L + 1 : r[n] = IF n = 1 THEN i ELSE q[n - 1]
  <2>1. AList(q)
    BY DEF Linked
  <2> QED
    BY ONLY <1>1, <1>2, <2>1, PushedIs
<1>9. Relinked(c, d) /\ Len(d.slots) = N
  BY ONLY <1>1, <1>7 DEF Fronts, Relinked
<1>10. /\ r[1] = i
       /\ \A n \in 1 .. L : n + 1 \in 1 .. L + 1 /\ r[n + 1] = q[n]
  BY ONLY <1>2, <1>8
<1>11. \A n \in 1 .. L + 1 : n # 1 => n - 1 \in 1 .. L /\ r[n] = q[n - 1]
  <2> SUFFICES ASSUME NEW n \in 1 .. L + 1, n # 1 PROVE n - 1 \in 1 .. L /\ r[n] = q[n - 1]
    OBVIOUS
  <2>1. n - 1 \in 1 .. L
    BY ONLY <1>2, n \in 1 .. L + 1, n # 1
  <2>2. r[n] = q[n - 1]
    BY <1>8
  <2> QED
    BY ONLY <2>1, <2>2
<1>12. \A n \in 1 .. L + 1 : r[n] \in 1 .. N
  BY ONLY <1>3, <1>4, <1>10, <1>11
<1>13. ASSUME NEW k \in 1 .. L + 1, NEW n \in 1 .. L + 1, r[k] = r[n] PROVE k = n
  <2>1. CASE k = 1 /\ n = 1
    BY ONLY <2>1
  <2>2. CASE k # 1 /\ n # 1
    <3>1. k - 1 = n - 1
      BY <1>4, <1>11, <1>13, <2>2
    <3> QED
      BY ONLY <1>2, <3>1, k \in 1 .. L + 1, n \in 1 .. L + 1
  <2>3. CASE k = 1 /\ n # 1
    BY <1>3, <1>10, <1>11, <1>13, <2>3
  <2>4. CASE k # 1 /\ n = 1
    BY <1>3, <1>10, <1>11, <1>13, <2>4
  <2> QED
    BY ONLY <2>1, <2>2, <2>3, <2>4
<1>14. d.head = r[1]
  BY ONLY <1>7, <1>10 DEF Fronts
<1>15. d.tail = r[L + 1]
  <2>1. d.tail = IF L = 0 THEN i ELSE c.tail
    BY ONLY <1>6, <1>7 DEF Fronts
  <2>2. CASE L = 0
    BY ONLY <1>10, <2>1, <2>2
  <2>3. CASE L # 0
    BY ONLY <1>4, <1>5, <1>10, <2>1, <2>3
  <2> QED
    BY ONLY <2>2, <2>3
<1>16. \A j \in 1 .. N :
          /\ d.slots[j].prev = IF j = c.head THEN i
                               ELSE IF j = i THEN NULL ELSE c.slots[j].prev
          /\ d.slots[j].next = IF j = i THEN c.head ELSE c.slots[j].next
  BY ONLY <1>1, <1>7 DEF Fronts
<1>17. ASSUME NEW n \in 1 .. L + 1
       PROVE  /\ d.slots[r[n]].prev = IF n = 1 THEN NULL ELSE r[n - 1]
              /\ d.slots[r[n]].next = IF n = L + 1 THEN NULL ELSE r[n + 1]
  <2>1. CASE n = 1
    <3>1. d.slots[i].prev = NULL /\ d.slots[i].next = c.head
      BY ONLY <1>3, <1>6, <1>16
    <3>2. L # 0 => r[1 + 1] = q[1]
      BY ONLY <1>5, <1>10
    <3>3. n = L + 1 <=> L = 0
      BY ONLY <1>2, <2>1
    <3> QED
      BY ONLY <1>4, <1>10, <2>1, <3>1, <3>2, <3>3
  <2>2. CASE n # 1
    <3>1. PICK k \in 1 .. L : n = k + 1
      <4>1. n - 1 \in 1 .. L /\ n = n - 1 + 1
        BY ONLY <1>2, <2>2, n \in 1 .. L + 1
      <4> QED
        BY ONLY <4>1
    <3>2. PICK j : j = q[k] /\ j = r[n] /\ j \in 1 .. N /\ j # i
      BY ONLY <1>3, <1>4, <1>10, <3>1
    <3>3. d.slots[j].next = IF k = L THEN NULL ELSE q[k + 1]
      <4>1. c.slots[j].next = IF k = L THEN NULL ELSE q[k + 1]
        BY ONLY <1>4, <3>2, k \in 1 .. L
      <4>2. d.slots[j].next = c.slots[j].next
        BY ONLY <1>16, <3>2
      <4> QED
        BY ONLY <4>1, <4>2
    <3>4. k # L => k + 1 \in 1 .. L /\ k + 1 + 1 = n + 1
      BY ONLY <1>2, <3>1
    <3>5. k # L => r[n + 1] = q[k + 1]
      BY ONLY <1>10, <3>4
    <3>6. k = L <=> n = L + 1
      BY ONLY <1>2, <3>1
    <3>7. j = c.head <=> k = 1
      <4>1. L # 0 /\ 1 \in 1 .. L
        BY ONLY <1>2, k \in 1 .. L
      <4>2. c.head = q[1]
        BY ONLY <1>4, <4>1
      <4> QED
        BY ONLY <1>4, <3>2, <4>1, <4>2, k \in 1 .. L
    <3>8. d.slots[j].prev = r[n - 1]
      <4>1. CASE k = 1
        <5>1. n - 1 = 1
          BY ONLY <3>1, <4>1
        <5> QED
          BY ONLY <1>10, <1>16, <3>2, <3>7, <4>1, <5>1
      <4>2. CASE k # 1
        <5>1. k - 1 \in 1 .. L /\ k - 1 + 1 = n - 1
          BY ONLY <1>2, <3>1, <4>2
        <5>2. r[n - 1] = q[k - 1]
          BY ONLY <1>10, <5>1
        <5>3. c.slots[j].prev = q[k - 1]
          BY ONLY <1>4, <3>1, <3>2, <4>2
        <5> QED
          BY ONLY <1>16, <3>2, <3>7, <4>2, <5>2, <5>3
      <4> QED
        BY ONLY <4>1, <4>2
    <3> QED
      BY ONLY <2>2, <3>2, <3>3, <3>5, <3>6, <3>8
  <2> QED
    BY ONLY <2>1, <2>2
<1>18. L + 1 # 0
  BY ONLY <1>2
<1>19. Linked(d, r)
  BY ONLY <1>8, <1>9, <1>12, <1>13, <1>14, <1>15, <1>17, <1>18 DEF Linked
<1> QED
  BY ONLY <1>1, <1>9, <1>19, Zenon
-----------------------------------------------------------------------------
(* What a cache stands for: slots q, most recently used first, with the    *)
(* entries r in them; the map finds exactly these, the stack holds the     *)
(* other slots.                                                            *)

Shows(c, q, r) ==
    AList(r) /\ Len(r) = Len(q) /\ \A n \in 1 .. Len(q) : r[n] = Item(c.slots[q[n]])

Mapped(map, q, r) ==
    /\ \A k \in DOMAIN map : \E n \in 1 .. Len(q) : q[n] = map[k] /\ r[n].key = k
    /\ \A n \in 1 .. Len(q) : r[n].key \in DOMAIN map /\ map[r[n].key] = q[n]

Spare(free, N, q) ==
    /\ \A m \in 1 .. Len(free) : free[m] \in 1 .. N
    /\ \A m, n \in 1 .. Len(free) : free[m] = free[n] => m = n
    /\ \A m \in 1 .. Len(free), n \in 1 .. Len(q) : free[m] # q[n]
    /\ \A j \in 1 .. N : \/ \E n \in 1 .. Len(q) : q[n] = j
                         \/ \E m \in 1 .. Len(free) : free[m] = j
    /\ N = Len(q) + Len(free) /\ N <= cap

Stands(c, q, r) ==
    /\ IsLru(c) /\ Linked(c, q) /\ Shows(c, q, r)
    /\ Mapped(c.map, q, r) /\ Spare(c.free, Len(c.slots), q)

\* The m-th of q goes to the front: position n of the result is position f[n].
Fronted(f, L, m) == f = [n \in 1 .. L |-> IF n = 1 THEN m ELSE IF n - 1 < m THEN n - 1 ELSE n]

LEMMA FrontedIs ==
    ASSUME NEW L \in Nat, NEW m \in 1 .. L, NEW f, Fronted(f, L, m)
    PROVE  /\ f[1] = m /\ \A n \in 1 .. L : f[n] \in 1 .. L
           /\ \A n \in 1 .. L : n # 1 =>
                 f[n] # m /\ f[n] = IF n - 1 < m THEN n - 1 ELSE n
           /\ \A k \in 1 .. L : \E n \in 1 .. L : f[n] = k
<1>1. \A n \in 1 .. L : f[n] = IF n = 1 THEN m ELSE IF n - 1 < m THEN n - 1 ELSE n
  BY DEF Fronted
<1>2. f[1] = m /\ \A n \in 1 .. L : f[n] \in 1 .. L
  BY ONLY <1>1, L \in Nat, m \in 1 .. L
<1>3. \A n \in 1 .. L : n # 1 => f[n] # m /\ f[n] = IF n - 1 < m THEN n - 1 ELSE n
  BY ONLY <1>1, L \in Nat, m \in 1 .. L
<1>4. ASSUME NEW k \in 1 .. L PROVE \E n \in 1 .. L : f[n] = k
  <2>1. CASE k = m
    BY ONLY <1>2, <2>1, L \in Nat, m \in 1 .. L
  <2>2. CASE k < m
    <3>1. k + 1 \in 1 .. L /\ k + 1 # 1 /\ k + 1 - 1 < m /\ k + 1 - 1 = k
      BY ONLY <2>2, L \in Nat, m \in 1 .. L, k \in 1 .. L
    <3>2. f[k + 1] = k
      BY ONLY <1>1, <3>1
    <3> QED
      BY ONLY <3>1, <3>2
  <2>3. CASE m < k
    <3>1. k # 1 /\ ~(k - 1 < m)
      BY ONLY <2>3, L \in Nat, m \in 1 .. L, k \in 1 .. L
    <3>2. f[k] = k
      BY ONLY <1>1, <3>1, k \in 1 .. L
    <3> QED
      BY ONLY <3>2, k \in 1 .. L
  <2> QED
    BY ONLY <2>1, <2>2, <2>3, L \in Nat, m \in 1 .. L, k \in 1 .. L
<1> QED
  BY ONLY <1>2, <1>3, <1>4

\* u is q in that order, with x for the element in front.
InFront(q, f, x, u) ==
    /\ AList(u) /\ Len(u) = Len(q) /\ u[1] = x
    /\ \A n \in 1 .. Len(q) : n # 1 => u[n] = q[f[n]]

LEMMA CutPushed ==
    ASSUME NEW q, AList(q), NEW m \in 1 .. Len(q), NEW x, NEW f, Fronted(f, Len(q), m)
    PROVE  InFront(q, f, x, Pushed(Cut(q, m), x))
<1>1. PICK L \in Nat : L = Len(q) /\ L # 0
  BY DEF AList
<1>2. PICK r, s : r = Cut(q, m) /\ s = Pushed(r, x)
  OBVIOUS
<1>3. /\ AList(r) /\ Len(r) = L - 1
      /\ \A n \in 1 .. L - 1 : r[n] = IF n < m THEN q[n] ELSE q[n + 1]
  BY ONLY <1>1, <1>2, AList(q), m \in 1 .. Len(q), CutIs
<1>4. /\ AList(s) /\ Len(s) = L - 1 + 1
      /\ \A n \in 1 .. L - 1 + 1 : s[n] = IF n = 1 THEN x ELSE r[n - 1]
  BY ONLY <1>2, <1>3, PushedIs
<1>5. L - 1 + 1 = L /\ 1 \in 1 .. L /\ m \in 1 .. L
  BY ONLY <1>1, m \in 1 .. Len(q)
<1>6. ASSUME NEW n \in 1 .. L, n # 1 PROVE s[n] = q[f[n]]
  <2>1. n - 1 \in 1 .. L - 1 /\ n - 1 + 1 = n
    BY ONLY <1>1, n \in 1 .. L, n # 1
  <2>2. s[n] = IF n - 1 < m THEN q[n - 1] ELSE q[n - 1 + 1]
    BY ONLY <1>3, <1>4, <1>5, <2>1, n \in 1 .. L, n # 1
  <2>3. f[n] = IF n - 1 < m THEN n - 1 ELSE n
    BY <1>1, <1>5, <1>6 DEF Fronted
  <2> QED
    BY ONLY <2>1, <2>2, <2>3
<1>7. InFront(q, f, x, s)
  BY ONLY <1>1, <1>4, <1>5, <1>6 DEF InFront
<1> QED
  BY ONLY <1>2, <1>7, Zenon

\* An entry that was taken out of the links, and perhaps written, goes to the front.
LEMMA FrontAgain ==
    ASSUME NEW c, NEW q, NEW r, Stands(c, q, r), NEW m \in 1 .. Len(q),
           NEW d, IsLru(d), Linked(d, Cut(q, m)), d.map = c.map, d.free = c.free,
           Len(d.slots) = Len(c.slots),
           \A j \in 1 .. Len(c.slots) : j # q[m] => Item(d.slots[j]) = Item(c.slots[j]),
           Item(d.slots[q[m]]).key = r[m].key
    PROVE  Stands(attach_front(d, q[m]), Pushed(Cut(q, m), q[m]),
                  Pushed(Cut(r, m), Item(d.slots[q[m]])))
<1>1. PICK L \in Nat : L = Len(q) /\ L = Len(r)
  BY DEF Stands, Linked, Shows, AList
<1>2. PICK a, i, x, u, v, e, N :
        /\ a = Cut(q, m) /\ i = q[m] /\ x = Item(d.slots[q[m]])
        /\ u = Pushed(Cut(q, m), q[m]) /\ v = Pushed(Cut(r, m), Item(d.slots[q[m]]))
        /\ e = attach_front(d, q[m]) /\ N = Len(c.slots)
  OBVIOUS
<1>3. AList(q) /\ AList(r) /\ m \in 1 .. L /\ N \in Nat
  BY <1>1, <1>2 DEF Stands, Linked, Shows, IsLru, AList
<1>4. /\ \A n \in 1 .. L : q[n] \in 1 .. N
      /\ \A k, n \in 1 .. L : q[k] = q[n] => k = n
      /\ \A n \in 1 .. L : r[n] = Item(c.slots[q[n]])
  BY <1>1, <1>2 DEF Stands, Linked, Shows
<1>5. PICK f : Fronted(f, L, m)
  BY DEF Fronted
<1>6. /\ f[1] = m /\ \A n \in 1 .. L : f[n] \in 1 .. L
      /\ \A n \in 1 .. L : n # 1 => f[n] # m
      /\ \A k \in 1 .. L : \E n \in 1 .. L : f[n] = k
  BY ONLY <1>3, <1>5, L \in Nat, FrontedIs
<1>7. /\ AList(u) /\ Len(u) = L /\ u[1] = i
      /\ \A n \in 1 .. L : n # 1 => u[n] = q[f[n]]
  <2>1. Fronted(f, Len(q), m) /\ m \in 1 .. Len(q)
    BY ONLY <1>1, <1>3, <1>5
  <2>2. u = Pushed(Cut(q, m), i)
    BY ONLY <1>2
  <2>3. /\ AList(u) /\ Len(u) = Len(q) /\ u[1] = i
        /\ \A n \in 1 .. Len(q) : n # 1 => u[n] = q[f[n]]
    <3>1. InFront(q, f, i, u)
      BY ONLY <1>3, <2>1, <2>2, CutPushed, Zenon
    <3> QED
      BY ONLY <3>1 DEF InFront
  <2> QED
    BY ONLY <1>1, <2>3
<1>8. /\ AList(v) /\ Len(v) = L /\ v[1] = x
      /\ \A n \in 1 .. L : n # 1 => v[n] = r[f[n]]
  <2>1. Fronted(f, Len(r), m) /\ m \in 1 .. Len(r)
    BY ONLY <1>1, <1>3, <1>5
  <2>2. v = Pushed(Cut(r, m), x)
    BY ONLY <1>2
  <2>3. /\ AList(v) /\ Len(v) = Len(r) /\ v[1] = x
        /\ \A n \in 1 .. Len(r) : n # 1 => v[n] = r[f[n]]
    <3>1. InFront(r, f, x, v)
      BY ONLY <1>3, <2>1, <2>2, CutPushed, Zenon
    <3> QED
      BY ONLY <3>1 DEF InFront
  <2> QED
    BY ONLY <1>1, <2>3
<1>9. \A n \in 1 .. L : u[n] = q[f[n]]
  BY ONLY <1>2, <1>6, <1>7, ZenonT(30)
<1>10. \A n \in 1 .. L : v[n].key = r[f[n]].key
  <2>1. x.key = r[m].key
    BY <1>2
  <2> SUFFICES ASSUME NEW n \in 1 .. L PROVE v[n].key = r[f[n]].key
    OBVIOUS
  <2>2. CASE n = 1
    BY ONLY <1>6, <1>8, <2>1, <2>2
  <2>3. CASE n # 1
    BY ONLY <1>8, <2>3, n \in 1 .. L
  <2> QED
    BY ONLY <2>2, <2>3
<1>11. i \in 1 .. Len(d.slots) /\ \A n \in 1 .. Len(a) : a[n] # i
  <2>1. i \in 1 .. N
    BY ONLY <1>2, <1>3, <1>4
  <2>2. /\ Len(a) = L - 1
        /\ \A n \in 1 .. L - 1 : a[n] = IF n < m THEN q[n] ELSE q[n + 1]
    BY ONLY <1>1, <1>2, <1>3, CutIs
  <2>3. ASSUME NEW n \in 1 .. L - 1 PROVE a[n] # i
    <3>1. PICK k \in 1 .. L : a[n] = q[k] /\ k # m
      <4>1. CASE n < m
        BY ONLY <1>1, <1>3, <2>2, <4>1, n \in 1 .. L - 1
      <4>2. CASE ~(n < m)
        BY ONLY <1>1, <1>3, <2>2, <4>2, n \in 1 .. L - 1
      <4> QED
        BY ONLY <4>1, <4>2
    <3> QED
      BY ONLY <1>2, <1>3, <1>4, <3>1
  <2> QED
    BY <1>2, <2>1, <2>2, <2>3
<1>12. Relinked(d, e) /\ Linked(e, u)
  BY <1>2, <1>11, AttachPushes
<1>13. /\ IsLru(e) /\ e.map = c.map /\ e.free = c.free /\ Len(e.slots) = N
       /\ \A j \in 1 .. N : Item(e.slots[j]) = Item(d.slots[j])
  BY <1>2, <1>12 DEF Relinked
<1>14. Shows(e, u, v)
  <2>1. ASSUME NEW n \in 1 .. L PROVE v[n] = Item(e.slots[u[n]])
    <3>1. CASE n = 1
      <4>1. Item(e.slots[i]) = Item(d.slots[i])
        BY <1>2, <1>3, <1>4, <1>13
      <4> QED
        BY ONLY <1>2, <1>7, <1>8, <3>1, <4>1
    <3>2. CASE n # 1
      <4>1. PICK k \in 1 .. L : k = f[n] /\ k # m /\ u[n] = q[k] /\ v[n] = r[k]
        BY ONLY <1>6, <1>7, <1>8, <3>2, n \in 1 .. L
      <4>2. q[k] \in 1 .. N /\ q[k] # q[m] /\ r[k] = Item(c.slots[q[k]])
        BY ONLY <1>3, <1>4, <4>1
      <4>3. Item(e.slots[q[k]]) = Item(c.slots[q[k]])
        BY <1>2, <1>13, <4>2
      <4> QED
        BY ONLY <4>1, <4>2, <4>3
    <3> QED
      BY ONLY <3>1, <3>2
  <2> QED
    BY ONLY <1>7, <1>8, <2>1 DEF Shows
<1>15. Mapped(e.map, u, v)
  <2>1. /\ \A k \in DOMAIN c.map : \E n \in 1 .. L : q[n] = c.map[k] /\ r[n].key = k
        /\ \A n \in 1 .. L : r[n].key \in DOMAIN c.map /\ c.map[r[n].key] = q[n]
    BY <1>1 DEF Stands, Mapped
  <2>2. ASSUME NEW k \in DOMAIN c.map PROVE \E n \in 1 .. L : u[n] = c.map[k] /\ v[n].key = k
    <3>1. PICK t \in 1 .. L : q[t] = c.map[k] /\ r[t].key = k
      BY <2>1
    <3>2. PICK n \in 1 .. L : f[n] = t
      BY <1>6
    <3> QED
      BY ONLY <1>9, <1>10, <3>1, <3>2
  <2>3. ASSUME NEW n \in 1 .. L PROVE v[n].key \in DOMAIN c.map /\ c.map[v[n].key] = u[n]
    <3>1. PICK k \in 1 .. L : k = f[n] /\ u[n] = q[k] /\ v[n].key = r[k].key
      BY ONLY <1>6, <1>9, <1>10, n \in 1 .. L
    <3> QED
      BY ONLY <2>1, <3>1, ZenonT(30)
  <2> QED
    BY ONLY <1>7, <1>13, <2>2, <2>3 DEF Mapped
<1>16. Spare(e.free, Len(e.slots), u)
  <2>1. PICK F : F = c.free
    OBVIOUS
  <2>2. /\ \A k \in 1 .. Len(F) : F[k] \in 1 .. N
        /\ \A k, n \in 1 .. Len(F) : F[k] = F[n] => k = n
        /\ \A k \in 1 .. Len(F), n \in 1 .. L : F[k] # q[n]
        /\ \A j \in 1 .. N : \/ \E n \in 1 .. L : q[n] = j
                             \/ \E k \in 1 .. Len(F) : F[k] = j
        /\ N = L + Len(F) /\ N <= cap
    BY <1>1, <1>2, <2>1 DEF Stands, Spare
  <2>3. ASSUME NEW k \in 1 .. Len(F), NEW n \in 1 .. L PROVE F[k] # u[n]
    <3>1. PICK t \in 1 .. L : t = f[n] /\ u[n] = q[t]
      BY ONLY <1>6, <1>9, n \in 1 .. L
    <3> QED
      BY ONLY <2>2, <3>1, k \in 1 .. Len(F)
  <2>4. ASSUME NEW j \in 1 .. N
        PROVE  \/ \E n \in 1 .. L : u[n] = j
               \/ \E k \in 1 .. Len(F) : F[k] = j
    <3>1. CASE \E k \in 1 .. Len(F) : F[k] = j
      BY ONLY <3>1
    <3>2. CASE \E n \in 1 .. L : q[n] = j
      <4>1. PICK t \in 1 .. L : q[t] = j
        BY ONLY <3>2
      <4>2. PICK n \in 1 .. L : f[n] = t
        BY ONLY <1>6, t \in 1 .. L
      <4> QED
        BY ONLY <1>9, <4>1, <4>2
    <3> QED
      BY ONLY <2>2, <3>1, <3>2, j \in 1 .. N
  <2>5. Spare(F, N, u)
    BY ONLY <1>7, <2>2, <2>3, <2>4 DEF Spare
  <2> QED
    BY ONLY <1>13, <2>1, <2>5, Zenon
<1>17. Stands(e, u, v)
  BY ONLY <1>12, <1>13, <1>14, <1>15, <1>16 DEF Stands
<1> QED
  BY ONLY <1>2, <1>17, Zenon

\* Position n of what is left without the m-th is position g[n].
Skipping(g, L, m) == g = [n \in 1 .. L - 1 |-> IF n < m THEN n ELSE n + 1]

Thinned(q, g, u) ==
    AList(u) /\ Len(u) = Len(q) - 1 /\ \A n \in 1 .. Len(q) - 1 : u[n] = q[g[n]]

LEMMA SkippingIs ==
    ASSUME NEW L \in Nat, NEW m \in 1 .. L, NEW g, Skipping(g, L, m)
    PROVE  /\ \A n \in 1 .. L - 1 : g[n] \in 1 .. L /\ g[n] # m
           /\ \A k \in 1 .. L : k # m => \E n \in 1 .. L - 1 : g[n] = k
<1>1. \A n \in 1 .. L - 1 : g[n] = IF n < m THEN n ELSE n + 1
  BY DEF Skipping
<1>2. \A n \in 1 .. L - 1 : g[n] \in 1 .. L /\ g[n] # m
  BY ONLY <1>1, L \in Nat, m \in 1 .. L
<1>3. ASSUME NEW k \in 1 .. L, k # m PROVE \E n \in 1 .. L - 1 : g[n] = k
  <2>1. CASE k < m
    <3>1. k \in 1 .. L - 1
      BY ONLY <2>1, L \in Nat, m \in 1 .. L, k \in 1 .. L
    <3> QED
      BY ONLY <1>1, <2>1, <3>1
  <2>2. CASE ~(k < m)
    <3>1. k - 1 \in 1 .. L - 1 /\ ~(k - 1 < m) /\ k - 1 + 1 = k
      BY ONLY <2>2, L \in Nat, m \in 1 .. L, k \in 1 .. L, k # m
    <3>2. g[k - 1] = k
      BY ONLY <1>1, <3>1
    <3> QED
      BY ONLY <3>1, <3>2
  <2> QED
    BY ONLY <2>1, <2>2
<1> QED
  BY ONLY <1>2, <1>3

LEMMA CutThins ==
    ASSUME NEW q, AList(q), NEW m \in 1 .. Len(q), NEW g, Skipping(g, Len(q), m)
    PROVE  Thinned(q, g, Cut(q, m))
<1>1. PICK u : u = Cut(q, m)
  OBVIOUS
<1>2. /\ AList(u) /\ Len(u) = Len(q) - 1
      /\ \A n \in 1 .. Len(q) - 1 : u[n] = IF n < m THEN q[n] ELSE q[n + 1]
  BY ONLY <1>1, AList(q), m \in 1 .. Len(q), CutIs
<1>3. \A n \in 1 .. Len(q) - 1 : g[n] = IF n < m THEN n ELSE n + 1
  BY DEF Skipping
<1>4. Thinned(q, g, u)
  BY ONLY <1>2, <1>3 DEF Thinned
<1> QED
  BY ONLY <1>1, <1>4, Zenon

\* The links stay where the slots they run over stay.
LEMMA LinkedSame ==
    ASSUME NEW c, NEW q, Linked(c, q), NEW d, d.head = c.head, d.tail = c.tail,
           Len(c.slots) \in Nat, Len(d.slots) \in Nat, Len(c.slots) <= Len(d.slots),
           \A n \in 1 .. Len(q) : d.slots[q[n]] = c.slots[q[n]]
    PROVE  Linked(d, q)
<1>1. \A n \in 1 .. Len(q) : q[n] \in 1 .. Len(d.slots)
  BY DEF Linked
<1> QED
  BY <1>1 DEF Linked

\* d is c with another map and another stack of free slots.
Refiled(c, map, free, d) ==
    /\ IsLru(d) /\ d.map = map /\ d.free = free
    /\ d.slots = c.slots /\ d.head = c.head /\ d.tail = c.tail

LEMMA FilesWritten ==
    ASSUME NEW c, IsLru(c), NEW x, NEW y, AList(y)
    PROVE  /\ Refiled(c, x, c.free, [c EXCEPT !.map = x])
           /\ Refiled(c, c.map, y, [c EXCEPT !.free = y])
<1>1. PICK map, slots, free, head, tail :
        c = [map |-> map, slots |-> slots, free |-> free, head |-> head, tail |-> tail]
  BY DEF IsLru
<1>2. c.map = map /\ c.slots = slots /\ c.free = free /\ c.head = head /\ c.tail = tail
  BY ONLY <1>1
<1>3. /\ AList(slots) /\ AList(free) /\ \A i \in 1 .. Len(slots) : IsSlot(slots[i])
  BY <1>2 DEF IsLru
<1>4. PICK d : d = [c EXCEPT !.map = x]
  OBVIOUS
<1>5. d = [map |-> x, slots |-> slots, free |-> free, head |-> head, tail |-> tail]
  BY ONLY <1>1, <1>4
<1>6. d.map = x /\ d.slots = slots /\ d.free = free /\ d.head = head /\ d.tail = tail
  BY ONLY <1>5
<1>7. IsLru(d)
  BY ONLY <1>3, <1>5, <1>6 DEF IsLru
<1>8. Refiled(c, x, c.free, d)
  BY ONLY <1>2, <1>6, <1>7 DEF Refiled
<1>9. PICK b : b = [c EXCEPT !.free = y]
  OBVIOUS
<1>10. b = [map |-> map, slots |-> slots, free |-> y, head |-> head, tail |-> tail]
  BY ONLY <1>1, <1>9
<1>11. b.map = map /\ b.slots = slots /\ b.free = y /\ b.head = head /\ b.tail = tail
  BY ONLY <1>10
<1>12. IsLru(b)
  BY ONLY <1>3, <1>10, <1>11, AList(y) DEF IsLru
<1>13. Refiled(c, c.map, y, b)
  BY ONLY <1>2, <1>11, <1>12 DEF Refiled
<1> QED
  BY ONLY <1>4, <1>8, <1>9, <1>13, Zenon

LEMMA VacantIs == IsSlot(Vacant)
<1>1. PICK s : s = Vacant
  OBVIOUS
<1>2. s = [key |-> NULL, val |-> NULL, expires_at |-> 0, prev |-> NULL, next |-> NULL]
  BY ONLY <1>1 DEF Vacant
<1>3. IsSlot(s)
  BY ONLY <1>2 DEF IsSlot
<1> QED
  BY ONLY <1>1, <1>3, Zenon

\* Taking the m-th entry out for good leaves the others, in their order.
LEMMA VacateCuts ==
    ASSUME NEW c, NEW q, NEW r, Stands(c, q, r), NEW m \in 1 .. Len(q)
    PROVE  Stands(Vacate(c, q[m]), Cut(q, m), Cut(r, m))
<1>1. PICK L \in Nat : L = Len(q) /\ L = Len(r)
  BY DEF Stands, Linked, Shows, AList
<1>2. PICK i, u, w, N, v, d :
        /\ i = q[m] /\ u = Cut(q, m) /\ w = Cut(r, m) /\ N = Len(c.slots)
        /\ v = Vacate(c, q[m]) /\ d = detach(c, q[m])
  OBVIOUS
<1>3. AList(q) /\ AList(r) /\ m \in 1 .. L /\ N \in Nat /\ IsLru(c) /\ Linked(c, q)
  BY <1>1, <1>2 DEF Stands, Linked, Shows, IsLru, AList
<1>4. /\ \A n \in 1 .. L : q[n] \in 1 .. N
      /\ \A k, n \in 1 .. L : q[k] = q[n] => k = n
      /\ \A n \in 1 .. L : r[n] = Item(c.slots[q[n]])
  BY <1>1, <1>2 DEF Stands, Linked, Shows
<1>5. PICK g : Skipping(g, L, m)
  BY DEF Skipping
<1>6. /\ \A n \in 1 .. L - 1 : g[n] \in 1 .. L /\ g[n] # m
      /\ \A k \in 1 .. L : k # m => \E n \in 1 .. L - 1 : g[n] = k
  BY ONLY <1>3, <1>5, L \in Nat, SkippingIs
<1>7. AList(u) /\ Len(u) = L - 1 /\ \A n \in 1 .. L - 1 : u[n] = q[g[n]]
  <2>1. Thinned(q, g, u)
    BY ONLY <1>1, <1>2, <1>3, <1>5, CutThins, Zenon
  <2> QED
    BY ONLY <1>1, <2>1 DEF Thinned
<1>8. AList(w) /\ Len(w) = L - 1 /\ \A n \in 1 .. L - 1 : w[n] = r[g[n]]
  <2>1. Thinned(r, g, w)
    BY ONLY <1>1, <1>2, <1>3, <1>5, CutThins, Zenon
  <2> QED
    BY ONLY <1>1, <2>1 DEF Thinned
<1>9. \A n \in 1 .. L - 1 : \E k \in 1 .. L : k # m /\ u[n] = q[k] /\ w[n] = r[k]
  BY ONLY <1>6, <1>7, <1>8
<1>10. ASSUME NEW k \in 1 .. L, k # m PROVE \E n \in 1 .. L - 1 : u[n] = q[k] /\ w[n] = r[k]
  <2>1. PICK n \in 1 .. L - 1 : g[n] = k
    BY ONLY <1>6, k \in 1 .. L, k # m
  <2> QED
    BY ONLY <1>7, <1>8, <2>1
<1>11. i \in 1 .. N /\ \A n \in 1 .. L - 1 : u[n] # i /\ u[n] \in 1 .. N
  <2>1. ASSUME NEW n \in 1 .. L - 1 PROVE u[n] # i /\ u[n] \in 1 .. N
    <3>1. PICK k \in 1 .. L : k # m /\ u[n] = q[k]
      BY ONLY <1>9, n \in 1 .. L - 1
    <3> QED
      BY ONLY <1>2, <1>3, <1>4, <3>1
  <2> QED
    BY ONLY <1>2, <1>3, <1>4, <2>1
<1>12. Relinked(c, d) /\ Linked(d, u)
  BY ONLY <1>2, <1>3, m \in 1 .. Len(q), DetachCuts, Zenon
<1>13. /\ IsLru(d) /\ d.map = c.map /\ d.free = c.free /\ Len(d.slots) = N
       /\ \A j \in 1 .. N : Item(d.slots[j]) = Item(c.slots[j])
  BY ONLY <1>2, <1>12 DEF Relinked
<1>14. PICK key, M, F : /\ key = c.slots[i].key /\ F = Append(c.free, i)
                        /\ M = [k \in Keys(c) \ {key} |-> c.map[k]]
  OBVIOUS
<1>15. PICK d1 : d1 = [d EXCEPT !.map = M]
  OBVIOUS
<1>16. PICK d2 : d2 = [d1 EXCEPT !.slots[i] = Vacant]
  OBVIOUS
<1>17. PICK d3 : d3 = [d2 EXCEPT !.free = F]
  OBVIOUS
<1>18. Longer(c.free, i, F) /\ AList(F)
  <2>1. AList(c.free)
    BY <1>3 DEF IsLru
  <2>2. Longer(c.free, i, F)
    BY ONLY <1>14, <2>1, ListLonger, Zenon
  <2> QED
    BY ONLY <2>2 DEF Longer
<1>19. Refiled(d, M, d.free, d1)
  BY ONLY <1>13, <1>15, <1>18, FilesWritten, Zenon
<1>20. IsLru(d1) /\ Len(d1.slots) = N /\ d1.free = c.free
  BY ONLY <1>13, <1>19 DEF Refiled
<1>21. WithSlot(d1, i, Vacant, d2)
  BY ONLY <1>11, <1>16, <1>20, VacantIs, SlotWritten
<1>22. IsLru(d2) /\ d2.free = c.free
  BY ONLY <1>20, <1>21 DEF WithSlot
<1>23. Refiled(d2, d2.map, F, d3)
  BY ONLY <1>17, <1>18, <1>22, FilesWritten, Zenon
<1>24. v = d3
  <2>1. d2 = [d EXCEPT !.map = M, !.slots[i] = Vacant]
    BY ONLY <1>15, <1>16
  <2>2. d.free = c.free
    BY <1>13
  <2>3. d3 = [d EXCEPT !.map = M, !.slots[i] = Vacant, !.free = Append(@, i)]
    <3>1. d3 = [d2 EXCEPT !.free = Append(d.free, i)]
      BY ONLY <1>14, <1>17, <2>2, Zenon
    <3> QED
      BY ONLY <1>15, <1>16, <3>1
  <2> QED
    BY ONLY <1>2, <1>14, <2>3, Zenon DEF Vacate
<1>25. /\ IsLru(v) /\ v.map = M /\ v.free = F /\ v.head = d.head /\ v.tail = d.tail
       /\ Len(v.slots) = N /\ \A j \in 1 .. N : j # i => v.slots[j] = d.slots[j]
  BY ONLY <1>13, <1>19, <1>20, <1>21, <1>23, <1>24 DEF Refiled, WithSlot
<1>26. Linked(v, u)
  <2>1. \A n \in 1 .. Len(u) : v.slots[u[n]] = d.slots[u[n]]
    BY ONLY <1>7, <1>11, <1>25
  <2>2. Len(d.slots) \in Nat /\ Len(v.slots) \in Nat /\ Len(d.slots) <= Len(v.slots)
    BY ONLY <1>3, <1>13, <1>25
  <2> QED
    BY ONLY <1>12, <1>25, <2>1, <2>2, LinkedSame
<1>27. Shows(v, u, w)
  <2>1. ASSUME NEW n \in 1 .. L - 1 PROVE w[n] = Item(v.slots[u[n]])
    <3>1. PICK k \in 1 .. L : k # m /\ u[n] = q[k] /\ w[n] = r[k]
      BY ONLY <1>9, n \in 1 .. L - 1
    <3>2. u[n] \in 1 .. N /\ u[n] # i
      BY ONLY <1>11, n \in 1 .. L - 1
    <3> QED
      BY ONLY <1>4, <1>13, <1>25, <3>1, <3>2
  <2> QED
    BY ONLY <1>7, <1>8, <2>1 DEF Shows
<1>28. key = r[m].key
  <2>1. r[m] = Item(c.slots[i])
    BY ONLY <1>2, <1>3, <1>4
  <2> QED
    BY ONLY <1>14, <2>1 DEF Item
<1>29. Mapped(v.map, u, w)
  <2>1. /\ \A k \in Keys(c) : \E n \in 1 .. L : q[n] = c.map[k] /\ r[n].key = k
        /\ \A n \in 1 .. L : r[n].key \in Keys(c) /\ c.map[r[n].key] = q[n]
    BY <1>1 DEF Stands, Mapped, Keys
  <2>2. DOMAIN M = Keys(c) \ {key} /\ \A k \in Keys(c) \ {key} : M[k] = c.map[k]
    BY ONLY <1>14
  <2>3. ASSUME NEW k \in Keys(c) \ {key} PROVE \E n \in 1 .. L - 1 : u[n] = M[k] /\ w[n].key = k
    <3>1. PICK t \in 1 .. L : q[t] = c.map[k] /\ r[t].key = k
      BY <2>1
    <3>2. t # m
      BY <1>28, <3>1
    <3>3. PICK n \in 1 .. L - 1 : u[n] = q[t] /\ w[n] = r[t]
      BY ONLY <1>10, <3>2, t \in 1 .. L
    <3> QED
      BY <2>2, <3>1, <3>3
  <2>4. ASSUME NEW n \in 1 .. L - 1 PROVE w[n].key \in Keys(c) \ {key} /\ M[w[n].key] = u[n]
    <3>1. PICK k \in 1 .. L : k # m /\ u[n] = q[k] /\ w[n] = r[k]
      BY ONLY <1>9, n \in 1 .. L - 1
    <3>2. r[k].key # key
      <4>1. c.map[r[k].key] = q[k] /\ c.map[r[m].key] = q[m]
        BY ONLY <1>3, <2>1, k \in 1 .. L
      <4>2. q[k] # q[m]
        BY ONLY <1>3, <1>4, <3>1, k \in 1 .. L
      <4> QED
        BY ONLY <1>28, <4>1, <4>2, Zenon
    <3>3. r[k].key \in Keys(c) /\ c.map[r[k].key] = q[k]
      BY ONLY <2>1, k \in 1 .. L
    <3> QED
      BY ONLY <2>2, <3>1, <3>2, <3>3
  <2>5. Mapped(M, u, w)
    BY ONLY <1>7, <2>2, <2>3, <2>4 DEF Mapped
  <2> QED
    BY ONLY <1>25, <2>5, Zenon
<1>30. Spare(v.free, Len(v.slots), u)
  <2>1. PICK E, G : E = c.free /\ G = Len(E)
    OBVIOUS
  <2>2. /\ \A k \in 1 .. G : E[k] \in 1 .. N
        /\ \A k, n \in 1 .. G : E[k] = E[n] => k = n
        /\ \A k \in 1 .. G, n \in 1 .. L : E[k] # q[n]
        /\ \A j \in 1 .. N : \/ \E n \in 1 .. L : q[n] = j
                             \/ \E k \in 1 .. G : E[k] = j
        /\ N = L + G /\ N <= cap
    BY <1>1, <1>2, <2>1 DEF Stands, Spare
  <2>3. G \in Nat
    BY <1>3, <2>1 DEF IsLru, AList
  <2>4. Len(F) = G + 1 /\ F[G + 1] = i /\ \A k \in 1 .. G : F[k] = E[k]
    BY ONLY <1>18, <2>1 DEF Longer
  <2>5. \A k \in 1 .. G + 1 : k = G + 1 \/ k \in 1 .. G
    BY ONLY <2>3
  <2>6. \A k \in 1 .. G : E[k] # i
    BY ONLY <1>2, <1>3, <2>2
  <2>7. \A k \in 1 .. G + 1 : F[k] \in 1 .. N
    BY ONLY <1>11, <2>2, <2>4, <2>5
  <2>8. \A k, n \in 1 .. G + 1 : F[k] = F[n] => k = n
    BY ONLY <2>2, <2>4, <2>5, <2>6
  <2>9. ASSUME NEW k \in 1 .. G + 1, NEW n \in 1 .. L - 1 PROVE F[k] # u[n]
    <3>1. PICK t \in 1 .. L : u[n] = q[t]
      BY ONLY <1>9, n \in 1 .. L - 1
    <3>2. CASE k = G + 1
      BY ONLY <1>11, <2>4, <3>2, n \in 1 .. L - 1
    <3>3. CASE k \in 1 .. G
      BY ONLY <2>2, <2>4, <3>1, <3>3
    <3> QED
      BY ONLY <2>5, <3>2, <3>3, k \in 1 .. G + 1
  <2>10. ASSUME NEW j \in 1 .. N
         PROVE  \/ \E n \in 1 .. L - 1 : u[n] = j
                \/ \E k \in 1 .. G + 1 : F[k] = j
    <3>1. CASE j = i
      <4>1. G + 1 \in 1 .. G + 1
        BY ONLY <2>3
      <4> QED
        BY ONLY <2>4, <3>1, <4>1
    <3>2. CASE \E k \in 1 .. G : E[k] = j
      <4>1. PICK k \in 1 .. G : E[k] = j
        BY ONLY <3>2
      <4>2. k \in 1 .. G + 1
        BY ONLY <2>3, k \in 1 .. G
      <4> QED
        BY ONLY <2>4, <4>1, <4>2
    <3>3. CASE j # i /\ \E n \in 1 .. L : q[n] = j
      <4>1. PICK t \in 1 .. L : q[t] = j
        BY ONLY <3>3
      <4>2. t # m
        BY ONLY <1>2, <3>3, <4>1
      <4> QED
        BY ONLY <1>10, <4>1, <4>2
    <3> QED
      BY ONLY <2>2, <3>1, <3>2, <3>3, j \in 1 .. N
  <2>11. N = L - 1 + (G + 1)
    BY ONLY <1>1, <2>2, <2>3
  <2>12. Spare(F, N, u)
    BY ONLY <1>7, <2>2, <2>4, <2>7, <2>8, <2>9, <2>10, <2>11 DEF Spare
  <2> QED
    BY ONLY <1>25, <2>12, Zenon
<1>31. Stands(v, u, w)
  BY ONLY <1>25, <1>26, <1>27, <1>29, <1>30 DEF Stands
<1> QED
  BY ONLY <1>2, <1>31, Zenon

\* d is c with e in a slot i that the links do not use, and still free of them.
Took(c, q, e, i, d) ==
    /\ IsLru(d) /\ d.map = c.map /\ d.head = c.head /\ d.tail = c.tail
    /\ Len(c.slots) <= Len(d.slots) /\ i \in 1 .. Len(d.slots) /\ d.slots[i] = e
    /\ \A n \in 1 .. Len(q) : q[n] # i /\ d.slots[q[n]] = c.slots[q[n]]
    /\ Spare(d.free, Len(d.slots), Pushed(q, i))

Leads(i, q, u) ==
    /\ Len(u) = Len(q) + 1 /\ u[1] = i
    /\ \A n \in 1 .. Len(q) : n + 1 \in 1 .. Len(q) + 1 /\ u[n + 1] = q[n]
    /\ \A n \in 1 .. Len(q) + 1 : n # 1 => \E k \in 1 .. Len(q) : n = k + 1

LEMMA PushedHas ==
    ASSUME NEW q, AList(q), NEW i
    PROVE  Leads(i, q, Pushed(q, i))
<1>1. PICK u, L : u = Pushed(q, i) /\ L = Len(q)
  OBVIOUS
<1>2. L \in Nat /\ Len(u) = L + 1 /\ \A n \in 1 .. L + 1 : u[n] = IF n = 1 THEN i ELSE q[n - 1]
  BY ONLY <1>1, AList(q), PushedIs
<1>3. \A n \in 1 .. L : n + 1 \in 1 .. L + 1 /\ n + 1 # 1 /\ n + 1 - 1 = n
  BY ONLY <1>2
<1>4. \A n \in 1 .. L : u[n + 1] = q[n]
  BY ONLY <1>2, <1>3
<1>5. ASSUME NEW n \in 1 .. L + 1, n # 1 PROVE \E k \in 1 .. L : n = k + 1
  <2>1. n - 1 \in 1 .. L /\ n = n - 1 + 1
    BY ONLY <1>2, n \in 1 .. L + 1, n # 1
  <2> QED
    BY ONLY <2>1
<1>6. u[1] = i
  BY ONLY <1>2
<1>7. Leads(i, q, u)
  BY ONLY <1>1, <1>2, <1>3, <1>4, <1>5, <1>6 DEF Leads
<1> QED
  BY ONLY <1>1, <1>7, Zenon

LEMMA SparePushed ==
    ASSUME NEW F, NEW G \in Nat, Len(F) = G, NEW q, AList(q), NEW i, NEW N \in Nat, i \in 1 .. N,
           N <= cap, N = Len(q) + 1 + G,
           \A k \in 1 .. G : F[k] \in 1 .. N /\ F[k] # i,
           \A k, n \in 1 .. G : F[k] = F[n] => k = n,
           \A k \in 1 .. G, n \in 1 .. Len(q) : F[k] # q[n],
           \A j \in 1 .. N : \/ j = i \/ \E n \in 1 .. Len(q) : q[n] = j
                             \/ \E k \in 1 .. G : F[k] = j
    PROVE  Spare(F, N, Pushed(q, i))
<1>1. PICK u, L : u = Pushed(q, i) /\ L = Len(q)
  OBVIOUS
<1>2. /\ Len(u) = L + 1 /\ u[1] = i /\ L \in Nat
      /\ \A n \in 1 .. L : n + 1 \in 1 .. L + 1 /\ u[n + 1] = q[n]
      /\ \A n \in 1 .. L + 1 : n # 1 => \E k \in 1 .. L : n = k + 1
  <2>1. Leads(i, q, u)
    BY ONLY <1>1, AList(q), PushedHas, Zenon
  <2> QED
    BY ONLY <1>1, <2>1, AList(q) DEF Leads, AList
<1>3. ASSUME NEW k \in 1 .. G, NEW n \in 1 .. L + 1 PROVE F[k] # u[n]
  <2>1. CASE n = 1
    BY <1>2, <2>1
  <2>2. CASE n # 1
    <3>1. PICK t \in 1 .. L : n = t + 1
      BY ONLY <1>2, <2>2, n \in 1 .. L + 1
    <3> QED
      BY <1>1, <1>2, <3>1
  <2> QED
    BY ONLY <2>1, <2>2
<1>4. ASSUME NEW j \in 1 .. N
      PROVE  \/ \E n \in 1 .. L + 1 : u[n] = j
             \/ \E k \in 1 .. G : F[k] = j
  <2>1. CASE j = i
    <3>1. 1 \in 1 .. L + 1
      BY ONLY <1>2
    <3> QED
      BY ONLY <1>2, <2>1, <3>1
  <2>2. CASE \E n \in 1 .. L : q[n] = j
    BY ONLY <1>2, <2>2
  <2>3. CASE \E k \in 1 .. G : F[k] = j
    BY ONLY <2>3
  <2> QED
    BY <1>1, <2>1, <2>2, <2>3
<1>5. N = L + 1 + G /\ N <= cap /\ Len(F) = G
  BY <1>1
<1>6. /\ \A k \in 1 .. G : F[k] \in 1 .. N
      /\ \A k, n \in 1 .. G : F[k] = F[n] => k = n
  OBVIOUS
<1>7. Spare(F, N, u)
  BY ONLY <1>2, <1>3, <1>4, <1>5, <1>6 DEF Spare
<1> QED
  BY ONLY <1>1, <1>7, Zenon

LEMMA AllocTakes ==
    ASSUME NEW c, NEW q, NEW r, Stands(c, q, r), Len(q) < cap, NEW e, IsSlot(e)
    PROVE  \E i, d : alloc_slot(c, e) = [cache |-> d, slot |-> i] /\ Took(c, q, e, i, d)
<1>1. PICK L, N, G, E : /\ L = Len(q) /\ N = Len(c.slots) /\ E = c.free /\ G = Len(E)
                        /\ L \in Nat /\ N \in Nat /\ G \in Nat
  BY DEF Stands, Linked, IsLru, AList
<1>2. AList(q) /\ IsLru(c) /\ AList(E) /\ AList(c.slots)
  BY <1>1 DEF Stands, Linked, IsLru
<1>3. \A n \in 1 .. L : q[n] \in 1 .. N
  BY <1>1 DEF Stands, Linked
<1>4. /\ \A k \in 1 .. G : E[k] \in 1 .. N
      /\ \A k, n \in 1 .. G : E[k] = E[n] => k = n
      /\ \A k \in 1 .. G, n \in 1 .. L : E[k] # q[n]
      /\ \A j \in 1 .. N : \/ \E n \in 1 .. L : q[n] = j
                           \/ \E k \in 1 .. G : E[k] = j
      /\ N = L + G /\ N <= cap
  BY <1>1 DEF Stands, Spare
<1>5. CASE E # <<>>
  <2>1. PICK i, F, d1 : i = Last(E) /\ F = Front(E) /\ d1 = [c EXCEPT !.slots[i] = e]
    OBVIOUS
  <2>2. /\ G # 0 /\ AList(F) /\ Len(F) = G - 1 /\ i = E[G]
        /\ \A k \in 1 .. G - 1 : F[k] = E[k]
    BY ONLY <1>1, <1>2, <1>5, <2>1, ListFront
  <2>3. PICK d : d = [d1 EXCEPT !.free = F]
    OBVIOUS
  <2>4. /\ i \in 1 .. N /\ G \in 1 .. G /\ G - 1 \in Nat
        /\ \A k \in 1 .. G : k = G \/ k \in 1 .. G - 1
        /\ \A k \in 1 .. G - 1 : k \in 1 .. G /\ k # G
    <3>1. /\ G \in 1 .. G /\ G - 1 \in Nat
          /\ \A k \in 1 .. G : k = G \/ k \in 1 .. G - 1
          /\ \A k \in 1 .. G - 1 : k \in 1 .. G /\ k # G
      BY ONLY <1>1, <2>2
    <3> QED
      BY ONLY <1>4, <2>2, <3>1
  <2>5. WithSlot(c, i, e, d1)
    BY ONLY <1>1, <1>2, <2>1, <2>4, IsSlot(e), SlotWritten
  <2>6. IsLru(d1)
    BY ONLY <2>5 DEF WithSlot
  <2>7. Refiled(d1, d1.map, F, d)
    BY ONLY <2>2, <2>3, <2>6, FilesWritten, Zenon
  <2>8. /\ IsLru(d) /\ d.map = c.map /\ d.head = c.head /\ d.tail = c.tail /\ d.free = F
        /\ Len(d.slots) = N /\ d.slots[i] = e
        /\ \A j \in 1 .. N : j # i => d.slots[j] = c.slots[j]
    BY ONLY <1>1, <2>5, <2>7 DEF WithSlot, Refiled
  <2>9. \A n \in 1 .. L : q[n] # i /\ d.slots[q[n]] = c.slots[q[n]]
    BY ONLY <1>3, <1>4, <2>2, <2>4, <2>8
  <2>10. Spare(F, N, Pushed(q, i))
    <3>1. PICK H \in Nat : H = G - 1
      BY ONLY <2>4
    <3>2. \A k \in 1 .. H : F[k] \in 1 .. N /\ F[k] # i
      BY ONLY <1>4, <2>2, <2>4, <3>1
    <3>3. \A k, n \in 1 .. H : F[k] = F[n] => k = n
      BY ONLY <1>4, <2>2, <2>4, <3>1, SMTT(30)
    <3>4. \A k \in 1 .. H, n \in 1 .. Len(q) : F[k] # q[n]
      BY ONLY <1>1, <1>4, <2>2, <2>4, <3>1
    <3>5. ASSUME NEW j \in 1 .. N
          PROVE  \/ j = i \/ \E n \in 1 .. Len(q) : q[n] = j
                 \/ \E k \in 1 .. H : F[k] = j
      <4>1. CASE \E n \in 1 .. L : q[n] = j
        BY ONLY <1>1, <4>1
      <4>2. CASE \E k \in 1 .. G : E[k] = j
        <5>1. PICK k \in 1 .. G : E[k] = j
          BY ONLY <4>2
        <5>2. CASE k = G
          BY ONLY <2>2, <5>1, <5>2
        <5>3. CASE k \in 1 .. G - 1
          BY ONLY <2>2, <3>1, <5>1, <5>3
        <5> QED
          BY ONLY <2>4, <5>2, <5>3
      <4> QED
        BY ONLY <1>4, <4>1, <4>2, j \in 1 .. N
    <3>6. Len(F) = H /\ N = Len(q) + 1 + H /\ i \in 1 .. N /\ N <= cap
      <4>1. N = L + G /\ N <= cap
        BY ONLY <1>4
      <4>2. Len(F) = G - 1 /\ i \in 1 .. N /\ L = Len(q)
        BY ONLY <1>1, <2>2, <2>4
      <4>3. L \in Nat /\ G \in Nat
        BY ONLY <1>1
      <4>4. L + G = L + 1 + (G - 1)
        BY ONLY <4>3
      <4> QED
        BY ONLY <3>1, <4>1, <4>2, <4>4
    <3> QED
      BY ONLY <1>1, <1>2, <3>2, <3>3, <3>4, <3>5, <3>6, H \in Nat, SparePushed
  <2>11. Took(c, q, e, i, d)
    BY ONLY <1>1, <2>4, <2>8, <2>9, <2>10 DEF Took
  <2>12. alloc_slot(c, e) = [cache |-> d, slot |-> i]
    <3>1. d = [c EXCEPT !.slots[Last(c.free)] = e, !.free = Front(@)]
      BY ONLY <1>1, <2>1, <2>3
    <3> QED
      BY ONLY <1>1, <1>5, <2>1, <3>1 DEF alloc_slot
  <2> QED
    BY ONLY <2>11, <2>12, Zenon
<1>6. CASE E = <<>>
  <2>1. G = 0 /\ N = L
    BY ONLY <1>1, <1>4, <1>6, EmptyList
  <2>2. PICK i, s, d : i = N + 1 /\ s = Append(c.slots, e) /\ d = [c EXCEPT !.slots = s]
    OBVIOUS
  <2>3. AList(s) /\ Len(s) = N + 1 /\ s[i] = e /\ \A j \in 1 .. N : s[j] = c.slots[j]
    BY ONLY <1>1, <1>2, <2>2, ListAppend
  <2>4. PICK map, slots, free, head, tail :
          c = [map |-> map, slots |-> slots, free |-> free, head |-> head, tail |-> tail]
    BY <1>2 DEF IsLru
  <2>5. c.map = map /\ c.slots = slots /\ c.free = free /\ c.head = head /\ c.tail = tail
    BY ONLY <2>4
  <2>6. d = [map |-> map, slots |-> s, free |-> free, head |-> head, tail |-> tail]
    BY ONLY <2>2, <2>4
  <2>7. d.map = map /\ d.slots = s /\ d.free = free /\ d.head = head /\ d.tail = tail
    BY ONLY <2>6
  <2>8. \A j \in 1 .. N + 1 : IsSlot(s[j])
    <3>1. \A j \in 1 .. N : IsSlot(c.slots[j])
      BY <1>1, <1>2 DEF IsLru
    <3>2. \A j \in 1 .. N + 1 : j = i \/ j \in 1 .. N
      BY ONLY <1>1, <2>2
    <3> QED
      BY ONLY <2>3, <3>1, <3>2, IsSlot(e)
  <2>9. IsLru(d)
    BY ONLY <1>1, <1>2, <2>3, <2>5, <2>6, <2>7, <2>8 DEF IsLru
  <2>10. i \in 1 .. N + 1 /\ N <= N + 1 /\ N + 1 \in Nat /\ \A j \in 1 .. N : j # i
    BY ONLY <1>1, <2>2
  <2>11. \A n \in 1 .. L : q[n] # i /\ d.slots[q[n]] = c.slots[q[n]]
    BY ONLY <1>3, <2>3, <2>7, <2>10
  <2>12. Spare(E, N + 1, Pushed(q, i))
    <3>1. N + 1 <= cap
      BY ONLY <1>1, <2>1, Len(q) < cap, LruAssumption
    <3>2. PICK M \in Nat : M = N + 1
      BY ONLY <2>10
    <3>3. ASSUME NEW j \in 1 .. M
          PROVE  \/ j = i \/ \E n \in 1 .. Len(q) : q[n] = j
                 \/ \E k \in 1 .. G : E[k] = j
      <4>1. j = i \/ j \in 1 .. N
        BY ONLY <1>1, <2>2, <3>2, j \in 1 .. M
      <4> QED
        BY ONLY <1>1, <1>4, <4>1
    <3>4. /\ \A k \in 1 .. G : E[k] \in 1 .. M /\ E[k] # i
          /\ \A k, n \in 1 .. G : E[k] = E[n] => k = n
          /\ \A k \in 1 .. G, n \in 1 .. Len(q) : E[k] # q[n]
      BY ONLY <2>1
    <3>5. Len(E) = G /\ M = Len(q) + 1 + G /\ i \in 1 .. M /\ M <= cap
      BY ONLY <1>1, <2>1, <2>10, <3>1, <3>2
    <3>6. Spare(E, M, Pushed(q, i))
      <4>1. G \in Nat
        BY ONLY <1>1
      <4> QED
        BY ONLY <1>2, <3>3, <3>4, <3>5, <4>1, M \in Nat, SparePushed
    <3> QED
      BY ONLY <3>2, <3>6, Zenon
  <2>13. Took(c, q, e, i, d)
    BY ONLY <1>1, <2>3, <2>5, <2>7, <2>9, <2>10, <2>11, <2>12 DEF Took
  <2>14. alloc_slot(c, e) = [cache |-> d, slot |-> i]
    BY ONLY <1>1, <1>6, <2>2 DEF alloc_slot
  <2> QED
    BY ONLY <2>13, <2>14, Zenon
<1> QED
  BY ONLY <1>5, <1>6

\* The end of insert for a key that is not in the cache.
Added(c, key, e) ==
    LET taken == alloc_slot(c, e)
        found == [k \in Keys(c) \cup {key} |-> IF k = key THEN taken.slot ELSE c.map[k]]
    IN  attach_front([taken.cache EXCEPT !.map = found], taken.slot)

LEMMA AddedPushes ==
    ASSUME NEW c, NEW q, NEW r, Stands(c, q, r), Len(q) < cap,
           NEW key, key \notin Keys(c), NEW e, IsSlot(e), e.key = key
    PROVE  \E u : Stands(Added(c, key, e), u, Pushed(r, Item(e)))
<1>1. PICK L \in Nat, N \in Nat : L = Len(q) /\ L = Len(r) /\ N = Len(c.slots)
  BY DEF Stands, Linked, Shows, IsLru, AList
<1>2. AList(q) /\ AList(r) /\ Linked(c, q) /\ \A n \in 1 .. L : r[n] = Item(c.slots[q[n]])
  BY <1>1 DEF Stands, Linked, Shows
<1>3. PICK i, d : alloc_slot(c, e) = [cache |-> d, slot |-> i] /\ Took(c, q, e, i, d)
  BY AllocTakes
<1>4. alloc_slot(c, e).cache = d /\ alloc_slot(c, e).slot = i
  BY ONLY <1>3
<1>5. PICK T \in Nat : T = Len(d.slots)
  BY <1>3 DEF Took, IsLru, AList
<1>6. /\ IsLru(d) /\ d.map = c.map /\ d.head = c.head /\ d.tail = c.tail
      /\ N <= T /\ i \in 1 .. T /\ d.slots[i] = e
      /\ \A n \in 1 .. L : q[n] # i /\ d.slots[q[n]] = c.slots[q[n]]
      /\ Spare(d.free, T, Pushed(q, i))
  BY ONLY <1>1, <1>3, <1>5 DEF Took
<1>7. PICK M : M = [k \in Keys(c) \cup {key} |-> IF k = key THEN i ELSE c.map[k]]
  OBVIOUS
<1>8. PICK b, u, v, x : /\ b = [d EXCEPT !.map = M] /\ u = Pushed(q, i)
                        /\ v = Pushed(r, Item(e)) /\ x = Item(e)
  OBVIOUS
<1>9. PICK a : a = attach_front(b, i)
  OBVIOUS
<1>10. Added(c, key, e) = a
  BY ONLY <1>4, <1>7, <1>8, <1>9, Zenon DEF Added
<1>11. Refiled(d, M, d.free, b)
  <2>1. AList(d.free)
    BY ONLY <1>6 DEF IsLru
  <2> QED
    BY ONLY <1>6, <1>8, <2>1, FilesWritten, Zenon
<1>12. /\ IsLru(b) /\ b.map = M /\ b.free = d.free /\ b.slots = d.slots
       /\ b.head = c.head /\ b.tail = c.tail
  BY ONLY <1>6, <1>11 DEF Refiled
<1>13. Linked(b, q)
  <2>1. \A n \in 1 .. Len(q) : b.slots[q[n]] = c.slots[q[n]]
    BY ONLY <1>1, <1>6, <1>12
  <2>2. Len(c.slots) \in Nat /\ Len(b.slots) \in Nat /\ Len(c.slots) <= Len(b.slots)
    BY ONLY <1>1, <1>5, <1>6, <1>12
  <2> QED
    BY ONLY <1>2, <1>12, <2>1, <2>2, LinkedSame
<1>14. Relinked(b, a) /\ Linked(a, u)
  <2>1. i \in 1 .. Len(b.slots) /\ \A n \in 1 .. Len(q) : q[n] # i
    BY ONLY <1>1, <1>5, <1>6, <1>12
  <2> QED
    BY ONLY <1>8, <1>9, <1>12, <1>13, <2>1, AttachPushes
<1>15. /\ IsLru(a) /\ a.map = M /\ a.free = d.free /\ Len(a.slots) = T
       /\ \A j \in 1 .. T : Item(a.slots[j]) = Item(d.slots[j])
  BY ONLY <1>5, <1>12, <1>14 DEF Relinked
<1>16. /\ Len(u) = L + 1 /\ u[1] = i
       /\ \A n \in 1 .. L : n + 1 \in 1 .. L + 1 /\ u[n + 1] = q[n]
       /\ \A n \in 1 .. L + 1 : n # 1 => \E k \in 1 .. L : n = k + 1
  <2>1. Leads(i, q, u)
    BY ONLY <1>2, <1>8, PushedHas, Zenon
  <2> QED
    BY ONLY <1>1, <2>1 DEF Leads
<1>17. /\ Len(v) = L + 1 /\ v[1] = x /\ \A n \in 1 .. L : v[n + 1] = r[n]
  <2>1. Leads(x, r, v)
    BY ONLY <1>2, <1>8, PushedHas, Zenon
  <2> QED
    BY ONLY <1>1, <2>1 DEF Leads
<1>18. AList(v)
  BY ONLY <1>2, <1>8, PushedIs
<1>19. \A n \in 1 .. L : q[n] \in 1 .. T
  <2>1. \A n \in 1 .. L : q[n] \in 1 .. N
    BY ONLY <1>1, <1>2 DEF Linked
  <2> QED
    BY ONLY <1>1, <1>5, <1>6, <2>1
<1>20. Shows(a, u, v)
  <2>1. ASSUME NEW n \in 1 .. L + 1 PROVE v[n] = Item(a.slots[u[n]])
    <3>1. CASE n = 1
      BY ONLY <1>6, <1>8, <1>15, <1>16, <1>17, <3>1
    <3>2. CASE n # 1
      <4>1. PICK k \in 1 .. L : n = k + 1
        BY ONLY <1>16, <3>2, n \in 1 .. L + 1
      <4>2. u[n] = q[k] /\ v[n] = r[k] /\ q[k] \in 1 .. T
        BY ONLY <1>16, <1>17, <1>19, <4>1
      <4>3. Item(a.slots[q[k]]) = Item(c.slots[q[k]])
        BY ONLY <1>6, <1>15, <4>2, k \in 1 .. L
      <4> QED
        BY ONLY <1>2, <4>2, <4>3, k \in 1 .. L
    <3> QED
      BY ONLY <3>1, <3>2
  <2> QED
    BY ONLY <1>16, <1>17, <1>18, <2>1 DEF Shows
<1>21. Mapped(a.map, u, v)
  <2>1. /\ \A k \in Keys(c) : \E n \in 1 .. L : q[n] = c.map[k] /\ r[n].key = k
        /\ \A n \in 1 .. L : r[n].key \in Keys(c) /\ c.map[r[n].key] = q[n]
    BY <1>1 DEF Stands, Mapped, Keys
  <2>2. /\ DOMAIN M = Keys(c) \cup {key} /\ M[key] = i
        /\ \A k \in Keys(c) : M[k] = c.map[k]
    BY <1>7
  <2>3. x.key = key
    BY <1>8 DEF Item
  <2>4. 1 \in 1 .. L + 1
    BY ONLY L \in Nat
  <2>5. ASSUME NEW k \in DOMAIN M PROVE \E n \in 1 .. L + 1 : u[n] = M[k] /\ v[n].key = k
    <3>1. CASE k = key
      BY ONLY <1>16, <1>17, <2>2, <2>3, <2>4, <3>1
    <3>2. CASE k \in Keys(c)
      <4>1. PICK n \in 1 .. L : q[n] = c.map[k] /\ r[n].key = k
        BY ONLY <2>1, <3>2
      <4>2. n + 1 \in 1 .. L + 1 /\ u[n + 1] = M[k] /\ v[n + 1].key = k
        BY ONLY <1>16, <1>17, <2>2, <3>2, <4>1
      <4> QED
        BY ONLY <4>2
    <3> QED
      BY ONLY <2>2, <3>1, <3>2, k \in DOMAIN M
  <2>6. ASSUME NEW n \in 1 .. L + 1 PROVE v[n].key \in DOMAIN M /\ M[v[n].key] = u[n]
    <3>1. CASE n = 1
      BY ONLY <1>16, <1>17, <2>2, <2>3, <3>1
    <3>2. CASE n # 1
      <4>1. PICK k \in 1 .. L : n = k + 1
        BY ONLY <1>16, <3>2, n \in 1 .. L + 1
      <4>2. u[n] = q[k] /\ v[n] = r[k]
        BY ONLY <1>16, <1>17, <4>1
      <4> QED
        BY ONLY <2>1, <2>2, <4>2, k \in 1 .. L
    <3> QED
      BY ONLY <3>1, <3>2
  <2>7. Mapped(M, u, v)
    BY ONLY <1>16, <2>5, <2>6 DEF Mapped
  <2> QED
    BY ONLY <1>15, <2>7, Zenon
<1>22. Spare(a.free, Len(a.slots), u)
  BY ONLY <1>6, <1>8, <1>15, Zenon
<1>23. Stands(a, u, v)
  BY ONLY <1>14, <1>15, <1>20, <1>21, <1>22 DEF Stands
<1> QED
  BY ONLY <1>8, <1>10, <1>23, Zenon
-----------------------------------------------------------------------------
(* The queue of entries a cache stands for *)

LEMMA PartBut ==
    ASSUME NEW s, AList(s), NEW m \in 1 .. Len(s), NEW chosen,
           \A n \in 1 .. Len(s) : n \in chosen <=> n # m
    PROVE  Part(s, chosen) = Cut(s, m)
<1>1. PICK N \in Nat : N = Len(s)
  BY DEF AList
<1>2. PICK count, h : /\ count = [n \in 0 .. N |-> IF n < m THEN n ELSE n - 1]
                      /\ h = [n \in 1 .. N - 1 |-> IF n < m THEN n ELSE n + 1]
  OBVIOUS
<1>3. m \in 1 .. N /\ \A n \in 0 .. N : count[n] = IF n < m THEN n ELSE n - 1
  BY ONLY <1>1, <1>2, m \in 1 .. Len(s)
<1>4. \A n \in 1 .. N - 1 : h[n] = IF n < m THEN n ELSE n + 1
  BY ONLY <1>2
<1>5. count[0] = 0 /\ (\A n \in 0 .. N : count[n] \in Nat)
  BY ONLY <1>3, N \in Nat
<1>6. ASSUME NEW n \in 1 .. N
      PROVE  /\ n \in chosen => count[n] = count[n - 1] + 1 /\ h[count[n]] = n
             /\ n \notin chosen => count[n] = count[n - 1]
  <2>1. n \in chosen <=> n # m
    BY <1>1
  <2>2. n \in 0 .. N /\ n - 1 \in 0 .. N
    BY ONLY n \in 1 .. N, N \in Nat
  <2>3. count[n] = (IF n < m THEN n ELSE n - 1) /\ count[n - 1] = IF n - 1 < m THEN n - 1 ELSE n - 1 - 1
    BY ONLY <1>3, <2>2
  <2>4. CASE n < m
    <3>1. n \in 1 .. N - 1 /\ n - 1 < m
      BY ONLY <1>3, <2>4, n \in 1 .. N, N \in Nat
    <3> QED
      BY ONLY <1>3, <1>4, <2>1, <2>3, <2>4, <3>1, N \in Nat
  <2>5. CASE n = m
    <3>1. n - 1 < m /\ ~(n < m)
      BY ONLY <1>3, <2>5, n \in 1 .. N, N \in Nat
    <3> QED
      BY ONLY <2>1, <2>3, <2>5, <3>1
  <2>6. CASE ~(n < m) /\ n # m
    <3>1. n - 1 \in 1 .. N - 1 /\ ~(n - 1 < m) /\ n - 1 + 1 = n /\ n - 1 - 1 + 1 = n - 1
      BY ONLY <1>3, <2>6, n \in 1 .. N, N \in Nat
    <3>2. h[n - 1] = n
      BY ONLY <1>4, <3>1
    <3> QED
      BY ONLY <2>1, <2>3, <2>6, <3>1, <3>2
  <2> QED
    BY ONLY <2>4, <2>5, <2>6
<1>7. Counted(s, chosen, count, h)
  BY ONLY <1>1, <1>5, <1>6 DEF Counted
<1>8. count[Len(s)] = N - 1 /\ N - 1 \in Nat
  BY ONLY <1>1, <1>3, N \in Nat
<1>9. PICK p, k : k = N - 1 /\ k \in Nat /\ p = Part(s, chosen) /\ p = Picks(s, h, k)
  BY ONLY <1>7, <1>8, AList(s), PartPicks
<1>10. AList(p) /\ Len(p) = k /\ \A i \in 1 .. k : p[i] = s[h[i]]
  BY ONLY <1>9, PicksIs
<1>11. PICK u : u = Cut(s, m)
  OBVIOUS
<1>12. AList(u) /\ Len(u) = N - 1 /\ \A n \in 1 .. N - 1 : u[n] = IF n < m THEN s[n] ELSE s[n + 1]
  BY ONLY <1>1, <1>3, <1>11, AList(s), CutIs
<1>13. \A i \in 1 .. Len(p) : p[i] = u[i]
  BY ONLY <1>4, <1>9, <1>10, <1>12
<1>14. p = u
  BY ONLY <1>9, <1>10, <1>12, <1>13, SameList
<1> QED
  BY ONLY <1>9, <1>11, <1>14

\* No two entries have the same key, and the keys are those of the map.
LEMMA KeysOnce ==
    ASSUME NEW c, NEW q, NEW r, Stands(c, q, r)
    PROVE  /\ AList(r) /\ AList(q) /\ Len(r) \in Nat /\ Len(q) = Len(r)
           /\ \A m, n \in 1 .. Len(r) : r[m].key = r[n].key => m = n
           /\ \A k \in Keys(c) : \E n \in 1 .. Len(r) : q[n] = c.map[k] /\ r[n].key = k
           /\ \A n \in 1 .. Len(r) : r[n].key \in Keys(c) /\ c.map[r[n].key] = q[n]
<1>1. PICK L \in Nat : L = Len(q) /\ L = Len(r)
  BY DEF Stands, Linked, Shows, AList
<1>2. AList(r) /\ AList(q) /\ \A m, n \in 1 .. L : q[m] = q[n] => m = n
  BY <1>1 DEF Stands, Linked, Shows
<1>3. /\ \A k \in Keys(c) : \E n \in 1 .. L : q[n] = c.map[k] /\ r[n].key = k
      /\ \A n \in 1 .. L : r[n].key \in Keys(c) /\ c.map[r[n].key] = q[n]
  BY <1>1 DEF Stands, Mapped, Keys
<1>4. \A m, n \in 1 .. L : r[m].key = r[n].key => m = n
  BY ONLY <1>2, <1>3
<1> QED
  BY ONLY <1>1, <1>2, <1>3, <1>4

LEMMA WithoutCuts ==
    ASSUME NEW c, NEW q, NEW r, Stands(c, q, r), NEW m \in 1 .. Len(r)
    PROVE  Without(r, r[m].key) = Cut(r, m)
<1>1. AList(r) /\ \A k, n \in 1 .. Len(r) : r[k].key = r[n].key => k = n
  BY KeysOnce
<1>2. PICK key, chosen : key = r[m].key /\ chosen = {n \in DOMAIN r : r[n].key # key}
  OBVIOUS
<1>3. DOMAIN r = 1 .. Len(r)
  BY ONLY <1>1 DEF AList
<1>4. \A n \in 1 .. Len(r) : n \in chosen <=> n # m
  BY <1>1, <1>2, <1>3
<1>5. Part(r, chosen) = Cut(r, m)
  BY ONLY <1>1, <1>4, m \in 1 .. Len(r), PartBut
<1> QED
  BY ONLY <1>2, <1>5 DEF Without

LEMMA WithoutNone ==
    ASSUME NEW c, NEW q, NEW r, Stands(c, q, r), NEW key, key \notin Keys(c)
    PROVE  Without(r, key) = r
<1>1. AList(r) /\ \A n \in 1 .. Len(r) : r[n].key \in Keys(c)
  BY KeysOnce
<1>2. PICK chosen : chosen = {n \in DOMAIN r : r[n].key # key}
  OBVIOUS
<1>3. PICK N \in Nat : N = Len(r)
  BY ONLY <1>1 DEF AList
<1>4. DOMAIN r = 1 .. N
  BY ONLY <1>1, <1>3 DEF AList
<1>5. \A n \in 1 .. N : n \in chosen <=> n <= N
  BY <1>1, <1>2, <1>3, <1>4
<1>6. PICK p : p = Part(r, chosen)
  OBVIOUS
<1>7. AList(p) /\ Len(p) = N /\ \A i \in 1 .. N : p[i] = r[i]
  <2>1. N \in 0 .. Len(r) /\ \A n \in 1 .. Len(r) : n \in chosen <=> n <= N
    BY ONLY <1>3, <1>5
  <2> QED
    BY ONLY <1>1, <1>6, <2>1, PartFirst
<1>8. p = r
  BY ONLY <1>1, <1>3, <1>7, SameList
<1> QED
  BY ONLY <1>2, <1>6, <1>8 DEF Without

\* <<x>> \o s
LEMMA ConsPushes == ASSUME NEW s, AList(s), NEW x PROVE <<x>> \o s = Pushed(s, x)
<1>1. PICK o, z, u, L : o = <<x>> /\ z = o \o s /\ u = Pushed(s, x) /\ L = Len(s)
  OBVIOUS
<1>2. o \in Seq({x}) /\ Len(o) = 1 /\ o[1] = x
  BY ONLY <1>1
<1>3. AList(o) /\ L \in Nat
  BY ONLY <1>1, <1>2, AList(s), SeqIsAList DEF AList
<1>4. Joined(o, s, z)
  BY ONLY <1>1, <1>3, AList(s), ListConcat, Zenon
<1>5. /\ AList(z) /\ Len(z) = 1 + L /\ \A i \in 1 .. 1 : z[i] = o[i]
      /\ \A i \in 1 .. L : z[1 + i] = s[i]
  BY ONLY <1>1, <1>2, <1>4 DEF Joined
<1>6. /\ AList(u) /\ Len(u) = L + 1 /\ \A n \in 1 .. L + 1 : u[n] = IF n = 1 THEN x ELSE s[n - 1]
  BY ONLY <1>1, AList(s), PushedIs
<1>7. ASSUME NEW n \in 1 .. L + 1 PROVE z[n] = u[n]
  <2>1. CASE n = 1
    BY ONLY <1>2, <1>5, <1>6, <2>1, n \in 1 .. L + 1
  <2>2. CASE n # 1
    <3>1. n - 1 \in 1 .. L /\ 1 + (n - 1) = n
      BY ONLY <1>3, <2>2, n \in 1 .. L + 1
    <3>2. z[n] = s[n - 1]
      BY ONLY <1>5, <3>1
    <3> QED
      BY ONLY <1>6, <2>2, <3>2, n \in 1 .. L + 1
  <2> QED
    BY ONLY <2>1, <2>2
<1>8. Len(z) = Len(u) /\ \A i \in 1 .. Len(z) : z[i] = u[i]
  BY ONLY <1>3, <1>5, <1>6, <1>7
<1>9. z = u
  BY ONLY <1>5, <1>6, <1>8, SameList
<1> QED
  BY ONLY <1>1, <1>9, Zenon

\* <<>> \o s
LEMMA EmptyConcat == ASSUME NEW s, AList(s) PROVE <<>> \o s = s
<1>1. PICK o, z : o = <<>> /\ z = o \o s
  OBVIOUS
<1>2. AList(o) /\ Len(o) = 0 /\ Len(s) \in Nat
  BY ONLY <1>1, AList(s), EmptyList DEF AList
<1>3. Joined(o, s, z)
  BY ONLY <1>1, <1>2, AList(s), ListConcat, Zenon
<1>4. AList(z) /\ Len(z) = 0 + Len(s) /\ \A i \in 1 .. Len(s) : z[0 + i] = s[i]
  BY ONLY <1>2, <1>3 DEF Joined
<1>5. Len(z) = Len(s) /\ \A i \in 1 .. Len(z) : z[i] = s[i]
  BY ONLY <1>2, <1>4
<1>6. z = s
  BY ONLY <1>4, <1>5, AList(s), SameList
<1> QED
  BY ONLY <1>1, <1>6, Zenon

\* The entry of a key that the map knows: its place, and what its slot holds.
Found(c, q, r, key, m) ==
    /\ m \in 1 .. Len(q) /\ m \in 1 .. Len(r) /\ q[m] = c.map[key] /\ r[m].key = key
    /\ r[m] = Item(c.slots[q[m]]) /\ q[m] \in 1 .. Len(c.slots)
    /\ r[m].val = Cached(c, key) /\ r[m].expires_at = c.slots[c.map[key]].expires_at
    /\ r[m].expires_at \in Int

LEMMA KeyFound ==
    ASSUME NEW c, NEW q, NEW r, Stands(c, q, r), NEW key, key \in Keys(c)
    PROVE  \E m : Found(c, q, r, key, m)
<1>1. PICK L \in Nat : L = Len(q) /\ L = Len(r)
  BY DEF Stands, Linked, Shows, AList
<1>2. PICK m \in 1 .. L : q[m] = c.map[key] /\ r[m].key = key
  BY ONLY <1>1, Stands(c, q, r), key \in Keys(c), KeysOnce
<1>3. r[m] = Item(c.slots[q[m]]) /\ q[m] \in 1 .. Len(c.slots)
  BY <1>1 DEF Stands, Shows, Linked
<1>4. IsSlot(c.slots[q[m]])
  BY <1>3 DEF Stands, IsLru
<1>5. PICK s : s = c.slots[q[m]]
  OBVIOUS
<1>6. s.expires_at \in Int /\ r[m] = Item(s)
  BY ONLY <1>3, <1>4, <1>5 DEF IsSlot
<1>7. r[m].val = s.val /\ r[m].expires_at = s.expires_at
  BY ONLY <1>6 DEF Item
<1>8. r[m].val = Cached(c, key)
  BY ONLY <1>2, <1>5, <1>7 DEF Cached
<1>9. Found(c, q, r, key, m)
  BY ONLY <1>1, <1>2, <1>3, <1>5, <1>6, <1>7, <1>8, m \in 1 .. L DEF Found
<1> QED
  BY ONLY <1>9

\* remove takes out the entry of the key.
LEMMA RemoveQueue ==
    ASSUME NEW c, NEW q, NEW r, Stands(c, q, r), NEW key
    PROVE  \E u : Stands(remove(c, key), u, Without(r, key))
<1>1. CASE key \in Keys(c)
  <2>1. PICK m : Found(c, q, r, key, m)
    BY <1>1, KeyFound
  <2>2. /\ m \in 1 .. Len(q) /\ m \in 1 .. Len(r) /\ q[m] = c.map[key] /\ r[m].key = key
    BY ONLY <2>1 DEF Found
  <2>3. Stands(Vacate(c, q[m]), Cut(q, m), Cut(r, m))
    BY ONLY Stands(c, q, r), <2>2, VacateCuts
  <2>4. Without(r, r[m].key) = Cut(r, m)
    BY ONLY Stands(c, q, r), <2>2, WithoutCuts
  <2>5. remove(c, key) = Vacate(c, q[m])
    BY ONLY <1>1, <2>2 DEF remove
  <2>6. Stands(remove(c, key), Cut(q, m), Without(r, key))
    BY ONLY <2>2, <2>3, <2>4, <2>5, Zenon
  <2> QED
    BY ONLY <2>6
<1>2. CASE key \notin Keys(c)
  <2>1. Without(r, key) = r
    BY ONLY <1>2, Stands(c, q, r), WithoutNone
  <2>2. remove(c, key) = c
    BY ONLY <1>2 DEF remove
  <2> QED
    BY ONLY <2>1, <2>2, Stands(c, q, r), Zenon
<1> QED
  BY ONLY <1>1, <1>2

\* get moves an entry that is good to the front and drops one that expired.
LEMMA GetQueue ==
    ASSUME NEW c, NEW q, NEW r, Stands(c, q, r), NEW key, NEW t \in Nat
    PROVE  \E u : Stands(get(c, key, t), u, QueueGet(r, key, t))
<1>1. AList(r) /\ AList(q) /\ Len(r) \in Nat /\ Len(q) = Len(r)
  BY ONLY Stands(c, q, r), KeysOnce
<1>2. PICK chosen, found, w :
        /\ chosen = {n \in DOMAIN r : r[n].key = key /\ r[n].expires_at >= t}
        /\ found = Part(r, chosen) /\ w = Without(r, key)
  OBVIOUS
<1>3. QueueGet(r, key, t) = found \o w
  BY ONLY <1>2 DEF QueueGet
<1>4. DOMAIN r = 1 .. Len(r)
  BY ONLY <1>1 DEF AList
<1>5. CASE Hit(c, key, t)
  <2>1. key \in Keys(c) /\ ~(c.slots[c.map[key]].expires_at < t)
    BY ONLY <1>5 DEF Hit, Expired
  <2>2. PICK m : Found(c, q, r, key, m)
    BY <2>1, KeyFound
  <2>3. /\ m \in 1 .. Len(q) /\ m \in 1 .. Len(r) /\ q[m] = c.map[key] /\ r[m].key = key
        /\ r[m] = Item(c.slots[q[m]]) /\ q[m] \in 1 .. Len(c.slots)
        /\ r[m].expires_at \in Int /\ r[m].expires_at = c.slots[c.map[key]].expires_at
    BY ONLY <2>2 DEF Found
  <2>4. PICK d : d = detach(c, q[m])
    OBVIOUS
  <2>5. Relinked(c, d) /\ Linked(d, Cut(q, m))
    <3>1. IsLru(c) /\ Linked(c, q)
      BY DEF Stands
    <3> QED
      BY ONLY <2>3, <2>4, <3>1, DetachCuts, Zenon
  <2>6. /\ IsLru(d) /\ d.map = c.map /\ d.free = c.free /\ Len(d.slots) = Len(c.slots)
        /\ \A j \in 1 .. Len(c.slots) : Item(d.slots[j]) = Item(c.slots[j])
    BY ONLY <2>5 DEF Relinked
  <2>7. Item(d.slots[q[m]]) = r[m]
    BY ONLY <2>3, <2>6
  <2>8. Stands(attach_front(d, q[m]), Pushed(Cut(q, m), q[m]), Pushed(Cut(r, m), Item(d.slots[q[m]])))
    BY ONLY Stands(c, q, r), <2>3, <2>5, <2>6, <2>7, FrontAgain
  <2>9. w = Cut(r, m)
    BY ONLY <1>2, <2>3, Stands(c, q, r), WithoutCuts
  <2>10. found = <<r[m]>>
    <3>1. r[m].expires_at >= t
      BY ONLY <2>1, <2>3, t \in Nat
    <3>2. \A n \in 1 .. Len(r) : r[n].key = r[m].key => n = m
      BY ONLY Stands(c, q, r), <2>3, KeysOnce
    <3>3. \A n \in 1 .. Len(r) : n \in chosen <=> n = m
      BY ONLY <1>2, <1>4, <2>3, <3>1, <3>2
    <3> QED
      BY ONLY <1>1, <1>2, <2>3, <3>3, PartOne
  <2>11. AList(Cut(r, m))
    BY ONLY <1>1, <2>3, CutIs
  <2>12. found \o w = Pushed(Cut(r, m), r[m])
    BY ONLY <2>9, <2>10, <2>11, ConsPushes, Zenon
  <2>13. get(c, key, t) = attach_front(d, q[m])
    <3>1. PICK i : i = c.map[key]
      OBVIOUS
    <3>2. d = detach(c, i) /\ q[m] = i
      BY ONLY <2>3, <2>4, <3>1
    <3>3. get(c, key, t) = attach_front(detach(c, i), i)
      BY ONLY <1>5, <3>1 DEF get, Hit
    <3> QED
      BY ONLY <3>2, <3>3
  <2>14. Stands(get(c, key, t), Pushed(Cut(q, m), q[m]), QueueGet(r, key, t))
    BY ONLY <1>3, <2>7, <2>8, <2>12, <2>13, Zenon
  <2> QED
    BY ONLY <2>14
<1>6. CASE ~Hit(c, key, t)
  <2>1. get(c, key, t) = remove(c, key)
    BY ONLY <1>6 DEF get, Hit, remove
  <2>2. \A n \in 1 .. Len(r) : n \in chosen <=> n <= 0
    <3>1. ASSUME NEW n \in 1 .. Len(r), n \in chosen PROVE FALSE
      <4>1. r[n].key = key /\ r[n].expires_at >= t
        BY ONLY <1>2, <3>1
      <4>2. key \in Keys(c)
        BY ONLY <4>1, Stands(c, q, r), n \in 1 .. Len(r), KeysOnce
      <4>3. PICK m : Found(c, q, r, key, m)
        BY <4>2, KeyFound
      <4>4. /\ m \in 1 .. Len(r) /\ r[m].key = key
            /\ r[m].expires_at \in Int /\ r[m].expires_at = c.slots[c.map[key]].expires_at
        BY ONLY <4>3 DEF Found
      <4>5. n = m
        BY ONLY <4>1, <4>4, Stands(c, q, r), n \in 1 .. Len(r), KeysOnce
      <4>6. c.slots[c.map[key]].expires_at < t
        BY ONLY <1>6, <4>2 DEF Hit, Expired
      <4> QED
        BY ONLY <4>1, <4>4, <4>5, <4>6, t \in Nat
    <3> QED
      BY ONLY <1>1, <3>1
  <2>3. AList(found) /\ Len(found) = 0
    <3>1. 0 \in 0 .. Len(r)
      BY ONLY <1>1
    <3> QED
      BY ONLY <1>1, <1>2, <2>2, <3>1, PartFirst
  <2>4. found = <<>>
    BY ONLY <2>3, EmptyList
  <2>5. PICK u : Stands(remove(c, key), u, w)
    BY ONLY <1>2, Stands(c, q, r), RemoveQueue
  <2>6. found \o w = w
    <3>1. AList(w)
      BY ONLY <2>5, KeysOnce
    <3> QED
      BY ONLY <2>4, <3>1, EmptyConcat
  <2> QED
    BY ONLY <1>3, <2>1, <2>5, <2>6, Zenon
<1> QED
  BY ONLY <1>5, <1>6

LEMMA EntryIs ==
    ASSUME NEW key, NEW val, NEW t \in Nat
    PROVE  IsSlot(Entry(key, val, t)) /\ Entry(key, val, t).key = key
<1>1. PICK e, x : e = Entry(key, val, t) /\ x = t + ttl
  OBVIOUS
<1>2. e = [key |-> key, val |-> val, expires_at |-> x, prev |-> NULL, next |-> NULL]
  BY ONLY <1>1 DEF Entry
<1>3. x \in Int
  BY ONLY <1>1, t \in Nat, LruAssumption
<1>4. IsSlot(e) /\ e.key = key
  BY ONLY <1>2, <1>3 DEF IsSlot
<1> QED
  BY ONLY <1>1, <1>4, Zenon

\* The map has as many keys as there are entries.
LEMMA KeysCounted ==
    ASSUME NEW c, NEW q, NEW r, Stands(c, q, r)
    PROVE  Cardinality(Keys(c)) = Len(r) /\ Len(r) <= cap
<1>1. PICK L \in Nat : L = Len(r) /\ L = Len(q)
  BY DEF Stands, Linked, Shows, AList
<1>2. PICK s : s = [n \in 1 .. L |-> r[n].key]
  OBVIOUS
<1>3. /\ \A m, n \in 1 .. L : r[m].key = r[n].key => m = n
      /\ \A k \in Keys(c) : \E n \in 1 .. L : r[n].key = k
      /\ \A n \in 1 .. L : r[n].key \in Keys(c)
  BY ONLY <1>1, Stands(c, q, r), KeysOnce
<1>4. s \in Seq(Keys(c)) /\ Len(s) = L /\ DOMAIN s = 1 .. L
  BY ONLY <1>2, <1>3, L \in Nat
<1>5. IsInjective(s)
  BY ONLY <1>2, <1>3, <1>4 DEF IsInjective
<1>6. ToSet(s) = Keys(c)
  <2>1. ToSet(s) = {s[n] : n \in 1 .. L}
    BY ONLY <1>4 DEF ToSet
  <2>2. \A n \in 1 .. L : s[n] = r[n].key
    BY ONLY <1>2
  <2> QED
    BY ONLY <1>3, <2>1, <2>2
<1>7. Cardinality(Keys(c)) = L
  BY ONLY <1>4, <1>5, <1>6, InjectiveCount
<1>8. L <= cap
  <2>1. Spare(c.free, Len(c.slots), q) /\ AList(c.free)
    BY DEF Stands, IsLru
  <2>2. PICK F \in Nat : F = Len(c.free)
    BY ONLY <2>1 DEF AList
  <2>3. Len(c.slots) = L + F /\ Len(c.slots) <= cap
    BY ONLY <1>1, <2>1, <2>2 DEF Spare
  <2> QED
    BY ONLY <2>3, LruAssumption, L \in Nat, F \in Nat
<1> QED
  BY ONLY <1>1, <1>7, <1>8

\* insert of a key that is in the cache already.
LEMMA InsertOld ==
    ASSUME NEW c, NEW q, NEW r, Stands(c, q, r), NEW key, key \in Keys(c), NEW val, NEW t \in Nat
    PROVE  \E u : Stands(insert(c, key, val, t), u, QueueInsert(r, key, val, t))
<1>1. PICK m : Found(c, q, r, key, m)
  BY KeyFound
<1>2. PICK e, i, a, N, L : /\ e = Entry(key, val, t) /\ i = q[m] /\ a = Cut(q, m)
                           /\ N = Len(c.slots) /\ L = Len(q)
  OBVIOUS
<1>3. IsSlot(e) /\ e.key = key
  BY ONLY <1>2, t \in Nat, EntryIs
<1>4. /\ m \in 1 .. L /\ m \in 1 .. Len(r) /\ i = c.map[key] /\ r[m].key = key /\ i \in 1 .. N
  BY ONLY <1>1, <1>2 DEF Found
<1>5. AList(r) /\ AList(q) /\ Len(r) = L /\ L \in Nat
  BY ONLY <1>2, Stands(c, q, r), KeysOnce
<1>6. PICK d0 : d0 = detach(c, i)
  OBVIOUS
<1>7. Relinked(c, d0) /\ Linked(d0, a)
  <2>1. IsLru(c) /\ Linked(c, q)
    BY DEF Stands
  <2>2. m \in 1 .. Len(q) /\ d0 = detach(c, q[m])
    BY ONLY <1>2, <1>4, <1>6
  <2> QED
    BY ONLY <1>2, <2>1, <2>2, DetachCuts, Zenon
<1>8. /\ IsLru(d0) /\ d0.map = c.map /\ d0.free = c.free /\ Len(d0.slots) = N
      /\ \A j \in 1 .. N : Item(d0.slots[j]) = Item(c.slots[j])
  BY ONLY <1>2, <1>7 DEF Relinked
<1>9. PICK d : d = [d0 EXCEPT !.slots[i] = e]
  OBVIOUS
<1>10. WithSlot(d0, i, e, d)
  BY ONLY <1>3, <1>4, <1>8, <1>9, SlotWritten
<1>11. /\ IsLru(d) /\ d.map = c.map /\ d.free = c.free /\ d.head = d0.head /\ d.tail = d0.tail
       /\ Len(d.slots) = N /\ d.slots[i] = e
       /\ \A j \in 1 .. N : j # i => d.slots[j] = d0.slots[j]
  BY ONLY <1>8, <1>10 DEF WithSlot
<1>12. \A n \in 1 .. Len(a) : a[n] \in 1 .. N /\ a[n] # i
  <2>1. Len(a) = L - 1 /\ \A n \in 1 .. L - 1 : a[n] = IF n < m THEN q[n] ELSE q[n + 1]
    BY ONLY <1>2, <1>4, <1>5, CutIs
  <2>2. /\ \A n \in 1 .. L : q[n] \in 1 .. N
        /\ \A k, n \in 1 .. L : q[k] = q[n] => k = n
    BY <1>2 DEF Stands, Linked
  <2>3. ASSUME NEW n \in 1 .. L - 1 PROVE a[n] \in 1 .. N /\ a[n] # i
    <3>1. PICK k \in 1 .. L : a[n] = q[k] /\ k # m
      <4>1. CASE n < m
        BY ONLY <2>1, <4>1, <1>4, <1>5, n \in 1 .. L - 1
      <4>2. CASE ~(n < m)
        <5>1. n + 1 \in 1 .. L /\ n + 1 # m
          BY ONLY <4>2, <1>4, <1>5, n \in 1 .. L - 1
        <5> QED
          BY ONLY <2>1, <4>2, <5>1, n \in 1 .. L - 1
      <4> QED
        BY ONLY <4>1, <4>2
    <3> QED
      BY ONLY <1>2, <1>4, <2>2, <3>1
  <2> QED
    BY ONLY <2>1, <2>3
<1>13. Linked(d, a)
  <2>1. N \in Nat /\ N <= N
    BY <1>2 DEF Stands, IsLru, AList
  <2>2. \A n \in 1 .. Len(a) : d.slots[a[n]] = d0.slots[a[n]]
    BY ONLY <1>11, <1>12
  <2> QED
    BY ONLY <1>7, <1>8, <1>11, <2>1, <2>2, LinkedSame
<1>14. \A j \in 1 .. N : j # i => Item(d.slots[j]) = Item(c.slots[j])
  BY ONLY <1>8, <1>11
<1>15. Item(d.slots[i]).key = key
  BY ONLY <1>3, <1>11 DEF Item
<1>16. Stands(attach_front(d, q[m]), Pushed(Cut(q, m), q[m]), Pushed(Cut(r, m), Item(d.slots[q[m]])))
  <2>1. /\ m \in 1 .. Len(q) /\ IsLru(d) /\ Linked(d, Cut(q, m)) /\ d.map = c.map
        /\ d.free = c.free /\ Len(d.slots) = Len(c.slots)
    BY ONLY <1>2, <1>4, <1>11, <1>13
  <2>2. \A j \in 1 .. Len(c.slots) : j # q[m] => Item(d.slots[j]) = Item(c.slots[j])
    BY ONLY <1>2, <1>14
  <2>3. Item(d.slots[q[m]]).key = r[m].key
    BY ONLY <1>2, <1>4, <1>15
  <2> QED
    BY ONLY Stands(c, q, r), <2>1, <2>2, <2>3, FrontAgain
<1>17. insert(c, key, val, t) = attach_front(d, i)
  BY ONLY <1>2, <1>4, <1>6, <1>9, key \in Keys(c) DEF insert
<1>18. QueueInsert(r, key, val, t) = Pushed(Cut(r, m), Item(d.slots[i]))
  <2>1. PICK w, x : w = Cut(r, m) /\ x = Item(e)
    OBVIOUS
  <2>2. Without(r, key) = w
    BY ONLY <1>4, <2>1, Stands(c, q, r), WithoutCuts
  <2>3. AList(w) /\ Len(w) = L - 1
    BY ONLY <1>4, <1>5, <2>1, CutIs
  <2>4. Len(w) # cap
    <3>1. L <= cap
      BY ONLY <1>5, Stands(c, q, r), KeysCounted
    <3> QED
      BY ONLY <1>5, <2>3, <3>1, LruAssumption
  <2>5. QueueInsert(r, key, val, t) = <<x>> \o w
    BY ONLY <1>2, <2>1, <2>2, <2>4 DEF QueueInsert
  <2>6. <<x>> \o w = Pushed(w, x)
    BY ONLY <2>3, ConsPushes
  <2> QED
    BY ONLY <1>11, <2>1, <2>5, <2>6, Zenon
<1>19. Stands(insert(c, key, val, t), Pushed(Cut(q, m), q[m]), QueueInsert(r, key, val, t))
  BY ONLY <1>2, <1>16, <1>17, <1>18, Zenon
<1> QED
  BY ONLY <1>19

\* insert of a new key: in a full cache the least recently used entry goes.
LEMMA InsertNew ==
    ASSUME NEW c, NEW q, NEW r, Stands(c, q, r), NEW key, key \notin Keys(c), NEW val, NEW t \in Nat
    PROVE  \E u : Stands(insert(c, key, val, t), u, QueueInsert(r, key, val, t))
<1>1. PICK e, L, x : e = Entry(key, val, t) /\ L = Len(r) /\ x = Item(e)
  OBVIOUS
<1>2. IsSlot(e) /\ e.key = key
  BY ONLY <1>1, t \in Nat, EntryIs
<1>3. AList(r) /\ AList(q) /\ Len(q) = L /\ L \in Nat
  BY ONLY <1>1, Stands(c, q, r), KeysOnce
<1>4. Cardinality(Keys(c)) = L /\ L <= cap
  BY ONLY <1>1, Stands(c, q, r), KeysCounted
<1>5. Without(r, key) = r
  BY ONLY key \notin Keys(c), Stands(c, q, r), WithoutNone
<1>6. PICK kept : kept = IF L = cap THEN Front(r) ELSE r
  OBVIOUS
<1>7. QueueInsert(r, key, val, t) = <<x>> \o kept
  BY ONLY <1>1, <1>5, <1>6 DEF QueueInsert
<1>8. PICK room : room = IF L = cap /\ c.tail # NULL THEN Vacate(c, c.tail) ELSE c
  OBVIOUS
<1>9. insert(c, key, val, t) = Added(room, key, e)
  BY ONLY <1>1, <1>4, <1>8, key \notin Keys(c) DEF insert, Added
<1>10. \E u : /\ Stands(room, u, kept) /\ Len(kept) < cap /\ key \notin Keys(room)
  <2>1. CASE L = cap
    <3>1. L \in 1 .. L /\ L # 0
      BY ONLY <1>3, <2>1, LruAssumption
    <3>2. c.tail = q[L] /\ q[L] \in 1 .. Len(c.slots) /\ Len(c.slots) \in Nat
      BY <1>3, <3>1 DEF Stands, Linked, IsLru, AList
    <3>3. room = Vacate(c, q[L])
      BY ONLY <1>8, <2>1, <3>2 DEF NULL
    <3>4. Stands(Vacate(c, q[L]), Cut(q, L), Cut(r, L))
      BY ONLY <1>3, <3>1, Stands(c, q, r), VacateCuts
    <3>5. PICK w : w = Cut(r, L)
      OBVIOUS
    <3>6. AList(w) /\ Len(w) = L - 1 /\ \A n \in 1 .. L - 1 : w[n] = IF n < L THEN r[n] ELSE r[n + 1]
      BY ONLY <1>1, <1>3, <3>1, <3>5, CutIs
    <3>7. \A n \in 1 .. L - 1 : n < L /\ n \in 1 .. L
      BY ONLY <1>3
    <3>8. \A n \in 1 .. L - 1 : w[n] = r[n]
      BY ONLY <3>6, <3>7
    <3>9. kept = w
      <4>1. r # <<>>
        BY ONLY <1>1, <3>1, EmptyList
      <4>2. AList(kept) /\ Len(kept) = L - 1 /\ \A n \in 1 .. L - 1 : kept[n] = r[n]
        BY ONLY <1>1, <1>3, <1>6, <2>1, <4>1, ListFront
      <4> QED
        BY ONLY <3>6, <3>8, <4>2, SameList
    <3>10. Stands(room, Cut(q, L), kept)
      BY ONLY <3>3, <3>4, <3>5, <3>9, Zenon
    <3>11. Len(kept) < cap
      BY ONLY <1>3, <2>1, <3>6, <3>9
    <3>12. key \notin Keys(room)
      <4>1. ASSUME key \in Keys(room) PROVE FALSE
        <5>1. PICK n \in 1 .. Len(kept) : kept[n].key = key
          BY ONLY <3>10, <4>1, KeysOnce
        <5>2. n \in 1 .. L - 1
          BY ONLY <3>6, <3>9
        <5>3. n \in 1 .. L /\ r[n].key = key
          BY ONLY <3>7, <3>8, <3>9, <5>1, <5>2
        <5> QED
          BY ONLY <1>1, <5>3, Stands(c, q, r), key \notin Keys(c), KeysOnce
      <4> QED
        BY ONLY <4>1
    <3> QED
      BY ONLY <3>10, <3>11, <3>12
  <2>2. CASE L # cap
    <3>1. room = c /\ kept = r /\ L < cap
      BY ONLY <1>3, <1>4, <1>6, <1>8, <2>2, LruAssumption
    <3> QED
      BY ONLY <1>1, <3>1, Stands(c, q, r), key \notin Keys(c), Zenon
  <2> QED
    BY ONLY <2>1, <2>2
<1>11. PICK u : /\ Stands(room, u, kept) /\ Len(kept) < cap /\ key \notin Keys(room)
  BY ONLY <1>10
<1>12. Len(u) < cap /\ AList(kept)
  BY ONLY <1>11, KeysOnce
<1>13. PICK v : Stands(Added(room, key, e), v, Pushed(kept, x))
  BY ONLY <1>1, <1>2, <1>11, <1>12, AddedPushes
<1>14. <<x>> \o kept = Pushed(kept, x)
  BY ONLY <1>12, ConsPushes
<1>15. Stands(insert(c, key, val, t), v, QueueInsert(r, key, val, t))
  BY ONLY <1>7, <1>9, <1>13, <1>14, Zenon
<1> QED
  BY ONLY <1>15

LEMMA InsertQueue ==
    ASSUME NEW c, NEW q, NEW r, Stands(c, q, r), NEW key, NEW val, NEW t \in Nat
    PROVE  \E u : Stands(insert(c, key, val, t), u, QueueInsert(r, key, val, t))
  BY InsertOld, InsertNew

\* A new cache is empty.
LEMMA EmptyStands == Stands(EmptyLru, <<>>, <<>>)
<1>1. PICK c, q : c = EmptyLru /\ q = <<>>
  OBVIOUS
<1>2. PICK map : map = [k \in {} |-> NULL]
  OBVIOUS
<1>3. c = [map |-> map, slots |-> q, free |-> q, head |-> NULL, tail |-> NULL]
  BY ONLY <1>1, <1>2 DEF EmptyLru
<1>4. AList(q) /\ Len(q) = 0
  BY ONLY <1>1, EmptyList
<1>5. c.map = map /\ c.slots = q /\ c.free = q /\ c.head = NULL /\ c.tail = NULL
  BY ONLY <1>3
<1>6. IsLru(c)
  BY ONLY <1>3, <1>4, <1>5 DEF IsLru
<1>7. Linked(c, q) /\ Shows(c, q, q)
  BY ONLY <1>4, <1>5 DEF Linked, Shows
<1>8. Mapped(map, q, q)
  BY ONLY <1>2, <1>4 DEF Mapped
<1>9. Spare(q, Len(q), q)
  BY ONLY <1>4, LruAssumption DEF Spare
<1>10. Stands(c, q, q)
  BY ONLY <1>5, <1>6, <1>7, <1>8, <1>9 DEF Stands
<1> QED
  BY ONLY <1>1, <1>10, Zenon
-----------------------------------------------------------------------------
(* Following the links *)

Follow(c, N, g, n) == IF n = 1 THEN c.head ELSE IF g[n - 1] = NULL THEN NULL ELSE c.slots[g[n - 1]].next

\* Following next from head on gives the slots in their order.
LEMMA ChainIs ==
    ASSUME NEW c, NEW q, NEW r, Stands(c, q, r)
    PROVE  Chain(c) = q
<1>1. PICK L, N : L = Len(q) /\ N = Len(c.slots) /\ L \in Nat /\ N \in Nat
  BY DEF Stands, Linked, IsLru, AList
<1>2. AList(q) /\ L <= N
  <2>1. Spare(c.free, Len(c.slots), q) /\ AList(c.free) /\ AList(q)
    BY DEF Stands, IsLru, Linked
  <2>2. PICK F \in Nat : F = Len(c.free)
    BY ONLY <2>1 DEF AList
  <2>3. N = L + F
    BY ONLY <1>1, <2>1, <2>2 DEF Spare
  <2> QED
    BY ONLY <1>1, <2>1, <2>3, F \in Nat
<1>3. \A n \in 1 .. L : q[n] \in 1 .. N /\ q[n] # NULL
  <2>1. \A n \in 1 .. L : q[n] \in 1 .. N
    BY <1>1 DEF Stands, Linked
  <2> QED
    BY ONLY <1>1, <2>1 DEF NULL
<1>4. /\ c.head = IF L = 0 THEN NULL ELSE q[1]
      /\ \A n \in 1 .. L : c.slots[q[n]].next = IF n = L THEN NULL ELSE q[n + 1]
  BY <1>1 DEF Stands, Linked
<1>5. PICK sol : sol = [n \in 1 .. N |-> IF n <= L THEN q[n] ELSE NULL]
  OBVIOUS
<1>6. \A n \in 1 .. N : sol[n] = IF n <= L THEN q[n] ELSE NULL
  BY ONLY <1>5
<1>7. ASSUME NEW n \in 1 .. N PROVE sol[n] = Follow(c, N, sol, n)
  <2>1. CASE n = 1
    <3>1. n <= L <=> L # 0
      BY ONLY <1>1, <2>1
    <3>2. sol[n] = c.head
      BY ONLY <1>4, <1>6, <2>1, <3>1, n \in 1 .. N
    <3> QED
      BY ONLY <2>1, <3>2 DEF Follow
  <2>2. CASE n # 1
    <3>1. PICK k : k = n - 1 /\ k \in 1 .. N /\ n = k + 1
      BY ONLY <1>1, <2>2, n \in 1 .. N
    <3>2. sol[k] = (IF k <= L THEN q[k] ELSE NULL) /\ sol[n] = IF n <= L THEN q[n] ELSE NULL
      BY ONLY <1>6, <3>1, n \in 1 .. N
    <3>3. Follow(c, N, sol, n) = IF sol[k] = NULL THEN NULL ELSE c.slots[sol[k]].next
      BY ONLY <2>2, <3>1 DEF Follow
    <3>4. CASE k <= L
      <4>1. k \in 1 .. L /\ (n <= L <=> k # L)
        BY ONLY <1>1, <3>1, <3>4
      <4>2. sol[k] = q[k] /\ q[k] # NULL /\ c.slots[q[k]].next = IF k = L THEN NULL ELSE q[n]
        BY ONLY <1>3, <1>4, <3>1, <3>2, <3>4, <4>1
      <4>3. sol[n] = IF k = L THEN NULL ELSE q[n]
        BY ONLY <3>2, <4>1
      <4> QED
        BY ONLY <3>3, <4>2, <4>3, Zenon
    <3>5. CASE ~(k <= L)
      <4>1. ~(n <= L)
        BY ONLY <1>1, <3>1, <3>5
      <4> QED
        BY ONLY <3>2, <3>3, <3>5, <4>1
    <3> QED
      BY ONLY <3>4, <3>5
  <2> QED
    BY ONLY <2>1, <2>2
<1> DEFINE Body(g) == [n \in 1 .. N |-> Follow(c, N, g, n)]
<1>8. sol = Body(sol)
  BY ONLY <1>5, <1>7
<1>9. PICK at : at = CHOOSE g : g = Body(g)
  OBVIOUS
<1>10. at = Body(at)
  BY <1>8, <1>9
<1>11. at = [n \in 1 .. N |-> at[n]] /\ \A n \in 1 .. N : at[n] = Follow(c, N, at, n)
  BY <1>10
<1>12. \A n \in 0 .. N : n = 0 \/ at[n] = sol[n]
  <2> DEFINE Good == {n \in 0 .. N : n = 0 \/ at[n] = sol[n]}
  <2>1. 0 \in Good
    BY ONLY <1>1
  <2>2. ASSUME NEW n \in 1 .. N, n - 1 \in Good PROVE n \in Good
    <3>1. n \in 0 .. N /\ (n # 1 => n - 1 # 0)
      BY ONLY <1>1, n \in 1 .. N
    <3>2. n # 1 => at[n - 1] = sol[n - 1]
      BY ONLY <2>2, <3>1
    <3>3. Follow(c, N, at, n) = Follow(c, N, sol, n)
      BY ONLY <3>2 DEF Follow
    <3>4. at[n] = sol[n]
      BY ONLY <1>7, <1>11, <3>3, n \in 1 .. N
    <3> QED
      BY ONLY <3>1, <3>4
  <2>3. \A n \in 1 .. N : n - 1 \in Good => n \in Good
    BY ONLY <2>2
  <2> HIDE DEF Good
  <2>4. \A n \in 0 .. N : n \in Good
    BY ONLY <1>1, <2>1, <2>3, IntervalInduction
  <2> QED
    BY ONLY <2>4 DEF Good
<1>13. \A n \in 1 .. N : at[n] = sol[n]
  <2>1. \A n \in 1 .. N : n \in 0 .. N /\ n # 0
    BY ONLY <1>1
  <2> QED
    BY ONLY <1>12, <2>1
<1>14. AList(at) /\ Len(at) = N
  BY ONLY <1>1, <1>11 DEF AList
<1>15. PICK chosen : chosen = {n \in DOMAIN at : at[n] # NULL}
  OBVIOUS
<1>16. Chain(c) = Part(at, chosen)
  BY ONLY <1>1, <1>9, <1>15 DEF Chain, Body, Follow
<1>17. \A n \in 1 .. N : n \in chosen <=> n <= L
  <2>1. DOMAIN at = 1 .. N
    BY ONLY <1>11
  <2>2. ASSUME NEW n \in 1 .. N PROVE at[n] # NULL <=> n <= L
    <3>1. n <= L => n \in 1 .. L
      BY ONLY <1>1, n \in 1 .. N
    <3> QED
      BY ONLY <1>3, <1>6, <1>13, <3>1, n \in 1 .. N
  <2> QED
    BY ONLY <1>15, <2>1, <2>2
<1>18. PICK p : p = Part(at, chosen)
  OBVIOUS
<1>19. AList(p) /\ Len(p) = L /\ \A i \in 1 .. L : p[i] = at[i]
  <2>1. L \in 0 .. Len(at) /\ \A n \in 1 .. Len(at) : n \in chosen <=> n <= L
    BY ONLY <1>1, <1>2, <1>14, <1>17
  <2> QED
    BY ONLY <1>14, <1>18, <2>1, PartFirst
<1>20. \A i \in 1 .. L : p[i] = q[i]
  <2>1. \A i \in 1 .. L : i \in 1 .. N /\ i <= L
    BY ONLY <1>1, <1>2
  <2> QED
    BY ONLY <1>6, <1>13, <1>19, <2>1
<1>21. p = q
  BY ONLY <1>1, <1>2, <1>19, <1>20, SameList
<1> QED
  BY ONLY <1>16, <1>18, <1>21, Zenon

\* The entries along the links are the queue.
LEMMA RecencyIs ==
    ASSUME NEW c, NEW q, NEW r, Stands(c, q, r)
    PROVE  Recency(c) = r
<1>1. Chain(c) = q
  BY ChainIs
<1>2. PICK L \in Nat : /\ L = Len(q) /\ DOMAIN q = 1 .. L /\ AList(r) /\ L = Len(r)
                       /\ \A n \in 1 .. L : r[n] = Item(c.slots[q[n]])
  BY DEF Stands, Linked, Shows, AList
<1>3. Recency(c) = [n \in 1 .. L |-> Item(c.slots[q[n]])]
  BY ONLY <1>1, <1>2 DEF Recency
<1>4. r = [n \in 1 .. L |-> r[n]]
  BY ONLY <1>2 DEF AList
<1>5. [n \in 1 .. L |-> r[n]] = [n \in 1 .. L |-> Item(c.slots[q[n]])]
  BY ONLY <1>2
<1> QED
  BY ONLY <1>3, <1>4, <1>5, Zenon

LEMMA StandsWellLinked ==
    ASSUME NEW c, NEW q, NEW r, Stands(c, q, r)
    PROVE  WellLinked(c)
<1>1. PICK L, N, F, G :
        /\ L = Len(q) /\ N = Len(c.slots) /\ F = c.free /\ G = Len(F)
        /\ L \in Nat /\ N \in Nat /\ G \in Nat
  BY DEF Stands, Linked, IsLru, AList
<1>2. DOMAIN q = 1 .. L /\ DOMAIN F = 1 .. G /\ DOMAIN c.slots = 1 .. N
  BY <1>1 DEF Stands, Linked, IsLru, AList
<1>3. PICK used : used = {c.map[k] : k \in Keys(c)}
  OBVIOUS
<1>4. /\ \A m, n \in 1 .. L : q[m] = q[n] => m = n
      /\ \A n \in 1 .. L : q[n] \in 1 .. N
      /\ \A n \in 1 .. L : c.slots[q[n]].prev = IF n = 1 THEN NULL ELSE q[n - 1]
      /\ c.tail = IF L = 0 THEN NULL ELSE q[L]
  BY <1>1 DEF Stands, Linked
<1>5. /\ \A m \in 1 .. G : F[m] \in 1 .. N
      /\ \A m, n \in 1 .. G : F[m] = F[n] => m = n
      /\ \A m \in 1 .. G, n \in 1 .. L : F[m] # q[n]
      /\ \A j \in 1 .. N : \/ \E n \in 1 .. L : q[n] = j
                           \/ \E m \in 1 .. G : F[m] = j
      /\ N <= cap
  BY <1>1 DEF Stands, Spare
<1>6. /\ \A k \in Keys(c) : \E n \in 1 .. L : q[n] = c.map[k] /\ r[n].key = k
      /\ \A n \in 1 .. L : r[n].key \in Keys(c) /\ c.map[r[n].key] = q[n]
  BY ONLY <1>1, Stands(c, q, r), KeysOnce
<1>7. ToSet(q) = used
  <2>1. ToSet(q) = {q[n] : n \in 1 .. L}
    BY ONLY <1>2 DEF ToSet
  <2> QED
    BY ONLY <1>3, <1>6, <2>1
<1>8. IsInjective(q) /\ IsInjective(F)
  BY ONLY <1>2, <1>4, <1>5 DEF IsInjective
<1>9. \A k \in Keys(c) : c.slots[c.map[k]].key = k
  <2> SUFFICES ASSUME NEW k \in Keys(c) PROVE c.slots[c.map[k]].key = k
    OBVIOUS
  <2>1. PICK m : Found(c, q, r, k, m)
    BY KeyFound
  <2>2. r[m] = Item(c.slots[c.map[k]]) /\ r[m].key = k
    BY ONLY <2>1 DEF Found
  <2> QED
    BY ONLY <2>2 DEF Item
<1>10. c.tail = IF q = <<>> THEN NULL ELSE Last(q)
  <2>1. q = <<>> <=> L = 0
    BY <1>1, EmptyList DEF Stands, Linked
  <2>2. Last(q) = q[L]
    BY ONLY <1>1 DEF Last
  <2> QED
    BY ONLY <1>4, <2>1, <2>2
<1>11. ToSet(F) = (1 .. N) \ used
  <2>1. ToSet(F) = {F[n] : n \in 1 .. G}
    BY ONLY <1>2 DEF ToSet
  <2>2. used = {q[n] : n \in 1 .. L}
    BY ONLY <1>2, <1>7 DEF ToSet
  <2> QED
    BY ONLY <1>5, <2>1, <2>2
<1>12. Chain(c) = q
  BY ChainIs
<1> QED
  BY ONLY <1>1, <1>2, <1>3, <1>4, <1>5, <1>7, <1>8, <1>9, <1>10, <1>11, <1>12 DEF WellLinked
-----------------------------------------------------------------------------
(* The loops of groups.rs, round by round *)

\* cache_invalidate of one id after the other: g[n] is the cache after n of them.
Invalidates(c, ids, g) ==
    /\ InvalidateAll(c, ids) = g[Len(ids)] /\ g[0] = c
    /\ \A n \in 1 .. Len(ids) : g[n] = remove(g[n - 1], ids[n])

LEMMA InvalidateLoop ==
    ASSUME NEW c, NEW ids, AList(ids)
    PROVE  \E g : Invalidates(c, ids, g)
<1>1. PICK N, c0 : N = Len(ids) /\ c0 = c /\ N \in Nat
  BY DEF AList
<1> DEFINE Round(n, x) == remove(x, ids[n])
           Body(g) == [n \in 0 .. N |-> IF n = 0 THEN c0 ELSE Round(n, g[n - 1])]
           Runs(n, g) == g[0] = c0 /\ \A i \in 1 .. n : g[i] = Round(i, g[i - 1])
           Good == {n \in 0 .. N : \E g : Runs(n, g)}
<1> HIDE DEF Round
<1>2. 0 \in Good
  <2>1. PICK g : g = [i \in 0 .. 0 |-> c0]
    OBVIOUS
  <2>2. g[0] = c0 /\ \A i \in 1 .. 0 : g[i] = Round(i, g[i - 1])
    BY ONLY <2>1
  <2> QED
    BY ONLY <1>1, <2>2
<1>3. ASSUME NEW n \in 1 .. N, n - 1 \in Good PROVE n \in Good
  <2>1. PICK g : g[0] = c0 /\ \A i \in 1 .. n - 1 : g[i] = Round(i, g[i - 1])
    BY ONLY <1>3
  <2>2. PICK v, h : v = Round(n, g[n - 1]) /\ h = [i \in 0 .. n |-> IF i = n THEN v ELSE g[i]]
    OBVIOUS
  <2>3. n \in 0 .. N /\ 0 \in 0 .. n /\ 0 # n
    BY ONLY <1>1, n \in 1 .. N
  <2>4. h[0] = c0
    BY ONLY <2>1, <2>2, <2>3
  <2>5. ASSUME NEW i \in 1 .. n PROVE h[i] = Round(i, h[i - 1])
    <3>1. i - 1 \in 0 .. n /\ i - 1 # n /\ i \in 0 .. n /\ (i # n => i \in 1 .. n - 1)
      BY ONLY <1>1, n \in 1 .. N, i \in 1 .. n
    <3>2. h[i - 1] = g[i - 1] /\ h[i] = IF i = n THEN v ELSE g[i]
      BY ONLY <2>2, <3>1
    <3>3. CASE i = n
      BY ONLY <2>2, <3>2, <3>3
    <3>4. CASE i # n
      BY ONLY <2>1, <3>1, <3>2, <3>4
    <3> QED
      BY ONLY <3>3, <3>4
  <2> QED
    BY ONLY <2>3, <2>4, <2>5
<1>4. \A n \in 1 .. N : n - 1 \in Good => n \in Good
  BY ONLY <1>3
<1> HIDE DEF Good
<1>5. N \in Good
  <2>1. N \in 0 .. N
    BY ONLY <1>1
  <2> QED
    BY ONLY <1>1, <1>2, <1>4, <2>1, IntervalInduction
<1>6. PICK f : f[0] = c0 /\ \A i \in 1 .. N : f[i] = Round(i, f[i - 1])
  BY ONLY <1>5 DEF Good
<1>7. PICK g : g = [i \in 0 .. N |-> f[i]]
  OBVIOUS
<1>8. g = Body(g)
  <2>1. ASSUME NEW i \in 0 .. N PROVE f[i] = IF i = 0 THEN c0 ELSE Round(i, g[i - 1])
    <3>1. i # 0 => i \in 1 .. N /\ i - 1 \in 0 .. N
      BY ONLY <1>1, i \in 0 .. N
    <3>2. i # 0 => g[i - 1] = f[i - 1]
      BY ONLY <1>7, <3>1
    <3>3. i # 0 => Round(i, g[i - 1]) = Round(i, f[i - 1])
      BY ONLY <3>2, Zenon
    <3>4. i # 0 => f[i] = Round(i, f[i - 1])
      BY ONLY <1>6, <3>1
    <3> QED
      BY ONLY <1>6, <3>3, <3>4
  <2> QED
    BY ONLY <1>7, <2>1
<1>9. PICK after : after = CHOOSE h : h = Body(h)
  OBVIOUS
<1>10. after = Body(after)
  BY <1>8, <1>9
<1>11. after[0] = c0 /\ \A i \in 1 .. N : after[i] = Round(i, after[i - 1])
  <2>1. 0 \in 0 .. N /\ \A i \in 1 .. N : i \in 0 .. N /\ i # 0
    BY ONLY <1>1
  <2> QED
    BY ONLY <1>10, <2>1
<1>12. InvalidateAll(c, ids) = after[N]
  BY ONLY <1>1, <1>9 DEF InvalidateAll, Body, Round
<1>13. \A n \in 1 .. N : after[n] = remove(after[n - 1], ids[n])
  BY ONLY <1>11 DEF Round
<1>14. Invalidates(c, ids, after)
  BY ONLY <1>1, <1>11, <1>12, <1>13 DEF Invalidates
<1> QED
  BY ONLY <1>14

\* cache_put of one value after the other.
Fills(c, first, vals, g) ==
    /\ CachePutAll(c, first, vals) = g[Len(vals)] /\ g[0] = c
    /\ \A n \in 1 .. Len(vals) : g[n] = insert(g[n - 1], first + n - 1, vals[n], now)

LEMMA CachePutLoop ==
    ASSUME NEW c, NEW first, NEW vals, AList(vals)
    PROVE  \E g : Fills(c, first, vals, g)
<1>1. PICK N, c0 : N = Len(vals) /\ c0 = c /\ N \in Nat
  BY DEF AList
<1> DEFINE Round(n, x) == insert(x, first + n - 1, vals[n], now)
           Body(g) == [n \in 0 .. N |-> IF n = 0 THEN c0 ELSE Round(n, g[n - 1])]
           Runs(n, g) == g[0] = c0 /\ \A i \in 1 .. n : g[i] = Round(i, g[i - 1])
           Good == {n \in 0 .. N : \E g : Runs(n, g)}
<1> HIDE DEF Round
<1>2. 0 \in Good
  <2>1. PICK g : g = [i \in 0 .. 0 |-> c0]
    OBVIOUS
  <2>2. g[0] = c0 /\ \A i \in 1 .. 0 : g[i] = Round(i, g[i - 1])
    BY ONLY <2>1
  <2> QED
    BY ONLY <1>1, <2>2
<1>3. ASSUME NEW n \in 1 .. N, n - 1 \in Good PROVE n \in Good
  <2>1. PICK g : g[0] = c0 /\ \A i \in 1 .. n - 1 : g[i] = Round(i, g[i - 1])
    BY ONLY <1>3
  <2>2. PICK v, h : v = Round(n, g[n - 1]) /\ h = [i \in 0 .. n |-> IF i = n THEN v ELSE g[i]]
    OBVIOUS
  <2>3. n \in 0 .. N /\ 0 \in 0 .. n /\ 0 # n
    BY ONLY <1>1, n \in 1 .. N
  <2>4. h[0] = c0
    BY ONLY <2>1, <2>2, <2>3
  <2>5. ASSUME NEW i \in 1 .. n PROVE h[i] = Round(i, h[i - 1])
    <3>1. i - 1 \in 0 .. n /\ i - 1 # n /\ i \in 0 .. n /\ (i # n => i \in 1 .. n - 1)
      BY ONLY <1>1, n \in 1 .. N, i \in 1 .. n
    <3>2. h[i - 1] = g[i - 1] /\ h[i] = IF i = n THEN v ELSE g[i]
      BY ONLY <2>2, <3>1
    <3>3. CASE i = n
      BY ONLY <2>2, <3>2, <3>3
    <3>4. CASE i # n
      BY ONLY <2>1, <3>1, <3>2, <3>4
    <3> QED
      BY ONLY <3>3, <3>4
  <2> QED
    BY ONLY <2>3, <2>4, <2>5
<1>4. \A n \in 1 .. N : n - 1 \in Good => n \in Good
  BY ONLY <1>3
<1> HIDE DEF Good
<1>5. N \in Good
  <2>1. N \in 0 .. N
    BY ONLY <1>1
  <2> QED
    BY ONLY <1>1, <1>2, <1>4, <2>1, IntervalInduction
<1>6. PICK f : f[0] = c0 /\ \A i \in 1 .. N : f[i] = Round(i, f[i - 1])
  BY ONLY <1>5 DEF Good
<1>7. PICK g : g = [i \in 0 .. N |-> f[i]]
  OBVIOUS
<1>8. g = Body(g)
  <2>1. ASSUME NEW i \in 0 .. N PROVE f[i] = IF i = 0 THEN c0 ELSE Round(i, g[i - 1])
    <3>1. i # 0 => i \in 1 .. N /\ i - 1 \in 0 .. N
      BY ONLY <1>1, i \in 0 .. N
    <3>2. i # 0 => g[i - 1] = f[i - 1]
      BY ONLY <1>7, <3>1
    <3>3. i # 0 => Round(i, g[i - 1]) = Round(i, f[i - 1])
      BY ONLY <3>2, Zenon
    <3>4. i # 0 => f[i] = Round(i, f[i - 1])
      BY ONLY <1>6, <3>1
    <3> QED
      BY ONLY <1>6, <3>3, <3>4
  <2> QED
    BY ONLY <1>7, <2>1
<1>9. PICK after : after = CHOOSE h : h = Body(h)
  OBVIOUS
<1>10. after = Body(after)
  BY <1>8, <1>9
<1>11. after[0] = c0 /\ \A i \in 1 .. N : after[i] = Round(i, after[i - 1])
  <2>1. 0 \in 0 .. N /\ \A i \in 1 .. N : i \in 0 .. N /\ i # 0
    BY ONLY <1>1
  <2> QED
    BY ONLY <1>10, <2>1
<1>12. CachePutAll(c, first, vals) = after[N]
  BY ONLY <1>1, <1>9 DEF CachePutAll, Body, Round
<1>13. \A n \in 1 .. N : after[n] = insert(after[n - 1], first + n - 1, vals[n], now)
  BY ONLY <1>11 DEF Round
<1>14. Fills(c, first, vals, after)
  BY ONLY <1>1, <1>11, <1>12, <1>13 DEF Fills
<1> QED
  BY ONLY <1>14

\* The rounds of read_range.
Scans(k, start, end, g) ==
    /\ Scan(k, start, end) = g[Span(start, end)] /\ g[0] = [cache |-> caches[k], cached |-> <<>>, all_cached |-> TRUE]
    /\ \A n \in 1 .. Span(start, end) : g[n] = ScanStep(g[n - 1], start + n - 1)

LEMMA ScanLoop ==
    ASSUME NEW k, NEW start \in Nat, NEW end \in Nat
    PROVE  \E g : Scans(k, start, end, g)
<1>0. Span(start, end) \in Nat
  BY DEF Span
<1>1. PICK N, c0 : /\ N = Span(start, end) /\ N \in Nat
                   /\ c0 = [cache |-> caches[k], cached |-> <<>>, all_cached |-> TRUE]
  BY ONLY <1>0
<1> DEFINE Round(n, x) == ScanStep(x, start + n - 1)
           Body(g) == [n \in 0 .. N |-> IF n = 0 THEN c0 ELSE Round(n, g[n - 1])]
           Runs(n, g) == g[0] = c0 /\ \A i \in 1 .. n : g[i] = Round(i, g[i - 1])
           Good == {n \in 0 .. N : \E g : Runs(n, g)}
<1> HIDE DEF Round
<1>2. 0 \in Good
  <2>1. PICK g : g = [i \in 0 .. 0 |-> c0]
    OBVIOUS
  <2>2. g[0] = c0 /\ \A i \in 1 .. 0 : g[i] = Round(i, g[i - 1])
    BY ONLY <2>1
  <2> QED
    BY ONLY <1>1, <2>2
<1>3. ASSUME NEW n \in 1 .. N, n - 1 \in Good PROVE n \in Good
  <2>1. PICK g : g[0] = c0 /\ \A i \in 1 .. n - 1 : g[i] = Round(i, g[i - 1])
    BY ONLY <1>3
  <2>2. PICK v, h : v = Round(n, g[n - 1]) /\ h = [i \in 0 .. n |-> IF i = n THEN v ELSE g[i]]
    OBVIOUS
  <2>3. n \in 0 .. N /\ 0 \in 0 .. n /\ 0 # n
    BY ONLY <1>1, n \in 1 .. N
  <2>4. h[0] = c0
    BY ONLY <2>1, <2>2, <2>3
  <2>5. ASSUME NEW i \in 1 .. n PROVE h[i] = Round(i, h[i - 1])
    <3>1. i - 1 \in 0 .. n /\ i - 1 # n /\ i \in 0 .. n /\ (i # n => i \in 1 .. n - 1)
      BY ONLY <1>1, n \in 1 .. N, i \in 1 .. n
    <3>2. h[i - 1] = g[i - 1] /\ h[i] = IF i = n THEN v ELSE g[i]
      BY ONLY <2>2, <3>1
    <3>3. CASE i = n
      BY ONLY <2>2, <3>2, <3>3
    <3>4. CASE i # n
      BY ONLY <2>1, <3>1, <3>2, <3>4
    <3> QED
      BY ONLY <3>3, <3>4
  <2> QED
    BY ONLY <2>3, <2>4, <2>5
<1>4. \A n \in 1 .. N : n - 1 \in Good => n \in Good
  BY ONLY <1>3
<1> HIDE DEF Good
<1>5. N \in Good
  <2>1. N \in 0 .. N
    BY ONLY <1>1
  <2> QED
    BY ONLY <1>1, <1>2, <1>4, <2>1, IntervalInduction
<1>6. PICK f : f[0] = c0 /\ \A i \in 1 .. N : f[i] = Round(i, f[i - 1])
  BY ONLY <1>5 DEF Good
<1>7. PICK g : g = [i \in 0 .. N |-> f[i]]
  OBVIOUS
<1>8. g = Body(g)
  <2>1. ASSUME NEW i \in 0 .. N PROVE f[i] = IF i = 0 THEN c0 ELSE Round(i, g[i - 1])
    <3>1. i # 0 => i \in 1 .. N /\ i - 1 \in 0 .. N
      BY ONLY <1>1, i \in 0 .. N
    <3>2. i # 0 => g[i - 1] = f[i - 1]
      BY ONLY <1>7, <3>1
    <3>3. i # 0 => Round(i, g[i - 1]) = Round(i, f[i - 1])
      BY ONLY <3>2, Zenon
    <3>4. i # 0 => f[i] = Round(i, f[i - 1])
      BY ONLY <1>6, <3>1
    <3> QED
      BY ONLY <1>6, <3>3, <3>4
  <2> QED
    BY ONLY <1>7, <2>1
<1>9. PICK after : after = CHOOSE h : h = Body(h)
  OBVIOUS
<1>10. after = Body(after)
  BY <1>8, <1>9
<1>11. after[0] = c0 /\ \A i \in 1 .. N : after[i] = Round(i, after[i - 1])
  <2>1. 0 \in 0 .. N /\ \A i \in 1 .. N : i \in 0 .. N /\ i # 0
    BY ONLY <1>1
  <2> QED
    BY ONLY <1>10, <2>1
<1>12. Scan(k, start, end) = after[N]
  BY ONLY <1>1, <1>9 DEF Scan, Body, Round
<1>13. \A n \in 1 .. N : after[n] = ScanStep(after[n - 1], start + n - 1)
  BY ONLY <1>11 DEF Round
<1>14. Scans(k, start, end, after)
  BY ONLY <1>1, <1>11, <1>12, <1>13 DEF Scans
<1> QED
  BY ONLY <1>14
-----------------------------------------------------------------------------
(* What is in the queue is in the log *)

Among(v, r) == AList(v) /\ \A i \in 1 .. Len(v) : \E n \in 1 .. Len(r) : v[i] = r[n]

Backed(r, entries) ==
    \A n \in 1 .. Len(r) : r[n].key \in DOMAIN entries /\ r[n].val = entries[r[n].key]

\* The cache is a queue of entries that the log holds.
Serves(c, entries) == \E q, r : Stands(c, q, r) /\ Backed(r, entries)

LEMMA AmongBacked ==
    ASSUME NEW v, NEW r, NEW E, Among(v, r), Backed(r, E)
    PROVE  Backed(v, E)
  BY DEF Among, Backed

LEMMA WithoutAmong ==
    ASSUME NEW r, AList(r), NEW key
    PROVE  /\ Among(Without(r, key), r)
           /\ \A i \in 1 .. Len(Without(r, key)) : Without(r, key)[i].key # key
<1>1. PICK chosen, w : chosen = {n \in DOMAIN r : r[n].key # key} /\ w = Part(r, chosen)
  OBVIOUS
<1>2. Without(r, key) = w
  BY ONLY <1>1 DEF Without
<1>3. ChosenFrom(r, chosen, w)
  BY ONLY <1>1, AList(r), PartElements, Zenon
<1>4. AList(w) /\ \A i \in 1 .. Len(w) : \E n \in 1 .. Len(r) : n \in chosen /\ w[i] = r[n]
  BY ONLY <1>3 DEF ChosenFrom
<1>5. \A n \in chosen : r[n].key # key
  BY ONLY <1>1
<1>6. Among(w, r)
  BY ONLY <1>4 DEF Among
<1>7. \A i \in 1 .. Len(w) : w[i].key # key
  BY ONLY <1>4, <1>5
<1> QED
  BY ONLY <1>2, <1>6, <1>7, Zenon

LEMMA JoinedAmong ==
    ASSUME NEW x, NEW y, NEW r, Among(x, r), Among(y, r)
    PROVE  Among(x \o y, r)
<1>1. PICK z, L, M : z = x \o y /\ L = Len(x) /\ M = Len(y)
  OBVIOUS
<1>2. AList(x) /\ AList(y) /\ L \in Nat /\ M \in Nat
  BY ONLY <1>1, Among(x, r), Among(y, r) DEF Among, AList
<1>3. Joined(x, y, z)
  BY ONLY <1>1, <1>2, ListConcat, Zenon
<1>4. AList(z) /\ Len(z) = L + M /\ (\A i \in 1 .. L : z[i] = x[i]) /\ \A i \in 1 .. M : z[L + i] = y[i]
  BY ONLY <1>1, <1>3 DEF Joined
<1>5. ASSUME NEW i \in 1 .. L + M PROVE \E n \in 1 .. Len(r) : z[i] = r[n]
  <2>1. CASE i \in 1 .. L
    BY ONLY <1>1, <1>4, <2>1, Among(x, r) DEF Among
  <2>2. CASE i \notin 1 .. L
    <3>1. i - L \in 1 .. M /\ L + (i - L) = i
      BY ONLY <1>2, <2>2, i \in 1 .. L + M
    <3>2. PICK k : k = i - L /\ k \in 1 .. M /\ z[i] = y[k]
      BY ONLY <1>4, <3>1
    <3> QED
      BY ONLY <1>1, <3>2, Among(y, r) DEF Among
  <2> QED
    BY ONLY <2>1, <2>2
<1>6. Among(z, r)
  BY ONLY <1>4, <1>5 DEF Among
<1> QED
  BY ONLY <1>1, <1>6, Zenon

LEMMA GetAmong ==
    ASSUME NEW r, AList(r), NEW key, NEW t
    PROVE  Among(QueueGet(r, key, t), r)
<1>1. PICK chosen, found, w :
        /\ chosen = {n \in DOMAIN r : r[n].key = key /\ r[n].expires_at >= t}
        /\ found = Part(r, chosen) /\ w = Without(r, key)
  OBVIOUS
<1>2. QueueGet(r, key, t) = found \o w
  BY ONLY <1>1 DEF QueueGet
<1>3. ChosenFrom(r, chosen, found)
  BY ONLY <1>1, AList(r), PartElements, Zenon
<1>4. Among(found, r)
  BY ONLY <1>3 DEF ChosenFrom, Among
<1>5. Among(w, r)
  BY ONLY <1>1, AList(r), WithoutAmong
<1>6. Among(found \o w, r)
  BY ONLY <1>4, <1>5, JoinedAmong
<1> QED
  BY ONLY <1>2, <1>6, Zenon

LEMMA GetServes ==
    ASSUME NEW c, NEW E, Serves(c, E), NEW key, NEW t \in Nat
    PROVE  Serves(get(c, key, t), E)
<1>1. PICK q, r : Stands(c, q, r) /\ Backed(r, E)
  BY ONLY Serves(c, E) DEF Serves
<1>2. PICK v : v = QueueGet(r, key, t)
  OBVIOUS
<1>3. PICK u : Stands(get(c, key, t), u, v)
  BY ONLY <1>1, <1>2, t \in Nat, GetQueue
<1>4. Among(v, r)
  <2>1. AList(r)
    BY ONLY <1>1, KeysOnce
  <2> QED
    BY ONLY <1>2, <2>1, GetAmong
<1>5. Backed(v, E)
  BY ONLY <1>1, <1>4, AmongBacked
<1> QED
  BY ONLY <1>3, <1>5 DEF Serves

\* A key that hits is in the log, with the value that the cache answers.
LEMMA HitServes ==
    ASSUME NEW c, NEW E, Serves(c, E), NEW key, NEW t, Hit(c, key, t)
    PROVE  key \in DOMAIN E /\ Cached(c, key) = E[key]
<1>1. PICK q, r : Stands(c, q, r) /\ Backed(r, E)
  BY ONLY Serves(c, E) DEF Serves
<1>2. key \in Keys(c)
  BY ONLY Hit(c, key, t) DEF Hit
<1>3. PICK m : Found(c, q, r, key, m)
  BY ONLY <1>1, <1>2, KeyFound
<1>4. m \in 1 .. Len(r) /\ r[m].key = key /\ r[m].val = Cached(c, key)
  BY ONLY <1>3 DEF Found
<1> QED
  BY ONLY <1>1, <1>4 DEF Backed

\* Inserting an entry of the log.
LEMMA InsertServes ==
    ASSUME NEW c, NEW E, Serves(c, E), NEW key, key \in DOMAIN E, NEW t \in Nat
    PROVE  Serves(insert(c, key, E[key], t), E)
<1>1. PICK q, r : Stands(c, q, r) /\ Backed(r, E)
  BY ONLY Serves(c, E) DEF Serves
<1>2. PICK v, val : v = QueueInsert(r, key, val, t) /\ val = E[key]
  OBVIOUS
<1>3. PICK u : Stands(insert(c, key, val, t), u, v)
  BY ONLY <1>1, <1>2, t \in Nat, InsertQueue
<1>4. PICK x, others, kept : /\ x = Item(Entry(key, val, t)) /\ others = Without(r, key)
                             /\ kept = IF Len(others) = cap THEN Front(others) ELSE others
  OBVIOUS
<1>5. v = <<x>> \o kept
  BY ONLY <1>2, <1>4 DEF QueueInsert
<1>6. x.key = key /\ x.val = val
  BY ONLY <1>4 DEF Item, Entry
<1>7. Among(others, r)
  <2>1. AList(r)
    BY ONLY <1>1, KeysOnce
  <2> QED
    BY ONLY <1>4, <2>1, WithoutAmong
<1>8. Among(kept, r)
  <2>1. CASE Len(others) = cap
    <3>1. others # <<>>
      BY ONLY <2>1, LruAssumption, EmptyList
    <3>2. AList(others)
      BY ONLY <1>7 DEF Among
    <3>3. PICK L \in Nat : L = Len(others) - 1 /\ Len(others) \in Nat
      BY ONLY <3>1, <3>2, ListFront
    <3>4. AList(kept) /\ Len(kept) = L /\ \A i \in 1 .. L : kept[i] = others[i]
      BY ONLY <1>4, <2>1, <3>1, <3>2, <3>3, ListFront
    <3>5. \A i \in 1 .. L : i \in 1 .. Len(others)
      BY ONLY <3>3
    <3> QED
      BY ONLY <1>7, <3>4, <3>5 DEF Among
  <2>2. CASE Len(others) # cap
    BY ONLY <1>4, <1>7, <2>2
  <2> QED
    BY ONLY <2>1, <2>2
<1>9. AList(kept)
  BY ONLY <1>8 DEF Among
<1>10. v = Pushed(kept, x)
  BY ONLY <1>5, <1>9, ConsPushes, Zenon
<1>11. /\ Len(kept) \in Nat /\ Len(v) = Len(kept) + 1
       /\ \A n \in 1 .. Len(kept) + 1 : v[n] = IF n = 1 THEN x ELSE kept[n - 1]
  BY ONLY <1>9, <1>10, PushedIs
<1>12. Backed(kept, E)
  BY ONLY <1>1, <1>8, AmongBacked
<1>13. ASSUME NEW n \in 1 .. Len(v) PROVE v[n].key \in DOMAIN E /\ v[n].val = E[v[n].key]
  <2>1. CASE n = 1
    <3>1. v[n] = x
      BY ONLY <1>11, <2>1, n \in 1 .. Len(v)
    <3> QED
      BY ONLY <1>2, <1>6, <3>1, key \in DOMAIN E
  <2>2. CASE n # 1
    <3>1. n - 1 \in 1 .. Len(kept) /\ n \in 1 .. Len(kept) + 1
      BY ONLY <1>11, <2>2, n \in 1 .. Len(v)
    <3>2. PICK k \in 1 .. Len(kept) : v[n] = kept[k]
      BY ONLY <1>11, <2>2, <3>1
    <3> QED
      BY ONLY <1>12, <3>2 DEF Backed
  <2> QED
    BY ONLY <2>1, <2>2
<1>14. Backed(v, E)
  BY ONLY <1>13 DEF Backed
<1>15. Serves(insert(c, key, val, t), E)
  BY ONLY <1>3, <1>14 DEF Serves
<1> QED
  BY ONLY <1>2, <1>15, Zenon

\* Filling the cache with entries of the log.
LEMMA FillServes ==
    ASSUME NEW c, NEW E, Serves(c, E), NEW first, NEW vals, AList(vals), now \in Nat,
           \A n \in 1 .. Len(vals) : first + n - 1 \in DOMAIN E /\ E[first + n - 1] = vals[n]
    PROVE  Serves(CachePutAll(c, first, vals), E)
<1>1. PICK g : Fills(c, first, vals, g)
  BY CachePutLoop
<1>2. PICK N \in Nat : N = Len(vals)
  BY DEF AList
<1>3. /\ CachePutAll(c, first, vals) = g[N] /\ g[0] = c
      /\ \A n \in 1 .. N : g[n] = insert(g[n - 1], first + n - 1, vals[n], now)
  BY ONLY <1>1, <1>2 DEF Fills
<1> DEFINE Good == {n \in 0 .. N : Serves(g[n], E)}
<1>4. 0 \in Good
  BY ONLY <1>3, Serves(c, E), N \in Nat
<1>5. ASSUME NEW n \in 1 .. N, n - 1 \in Good PROVE n \in Good
  <2>1. Serves(g[n - 1], E)
    BY ONLY <1>5
  <2>2. PICK key : key = first + n - 1 /\ key \in DOMAIN E /\ vals[n] = E[key]
    BY <1>2
  <2>3. g[n] = insert(g[n - 1], key, E[key], now)
    BY ONLY <1>3, <2>2
  <2>4. Serves(insert(g[n - 1], key, E[key], now), E)
    BY ONLY <2>1, <2>2, now \in Nat, InsertServes
  <2>5. Serves(g[n], E)
    BY ONLY <2>3, <2>4, Zenon
  <2> QED
    BY ONLY <2>5, n \in 1 .. N, N \in Nat
<1>6. \A n \in 1 .. N : n - 1 \in Good => n \in Good
  BY ONLY <1>5
<1> HIDE DEF Good
<1>7. N \in Good
  <2>1. N \in 0 .. N
    BY ONLY N \in Nat
  <2> QED
    BY ONLY <1>4, <1>6, <2>1, N \in Nat, IntervalInduction
<1> QED
  BY ONLY <1>3, <1>7 DEF Good

\* After the rounds up to n no entry has one of the ids that were invalidated.
Gone(c, E, ids, n) ==
    \E q, r : /\ Stands(c, q, r) /\ Backed(r, E)
              /\ \A i \in 1 .. Len(r), j \in 1 .. n : r[i].key # ids[j]

LEMMA InvalidateServes ==
    ASSUME NEW c, NEW E, Serves(c, E), NEW ids, AList(ids)
    PROVE  Gone(InvalidateAll(c, ids), E, ids, Len(ids))
<1>1. PICK g : Invalidates(c, ids, g)
  BY InvalidateLoop
<1>2. PICK N \in Nat : N = Len(ids)
  BY DEF AList
<1>3. /\ InvalidateAll(c, ids) = g[N] /\ g[0] = c
      /\ \A n \in 1 .. N : g[n] = remove(g[n - 1], ids[n])
  BY ONLY <1>1, <1>2 DEF Invalidates
<1> DEFINE Good == {n \in 0 .. N : Gone(g[n], E, ids, n)}
<1>4. 0 \in Good
  <2>1. Gone(c, E, ids, 0)
    BY ONLY Serves(c, E) DEF Serves, Gone
  <2> QED
    BY ONLY <1>3, <2>1, N \in Nat
<1>5. ASSUME NEW n \in 1 .. N, n - 1 \in Good PROVE n \in Good
  <2>1. PICK d, q, r : /\ d = g[n - 1] /\ Stands(d, q, r) /\ Backed(r, E)
                       /\ \A i \in 1 .. Len(r), j \in 1 .. n - 1 : r[i].key # ids[j]
    BY ONLY <1>5 DEF Gone
  <2>2. PICK w : w = Without(r, ids[n])
    OBVIOUS
  <2>3. PICK u : Stands(remove(d, ids[n]), u, w)
    BY ONLY <2>1, <2>2, RemoveQueue
  <2>4. Among(w, r) /\ \A i \in 1 .. Len(w) : w[i].key # ids[n]
    <3>1. AList(r)
      BY ONLY <2>1, KeysOnce
    <3> QED
      BY ONLY <2>2, <3>1, WithoutAmong
  <2>5. Backed(w, E)
    BY ONLY <2>1, <2>4, AmongBacked
  <2>6. ASSUME NEW i \in 1 .. Len(w), NEW j \in 1 .. n PROVE w[i].key # ids[j]
    <3>1. j = n \/ j \in 1 .. n - 1
      BY ONLY n \in 1 .. N, N \in Nat, j \in 1 .. n
    <3>2. PICK k \in 1 .. Len(r) : w[i] = r[k]
      BY ONLY <2>4, i \in 1 .. Len(w) DEF Among
    <3> QED
      BY ONLY <2>1, <2>4, <3>1, <3>2, i \in 1 .. Len(w)
  <2>7. g[n] = remove(d, ids[n])
    BY ONLY <1>3, <2>1, n \in 1 .. N
  <2>8. Stands(g[n], u, w)
    BY ONLY <2>3, <2>7, Zenon
  <2>9. Gone(g[n], E, ids, n)
    BY ONLY <2>5, <2>6, <2>8 DEF Gone
  <2> QED
    BY ONLY <2>9, n \in 1 .. N, N \in Nat
<1>6. \A n \in 1 .. N : n - 1 \in Good => n \in Good
  BY ONLY <1>5
<1> HIDE DEF Good
<1>7. N \in Good
  <2>1. N \in 0 .. N
    BY ONLY N \in Nat
  <2> QED
    BY ONLY <1>4, <1>6, <2>1, N \in Nat, IntervalInduction
<1>8. Gone(g[N], E, ids, N)
  BY ONLY <1>7 DEF Good
<1> QED
  BY ONLY <1>2, <1>3, <1>8, Zenon

\* What the scan has after n ids: a cache that still serves the log, and, as
\* long as every id was found, the entries of the log for all of them.
ScannedTo(s, E, start, n) ==
    /\ s = [cache |-> s.cache, cached |-> s.cached, all_cached |-> s.all_cached]
    /\ Serves(s.cache, E) /\ AList(s.cached)
    /\ s.all_cached => /\ Len(s.cached) = n
                       /\ \A i \in 1 .. n : /\ start + i - 1 \in DOMAIN E
                                            /\ s.cached[i] = <<start + i - 1, E[start + i - 1]>>

LEMMA StepScans ==
    ASSUME NEW s, NEW E, NEW start \in Nat, NEW n \in Nat, ScannedTo(s, E, start, n), now \in Nat
    PROVE  ScannedTo(ScanStep(s, start + n), E, start, n + 1)
<1>1. PICK z, id : z = ScanStep(s, start + n) /\ id = start + n
  OBVIOUS
<1>2. CASE ~s.all_cached
  <2>1. z = s
    BY ONLY <1>1, <1>2 DEF ScanStep
  <2>2. ScannedTo(s, E, start, n + 1)
    BY ONLY <1>2, ScannedTo(s, E, start, n) DEF ScannedTo
  <2> QED
    BY ONLY <1>1, <2>1, <2>2, Zenon
<1>3. CASE s.all_cached
  <2>1. PICK d, hit, app, val : /\ d = get(s.cache, id, now) /\ hit = Hit(s.cache, id, now)
                                /\ val = <<id, Cached(s.cache, id)>>
                                /\ app = IF Hit(s.cache, id, now) THEN Append(s.cached, val) ELSE s.cached
    OBVIOUS
  <2>2. z = [cache |-> d, cached |-> app, all_cached |-> hit]
    BY ONLY <1>1, <1>3, <2>1, Zenon DEF ScanStep
  <2>3. z.cache = d /\ z.cached = app /\ z.all_cached = hit
    BY ONLY <2>2, Zenon
  <2>4. Serves(s.cache, E) /\ AList(s.cached)
    BY ONLY ScannedTo(s, E, start, n) DEF ScannedTo
  <2>5. Serves(d, E)
    BY ONLY <2>1, <2>4, now \in Nat, GetServes
  <2>6. /\ Len(s.cached) = n
        /\ \A i \in 1 .. n : /\ start + i - 1 \in DOMAIN E
                             /\ s.cached[i] = <<start + i - 1, E[start + i - 1]>>
    BY ONLY <1>3, ScannedTo(s, E, start, n) DEF ScannedTo
  <2>7. CASE ~Hit(s.cache, id, now)
    <3>1. app = s.cached /\ ~hit
      BY ONLY <2>1, <2>7, Zenon
    <3>2. z = [cache |-> z.cache, cached |-> z.cached, all_cached |-> z.all_cached]
      BY ONLY <2>2, <2>3, Zenon
    <3>3. Serves(z.cache, E) /\ AList(z.cached) /\ ~z.all_cached
      BY ONLY <2>3, <2>4, <2>5, <3>1, Zenon
    <3>4. ScannedTo(z, E, start, n + 1)
      BY ONLY <3>2, <3>3, Zenon DEF ScannedTo
    <3> QED
      BY ONLY <1>1, <3>4, Zenon
  <2>8. CASE Hit(s.cache, id, now)
    <3>1. app = Append(s.cached, val)
      BY ONLY <2>1, <2>8, Zenon
    <3>2. id \in DOMAIN E /\ Cached(s.cache, id) = E[id]
      BY ONLY <2>4, <2>8, HitServes
    <3>3. AList(app) /\ Len(app) = n + 1 /\ app[n + 1] = val /\ \A i \in 1 .. n : app[i] = s.cached[i]
      BY ONLY <2>4, <2>6, <3>1, ListAppend
    <3>4. val = <<id, E[id]>>
      BY ONLY <2>1, <3>2
    <3>5. ASSUME NEW i \in 1 .. n + 1
          PROVE  start + i - 1 \in DOMAIN E /\ app[i] = <<start + i - 1, E[start + i - 1]>>
      <4>1. CASE i = n + 1
        <5>1. start + i - 1 = id
          BY ONLY <1>1, <4>1, n \in Nat, start \in Nat
        <5> QED
          BY ONLY <3>2, <3>3, <3>4, <4>1, <5>1
      <4>2. CASE i # n + 1
        <5>1. i \in 1 .. n
          BY ONLY <4>2, i \in 1 .. n + 1, n \in Nat
        <5> QED
          BY ONLY <2>6, <3>3, <5>1
      <4> QED
        BY ONLY <4>1, <4>2
    <3>6. z = [cache |-> z.cache, cached |-> z.cached, all_cached |-> z.all_cached]
      BY ONLY <2>2, <2>3, Zenon
    <3>7. /\ Serves(z.cache, E) /\ AList(z.cached) /\ Len(z.cached) = n + 1
          /\ \A i \in 1 .. n + 1 : /\ start + i - 1 \in DOMAIN E
                                   /\ z.cached[i] = <<start + i - 1, E[start + i - 1]>>
      BY ONLY <2>3, <2>5, <3>3, <3>5, Zenon
    <3>8. ScannedTo(z, E, start, n + 1)
      BY ONLY <3>6, <3>7, Zenon DEF ScannedTo
    <3> QED
      BY ONLY <1>1, <3>8, Zenon
  <2> QED
    BY ONLY <2>7, <2>8
<1> QED
  BY ONLY <1>2, <1>3

LEMMA ScanServes ==
    ASSUME NEW k, NEW E, Serves(caches[k], E), NEW start \in Nat, NEW end \in Nat, now \in Nat
    PROVE  Span(start, end) \in Nat /\ ScannedTo(Scan(k, start, end), E, start, Span(start, end))
<1>1. PICK g : Scans(k, start, end, g)
  BY ScanLoop
<1>2. Span(start, end) \in Nat
  BY DEF Span
<1>3. PICK N \in Nat : N = Span(start, end)
  BY <1>2
<1>4. /\ Scan(k, start, end) = g[N]
      /\ g[0] = [cache |-> caches[k], cached |-> <<>>, all_cached |-> TRUE]
      /\ \A n \in 1 .. N : g[n] = ScanStep(g[n - 1], start + n - 1)
  BY ONLY <1>1, <1>3 DEF Scans
<1> DEFINE Good == {n \in 0 .. N : ScannedTo(g[n], E, start, n)}
<1>5. 0 \in Good
  <2>1. PICK s, e, c : s = g[0] /\ e = <<>> /\ c = caches[k]
    OBVIOUS
  <2>2. s = [cache |-> c, cached |-> e, all_cached |-> TRUE]
    BY ONLY <1>4, <2>1, Zenon
  <2>3. s.cache = c /\ s.cached = e /\ s.all_cached = TRUE
    BY ONLY <2>2, Zenon
  <2>4. AList(e) /\ Len(e) = 0
    BY ONLY <2>1, EmptyList
  <2>5. s = [cache |-> s.cache, cached |-> s.cached, all_cached |-> s.all_cached]
    BY ONLY <2>2, <2>3, Zenon
  <2>6. Serves(s.cache, E) /\ AList(s.cached) /\ Len(s.cached) = 0
    BY ONLY <2>1, <2>3, <2>4, Serves(caches[k], E), Zenon
  <2>7. \A i \in 1 .. 0 : FALSE
    OBVIOUS
  <2>8. ScannedTo(s, E, start, 0)
    BY ONLY <2>5, <2>6, <2>7, Zenon DEF ScannedTo
  <2>9. 0 \in 0 .. N
    BY ONLY N \in Nat
  <2> QED
    BY ONLY <2>1, <2>8, <2>9, Zenon
<1>6. ASSUME NEW n \in 1 .. N, n - 1 \in Good PROVE n \in Good
  <2>1. PICK m \in Nat : m = n - 1 /\ n = m + 1 /\ start + n - 1 = start + m
    BY ONLY n \in 1 .. N, N \in Nat, start \in Nat
  <2>2. ScannedTo(g[m], E, start, m)
    BY ONLY <1>6, <2>1
  <2>3. g[n] = ScanStep(g[m], start + m)
    BY ONLY <1>4, <2>1, n \in 1 .. N
  <2>4. ScannedTo(ScanStep(g[m], start + m), E, start, m + 1)
    BY ONLY <2>2, m \in Nat, start \in Nat, now \in Nat, StepScans
  <2>5. ScannedTo(g[n], E, start, n)
    BY ONLY <2>1, <2>3, <2>4, Zenon
  <2> QED
    BY ONLY <2>5, n \in 1 .. N, N \in Nat
<1>7. \A n \in 1 .. N : n - 1 \in Good => n \in Good
  BY ONLY <1>6
<1> HIDE DEF Good
<1>8. N \in Good
  <2>1. N \in 0 .. N
    BY ONLY N \in Nat
  <2> QED
    BY ONLY <1>5, <1>7, <2>1, N \in Nat, IntervalInduction
<1>9. ScannedTo(g[N], E, start, N)
  BY ONLY <1>8 DEF Good
<1> QED
  BY ONLY <1>2, <1>3, <1>4, <1>9, Zenon
-----------------------------------------------------------------------------
(* What the log answers *)

SpanIds(start, end) == [n \in 1 .. Span(start, end) |-> start + n - 1]

LEMMA SpanList ==
    ASSUME NEW start \in Nat, NEW end \in Nat
    PROVE  /\ Span(start, end) \in Nat /\ SpanIds(start, end) \in Seq(Nat)
           /\ AList(SpanIds(start, end)) /\ Len(SpanIds(start, end)) = Span(start, end)
           /\ \A n \in 1 .. Span(start, end) : SpanIds(start, end)[n] = start + n - 1
<1>1. Span(start, end) \in Nat
  BY DEF Span
<1>2. PICK N \in Nat : N = Span(start, end)
  BY <1>1
<1>3. PICK s : s = [n \in 1 .. N |-> start + n - 1]
  OBVIOUS
<1>4. s \in Seq(Nat) /\ Len(s) = N /\ \A n \in 1 .. N : s[n] = start + n - 1
  BY ONLY <1>3, N \in Nat, start \in Nat
<1>5. AList(s)
  BY ONLY <1>4, SeqIsAList
<1>6. SpanIds(start, end) = s
  BY ONLY <1>2, <1>3 DEF SpanIds
<1> QED
  BY ONLY <1>1, <1>2, <1>4, <1>5, <1>6, Zenon

LiveAt(g, ids) == {n \in DOMAIN ids : ids[n] \in DOMAIN Log(g)}

LEMMA LiveIs ==
    ASSUME NEW g, NEW start, NEW end
    PROVE  Live(g, start, end) = Part(SpanIds(start, end), LiveAt(g, SpanIds(start, end)))
  BY DEF Live, SpanIds, LiveAt

\* Every id of the span that the log holds is live.
LEMMA LiveComplete ==
    ASSUME NEW g, NEW start \in Nat, NEW end \in Nat, NEW id \in Nat,
           start <= id, id <= end, id \in DOMAIN Log(g)
    PROVE  /\ AList(Live(g, start, end))
           /\ \E j \in 1 .. Len(Live(g, start, end)) : Live(g, start, end)[j] = id
<1>1. PICK s, N, chosen, p : /\ s = SpanIds(start, end) /\ N = Span(start, end)
                             /\ chosen = LiveAt(g, s) /\ p = Part(s, chosen)
  OBVIOUS
<1>2. /\ N \in Nat /\ s \in Seq(Nat) /\ AList(s) /\ Len(s) = N
      /\ \A n \in 1 .. N : s[n] = start + n - 1
  BY ONLY <1>1, start \in Nat, end \in Nat, SpanList
<1>3. PICK n : n = id - start + 1 /\ n \in 1 .. N /\ start + n - 1 = id
  <2>1. N = end - start + 1
    BY <1>1 DEF Span
  <2> QED
    BY ONLY <2>1, start \in Nat, end \in Nat, id \in Nat, start <= id, id <= end
<1>4. s[n] = id /\ n \in chosen
  <2>1. DOMAIN s = 1 .. N
    BY ONLY <1>2 DEF AList
  <2>2. s[n] = id
    BY ONLY <1>2, <1>3
  <2> QED
    BY ONLY <1>1, <1>3, <2>1, <2>2, id \in DOMAIN Log(g) DEF LiveAt
<1>5. PartOf(Nat, s, chosen, Len(s), p)
  BY ONLY <1>1, <1>2, PartSet, Zenon
<1>6. p \in Seq(Nat) /\ ToSet(p) = {s[i] : i \in chosen \cap 1 .. N}
  BY ONLY <1>2, <1>5 DEF PartOf
<1>7. id \in ToSet(p)
  BY ONLY <1>3, <1>4, <1>6
<1>8. AList(p)
  BY ONLY <1>6, SeqIsAList
<1>9. \E j \in 1 .. Len(p) : p[j] = id
  <2>1. DOMAIN p = 1 .. Len(p)
    BY ONLY <1>8 DEF AList
  <2> QED
    BY ONLY <1>7, <2>1 DEF ToSet
<1>10. Live(g, start, end) = p
  BY ONLY <1>1, LiveIs
<1> QED
  BY ONLY <1>8, <1>9, <1>10, Zenon

LEMMA LiveList ==
    ASSUME NEW g, NEW start \in Nat, NEW end \in Nat
    PROVE  AList(Live(g, start, end))
<1>1. PICK s, chosen, p : s = SpanIds(start, end) /\ chosen = LiveAt(g, s) /\ p = Part(s, chosen)
  OBVIOUS
<1>2. AList(s)
  BY ONLY <1>1, start \in Nat, end \in Nat, SpanList
<1>3. ChosenFrom(s, chosen, p)
  BY ONLY <1>1, <1>2, PartElements, Zenon
<1>4. Live(g, start, end) = p
  BY ONLY <1>1, LiveIs
<1> QED
  BY ONLY <1>3, <1>4 DEF ChosenFrom

\* Where the log holds every id of the span, it answers all of them in order.
LEMMA LogReadAll ==
    ASSUME NEW g, NEW start \in Nat, NEW end \in Nat,
           \A n \in 1 .. Span(start, end) : start + n - 1 \in DOMAIN Log(g),
           NEW a, AList(a), Len(a) = Span(start, end),
           \A n \in 1 .. Len(a) : a[n] = <<start + n - 1, Log(g)[start + n - 1]>>
    PROVE  LogRead(g, start, end) = a
<1>1. PICK s, N, chosen, p, E :
        /\ s = SpanIds(start, end) /\ N = Span(start, end) /\ E = Log(g)
        /\ chosen = LiveAt(g, s) /\ p = Part(s, chosen)
  OBVIOUS
<1>2. /\ N \in Nat /\ AList(s) /\ Len(s) = N /\ \A n \in 1 .. N : s[n] = start + n - 1
  BY ONLY <1>1, start \in Nat, end \in Nat, SpanList
<1>3. /\ \A n \in 1 .. N : start + n - 1 \in DOMAIN E
      /\ Len(a) = N /\ \A n \in 1 .. N : a[n] = <<start + n - 1, E[start + n - 1]>>
  BY <1>1
<1>4. \A n \in 1 .. N : n \in chosen
  <2>1. DOMAIN s = 1 .. N
    BY ONLY <1>2 DEF AList
  <2> QED
    BY ONLY <1>1, <1>2, <1>3, <2>1 DEF LiveAt
<1>5. AList(p) /\ Len(p) = N /\ \A i \in 1 .. N : p[i] = s[i]
  <2>1. N \in 0 .. Len(s) /\ \A n \in 1 .. Len(s) : n \in chosen <=> n <= N
    BY ONLY <1>2, <1>4
  <2> QED
    BY ONLY <1>1, <1>2, <2>1, PartFirst
<1>6. Live(g, start, end) = p
  BY ONLY <1>1, LiveIs
<1>7. DOMAIN p = 1 .. N
  BY ONLY <1>5 DEF AList
<1>8. LogRead(g, start, end) = [n \in 1 .. N |-> <<p[n], E[p[n]]>>]
  BY ONLY <1>1, <1>6, <1>7 DEF LogRead
<1>9. \A n \in 1 .. N : <<p[n], E[p[n]]>> = a[n]
  BY ONLY <1>2, <1>3, <1>5
<1>10. a = [n \in 1 .. N |-> a[n]]
  BY ONLY <1>3, AList(a) DEF AList
<1>11. [n \in 1 .. N |-> <<p[n], E[p[n]]>>] = [n \in 1 .. N |-> a[n]]
  BY ONLY <1>9
<1> QED
  BY ONLY <1>8, <1>10, <1>11, Zenon

\* A read that is answered from the cache.
LEMMA ReadFromCache ==
    ASSUME NEW g, Serves(caches[g], Log(g)), NEW id \in Nat
    PROVE  ReadAnswer(g, id) = LogRead(g, id, id)
<1>1. CASE Hit(caches[g], id, now)
  <2>1. PICK E, x, a : E = Log(g) /\ x = <<id, E[id]>> /\ a = <<x>>
    OBVIOUS
  <2>2. id \in DOMAIN E /\ Cached(caches[g], id) = E[id]
    BY ONLY <1>1, <2>1, Serves(caches[g], Log(g)), HitServes
  <2>3. ReadAnswer(g, id) = a
    BY ONLY <1>1, <2>1, <2>2 DEF ReadAnswer
  <2>4. a \in Seq({x}) /\ Len(a) = 1 /\ a[1] = x
    BY ONLY <2>1
  <2>5. AList(a)
    BY ONLY <2>4, SeqIsAList
  <2>6. Span(id, id) = 1
    BY ONLY id \in Nat DEF Span
  <2>7. \A n \in 1 .. 1 : n = 1 /\ id + n - 1 = id
    BY ONLY id \in Nat
  <2>8. \A n \in 1 .. Span(id, id) : id + n - 1 \in DOMAIN Log(g)
    BY ONLY <2>1, <2>2, <2>6, <2>7
  <2>9. \A n \in 1 .. Len(a) : a[n] = <<id + n - 1, Log(g)[id + n - 1]>>
    BY ONLY <2>1, <2>4, <2>7
  <2>10. LogRead(g, id, id) = a
    BY ONLY <2>4, <2>5, <2>6, <2>8, <2>9, id \in Nat, LogReadAll
  <2> QED
    BY ONLY <2>3, <2>10, Zenon
<1>2. CASE ~Hit(caches[g], id, now)
  BY ONLY <1>2 DEF ReadAnswer
<1> QED
  BY ONLY <1>1, <1>2

\* A range that is answered from the cache.
LEMMA RangeFromCache ==
    ASSUME NEW g, Serves(caches[g], Log(g)), NEW start \in Nat, NEW end \in Nat, now \in Nat
    PROVE  RangeAnswer(g, start, end) = LogRead(g, start, end)
<1>1. PICK s, N, E : s = Scan(g, start, end) /\ N = Span(start, end) /\ E = Log(g)
  OBVIOUS
<1>2. N \in Nat /\ ScannedTo(s, E, start, N)
  BY ONLY <1>1, Serves(caches[g], Log(g)), start \in Nat, end \in Nat, now \in Nat, ScanServes
<1>3. CASE s.all_cached
  <2>1. PICK a : a = s.cached
    OBVIOUS
  <2>2. /\ AList(a) /\ Len(a) = N
        /\ \A i \in 1 .. N : start + i - 1 \in DOMAIN E /\ a[i] = <<start + i - 1, E[start + i - 1]>>
    BY ONLY <1>2, <1>3, <2>1 DEF ScannedTo
  <2>3. \A n \in 1 .. Span(start, end) : start + n - 1 \in DOMAIN Log(g)
    BY ONLY <1>1, <2>2
  <2>4. /\ Len(a) = Span(start, end)
        /\ \A n \in 1 .. Len(a) : a[n] = <<start + n - 1, Log(g)[start + n - 1]>>
    BY ONLY <1>1, <2>2
  <2>5. LogRead(g, start, end) = a
    BY ONLY <2>2, <2>3, <2>4, start \in Nat, end \in Nat, LogReadAll
  <2>6. RangeAnswer(g, start, end) = a \/ RangeAnswer(g, start, end) = LogRead(g, start, end)
    BY ONLY <1>1, <2>1 DEF RangeAnswer, FromCache
  <2> QED
    BY ONLY <2>5, <2>6, Zenon
<1>4. CASE ~s.all_cached
  BY ONLY <1>1, <1>4 DEF RangeAnswer, FromCache
<1> QED
  BY ONLY <1>3, <1>4
-----------------------------------------------------------------------------
(* The writes to the log *)

IsStore(st) == st = [kv |-> st.kv, list |-> st.list, log |-> st.log]

\* What is stored of a batch is a sequence, and empty if the batch is.
LEMMA StorableIs ==
    ASSUME NEW T, NEW vals \in Seq(T)
    PROVE  AList(Storable(vals)) /\ (vals = <<>> => Storable(vals) = <<>>)
<1>1. PICK N \in Nat : N = Len(vals)
  OBVIOUS
<1>2. PICK I, bad : /\ I = {i \in 1 .. N : vals[i] \in Oversized}
                    /\ bad = SelectInSeq(vals, LAMBDA v : v \in Oversized)
  OBVIOUS
<1>3. bad = IF I # {} THEN Min(I) ELSE 0
  BY ONLY <1>1, <1>2 DEF SelectInSeq
<1>4. PICK s : s = Storable(vals)
  OBVIOUS
<1>5. s = IF bad = 0 THEN vals ELSE SubSeq(vals, 1, bad - 1)
  BY ONLY <1>2, <1>4 DEF Storable
<1>6. bad \in 0 .. N
  <2>1. CASE I = {}
    BY ONLY <1>3, <2>1, N \in Nat
  <2>2. CASE I # {}
    <3>1. I \in SUBSET Nat /\ \A i \in I : i \in 1 .. N
      BY ONLY <1>2, N \in Nat
    <3>2. \E m \in I : \A n \in I : m <= n
      BY ONLY <2>2, <3>1, LeastNatural
    <3>3. Min(I) \in I
      BY ONLY <3>2 DEF Min
    <3>4. bad = Min(I)
      BY ONLY <1>3, <2>2
    <3>5. bad \in 1 .. N
      BY ONLY <3>1, <3>3, <3>4
    <3> QED
      BY ONLY <3>5
  <2> QED
    BY ONLY <2>1, <2>2
<1>7. s \in Seq(T)
  BY ONLY <1>1, <1>5, <1>6, vals \in Seq(T)
<1>8. AList(s)
  BY ONLY <1>7, SeqIsAList
<1>9. vals = <<>> => s = vals
  <2>1. vals = <<>> => N = 0
    BY ONLY <1>1, EmptyList
  <2>2. N = 0 => bad = 0
    BY ONLY <1>6
  <2> QED
    BY ONLY <1>5, <2>1, <2>2
<1> QED
  BY ONLY <1>4, <1>8, <1>9

\* st with the log of g replaced by l.
Relogs(st, g, l, x) ==
    /\ IsStore(x) /\ DOMAIN x.log = DOMAIN st.log /\ x.log[g] = l
    /\ \A k \in DOMAIN st.log : k # g => x.log[k] = st.log[k]

LEMMA RelogIs ==
    ASSUME NEW st, IsStore(st), NEW g \in DOMAIN st.log, NEW l
    PROVE  Relogs(st, g, l, [st EXCEPT !.log[g] = l])
<1>1. PICK x, f : x = [st EXCEPT !.log[g] = l] /\ f = [st.log EXCEPT ![g] = l]
  OBVIOUS
<1>2. DOMAIN f = DOMAIN st.log /\ f[g] = l /\ \A k \in DOMAIN st.log : k # g => f[k] = st.log[k]
  BY ONLY <1>1, g \in DOMAIN st.log
<1>3. PICK a, b, c : st = [kv |-> a, list |-> b, log |-> c]
  BY ONLY IsStore(st) DEF IsStore
<1>4. x = [kv |-> a, list |-> b, log |-> f]
  BY ONLY <1>1, <1>3
<1>5. IsStore(x) /\ x.log = f
  BY ONLY <1>4 DEF IsStore
<1>6. Relogs(st, g, l, x)
  BY ONLY <1>2, <1>5 DEF Relogs
<1> QED
  BY ONLY <1>1, <1>6, Zenon

Grown(l, stored, n) ==
    /\ n.next = l.next + Len(stored) /\ n = [next |-> n.next, entries |-> n.entries]
    /\ DOMAIN n.entries = (l.next .. l.next + Len(stored) - 1) \cup DOMAIN l.entries
    /\ \A id \in DOMAIN n.entries :
          n.entries[id] = IF id \in l.next .. l.next + Len(stored) - 1
                          THEN stored[id - l.next + 1] ELSE l.entries[id]

\* add_range gives the stored entries the next ids.
LEMMA AddRangeGrows ==
    ASSUME NEW st, IsStore(st), NEW g \in DOMAIN st.log, NEW vals, NEW T, vals \in Seq(T),
           Storable(vals) # <<>>
    PROVE  \E n : /\ Grown(st.log[g], Storable(vals), n)
                  /\ Relogs(st, g, n, LogAddRange(st, [group |-> g, vals |-> vals]).store)
<1>1. PICK c, stored, l, ids : /\ c = [group |-> g, vals |-> vals] /\ stored = Storable(vals)
                               /\ l = st.log[g] /\ ids = l.next .. l.next + Len(stored) - 1
  OBVIOUS
<1>2. c.group = g /\ c.vals = vals
  BY ONLY <1>1
<1>3. vals # <<>> /\ stored # <<>>
  BY ONLY <1>1, vals \in Seq(T), Storable(vals) # <<>>, StorableIs
<1>4. PICK E : E = [id \in ids \cup DOMAIN l.entries |->
                      IF id \in ids THEN stored[id - l.next + 1] ELSE l.entries[id]]
  OBVIOUS
<1>5. PICK n : n = [next |-> l.next + Len(stored), entries |-> E]
  OBVIOUS
<1>6. n.next = l.next + Len(stored) /\ n.entries = E
  BY ONLY <1>5
<1>7. Grown(l, stored, n)
  BY ONLY <1>1, <1>4, <1>5, <1>6 DEF Grown
<1>8. PICK after : after = [st EXCEPT !.log[g] = n]
  OBVIOUS
<1>9. LogAddRange(st, c).store = after
  BY ONLY <1>1, <1>2, <1>3, <1>4, <1>5, <1>8, g \in DOMAIN st.log DEF LogAddRange, Ok, Err
<1>10. Relogs(st, g, n, after)
  BY ONLY <1>8, IsStore(st), g \in DOMAIN st.log, RelogIs, Zenon
<1> QED
  BY ONLY <1>1, <1>7, <1>9, <1>10, Zenon

LEMMA AddNothing ==
    ASSUME NEW st, NEW g \in DOMAIN st.log, NEW vals, Storable(vals) = <<>>
    PROVE  LogAddRange(st, [group |-> g, vals |-> vals]).store = st
<1>1. PICK c : c = [group |-> g, vals |-> vals]
  OBVIOUS
<1>2. c.group = g /\ c.vals = vals
  BY ONLY <1>1
<1>3. LogAddRange(st, c).store = st
  BY ONLY <1>2, g \in DOMAIN st.log, Storable(vals) = <<>> DEF LogAddRange, Ok, Err
<1> QED
  BY ONLY <1>1, <1>3, Zenon

Trimmed(l, up_to, n) ==
    /\ n.next = l.next /\ n = [next |-> n.next, entries |-> n.entries]
    /\ DOMAIN n.entries = {id \in DOMAIN l.entries : ~(id < up_to)}
    /\ \A id \in DOMAIN n.entries : n.entries[id] = l.entries[id]

LEMMA RemoveTrims ==
    ASSUME NEW st, IsStore(st), NEW g \in DOMAIN st.log, NEW up_to,
           st.log[g] = [next |-> st.log[g].next, entries |-> st.log[g].entries]
    PROVE  \E n : /\ Trimmed(st.log[g], up_to, n)
                  /\ Relogs(st, g, n, LogRemove(st, [group |-> g, up_to |-> up_to]).store)
<1>1. PICK c, l : c = [group |-> g, up_to |-> up_to] /\ l = st.log[g]
  OBVIOUS
<1>2. c.group = g /\ c.up_to = up_to
  BY ONLY <1>1
<1>3. PICK x, F : l = [next |-> x, entries |-> F]
  BY <1>1
<1>4. PICK E : E = Drop(F, {id \in DOMAIN F : id < up_to})
  OBVIOUS
<1>5. PICK n : n = [l EXCEPT !.entries = E]
  OBVIOUS
<1>6. n = [next |-> x, entries |-> E]
  BY ONLY <1>3, <1>5
<1>7. n.next = x /\ n.entries = E /\ l.next = x /\ l.entries = F
  BY ONLY <1>3, <1>6
<1>8. DOMAIN E = {id \in DOMAIN F : ~(id < up_to)} /\ \A id \in DOMAIN E : E[id] = F[id]
  BY ONLY <1>4 DEF Drop
<1>9. Trimmed(l, up_to, n)
  BY ONLY <1>6, <1>7, <1>8 DEF Trimmed
<1>10. PICK after : after = [st EXCEPT !.log[g] = n]
  OBVIOUS
<1>11. after = [st EXCEPT !.log[g].entries = Drop(@, {id \in DOMAIN @ : id < up_to})]
  <2>1. n = [st.log[g] EXCEPT !.entries = Drop(@, {id \in DOMAIN @ : id < up_to})]
    BY ONLY <1>1, <1>4, <1>5, <1>7
  <2> QED
    BY ONLY <1>10, <2>1
<1>12. LogRemove(st, c).store = after
  BY ONLY <1>2, <1>11, g \in DOMAIN st.log DEF LogRemove, Ok
<1>13. Relogs(st, g, n, after)
  BY ONLY <1>10, IsStore(st), g \in DOMAIN st.log, RelogIs, Zenon
<1> QED
  BY ONLY <1>1, <1>9, <1>12, <1>13, Zenon
-----------------------------------------------------------------------------
(* The invariant *)

LogOK(l) ==
    /\ l = [next |-> l.next, entries |-> l.entries]
    /\ l.next \in 1 .. MaxId + 1 /\ DOMAIN l.entries \subseteq 1 .. l.next - 1

GroupOK(l, c) == LogOK(l) /\ Serves(c, l.entries)

IInv ==
    /\ now \in 0 .. MaxTime /\ IsStore(store)
    /\ DOMAIN caches = Known /\ Known \subseteq Names
    /\ \A g \in Known : GroupOK(store.log[g], caches[g])

LEMMA Starts == Init => IInv
<1> SUFFICES ASSUME Init PROVE IInv
  OBVIOUS
<1>1. IsStore(store) /\ DOMAIN store.log = {}
  BY DEF Init, EmptyStore, EmptyMap, IsStore
<1>2. now \in 0 .. MaxTime
  BY GroupsAssumption DEF Init
<1>3. DOMAIN caches = {}
  BY DEF Init
<1> QED
  BY ONLY <1>1, <1>2, <1>3 DEF IInv, Known

\* A step that touches one group.
LEMMA OneGroup ==
    ASSUME IInv, NEW g \in Known, now' = now, IsStore(store'),
           DOMAIN store'.log = DOMAIN store.log, DOMAIN caches' = DOMAIN caches,
           \A k \in Known : k # g => store'.log[k] = store.log[k] /\ caches'[k] = caches[k],
           GroupOK(store'.log[g], caches'[g])
    PROVE  IInv'
<1>1. Known' = Known
  BY DEF Known
<1>2. /\ now' \in 0 .. MaxTime /\ DOMAIN caches' = Known' /\ Known' \subseteq Names
  BY <1>1 DEF IInv
<1>3. \A k \in Known' : GroupOK(store'.log[k], caches'[k])
  BY <1>1 DEF IInv
<1> QED
  BY ONLY <1>2, <1>3, IsStore(store') DEF IInv


LEMMA CreateSteps == ASSUME IInv, NEW g \in Names, create_group(g) PROVE IInv'
<1>1. PICK x, l, c : /\ c = [group |-> g] /\ l = [next |-> 1, entries |-> EmptyMap]
                     /\ x = Put(store.log, g, l)
  OBVIOUS
<1>2. g \notin DOMAIN store.log /\ now' = now /\ caches' = Put(caches, g, EmptyLru)
  BY DEF create_group, Known
<1>3. c.group = g
  BY ONLY <1>1
<1>4. LogCreateGroup(store, c).store = [store EXCEPT !.log = x]
  BY ONLY <1>1, <1>2, <1>3 DEF LogCreateGroup, Ok
<1>5. store' = [store EXCEPT !.log = x]
  BY <1>1, <1>4 DEF create_group
<1>6. IsStore(store') /\ store'.log = x
  <2>1. PICK a, b, d : store = [kv |-> a, list |-> b, log |-> d]
    BY DEF IInv, IsStore
  <2>2. store' = [kv |-> a, list |-> b, log |-> x]
    BY ONLY <1>5, <2>1
  <2> QED
    BY ONLY <2>2 DEF IsStore
<1>7. DOMAIN x = DOMAIN store.log \cup {g} /\ x[g] = l /\ \A k \in DOMAIN store.log : x[k] = store.log[k]
  BY ONLY <1>1, <1>2 DEF Put
<1>8. DOMAIN caches = DOMAIN store.log
  BY DEF IInv, Known
<1>9. /\ DOMAIN caches' = DOMAIN store.log \cup {g} /\ caches'[g] = EmptyLru
      /\ \A k \in DOMAIN store.log : caches'[k] = caches[k]
  BY ONLY <1>2, <1>8 DEF Put
<1>10. GroupOK(l, EmptyLru)
  <2>1. l.next = 1 /\ l.entries = EmptyMap
    BY ONLY <1>1
  <2>2. DOMAIN EmptyMap = {}
    BY ONLY DEF EmptyMap
  <2>3. 1 \in 1 .. MaxId + 1
    BY ONLY GroupsAssumption
  <2>4. LogOK(l)
    BY ONLY <1>1, <2>1, <2>2, <2>3 DEF LogOK
  <2>5. Backed(<<>>, l.entries)
    <3>1. Len(<<>>) = 0
      BY ONLY EmptyList
    <3> QED
      BY ONLY <3>1 DEF Backed
  <2>6. Serves(EmptyLru, l.entries)
    BY ONLY <2>5, EmptyStands DEF Serves
  <2> QED
    BY ONLY <2>4, <2>6 DEF GroupOK
<1>11. Known' = DOMAIN store.log \cup {g}
  BY <1>6, <1>7 DEF Known
<1>12. /\ now' \in 0 .. MaxTime /\ DOMAIN caches' = Known' /\ Known' \subseteq Names
  BY <1>2, <1>9, <1>11 DEF IInv, Known
<1>13. \A k \in Known' : GroupOK(store'.log[k], caches'[k])
  <2>1. \A k \in DOMAIN store.log : GroupOK(store.log[k], caches[k])
    BY DEF IInv, Known
  <2> QED
    BY ONLY <1>6, <1>7, <1>9, <1>10, <1>11, <2>1
<1> QED
  BY ONLY <1>6, <1>12, <1>13 DEF IInv

LEMMA DropSteps == ASSUME IInv, NEW g \in Names, drop_group(g) PROVE IInv'
<1>1. PICK x, c : c = [group |-> g] /\ x = Drop(store.log, {g})
  OBVIOUS
<1>2. g \in DOMAIN store.log /\ now' = now /\ caches' = Drop(caches, {g})
  BY DEF drop_group, Known
<1>3. c.group = g
  BY ONLY <1>1
<1>4. LogDropGroup(store, c).store = [store EXCEPT !.log = x]
  BY ONLY <1>1, <1>2, <1>3 DEF LogDropGroup, Ok
<1>5. store' = [store EXCEPT !.log = x]
  BY <1>1, <1>4 DEF drop_group
<1>6. IsStore(store') /\ store'.log = x
  <2>1. PICK a, b, d : store = [kv |-> a, list |-> b, log |-> d]
    BY DEF IInv, IsStore
  <2>2. store' = [kv |-> a, list |-> b, log |-> x]
    BY ONLY <1>5, <2>1
  <2> QED
    BY ONLY <2>2 DEF IsStore
<1>7. DOMAIN x = DOMAIN store.log \ {g} /\ \A k \in DOMAIN x : x[k] = store.log[k]
  BY ONLY <1>1 DEF Drop
<1>8. DOMAIN caches = DOMAIN store.log
  BY DEF IInv, Known
<1>9. DOMAIN caches' = DOMAIN store.log \ {g} /\ \A k \in DOMAIN caches' : caches'[k] = caches[k]
  BY ONLY <1>2, <1>8 DEF Drop
<1>10. Known' = DOMAIN store.log \ {g}
  BY <1>6, <1>7 DEF Known
<1>11. /\ now' \in 0 .. MaxTime /\ DOMAIN caches' = Known' /\ Known' \subseteq Names
  BY <1>2, <1>9, <1>10 DEF IInv, Known
<1>12. \A k \in Known' : GroupOK(store'.log[k], caches'[k])
  <2>1. \A k \in DOMAIN store.log : GroupOK(store.log[k], caches[k])
    BY DEF IInv, Known
  <2> QED
    BY ONLY <1>6, <1>7, <1>9, <1>10, <2>1
<1> QED
  BY ONLY <1>6, <1>11, <1>12 DEF IInv

\* A step that leaves the logs alone and writes the cache of one group.
LEMMA ReadSteps ==
    ASSUME IInv, NEW g \in Known, NEW c, Serves(c, Log(g)),
           caches' = [caches EXCEPT ![g] = c], store' = store, now' = now
    PROVE  IInv'
<1>1. g \in DOMAIN caches /\ DOMAIN caches = Known
  BY DEF IInv
<1>2. /\ DOMAIN caches' = DOMAIN caches /\ caches'[g] = c
      /\ \A k \in Known : k # g => caches'[k] = caches[k]
  BY <1>1
<1>3. IsStore(store') /\ GroupOK(store.log[g], caches[g])
  BY DEF IInv
<1>4. GroupOK(store'.log[g], caches'[g])
  BY <1>2, <1>3 DEF GroupOK, Log
<1>5. /\ DOMAIN store'.log = DOMAIN store.log
      /\ \A k \in Known : k # g => store'.log[k] = store.log[k] /\ caches'[k] = caches[k]
  BY <1>2
<1> QED
  BY ONLY IInv, g \in Known, now' = now, <1>2, <1>3, <1>4, <1>5, OneGroup

\* A step that writes the log of one group, and its cache.
LEMMA WriteSteps ==
    ASSUME IInv, NEW g \in Known, NEW l, NEW c, GroupOK(l, c), Relogs(store, g, l, store'),
           caches' = [caches EXCEPT ![g] = c], now' = now
    PROVE  IInv'
<1>1. g \in DOMAIN caches /\ DOMAIN caches = Known
  BY DEF IInv
<1>2. /\ DOMAIN caches' = DOMAIN caches /\ caches'[g] = c
      /\ \A k \in Known : k # g => caches'[k] = caches[k]
  BY <1>1
<1>3. /\ IsStore(store') /\ DOMAIN store'.log = DOMAIN store.log /\ store'.log[g] = l
      /\ \A k \in Known : k # g => store'.log[k] = store.log[k]
  BY DEF Relogs, Known
<1>4. GroupOK(store'.log[g], caches'[g])
  BY ONLY <1>2, <1>3, GroupOK(l, c)
<1>5. \A k \in Known : k # g => store'.log[k] = store.log[k] /\ caches'[k] = caches[k]
  BY ONLY <1>2, <1>3
<1> QED
  BY ONLY IInv, g \in Known, now' = now, <1>2, <1>3, <1>4, <1>5, OneGroup

\* The new entries have ids above all that were given out, so what the cache
\* held is still in the log, and what it is filled with is too.
LEMMA GrownOK ==
    ASSUME NEW l, NEW c, GroupOK(l, c), NEW stored, AList(stored), NEW n, Grown(l, stored, n),
           l.next + Len(stored) - 1 <= MaxId, now \in Nat
    PROVE  GroupOK(n, CachePutAll(c, l.next, stored))
<1>1. PICK E, F, x, K : E = l.entries /\ F = n.entries /\ x = l.next /\ K = Len(stored)
  OBVIOUS
<1>2. /\ x \in 1 .. MaxId + 1 /\ DOMAIN E \subseteq 1 .. x - 1 /\ MaxId \in Nat /\ K \in Nat
      /\ x + K - 1 <= MaxId
  BY <1>1, GroupsAssumption DEF GroupOK, LogOK, AList
<1>3. /\ n = [next |-> n.next, entries |-> n.entries] /\ n.next = x + K
      /\ DOMAIN F = (x .. x + K - 1) \cup DOMAIN E
      /\ \A id \in DOMAIN F : F[id] = IF id \in x .. x + K - 1 THEN stored[id - x + 1] ELSE E[id]
  BY ONLY <1>1, Grown(l, stored, n) DEF Grown
<1>4. \A id \in DOMAIN E : id \in 1 .. x - 1
  BY ONLY <1>2
<1>5. \A id \in 1 .. x - 1 : id \notin x .. x + K - 1
  BY ONLY <1>2
<1>6. \A id \in DOMAIN E : id \in DOMAIN F /\ F[id] = E[id]
  BY ONLY <1>3, <1>4, <1>5
<1>7. LogOK(n)
  <2>1. x + K \in 1 .. MaxId + 1
    BY ONLY <1>2
  <2>2. \A id \in 1 .. x - 1 : id \in 1 .. x + K - 1
    BY ONLY <1>2
  <2>3. \A id \in x .. x + K - 1 : id \in 1 .. x + K - 1
    BY ONLY <1>2
  <2>4. \A id \in DOMAIN F : id \in 1 .. x + K - 1
    BY ONLY <1>3, <1>4, <2>2, <2>3
  <2> QED
    <3>1. n.next \in 1 .. MaxId + 1
      BY ONLY <1>3, <2>1
    <3>2. DOMAIN n.entries \subseteq 1 .. n.next - 1
      <4>1. n.entries = F /\ n.next - 1 = x + K - 1
        BY ONLY <1>1, <1>2, <1>3
      <4>2. DOMAIN F \subseteq 1 .. x + K - 1
        BY ONLY <2>4
      <4> QED
        BY ONLY <4>1, <4>2, Zenon
    <3> QED
      BY ONLY <1>3, <3>1, <3>2 DEF LogOK
<1>8. Serves(c, F)
  <2>1. PICK q, r : Stands(c, q, r) /\ Backed(r, E)
    BY <1>1 DEF GroupOK, Serves
  <2>2. Backed(r, F)
    BY ONLY <1>6, <2>1 DEF Backed
  <2> QED
    BY ONLY <2>1, <2>2 DEF Serves
<1>9. ASSUME NEW i \in 1 .. Len(stored) PROVE x + i - 1 \in DOMAIN F /\ F[x + i - 1] = stored[i]
  <2>1. PICK id : id = x + i - 1 /\ id \in x .. x + K - 1 /\ id - x + 1 = i
    BY ONLY <1>1, <1>2, i \in 1 .. Len(stored)
  <2> QED
    BY ONLY <1>3, <2>1
<1>10. Serves(CachePutAll(c, x, stored), F)
  BY ONLY <1>8, <1>9, AList(stored), now \in Nat, FillServes
<1> QED
  BY ONLY <1>1, <1>7, <1>10 DEF GroupOK

LEMMA AddSteps == ASSUME IInv, NEW g \in Names, NEW vals \in Batches, add_range(g, vals) PROVE IInv'
<1>1. PICK stored, l, c : stored = Storable(vals) /\ l = store.log[g] /\ c = caches[g]
  OBVIOUS
<1>2. /\ g \in Known /\ l.next + Len(stored) - 1 <= MaxId /\ now' = now
      /\ store' = LogAddRange(store, [group |-> g, vals |-> vals]).store
      /\ caches' = [caches EXCEPT ![g] = CachePutAll(@, l.next, stored)]
  BY <1>1 DEF add_range
<1>3. PICK T : vals \in Seq(T)
  BY GroupsAssumption
<1>4. AList(stored)
  BY ONLY <1>1, <1>3, StorableIs
<1>5. IsStore(store) /\ g \in DOMAIN store.log /\ GroupOK(l, c) /\ now \in Nat
  BY <1>1, <1>2, GroupsAssumption DEF IInv, Known
<1>6. PICK d : d = CachePutAll(c, l.next, stored)
  OBVIOUS
<1>7. caches' = [caches EXCEPT ![g] = d]
  BY ONLY <1>1, <1>2, <1>6
<1>8. CASE stored # <<>>
  <2>1. PICK n : Grown(l, stored, n) /\ Relogs(store, g, n, store')
    BY ONLY <1>1, <1>2, <1>3, <1>5, <1>8, AddRangeGrows
  <2>2. GroupOK(n, d)
    BY ONLY <1>2, <1>4, <1>5, <1>6, <2>1, GrownOK
  <2> QED
    BY ONLY IInv, <1>2, <1>7, <2>1, <2>2, WriteSteps
<1>9. CASE stored = <<>>
  <2>1. store' = store
    BY ONLY <1>1, <1>2, <1>5, <1>9, AddNothing
  <2>2. PICK h : Fills(c, l.next, stored, h)
    BY ONLY <1>4, CachePutLoop
  <2>3. Len(stored) = 0
    BY ONLY <1>9, EmptyList
  <2>4. d = c
    BY ONLY <1>6, <2>2, <2>3 DEF Fills
  <2>5. Serves(d, Log(g))
    BY ONLY <1>1, <1>5, <2>4 DEF GroupOK, Log
  <2> QED
    BY ONLY IInv, <1>2, <1>7, <2>1, <2>5, ReadSteps
<1> QED
  BY ONLY <1>8, <1>9

LEMMA RemoveSteps ==
    ASSUME IInv, NEW g \in Names, NEW up_to \in 1 .. MaxId + 1, remove_entries(g, up_to)
    PROVE  IInv'
<1>1. PICK l, c, ids, d, end : /\ l = store.log[g] /\ c = caches[g] /\ end = up_to - 1
                               /\ ids = Live(g, 0, end) /\ d = InvalidateAll(c, ids)
  OBVIOUS
<1>2. /\ g \in Known /\ now' = now
      /\ store' = LogRemove(store, [group |-> g, up_to |-> up_to]).store
      /\ caches' = [caches EXCEPT ![g] = d]
  BY <1>1 DEF remove_entries
<1>3. IsStore(store) /\ g \in DOMAIN store.log /\ LogOK(l) /\ Serves(c, l.entries)
  BY <1>1, <1>2 DEF IInv, Known, GroupOK
<1>4. l = [next |-> l.next, entries |-> l.entries]
  BY ONLY <1>3 DEF LogOK
<1>5. PICK n : Trimmed(l, up_to, n) /\ Relogs(store, g, n, store')
  BY ONLY <1>1, <1>2, <1>3, <1>4, RemoveTrims
<1>6. PICK E, F, x : E = l.entries /\ F = n.entries /\ x = l.next
  OBVIOUS
<1>7. /\ n.next = x /\ n = [next |-> n.next, entries |-> n.entries]
      /\ DOMAIN F = {id \in DOMAIN E : ~(id < up_to)} /\ \A id \in DOMAIN F : F[id] = E[id]
  BY ONLY <1>5, <1>6 DEF Trimmed
<1>8. x \in 1 .. MaxId + 1 /\ DOMAIN E \subseteq 1 .. x - 1
  BY ONLY <1>3, <1>6 DEF LogOK
<1>9. LogOK(n)
  BY ONLY <1>6, <1>7, <1>8 DEF LogOK
<1>10. end \in Nat /\ 0 \in Nat /\ MaxId \in Nat
  BY <1>1, GroupsAssumption
<1>11. AList(ids)
  BY ONLY <1>1, <1>10, LiveList
<1>12. Gone(d, E, ids, Len(ids))
  BY ONLY <1>1, <1>3, <1>6, <1>11, InvalidateServes
<1>13. PICK q, r : /\ Stands(d, q, r) /\ Backed(r, E)
                   /\ \A i \in 1 .. Len(r), j \in 1 .. Len(ids) : r[i].key # ids[j]
  BY ONLY <1>12 DEF Gone
<1>14. ASSUME NEW i \in 1 .. Len(r) PROVE r[i].key \in DOMAIN F /\ r[i].val = F[r[i].key]
  <2>1. PICK id : id = r[i].key /\ id \in DOMAIN E /\ r[i].val = E[id]
    BY ONLY <1>13, i \in 1 .. Len(r) DEF Backed
  <2>2. ASSUME id < up_to PROVE FALSE
    <3>1. id \in Nat /\ 0 <= id /\ id <= end
      BY ONLY <1>1, <1>8, <1>10, <2>1, <2>2, up_to \in 1 .. MaxId + 1
    <3>2. id \in DOMAIN Log(g)
      BY ONLY <1>1, <1>6, <2>1 DEF Log
    <3>3. \E j \in 1 .. Len(ids) : ids[j] = id
      BY ONLY <1>1, <1>10, <3>1, <3>2, LiveComplete
    <3> QED
      BY ONLY <1>13, <2>1, <3>3, i \in 1 .. Len(r)
  <2> QED
    BY ONLY <1>7, <2>1, <2>2
<1>15. Backed(r, F)
  BY ONLY <1>14 DEF Backed
<1>16. GroupOK(n, d)
  BY ONLY <1>6, <1>9, <1>13, <1>15 DEF GroupOK, Serves
<1> QED
  BY ONLY IInv, <1>2, <1>5, <1>16, WriteSteps

LEMMA ReadRangeSteps ==
    ASSUME IInv, NEW g \in Names, NEW start \in Ids, NEW end \in Ids, read_range(g, start, end)
    PROVE  IInv'
<1>1. PICK d, s : s = Scan(g, start, end) /\ d = s.cache
  OBVIOUS
<1>2. g \in Known /\ now' = now /\ store' = store /\ caches' = [caches EXCEPT ![g] = d]
  BY <1>1 DEF read_range
<1>3. Serves(caches[g], Log(g)) /\ now \in Nat
  BY <1>2, GroupsAssumption DEF IInv, GroupOK, Log
<1>4. start \in Nat /\ end \in Nat
  BY DEF Ids
<1>5. ScannedTo(s, Log(g), start, Span(start, end))
  BY ONLY <1>1, <1>3, <1>4, ScanServes
<1>6. Serves(d, Log(g))
  BY ONLY <1>1, <1>5 DEF ScannedTo
<1> QED
  BY ONLY IInv, <1>2, <1>6, ReadSteps

LEMMA ReadOneSteps == ASSUME IInv, NEW g \in Names, NEW id \in Ids, read(g, id) PROVE IInv'
<1>1. PICK d, c : c = caches[g] /\ d = get(c, id, now)
  OBVIOUS
<1>2. g \in Known /\ now' = now /\ store' = store /\ caches' = [caches EXCEPT ![g] = d]
  BY <1>1 DEF read
<1>3. Serves(c, Log(g)) /\ now \in Nat
  BY <1>1, <1>2, GroupsAssumption DEF IInv, GroupOK, Log
<1>4. Serves(d, Log(g))
  BY ONLY <1>1, <1>3, GetServes
<1> QED
  BY ONLY IInv, <1>2, <1>4, ReadSteps

LEMMA Steps == IInv /\ [Next]_vars => IInv'
<1> SUFFICES ASSUME IInv, [Next]_vars PROVE IInv'
  OBVIOUS
<1>1. ASSUME NEW g \in Names, create_group(g) \/ drop_group(g) PROVE IInv'
  BY <1>1, CreateSteps, DropSteps
<1>2. ASSUME NEW g \in Names, NEW vals \in Batches, add_range(g, vals) PROVE IInv'
  BY <1>2, AddSteps
<1>3. ASSUME NEW g \in Names, NEW up_to \in 1 .. MaxId + 1, remove_entries(g, up_to) PROVE IInv'
  BY <1>3, RemoveSteps
<1>4. ASSUME NEW g \in Names, NEW id \in Ids, read(g, id) PROVE IInv'
  BY <1>4, ReadOneSteps
<1>5. ASSUME NEW g \in Names, NEW start \in Ids, NEW end \in Ids, read_range(g, start, end)
      PROVE  IInv'
  BY <1>5, ReadRangeSteps
<1>6. CASE Tick
  <2>1. store' = store /\ caches' = caches /\ now' \in 0 .. MaxTime
    BY <1>6, GroupsAssumption DEF Tick, IInv
  <2> QED
    BY <2>1 DEF IInv, Known
<1>7. CASE UNCHANGED vars
  <2>1. store' = store /\ caches' = caches /\ now' = now
    BY <1>7 DEF vars
  <2> QED
    BY <2>1 DEF IInv, Known
<1> QED
  BY <1>1, <1>2, <1>3, <1>4, <1>5, <1>6, <1>7 DEF Next

LEMMA Invariant == Spec => []IInv
  BY Starts, Steps, PTL DEF Spec
-----------------------------------------------------------------------------
LEMMA InvTypes == IInv => TypeOK
<1> SUFFICES ASSUME IInv PROVE TypeOK
  OBVIOUS
<1>1. now \in 0 .. MaxTime /\ DOMAIN caches = Known /\ Known \subseteq Names
  BY DEF IInv
<1>2. ASSUME NEW g \in Known
      PROVE  /\ store.log[g].next \in 1 .. MaxId + 1
             /\ DOMAIN Log(g) \subseteq 1 .. store.log[g].next - 1
             /\ Keys(caches[g]) \subseteq 1 .. store.log[g].next - 1
  <2>1. LogOK(store.log[g]) /\ Serves(caches[g], Log(g))
    BY DEF IInv, GroupOK, Log
  <2>2. /\ store.log[g].next \in 1 .. MaxId + 1
        /\ DOMAIN Log(g) \subseteq 1 .. store.log[g].next - 1
    BY ONLY <2>1 DEF LogOK, Log
  <2>3. PICK q, r : Stands(caches[g], q, r) /\ Backed(r, Log(g))
    BY ONLY <2>1 DEF Serves
  <2>4. \A k \in Keys(caches[g]) : \E n \in 1 .. Len(r) : r[n].key = k
    BY ONLY <2>3, KeysOnce
  <2>5. Keys(caches[g]) \subseteq DOMAIN Log(g)
    BY ONLY <2>3, <2>4 DEF Backed
  <2> QED
    BY ONLY <2>2, <2>5
<1> QED
  BY ONLY <1>1, <1>2 DEF TypeOK

\* The ids of every log and the keys of every cache are ids that were given
\* out, and a group has a cache exactly while it has a log.
THEOREM Types == Spec => []TypeOK
  BY Invariant, InvTypes, PTL

LEMMA InvLinked == IInv => CachesAreLinked
<1> SUFFICES ASSUME IInv, NEW g \in Known PROVE WellLinked(caches[g])
  BY DEF CachesAreLinked
<1>1. PICK q, r : Stands(caches[g], q, r)
  BY DEF IInv, GroupOK, Serves
<1> QED
  BY ONLY <1>1, StandsWellLinked

\* The links, the map and the free slots of every cache agree: detach,
\* attach_front, alloc_slot and the evictions never lose or share a slot.
THEOREM LinksHold == Spec => []CachesAreLinked
  BY Invariant, InvLinked, PTL

LEMMA InvQueue == IInv => SlotsBehaveAsQueue
<1> SUFFICES ASSUME IInv, NEW g \in Known, NEW id \in 1 .. MaxId, NEW c, c = caches[g]
             PROVE  /\ Recency(insert(c, id, id, now)) = QueueInsert(Recency(c), id, id, now)
                    /\ Recency(get(c, id, now)) = QueueGet(Recency(c), id, now)
                    /\ Recency(remove(c, id)) = Without(Recency(c), id)
  BY DEF SlotsBehaveAsQueue
<1>1. PICK q, r : Stands(c, q, r)
  BY DEF IInv, GroupOK, Serves
<1>2. now \in Nat
  BY GroupsAssumption DEF IInv
<1>3. Recency(c) = r
  BY ONLY <1>1, RecencyIs
<1>4. Recency(insert(c, id, id, now)) = QueueInsert(r, id, id, now)
  <2>1. PICK u : Stands(insert(c, id, id, now), u, QueueInsert(r, id, id, now))
    BY ONLY <1>1, <1>2, InsertQueue
  <2> QED
    BY ONLY <2>1, RecencyIs
<1>5. Recency(get(c, id, now)) = QueueGet(r, id, now)
  <2>1. PICK u : Stands(get(c, id, now), u, QueueGet(r, id, now))
    BY ONLY <1>1, <1>2, GetQueue
  <2> QED
    BY ONLY <2>1, RecencyIs
<1>6. Recency(remove(c, id)) = Without(r, id)
  <2>1. PICK u : Stands(remove(c, id), u, Without(r, id))
    BY ONLY <1>1, RemoveQueue
  <2> QED
    BY ONLY <2>1, RecencyIs
<1> QED
  BY ONLY <1>3, <1>4, <1>5, <1>6, Zenon

\* Every operation of lru.rs does to the linked slots what it means for the
\* queue of entries: the slots are a correct implementation of that queue.
THEOREM LruIsAQueue == Spec => []SlotsBehaveAsQueue
  BY Invariant, InvQueue, PTL

\* A reversed range scans nothing, and only start = end + 1 has the length 0.
LEMMA ReversedRange ==
    ASSUME NEW g, NEW start \in Ids, NEW end \in Ids, end < start
    PROVE  /\ FromCache(g, start, end) <=> start = end + 1
           /\ FromCache(g, start, end) => RangeAnswer(g, start, end) = <<>>
<1>1. PICK W \in Nat : W = 2 ^ Width /\ W # 0
  BY GroupsAssumption
<1>2. start \in 0 .. W - 1 /\ end \in 0 .. W - 1
  BY <1>1 DEF Ids
<1>3. start \in Nat /\ end \in Nat
  BY ONLY <1>2, W \in Nat
<1>4. Span(start, end) = 0
  BY <1>3 DEF Span
<1>5. PICK f : Scans(g, start, end, f)
  BY <1>3, ScanLoop
<1>6. Scan(g, start, end) = f[0] /\ f[0] = [cache |-> caches[g], cached |-> <<>>, all_cached |-> TRUE]
  BY ONLY <1>4, <1>5 DEF Scans
<1>7. PICK s : s = Scan(g, start, end)
  OBVIOUS
<1>8. s.cached = <<>> /\ s.all_cached = TRUE
  BY ONLY <1>6, <1>7
<1>9. Len(s.cached) = 0 /\ s.all_cached
  BY <1>8
<1>10. RangeLen(start, end) = 0 <=> start = end + 1
  <2>1. RangeLen(start, end) = (end - start + 1) % W
    BY <1>1 DEF RangeLen
  <2>2. end - start + 1 \in -(W - 2) .. 0
    BY ONLY <1>2, W \in Nat, end < start
  <2>3. CASE start = end + 1
    <3>1. end - start + 1 = 0 /\ 0 % W = 0
      BY ONLY <1>1, <1>3, <2>3
    <3> QED
      BY ONLY <2>1, <2>3, <3>1
  <2>4. CASE start # end + 1
    <3>1. PICK x \in Int : x = end - start + 1 /\ x < 0 /\ x + W > 0 /\ x + W < W
      BY ONLY <1>2, <1>3, <2>4, W \in Nat, end < start
    <3>2. x % W = x + W
      BY ONLY <1>1, <3>1
    <3> QED
      BY ONLY <2>1, <2>4, <3>1, <3>2
  <2> QED
    BY <2>3, <2>4
<1>11. FromCache(g, start, end) <=> RangeLen(start, end) = 0
  BY ONLY <1>7, <1>9 DEF FromCache
<1>12. FromCache(g, start, end) => RangeAnswer(g, start, end) = <<>>
  BY ONLY <1>7, <1>8 DEF RangeAnswer
<1> QED
  BY ONLY <1>10, <1>11, <1>12

LEMMA InvTransparent == IInv => ReadsAreTransparent
<1> SUFFICES ASSUME IInv, NEW g \in Known
             PROVE  /\ \A id \in Ids : ReadAnswer(g, id) = LogRead(g, id, id)
                    /\ \A start, end \in Ids :
                        /\ RangePanics(g, start, end) <=>
                              \/ RangeLen(start, end) > MaxCapacity
                              \/ end < start /\ start # end + 1
                        /\ ~RangePanics(g, start, end) =>
                              RangeAnswer(g, start, end) =
                                  IF end < start THEN <<>> ELSE LogRead(g, start, end)
  BY DEF ReadsAreTransparent
<1>1. Serves(caches[g], Log(g)) /\ now \in Nat
  BY GroupsAssumption DEF IInv, GroupOK, Log
<1>2. \A id \in Ids : id \in Nat
  BY DEF Ids
<1>3. ASSUME NEW id \in Ids PROVE ReadAnswer(g, id) = LogRead(g, id, id)
  BY ONLY <1>1, <1>2, id \in Ids, ReadFromCache
<1>4. ASSUME NEW start \in Ids, NEW end \in Ids
      PROVE  /\ RangePanics(g, start, end) <=>
                   \/ RangeLen(start, end) > MaxCapacity
                   \/ end < start /\ start # end + 1
             /\ ~RangePanics(g, start, end) =>
                   RangeAnswer(g, start, end) = IF end < start THEN <<>> ELSE LogRead(g, start, end)
  <2>1. CASE end < start
    <3>1. /\ FromCache(g, start, end) <=> start = end + 1
          /\ FromCache(g, start, end) => RangeAnswer(g, start, end) = <<>>
      BY ONLY <2>1, start \in Ids, end \in Ids, ReversedRange
    <3> QED
      BY ONLY <2>1, <3>1 DEF RangePanics, LogRangePanics
  <2>2. CASE ~(end < start)
    <3>1. RangeAnswer(g, start, end) = LogRead(g, start, end)
      BY ONLY <1>1, <1>2, start \in Ids, end \in Ids, RangeFromCache
    <3> QED
      BY ONLY <2>2, <3>1 DEF RangePanics, LogRangePanics
  <2> QED
    BY ONLY <2>1, <2>2
<1> QED
  BY ONLY <1>3, <1>4

\* Reads and range reads answer what the log holds, however the cache was
\* filled, trimmed, evicted from and scanned before, and which ranges panic
\* depends on the range alone.
THEOREM CacheIsTransparent == Spec => []ReadsAreTransparent
  BY Invariant, InvTransparent, PTL
=============================================================================
