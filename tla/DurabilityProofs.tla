-------------------------- MODULE DurabilityProofs --------------------------
(***************************************************************************)
(* Proofs about Durability, for every set of calls and any number of calls *)
(* and crashes.                                                            *)
(***************************************************************************)
EXTENDS Durability, ProofLemmas, SequenceTheorems

IsStore(st) == st = [kv |-> st.kv, list |-> st.list, log |-> st.log]

\* What the channel, the lines of the file and the replay tasks hold, when n
\* entries were queued so far.
Known(e, n) == e.call \in Calls /\ e.nr \in 1 .. n

LineOK(l, n) == /\ l = Line(l.entry, l.text, l.ended) /\ Known(l.entry, n)
                /\ l.text \in Cuts /\ l.ended \in BOOLEAN

LinesOK(lines, n) ==
    /\ AList(lines)
    /\ \A i \in 1 .. Len(lines) : LineOK(lines[i], n) /\ (~lines[i].ended => i = Len(lines))

ChanOK(ch, n)  == AList(ch) /\ \A i \in 1 .. Len(ch) : Known(ch[i], n)
TaskOK(es, s)  == AList(es) /\ \A i \in 1 .. Len(es) : /\ es[i].call \in Calls
                                                       /\ Category(es[i].call) = s

Typed ==
    /\ phase \in {"up", "down", "replaying"} /\ damaged \in BOOLEAN
    /\ calls \in 0 .. MaxCalls /\ crashes \in 0 .. MaxCrashes
    /\ acked \in Nat /\ unlogged \subseteq Stores3
    /\ IsStore(store) /\ ChanOK(chan, acked) /\ LinesOK(file, acked)
    /\ DOMAIN todo = Stores3 /\ \A s \in Stores3 : TaskOK(todo[s], s)

\* LogKeepsTheOrder, with the file and the channel apart.
Increasing(s) == \A i, j \in 1 .. Len(s) : i < j => s[i].nr < s[j].nr

Order(found, ch) ==
    /\ Increasing(found) /\ Increasing(ch)
    /\ \A i \in 1 .. Len(found), j \in 1 .. Len(ch) : found[i].nr < ch[j].nr

\* What is left to replay makes of each store what the whole log would.
Phases ==
    /\ phase # "up" => chan = <<>>
    /\ phase = "down" => store = EmptyStore
    /\ phase = "replaying" =>
         \A s \in Stores3 : ReplayOn(store, todo[s])[s] = Replay(Entries(file))[s]

\* As long as nothing was cut, every line is an entry.
Complete(lines) == \A i \in 1 .. Len(lines) : lines[i].text = "entry" /\ lines[i].ended

Intact == ~damaged => Complete(file)

IInv == Typed /\ Order(Entries(file), chan) /\ Phases /\ Intact /\ MemoryIsTheReplay
-----------------------------------------------------------------------------
(* The loop of a replay *)

Replays(st, es, after) ==
    /\ ReplayOn(st, es) = after[Len(es)] /\ after[0] = st
    /\ \A n \in 1 .. Len(es) : after[n] = Exec(after[n - 1], es[n].call).store

LEMMA ReplayLoop ==
    ASSUME NEW st, NEW es, Len(es) \in Nat
    PROVE  \E after : Replays(st, es, after)
<1>1. PICK N \in Nat : N = Len(es)
  OBVIOUS
<1> DEFINE Round(i, x) == Exec(x, es[i].call).store
           Body(g) == [i \in 0 .. N |-> IF i = 0 THEN st ELSE Round(i, g[i - 1])]
           P(n, g) == g[0] = st /\ \A i \in 1 .. n : g[i] = Round(i, g[i - 1])
           Good == {n \in 0 .. N : \E g : P(n, g)}
<1> HIDE DEF Round
<1>2. 0 \in Good
  <2>1. PICK g : g = [i \in 0 .. 0 |-> st]
    OBVIOUS
  <2>2. P(0, g)
    BY <2>1
  <2> QED
    BY <2>2
<1>3. ASSUME NEW n \in 1 .. N, n - 1 \in Good PROVE n \in Good
  <2>1. PICK g : P(n - 1, g)
    BY <1>3
  <2>2. PICK v : v = Round(n, g[n - 1])
    OBVIOUS
  <2>3. PICK h : h = [i \in 0 .. n |-> IF i = n THEN v ELSE g[i]]
    OBVIOUS
  <2>4. h[0] = st
    BY <2>1, <2>3
  <2>5. \A i \in 1 .. n : h[i] = Round(i, h[i - 1])
    <3> SUFFICES ASSUME NEW i \in 1 .. n PROVE h[i] = Round(i, h[i - 1])
      OBVIOUS
    <3>1. i - 1 \in 0 .. n /\ i - 1 # n /\ i \in 0 .. n
      OBVIOUS
    <3>2. h[i - 1] = g[i - 1]
      BY <2>3, <3>1
    <3>3. CASE i = n
      BY <2>2, <2>3, <3>1, <3>2, <3>3
    <3>4. CASE i # n
      BY <2>1, <2>3, <3>1, <3>2, <3>4
    <3> QED
      BY <3>3, <3>4
  <2> QED
    BY <2>4, <2>5
<1>4. \A n \in 1 .. N : n - 1 \in Good => n \in Good
  BY <1>3
<1> HIDE DEF Good
<1>5. \A n \in 0 .. N : n \in Good
  BY ONLY <1>2, <1>4, N \in Nat, IntervalInduction
<1>6. PICK f : P(N, f)
  BY <1>5 DEF Good
<1>7. PICK g : g = [i \in 0 .. N |-> f[i]]
  OBVIOUS
<1>8. g[0] = st /\ \A i \in 1 .. N : g[i] = Round(i, g[i - 1])
  BY <1>6, <1>7
<1>9. g = Body(g)
  BY <1>7, <1>8
<1>10. PICK after : after = CHOOSE h : h = Body(h)
  OBVIOUS
<1>11. after = Body(after)
  BY <1>9, <1>10
<1>12. after[0] = st /\ \A i \in 1 .. N : after[i] = Round(i, after[i - 1])
  BY <1>11
<1>13. ReplayOn(st, es) = after[N]
  BY <1>1, <1>10 DEF ReplayOn, Round
<1>14. Replays(st, es, after)
  BY <1>1, <1>12, <1>13 DEF Replays, Round
<1> QED
  BY <1>14

LEMMA ReplayEmpty == ASSUME NEW st PROVE ReplayOn(st, <<>>) = st
<1>1. PICK after : Replays(st, <<>>, after)
  BY EmptyList, ReplayLoop
<1> QED
  BY <1>1, EmptyList DEF Replays

\* The last entry is applied to what the others built.
LEMMA ReplayAppend ==
    ASSUME NEW st, NEW es, AList(es), NEW e
    PROVE  ReplayOn(st, Append(es, e)) = Exec(ReplayOn(st, es), e.call).store
<1>1. PICK t : t = Append(es, e)
  OBVIOUS
<1>2. PICK N \in Nat : N = Len(es)
  BY DEF AList
<1>3. AList(t) /\ Len(t) = N + 1 /\ t[N + 1] = e /\ \A i \in 1 .. N : t[i] = es[i]
  <2>1. /\ AList(Append(es, e)) /\ Len(Append(es, e)) = Len(es) + 1
        /\ Append(es, e)[Len(es) + 1] = e
        /\ \A i \in 1 .. Len(es) : Append(es, e)[i] = es[i]
    BY ListAppend, Zenon
  <2> QED
    BY ONLY <1>1, <1>2, <2>1, Zenon
<1>4. PICK f : Replays(st, es, f)
  BY <1>2, ReplayLoop
<1>5. PICK g : Replays(st, t, g)
  <2>1. Len(t) \in Nat
    BY ONLY <1>3 DEF AList
  <2> QED
    BY ONLY <2>1, ReplayLoop, Zenon
<1>6. \A n \in 0 .. N : f[n] = g[n]
  <2> DEFINE Good == {n \in 0 .. N : f[n] = g[n]}
  <2>1. 0 \in Good
    BY <1>4, <1>5 DEF Replays
  <2>2. \A n \in 1 .. N : n - 1 \in Good => n \in Good
    <3> SUFFICES ASSUME NEW n \in 1 .. N, n - 1 \in Good PROVE n \in Good
      OBVIOUS
    <3>1. f[n] = Exec(f[n - 1], es[n].call).store
      BY <1>2, <1>4 DEF Replays
    <3>2. g[n] = Exec(g[n - 1], t[n].call).store
      BY <1>3, <1>5 DEF Replays
    <3> QED
      BY <1>3, <3>1, <3>2
  <2> HIDE DEF Good
  <2>3. \A n \in 0 .. N : n \in Good
    BY <2>1, <2>2, IntervalInduction
  <2> QED
    BY <2>3 DEF Good
<1>7. ReplayOn(st, es) = f[N] /\ ReplayOn(st, t) = g[N + 1]
  BY <1>2, <1>3, <1>4, <1>5 DEF Replays
<1>8. g[N + 1] = Exec(g[N], e.call).store
  BY <1>3, <1>5 DEF Replays
<1> QED
  BY <1>1, <1>6, <1>7, <1>8

\* The first entry may as well be applied on its own.
LEMMA ReplayHead ==
    ASSUME NEW st, NEW es, AList(es), es # <<>>
    PROVE  ReplayOn(st, es) = ReplayOn(Exec(st, Head(es).call).store, Tail(es))
<1>1. PICK t, a : t = Tail(es) /\ a = Exec(st, Head(es).call).store
  OBVIOUS
<1>2. PICK N \in Nat \ {0} : N = Len(es)
  BY ListTail
<1>3. AList(t) /\ Len(t) = N - 1 /\ Head(es) = es[1] /\ \A i \in 1 .. N - 1 : t[i] = es[i + 1]
  <2>1. /\ AList(Tail(es)) /\ Len(Tail(es)) = Len(es) - 1
        /\ Head(es) = es[1] /\ \A i \in 1 .. Len(es) - 1 : Tail(es)[i] = es[i + 1]
    BY ListTail, Zenon
  <2> QED
    BY ONLY <1>1, <1>2, <2>1, Zenon
<1>4. PICK f : Replays(st, es, f)
  BY <1>2, ReplayLoop
<1>5. PICK g : Replays(a, t, g)
  <2>1. Len(t) \in Nat
    BY ONLY <1>3 DEF AList
  <2> QED
    BY ONLY <2>1, ReplayLoop, Zenon
<1>6. \A n \in 0 .. N - 1 : f[n + 1] = g[n]
  <2> DEFINE Good == {n \in 0 .. N - 1 : f[n + 1] = g[n]}
  <2>1. 0 \in Good
    <3>1. f[1] = Exec(f[0], es[1].call).store /\ f[0] = st /\ g[0] = a
      BY <1>2, <1>4, <1>5 DEF Replays
    <3> QED
      BY <1>1, <1>3, <3>1
  <2>2. \A n \in 1 .. N - 1 : n - 1 \in Good => n \in Good
    <3> SUFFICES ASSUME NEW n \in 1 .. N - 1, n - 1 \in Good PROVE n \in Good
      OBVIOUS
    <3>1. f[n + 1] = Exec(f[n], es[n + 1].call).store
      BY <1>2, <1>4 DEF Replays
    <3>2. g[n] = Exec(g[n - 1], t[n].call).store
      BY <1>3, <1>5 DEF Replays
    <3>3. f[n] = g[n - 1]
      OBVIOUS
    <3> QED
      BY <1>3, <3>1, <3>2, <3>3
  <2> HIDE DEF Good
  <2>3. N - 1 \in Nat
    OBVIOUS
  <2>4. \A n \in 0 .. N - 1 : n \in Good
    BY ONLY <2>1, <2>2, <2>3, IntervalInduction
  <2> QED
    BY <2>4 DEF Good
<1>7. ReplayOn(st, es) = f[N] /\ ReplayOn(a, t) = g[N - 1]
  BY <1>2, <1>3, <1>4, <1>5 DEF Replays
<1> QED
  BY <1>1, <1>6, <1>7
-----------------------------------------------------------------------------
(* A call changes one store, by what that store holds *)

With(a, s, x) == [a EXCEPT ![s] = x]

Local(a, b, c, s) ==
    \E x : /\ Exec(a, c).store = With(a, s, x)
           /\ a[s] = b[s] => Exec(b, c).store = With(b, s, x)

LEMMA WithFacts ==
    ASSUME NEW a, IsStore(a), NEW s \in Stores3, NEW x
    PROVE  /\ IsStore(With(a, s, x)) /\ With(a, s, x)[s] = x /\ With(a, s, a[s]) = a
           /\ \A t \in Stores3 \ {s} : With(a, s, x)[t] = a[t]
<1>1. PICK k, l, g : k = a.kv /\ l = a.list /\ g = a.log
  OBVIOUS
<1>2. a = [kv |-> k, list |-> l, log |-> g]
  BY <1>1 DEF IsStore
<1>3. CASE s = "kv"
  <2>1. With(a, s, x) = [kv |-> x, list |-> l, log |-> g]
    BY ONLY <1>2, <1>3 DEF With
  <2>2. With(a, s, a[s]) = a
    BY ONLY <1>2, <1>3 DEF With
  <2> QED
    BY ONLY <1>2, <1>3, <2>1, <2>2 DEF IsStore, Stores3
<1>4. CASE s = "list"
  <2>1. With(a, s, x) = [kv |-> k, list |-> x, log |-> g]
    BY ONLY <1>2, <1>4 DEF With
  <2>2. With(a, s, a[s]) = a
    BY ONLY <1>2, <1>4 DEF With
  <2> QED
    BY ONLY <1>2, <1>4, <2>1, <2>2 DEF IsStore, Stores3
<1>5. CASE s = "log"
  <2>1. With(a, s, x) = [kv |-> k, list |-> l, log |-> x]
    BY ONLY <1>2, <1>5 DEF With
  <2>2. With(a, s, a[s]) = a
    BY ONLY <1>2, <1>5 DEF With
  <2> QED
    BY ONLY <1>2, <1>5, <2>1, <2>2 DEF IsStore, Stores3
<1> QED
  BY <1>3, <1>4, <1>5 DEF Stores3

LEMMA CategoryIs ==
    ASSUME NEW c
    PROVE  /\ c.op \in KvOps => Category(c) = "kv"
           /\ c.op \in ListOps => Category(c) = "list"
           /\ c.op \in LogOps => Category(c) = "log"
           /\ c.op \in Ops => Category(c) \in Stores3
  BY DEF Category, KvOps, ListOps, LogOps, Ops, Stores3

LEMMA KvLocal ==
    ASSUME NEW a, NEW b, IsStore(a), IsStore(b), NEW c, c.op \in KvOps
    PROVE  Local(a, b, c, "kv")
<1>0. "kv" \in Stores3 /\ a = With(a, "kv", a.kv) /\ b = With(b, "kv", b.kv)
  BY WithFacts DEF Stores3
<1>1. CASE c.op = "KvSet"
  <2>1. Exec(a, c) = KvSet(a, c) /\ Exec(b, c) = KvSet(b, c)
    BY <1>1 DEF Exec
  <2>2. PICK x : x = Put(a.kv, <<c.db, c.key>>, c.val)
    OBVIOUS
  <2>3. Exec(a, c).store = With(a, "kv", x)
    BY <2>1, <2>2 DEF KvSet, Ok, With
  <2>4. a.kv = b.kv => Exec(b, c).store = With(b, "kv", x)
    BY <2>1, <2>2 DEF KvSet, Ok, With
  <2> QED
    BY <2>3, <2>4 DEF Local
<1>2. CASE c.op = "KvDel"
  <2>1. Exec(a, c) = KvDel(a, c) /\ Exec(b, c) = KvDel(b, c)
    BY <1>2 DEF Exec
  <2>2. PICK x : x = IF <<c.db, c.key>> \in DOMAIN a.kv THEN Drop(a.kv, {<<c.db, c.key>>})
                     ELSE a.kv
    OBVIOUS
  <2>3. Exec(a, c).store = With(a, "kv", x)
    BY <1>0, <2>1, <2>2 DEF KvDel, Ok, Err, With
  <2>4. a.kv = b.kv => Exec(b, c).store = With(b, "kv", x)
    BY <1>0, <2>1, <2>2 DEF KvDel, Ok, Err, With
  <2> QED
    BY <2>3, <2>4 DEF Local
<1>3. CASE c.op = "KvFlush"
  <2>1. Exec(a, c) = KvFlush(a, c) /\ Exec(b, c) = KvFlush(b, c)
    BY <1>3 DEF Exec
  <2>2. PICK x : x = Drop(a.kv, {y \in DOMAIN a.kv : y[1] = c.db})
    OBVIOUS
  <2>3. Exec(a, c).store = With(a, "kv", x)
    BY <2>1, <2>2 DEF KvFlush, Ok, With
  <2>4. a.kv = b.kv => Exec(b, c).store = With(b, "kv", x)
    BY <2>1, <2>2 DEF KvFlush, Ok, With
  <2> QED
    BY <2>3, <2>4 DEF Local
<1> QED
  BY <1>1, <1>2, <1>3 DEF KvOps

LEMMA SetQueueIs ==
    ASSUME NEW a, IsStore(a), NEW key, NEW q
    PROVE  /\ SetQueue(a, key, q) = With(a, "list", Put(a.list, key, q))
           /\ IsStore(SetQueue(a, key, q))
           /\ \A k : Queue(SetQueue(a, key, q), k) = IF k = key THEN q ELSE Queue(a, k)
<1>1. SetQueue(a, key, q) = With(a, "list", Put(a.list, key, q))
  BY DEF SetQueue, With
<1>2. PICK x, w : x = Put(a.list, key, q) /\ w = With(a, "list", x)
  OBVIOUS
<1>3. IsStore(w) /\ w.list = x
  BY <1>2, WithFacts DEF Stores3
<1>4. DOMAIN x = DOMAIN a.list \cup {key}
      /\ \A k \in DOMAIN x : x[k] = IF k = key THEN q ELSE a.list[k]
  BY <1>2 DEF Put
<1>5. \A k : Queue(w, k) = IF k = key THEN q ELSE Queue(a, k)
  BY ONLY <1>3, <1>4 DEF Queue
<1> QED
  BY ONLY <1>1, <1>2, <1>3, <1>5, Zenon

LEMMA QueueSame == ASSUME NEW a, NEW b, NEW k, a.list = b.list PROVE Queue(a, k) = Queue(b, k)
  BY DEF Queue

LEMMA PushLocal ==
    ASSUME NEW a, NEW b, IsStore(a), IsStore(b), NEW c
    PROVE  \E x : /\ ListPushRange(a, c).store = With(a, "list", x)
                  /\ a.list = b.list => ListPushRange(b, c).store = With(b, "list", x)
<1>0. a = With(a, "list", a.list) /\ b = With(b, "list", b.list)
  BY WithFacts DEF Stores3
<1>1. PICK stored : stored = Storable(c.vals)
  OBVIOUS
<1>2. ASSUME NEW st
      PROVE  ListPushRange(st, c).store = IF stored = <<>> THEN st
                                          ELSE SetQueue(st, c.key, Queue(st, c.key) \o stored)
  BY ONLY <1>1 DEF ListPushRange, Ok, Err
<1>3. CASE stored = <<>>
  <2>1. ListPushRange(a, c).store = a /\ ListPushRange(b, c).store = b
    BY ONLY <1>2, <1>3, Zenon
  <2> QED
    BY ONLY <1>0, <2>1, Zenon
<1>4. CASE stored # <<>>
  <2>1. PICK q : q = Queue(a, c.key) \o stored
    OBVIOUS
  <2>2. PICK x : x = Put(a.list, c.key, q)
    OBVIOUS
  <2>3. ListPushRange(a, c).store = SetQueue(a, c.key, q)
    BY ONLY <1>2, <1>4, <2>1, Zenon
  <2>4. a.list = b.list => ListPushRange(b, c).store = SetQueue(b, c.key, q)
    BY ONLY <1>2, <1>4, <2>1, QueueSame, Zenon
  <2>5. SetQueue(a, c.key, q) = With(a, "list", Put(a.list, c.key, q))
        /\ SetQueue(b, c.key, q) = With(b, "list", Put(b.list, c.key, q))
    BY ONLY IsStore(a), IsStore(b), SetQueueIs, Zenon
  <2>6. a.list = b.list => ListPushRange(b, c).store = With(b, "list", x)
    BY ONLY <2>2, <2>4, <2>5, Zenon
  <2> QED
    BY ONLY <2>2, <2>3, <2>5, <2>6, Zenon
<1> QED
  BY ONLY <1>3, <1>4

LEMMA ListLocal ==
    ASSUME NEW a, NEW b, IsStore(a), IsStore(b), NEW c, c.op \in ListOps
    PROVE  Local(a, b, c, "list")
<1>0. a = With(a, "list", a.list) /\ b = With(b, "list", b.list)
  BY WithFacts DEF Stores3
<1> DEFINE q == Queue(a, c.key)
<1>9. PICK k : k = c.key
  OBVIOUS
<1>10. a.list = b.list => Queue(b, k) = Queue(a, k)
  BY ONLY <1>9, QueueSame, Zenon
<1>1. CASE c.op = "ListPush"
  <2>1. PICK d : d = [key |-> c.key, vals |-> <<c.val>>]
    OBVIOUS
  <2>2. Exec(a, c) = ListPushRange(a, d) /\ Exec(b, c) = ListPushRange(b, d)
    BY <1>1, <2>1 DEF Exec, ListPush
  <2> QED
    BY <2>2, PushLocal DEF Local
<1>2. CASE c.op = "ListPushRange"
  <2>1. Exec(a, c) = ListPushRange(a, c) /\ Exec(b, c) = ListPushRange(b, c)
    BY <1>2 DEF Exec
  <2> QED
    BY <2>1, PushLocal DEF Local
<1>3. CASE c.op = "ListPop"
  <2>1. Exec(a, c) = ListPop(a, c) /\ Exec(b, c) = ListPop(b, c)
    BY <1>3 DEF Exec
  <2>2. PICK x : x = IF Queue(a, k) = <<>> THEN a.list ELSE Put(a.list, k, Tail(Queue(a, k)))
    OBVIOUS
  <2>3. Exec(a, c).store = With(a, "list", x)
    BY <1>0, <1>9, <2>1, <2>2, SetQueueIs DEF ListPop, Ok, Err
  <2>4. a.list = b.list => Exec(b, c).store = With(b, "list", x)
    BY <1>0, <1>9, <1>10, <2>1, <2>2, SetQueueIs DEF ListPop, Ok, Err
  <2> QED
    BY <2>3, <2>4 DEF Local
<1>4. CASE c.op = "ListPopRange"
  <2>1. Exec(a, c) = ListPopRange(a, c) /\ Exec(b, c) = ListPopRange(b, c)
    BY <1>4 DEF Exec
  <2> DEFINE Fails(st, r) == k \notin DOMAIN st.list \/ c.end > Len(r) \/ c.start > c.end
             Rest(r) == SubSeq(r, 1, c.start) \o SubSeq(r, c.end + 1, Len(r))
  <2>5. \A st : ListPopRange(st, c).store =
                   IF Fails(st, Queue(st, k)) THEN st ELSE SetQueue(st, k, Rest(Queue(st, k)))
    BY <1>9 DEF ListPopRange, Ok, Err
  <2>2. PICK x : x = IF Fails(a, Queue(a, k)) THEN a.list
                     ELSE Put(a.list, k, Rest(Queue(a, k)))
    OBVIOUS
  <2>6. a.list = b.list => (Fails(b, Queue(b, k)) <=> Fails(a, Queue(a, k)))
    BY <1>10
  <2> HIDE DEF Fails, Rest
  <2>3. Exec(a, c).store = With(a, "list", x)
    BY <1>0, <2>1, <2>2, <2>5, SetQueueIs
  <2>4. a.list = b.list => Exec(b, c).store = With(b, "list", x)
    BY <1>0, <1>10, <2>1, <2>2, <2>5, <2>6, SetQueueIs
  <2> QED
    BY <2>3, <2>4 DEF Local
<1>5. CASE c.op = "ListPopCount"
  <2>1. Exec(a, c) = ListPopCount(a, c) /\ Exec(b, c) = ListPopCount(b, c)
    BY <1>5 DEF Exec
  <2> DEFINE Changes(r) == c.count < Len(r) \/ r # <<>>
             Rest(r) == IF c.count < Len(r) THEN SubSeq(r, c.count + 2, Len(r)) ELSE <<>>
  <2>5. \A st : ListPopCount(st, c).store =
                   IF Changes(Queue(st, k)) THEN SetQueue(st, k, Rest(Queue(st, k))) ELSE st
    BY <1>9 DEF ListPopCount, Ok, Err
  <2>2. PICK x : x = IF Changes(Queue(a, k)) THEN Put(a.list, k, Rest(Queue(a, k)))
                     ELSE a.list
    OBVIOUS
  <2> HIDE DEF Changes, Rest
  <2>3. Exec(a, c).store = With(a, "list", x)
    BY <1>0, <2>1, <2>2, <2>5, SetQueueIs
  <2>4. a.list = b.list => Exec(b, c).store = With(b, "list", x)
    BY <1>0, <1>10, <2>1, <2>2, <2>5, SetQueueIs
  <2> QED
    BY <2>3, <2>4 DEF Local
<1>6. CASE c.op = "ListFlush"
  <2>1. Exec(a, c) = ListFlush(a, c) /\ Exec(b, c) = ListFlush(b, c)
    BY <1>6 DEF Exec
  <2>2. PICK x : x = IF k \in DOMAIN a.list THEN Put(a.list, k, <<>>) ELSE a.list
    OBVIOUS
  <2>3. Exec(a, c).store = With(a, "list", x)
    BY <1>0, <1>9, <2>1, <2>2, SetQueueIs DEF ListFlush, Ok, Err
  <2>4. a.list = b.list => Exec(b, c).store = With(b, "list", x)
    BY <1>0, <1>9, <2>1, <2>2, SetQueueIs DEF ListFlush, Ok, Err
  <2> QED
    BY <2>3, <2>4 DEF Local
<1>7. CASE c.op = "ListLen"
  <2>1. Exec(a, c) = ListLen(a, c) /\ Exec(b, c) = ListLen(b, c)
    BY <1>7 DEF Exec
  <2>2. PICK x : x = Put(a.list, k, Queue(a, k))
    OBVIOUS
  <2>3. Exec(a, c).store = With(a, "list", x)
    BY <1>9, <2>1, <2>2, SetQueueIs DEF ListLen, Ok
  <2>4. a.list = b.list => Exec(b, c).store = With(b, "list", x)
    BY <1>9, <1>10, <2>1, <2>2, SetQueueIs DEF ListLen, Ok
  <2> QED
    BY <2>3, <2>4 DEF Local
<1> QED
  BY <1>1, <1>2, <1>3, <1>4, <1>5, <1>6, <1>7 DEF ListOps

LEMMA AddLocal ==
    ASSUME NEW a, NEW b, IsStore(a), IsStore(b), NEW c
    PROVE  \E x : /\ LogAddRange(a, c).store = With(a, "log", x)
                  /\ a.log = b.log => LogAddRange(b, c).store = With(b, "log", x)
<1>0. a = With(a, "log", a.log) /\ b = With(b, "log", b.log)
  BY WithFacts DEF Stores3
<1> DEFINE stored == Storable(c.vals)
           ids(log) == log.next .. log.next + Len(stored) - 1
           Grown(log) == [next |-> log.next + Len(stored),
                          entries |-> [id \in ids(log) \cup DOMAIN log.entries |->
                                         IF id \in ids(log) THEN stored[id - log.next + 1]
                                         ELSE log.entries[id]]]
<1>1. ASSUME NEW st
      PROVE  LogAddRange(st, c).store =
                IF c.vals = <<>> \/ c.group \notin DOMAIN st.log \/ stored = <<>> THEN st
                ELSE With(st, "log", [st.log EXCEPT ![c.group] = Grown(st.log[c.group])])
  <2>1. PICK grown : grown = Grown(st.log[c.group])
    OBVIOUS
  <2>2. PICK after : after = [st EXCEPT !.log[c.group] = grown]
    OBVIOUS
  <2>3. after = With(st, "log", [st.log EXCEPT ![c.group] = grown])
    BY ONLY <2>2 DEF With
  <2>4. LogAddRange(st, c).store =
           IF c.vals = <<>> \/ c.group \notin DOMAIN st.log \/ stored = <<>> THEN st
           ELSE after
    BY ONLY <2>1, <2>2 DEF LogAddRange, Ok, Err
  <2> QED
    BY ONLY <2>1, <2>3, <2>4, Zenon
<1> HIDE DEF Grown, stored
<1>2. CASE c.vals = <<>> \/ c.group \notin DOMAIN a.log \/ stored = <<>>
  <2>1. LogAddRange(a, c).store = a
    BY <1>1, <1>2
  <2>2. a.log = b.log => LogAddRange(b, c).store = b
    BY <1>1, <1>2
  <2> QED
    BY ONLY <1>0, <2>1, <2>2, Zenon
<1>3. CASE ~(c.vals = <<>> \/ c.group \notin DOMAIN a.log \/ stored = <<>>)
  <2>1. PICK x : x = [a.log EXCEPT ![c.group] = Grown(a.log[c.group])]
    OBVIOUS
  <2>2. LogAddRange(a, c).store = With(a, "log", x)
    BY ONLY <1>1, <1>3, <2>1
  <2>3. a.log = b.log => LogAddRange(b, c).store = With(b, "log", x)
    BY ONLY <1>1, <1>3, <2>1
  <2> QED
    BY <2>2, <2>3
<1> QED
  BY ONLY <1>2, <1>3

LEMMA LogLocal ==
    ASSUME NEW a, NEW b, IsStore(a), IsStore(b), NEW c, c.op \in LogOps
    PROVE  Local(a, b, c, "log")
<1>0. a = With(a, "log", a.log) /\ b = With(b, "log", b.log)
  BY WithFacts DEF Stores3
<1>9. PICK g : g = c.group
  OBVIOUS
<1>1. CASE c.op = "LogCreateGroup"
  <2>1. Exec(a, c) = LogCreateGroup(a, c) /\ Exec(b, c) = LogCreateGroup(b, c)
    BY <1>1 DEF Exec
  <2>2. PICK x : x = IF g \in DOMAIN a.log THEN a.log
                     ELSE Put(a.log, g, [next |-> 1, entries |-> EmptyMap])
    OBVIOUS
  <2>3. Exec(a, c).store = With(a, "log", x)
    BY <1>0, <1>9, <2>1, <2>2 DEF LogCreateGroup, Ok, Err, With
  <2>4. a.log = b.log => Exec(b, c).store = With(b, "log", x)
    BY <1>0, <1>9, <2>1, <2>2 DEF LogCreateGroup, Ok, Err, With
  <2> QED
    BY <2>3, <2>4 DEF Local
<1>2. CASE c.op = "LogDropGroup"
  <2>1. Exec(a, c) = LogDropGroup(a, c) /\ Exec(b, c) = LogDropGroup(b, c)
    BY <1>2 DEF Exec
  <2>2. PICK x : x = IF g \in DOMAIN a.log THEN Drop(a.log, {g}) ELSE a.log
    OBVIOUS
  <2>3. Exec(a, c).store = With(a, "log", x)
    BY <1>0, <1>9, <2>1, <2>2 DEF LogDropGroup, Ok, Err, With
  <2>4. a.log = b.log => Exec(b, c).store = With(b, "log", x)
    BY <1>0, <1>9, <2>1, <2>2 DEF LogDropGroup, Ok, Err, With
  <2> QED
    BY <2>3, <2>4 DEF Local
<1>3. CASE c.op = "LogAdd"
  <2>1. PICK d : d = [group |-> c.group, vals |-> <<c.val>>]
    OBVIOUS
  <2>2. Exec(a, c) = LogAddRange(a, d) /\ Exec(b, c) = LogAddRange(b, d)
    BY <1>3, <2>1 DEF Exec, LogAdd
  <2> QED
    BY <2>2, AddLocal DEF Local
<1>4. CASE c.op = "LogAddRange"
  <2>1. Exec(a, c) = LogAddRange(a, c) /\ Exec(b, c) = LogAddRange(b, c)
    BY <1>4 DEF Exec
  <2> QED
    BY <2>1, AddLocal DEF Local
<1>5. CASE c.op = "LogRemove"
  <2>1. Exec(a, c) = LogRemove(a, c) /\ Exec(b, c) = LogRemove(b, c)
    BY <1>5 DEF Exec
  <2> DEFINE Trimmed(log) ==
               [log EXCEPT ![g].entries = Drop(@, {id \in DOMAIN @ : id < c.up_to})]
  <2>2. PICK x : x = IF g \notin DOMAIN a.log THEN a.log ELSE Trimmed(a.log)
    OBVIOUS
  <2>5. ASSUME NEW st
        PROVE  LogRemove(st, c).store = IF g \notin DOMAIN st.log THEN st
                                        ELSE With(st, "log", Trimmed(st.log))
    BY ONLY <1>9 DEF LogRemove, Ok, Err, With
  <2> HIDE DEF Trimmed
  <2>3. Exec(a, c).store = With(a, "log", x)
    BY ONLY <1>0, <2>1, <2>2, <2>5
  <2>4. a.log = b.log => Exec(b, c).store = With(b, "log", x)
    BY ONLY <1>0, <2>1, <2>2, <2>5
  <2> QED
    BY <2>3, <2>4 DEF Local
<1> QED
  BY <1>1, <1>2, <1>3, <1>4, <1>5 DEF LogOps

LEMMA ExecLocal ==
    ASSUME NEW a, NEW b, IsStore(a), IsStore(b), NEW c, c.op \in Ops
    PROVE  /\ IsStore(Exec(a, c).store) /\ Category(c) \in Stores3
           /\ \A t \in Stores3 \ {Category(c)} : Exec(a, c).store[t] = a[t]
           /\ a[Category(c)] = b[Category(c)] =>
                Exec(a, c).store[Category(c)] = Exec(b, c).store[Category(c)]
<1>1. PICK s \in Stores3 : s = Category(c)
  BY CategoryIs
<1>2. Local(a, b, c, s)
  BY <1>1, CategoryIs, KvLocal, ListLocal, LogLocal DEF Ops
<1>3. PICK x : /\ Exec(a, c).store = With(a, s, x)
               /\ a[s] = b[s] => Exec(b, c).store = With(b, s, x)
  BY <1>2 DEF Local
<1>4. IsStore(With(a, s, x)) /\ With(a, s, x)[s] = x /\ With(b, s, x)[s] = x
      /\ \A t \in Stores3 \ {s} : With(a, s, x)[t] = a[t]
  BY WithFacts
<1> QED
  BY ONLY <1>1, <1>3, <1>4, Zenon
-----------------------------------------------------------------------------
(* One task or three *)

Runs(es) == AList(es) /\ \A i \in 1 .. Len(es) : es[i].call.op \in Ops

LEMMA EmptyIsAStore == IsStore(EmptyStore)
  BY DEF EmptyStore, IsStore

LEMMA ReplaySteps ==
    ASSUME NEW a, IsStore(a), NEW es, Runs(es), NEW after, Replays(a, es, after)
    PROVE  \A n \in 0 .. Len(es) : IsStore(after[n])
<1>1. PICK N \in Nat : N = Len(es)
  BY DEF Runs, AList
<1> DEFINE Good == {n \in 0 .. N : IsStore(after[n])}
<1>2. 0 \in Good
  BY DEF Replays
<1>3. \A n \in 1 .. N : n - 1 \in Good => n \in Good
  <2> SUFFICES ASSUME NEW n \in 1 .. N, n - 1 \in Good PROVE n \in Good
    OBVIOUS
  <2>1. after[n] = Exec(after[n - 1], es[n].call).store /\ es[n].call.op \in Ops
    BY <1>1 DEF Replays, Runs
  <2> QED
    BY <2>1, ExecLocal
<1> HIDE DEF Good
<1>4. \A n \in 0 .. N : n \in Good
  BY <1>2, <1>3, IntervalInduction
<1> QED
  BY <1>1, <1>4 DEF Good

LEMMA ReplayIsAStore ==
    ASSUME NEW a, IsStore(a), NEW es, Runs(es)
    PROVE  IsStore(ReplayOn(a, es))
<1>1. Len(es) \in Nat
  BY DEF Runs, AList
<1>2. PICK after : Replays(a, es, after)
  BY <1>1, ReplayLoop
<1>3. IsStore(after[Len(es)])
  BY <1>1, <1>2, ReplaySteps
<1> QED
  BY <1>2, <1>3 DEF Replays

\* Entries for one store have the same effect there, whatever the others hold.
LEMMA ReplayLocal ==
    ASSUME NEW a, NEW b, IsStore(a), IsStore(b), NEW es, Runs(es), NEW s \in Stores3,
           \A i \in 1 .. Len(es) : Category(es[i].call) = s, a[s] = b[s]
    PROVE  ReplayOn(a, es)[s] = ReplayOn(b, es)[s]
<1>1. PICK N \in Nat : N = Len(es)
  BY DEF Runs, AList
<1>2. PICK f : Replays(a, es, f)
  BY <1>1, ReplayLoop
<1>3. PICK g : Replays(b, es, g)
  BY <1>1, ReplayLoop
<1>4. \A n \in 0 .. N : IsStore(f[n]) /\ IsStore(g[n])
  BY <1>1, <1>2, <1>3, ReplaySteps
<1> DEFINE Good == {n \in 0 .. N : f[n][s] = g[n][s]}
<1>5. 0 \in Good
  BY <1>2, <1>3 DEF Replays
<1>6. \A n \in 1 .. N : n - 1 \in Good => n \in Good
  <2> SUFFICES ASSUME NEW n \in 1 .. N, n - 1 \in Good PROVE n \in Good
    OBVIOUS
  <2>1. f[n] = Exec(f[n - 1], es[n].call).store /\ g[n] = Exec(g[n - 1], es[n].call).store
    BY <1>1, <1>2, <1>3 DEF Replays
  <2>2. es[n].call.op \in Ops /\ Category(es[n].call) = s /\ n - 1 \in 0 .. N
    BY <1>1 DEF Runs
  <2>3. Exec(f[n - 1], es[n].call).store[s] = Exec(g[n - 1], es[n].call).store[s]
    <3>1. PICK x, y, c : x = f[n - 1] /\ y = g[n - 1] /\ c = es[n].call
      OBVIOUS
    <3>2. IsStore(x) /\ IsStore(y) /\ c.op \in Ops /\ Category(c) = s /\ x[s] = y[s]
      BY <1>4, <2>2, <3>1
    <3>3. Exec(x, c).store[s] = Exec(y, c).store[s]
      BY ONLY <3>2, ExecLocal
    <3> QED
      BY ONLY <3>1, <3>3, Zenon
  <2> QED
    BY <2>1, <2>3
<1> HIDE DEF Good
<1>7. \A n \in 0 .. N : n \in Good
  BY <1>5, <1>6, IntervalInduction
<1>8. f[N][s] = g[N][s]
  BY <1>7 DEF Good
<1> QED
  BY <1>1, <1>2, <1>3, <1>8 DEF Replays

\* The entries of a store among those at the positions in chosen.
LEMMA EntriesOfRun ==
    ASSUME NEW es, Runs(es), NEW s
    PROVE  /\ Runs(EntriesOf(s, es))
           /\ \A i \in 1 .. Len(EntriesOf(s, es)) :
                 /\ Category(EntriesOf(s, es)[i].call) = s
                 /\ \E n \in 1 .. Len(es) : EntriesOf(s, es)[i] = es[n]
<1>1. PICK chosen, p : /\ chosen = {i \in DOMAIN es : Category(es[i].call) = s}
                       /\ p = Part(es, chosen)
  OBVIOUS
<1>2. p = EntriesOf(s, es)
  BY <1>1 DEF EntriesOf
<1>3. AList(p) /\ \A i \in 1 .. Len(p) : \E n \in 1 .. Len(es) : n \in chosen /\ p[i] = es[n]
  <2>1. AList(es)
    BY DEF Runs
  <2>2. ChosenFrom(es, chosen, p)
    BY ONLY <1>1, <2>1, PartElements, Zenon
  <2> QED
    BY ONLY <2>2 DEF ChosenFrom
<1>4. \A i \in 1 .. Len(p) : /\ Category(p[i].call) = s /\ p[i].call.op \in Ops
                             /\ \E n \in 1 .. Len(es) : p[i] = es[n]
  BY ONLY <1>1, <1>3, Runs(es) DEF Runs
<1>5. Runs(p)
  BY ONLY <1>3, <1>4 DEF Runs
<1> QED
  BY ONLY <1>2, <1>4, <1>5, Zenon

\* A task that applies only the entries of its store builds it as one that
\* applies all would.
LEMMA ReplayPart ==
    ASSUME NEW es, Runs(es), NEW s \in Stores3
    PROVE  Replay(EntriesOf(s, es))[s] = Replay(es)[s]
<1>1. PICK N \in Nat : N = Len(es)
  BY DEF Runs, AList
<1>2. PICK chosen : chosen = {i \in DOMAIN es : Category(es[i].call) = s}
  OBVIOUS
<1>3. PICK f : TakesPart(es, chosen, f)
  BY PartLoop DEF Runs
<1>4. PICK g : Replays(EmptyStore, es, g)
  BY <1>1, ReplayLoop
<1>5. \A n \in 0 .. N : IsStore(g[n])
  BY <1>1, <1>4, EmptyIsAStore, ReplaySteps
<1>6. \A n \in 0 .. N : AList(f[n]) /\ \A i \in 1 .. Len(f[n]) : f[n][i].call.op \in Ops
  <2> SUFFICES ASSUME NEW n \in 0 .. N
               PROVE  AList(f[n]) /\ \A i \in 1 .. Len(f[n]) : f[n][i].call.op \in Ops
    OBVIOUS
  <2>1. PICK X, p : X = {es[i] : i \in chosen \cap 1 .. N} /\ p = f[n]
    OBVIOUS
  <2>2. p \in Seq(X)
    BY <1>1, <1>3, <2>1 DEF TakesPart
  <2>3. \A i \in 1 .. Len(p) : p[i] \in X
    BY ONLY <2>2
  <2>4. \A e \in X : e.call.op \in Ops
    BY <1>1, <2>1 DEF Runs
  <2> QED
    BY <2>1, <2>2, <2>3, <2>4, SeqIsAList
<1>7. \A n \in 0 .. N : IsStore(ReplayOn(EmptyStore, f[n]))
  BY <1>6, EmptyIsAStore, ReplayIsAStore DEF Runs
<1> DEFINE Good == {n \in 0 .. N : ReplayOn(EmptyStore, f[n])[s] = g[n][s]}
<1>8. 0 \in Good
  BY <1>3, <1>4, ReplayEmpty DEF TakesPart, Replays
<1>9. \A n \in 1 .. N : n - 1 \in Good => n \in Good
  <2> SUFFICES ASSUME NEW n \in 1 .. N, n - 1 \in Good PROVE n \in Good
    OBVIOUS
  <2>1. PICK p, x, c : p = f[n - 1] /\ x = g[n - 1] /\ c = es[n].call
    OBVIOUS
  <2>2. g[n] = Exec(x, c).store /\ c.op \in Ops
    BY <1>1, <1>4, <2>1 DEF Replays, Runs
  <2>3. f[n] = IF n \in chosen THEN Append(p, es[n]) ELSE p
    BY <1>1, <1>3, <2>1 DEF TakesPart
  <2>4. n \in chosen <=> Category(c) = s
    BY <1>1, <1>2, <2>1 DEF Runs, AList
  <2>5. IsStore(x) /\ IsStore(ReplayOn(EmptyStore, p)) /\ AList(p)
    BY <1>5, <1>6, <1>7, <2>1
  <2>6. ReplayOn(EmptyStore, p)[s] = x[s]
    BY <2>1
  <2>7. CASE n \in chosen
    <3>1. ReplayOn(EmptyStore, f[n]) = Exec(ReplayOn(EmptyStore, p), c).store
      BY <2>1, <2>3, <2>5, <2>7, ReplayAppend
    <3>2. Exec(ReplayOn(EmptyStore, p), c).store[s] = Exec(x, c).store[s]
      BY ONLY <2>2, <2>4, <2>5, <2>6, <2>7, ExecLocal
    <3> QED
      BY <2>2, <3>1, <3>2
  <2>8. CASE n \notin chosen
    <3>1. Exec(x, c).store[s] = x[s]
      BY ONLY <2>2, <2>4, <2>5, <2>8, s \in Stores3, ExecLocal
    <3> QED
      BY <2>2, <2>3, <2>6, <2>8, <3>1
  <2> QED
    BY <2>7, <2>8
<1> HIDE DEF Good
<1>10. \A n \in 0 .. N : n \in Good
  BY <1>8, <1>9, IntervalInduction
<1>11. ReplayOn(EmptyStore, f[N])[s] = g[N][s]
  BY <1>10 DEF Good
<1>12. EntriesOf(s, es) = f[N] /\ Replay(es) = g[N]
  BY <1>1, <1>2, <1>3, <1>4 DEF EntriesOf, TakesPart, Replays, Replay
<1> QED
  BY <1>11, <1>12 DEF Replay
-----------------------------------------------------------------------------
(* What readers see of a call's effect *)

LEMMA ContentsIs ==
    ASSUME NEW a, IsStore(a), NEW b, IsStore(b)
    PROVE  /\ Contents(a).kv = a.kv /\ Contents(a).log = a.log
           /\ Contents(a).list = Contents(b).list <=> \A k : Queue(a, k) = Queue(b, k)
<1> DEFINE Filled(l) == [k \in {x \in DOMAIN l : l[x] # <<>>} |-> l[k]]
<1>1. ASSUME NEW st, IsStore(st)
      PROVE  /\ Contents(st).kv = st.kv /\ Contents(st).log = st.log
             /\ Contents(st).list = Filled(st.list)
  <2>1. PICK x : x = Filled(st.list)
    OBVIOUS
  <2>2. Contents(st) = With(st, "list", x)
    BY <2>1 DEF Contents, With
  <2>3. With(st, "list", x).list = x /\ With(st, "list", x).kv = st.kv
        /\ With(st, "list", x).log = st.log
    BY <1>1, WithFacts DEF Stores3
  <2> QED
    BY ONLY <2>1, <2>2, <2>3, Zenon
<1>2. PICK x, y, l, m : x = Filled(l) /\ y = Filled(m) /\ l = a.list /\ m = b.list
  OBVIOUS
<1>3. DOMAIN x = {k \in DOMAIN l : l[k] # <<>>} /\ \A k \in DOMAIN x : x[k] = l[k]
  BY ONLY <1>2
<1>4. DOMAIN y = {k \in DOMAIN m : m[k] # <<>>} /\ \A k \in DOMAIN y : y[k] = m[k]
  BY ONLY <1>2
<1>5. \A k : /\ Queue(a, k) = IF k \in DOMAIN x THEN x[k] ELSE <<>>
             /\ Queue(b, k) = IF k \in DOMAIN y THEN y[k] ELSE <<>>
  BY ONLY <1>2, <1>3, <1>4 DEF Queue
<1>6. ASSUME \A k : Queue(a, k) = Queue(b, k) PROVE x = y
  <2>1. \A k : k \in DOMAIN x => x[k] # <<>>
    BY ONLY <1>3
  <2>2. \A k : k \in DOMAIN y => y[k] # <<>>
    BY ONLY <1>4
  <2>3. DOMAIN x = DOMAIN y /\ \A k \in DOMAIN x : x[k] = y[k]
    BY ONLY <1>5, <1>6, <2>1, <2>2
  <2> QED
    BY ONLY <1>2, <2>3
<1>7. x = y => \A k : Queue(a, k) = Queue(b, k)
  BY ONLY <1>5
<1>8. Contents(a).list = x /\ Contents(b).list = y
  BY <1>1, <1>2
<1>9. Contents(a).kv = a.kv /\ Contents(a).log = a.log
  BY <1>1
<1> QED
  BY ONLY <1>6, <1>7, <1>8, <1>9, Zenon

\* A call that queues no entry and is not known to slip by.
Quiet(a, c) == ~(Exec(a, c).ok /\ Logs(c)) /\ ~SlipsBy(c, Exec(a, c))

\* The same for a call to the lists, queue by queue.
QueueStep(a, b, c) ==
    /\ \A k : k # c.key => Queue(Exec(a, c).store, k) = Queue(a, k)
    /\ Queue(a, c.key) = Queue(b, c.key) =>
         Queue(Exec(a, c).store, c.key) = Queue(Exec(b, c).store, c.key)
    /\ Quiet(a, c) => Queue(Exec(a, c).store, c.key) = Queue(a, c.key)

\* Of one value, all or nothing is stored.
LEMMA OneStored == ASSUME NEW v PROVE Storable(<<v>>) = <<v>> \/ Storable(<<v>>) = <<>>
<1>1. PICK s : s = <<v>>
  OBVIOUS
<1>2. s \in Seq({v}) /\ Len(s) = 1
  BY <1>1
<1>3. PICK I : I = {i \in 1 .. Len(s) : s[i] \in Oversized}
  OBVIOUS
<1>4. I = {} \/ I = {1}
  BY <1>2, <1>3
<1>5. SelectInSeq(s, LAMBDA x : x \in Oversized) = IF I # {} THEN Min(I) ELSE 0
  BY <1>3 DEF SelectInSeq
<1>6. CASE I = {}
  <2>1. SelectInSeq(s, LAMBDA x : x \in Oversized) = 0
    BY <1>5, <1>6
  <2>2. Storable(s) = s
    BY <2>1 DEF Storable
  <2> QED
    BY <1>1, <2>2
<1>7. CASE I = {1}
  <2>1. Min(I) = 1
    BY <1>7 DEF Min
  <2>2. SelectInSeq(s, LAMBDA x : x \in Oversized) = 1
    BY <1>5, <1>7, <2>1
  <2>3. Storable(s) = SubSeq(s, 1, 0)
    <3>1. PICK bad : bad = SelectInSeq(s, LAMBDA x : x \in Oversized)
      OBVIOUS
    <3>2. Storable(s) = IF bad = 0 THEN s ELSE SubSeq(s, 1, bad - 1)
      BY ONLY <3>1 DEF Storable
    <3>3. bad # 0 /\ bad - 1 = 0
      BY <2>2, <3>1
    <3> QED
      BY ONLY <3>2, <3>3
  <2>4. PICK n : n = SubSeq(s, 1, 0)
    OBVIOUS
  <2>5. n \in Seq({v}) /\ Len(n) = 0
    BY ONLY <1>2, <2>4
  <2>6. n = <<>>
    BY <2>5, SeqIsAList, EmptyList
  <2> QED
    BY <1>1, <2>3, <2>4, <2>6
<1> QED
  BY <1>4, <1>6, <1>7

LEMMA PushQueue ==
    ASSUME NEW st, IsStore(st), NEW c, NEW k
    PROVE  Queue(ListPushRange(st, c).store, k) =
              IF k = c.key /\ Storable(c.vals) # <<>> THEN Queue(st, c.key) \o Storable(c.vals)
              ELSE Queue(st, k)
<1>1. PICK stored, q : stored = Storable(c.vals) /\ q = Queue(st, c.key) \o stored
  OBVIOUS
<1>2. ListPushRange(st, c).store = IF stored = <<>> THEN st ELSE SetQueue(st, c.key, q)
  BY ONLY <1>1 DEF ListPushRange, Ok, Err
<1>3. Queue(SetQueue(st, c.key, q), k) = IF k = c.key THEN q ELSE Queue(st, k)
  BY SetQueueIs
<1> QED
  BY ONLY <1>1, <1>2, <1>3

LEMMA ListSeen ==
    ASSUME NEW a, NEW b, IsStore(a), IsStore(b), NEW c, c.op \in ListOps,
           c.op = "ListPopRange" => c.start \in Nat /\ c.end \in Nat
    PROVE  QueueStep(a, b, c)
<1>0. PICK key : key = c.key
  OBVIOUS
<1>9. \A st, k, q : IsStore(st) => Queue(SetQueue(st, key, q), k) = IF k = key THEN q ELSE Queue(st, k)
  BY SetQueueIs
<1>1. CASE c.op = "ListPush"
  <2>1. PICK d, s : d = [key |-> key, vals |-> <<c.val>>] /\ s = Storable(<<c.val>>)
    OBVIOUS
  <2>2. Exec(a, c) = ListPushRange(a, d) /\ Exec(b, c) = ListPushRange(b, d)
    BY <1>0, <1>1, <2>1 DEF Exec, ListPush
  <2>3. d.key = key /\ d.vals = <<c.val>> /\ Storable(d.vals) = s
    BY <2>1
  <2>4. \A k : Queue(Exec(a, c).store, k) =
                  IF k = key /\ s # <<>> THEN Queue(a, key) \o s ELSE Queue(a, k)
    BY <2>2, <2>3, PushQueue
  <2>5. \A k : Queue(Exec(b, c).store, k) =
                  IF k = key /\ s # <<>> THEN Queue(b, key) \o s ELSE Queue(b, k)
    BY <2>2, <2>3, PushQueue
  <2>6. Quiet(a, c) => s = <<>>
    <3> SUFFICES ASSUME s # <<>> PROVE ~Quiet(a, c)
      OBVIOUS
    <3>1. s = d.vals
      BY <2>1, <2>3, OneStored
    <3>2. Exec(a, c).ok
      BY <2>2, <2>3, <3>1 DEF ListPushRange, Ok
    <3> QED
      BY <1>1, <3>2 DEF Quiet, Logs
  <2> QED
    BY ONLY <1>0, <2>4, <2>5, <2>6 DEF QueueStep
<1>2. CASE c.op = "ListPushRange"
  <2>1. PICK s : s = Storable(c.vals)
    OBVIOUS
  <2>2. Exec(a, c) = ListPushRange(a, c) /\ Exec(b, c) = ListPushRange(b, c)
    BY <1>2 DEF Exec
  <2>4. \A k : Queue(Exec(a, c).store, k) =
                  IF k = key /\ s # <<>> THEN Queue(a, key) \o s ELSE Queue(a, k)
    BY <1>0, <2>1, <2>2, PushQueue
  <2>5. \A k : Queue(Exec(b, c).store, k) =
                  IF k = key /\ s # <<>> THEN Queue(b, key) \o s ELSE Queue(b, k)
    BY <1>0, <2>1, <2>2, PushQueue
  <2>6. ~Quiet(a, c)
    BY <1>2 DEF Quiet, Logs, SlipsBy
  <2> QED
    BY ONLY <1>0, <2>4, <2>5, <2>6 DEF QueueStep
<1>3. CASE c.op = "ListPop"
  <2> DEFINE New(q) == IF q = <<>> THEN <<>> ELSE Tail(q)
  <2>1. \A st : Exec(st, c) = ListPop(st, c)
    BY <1>3 DEF Exec
  <2>2. ASSUME NEW st, IsStore(st), NEW k
        PROVE  Queue(Exec(st, c).store, k) = IF k = key THEN New(Queue(st, key)) ELSE Queue(st, k)
    BY <1>0, <1>9, <2>1, <2>2 DEF ListPop, Ok, Err
  <2>3. Quiet(a, c) => New(Queue(a, key)) = Queue(a, key)
    BY <1>0, <1>3, <2>1 DEF Quiet, Logs, ListPop, Ok
  <2> HIDE DEF New
  <2> QED
    BY <1>0, <2>2, <2>3 DEF QueueStep
<1>4. CASE c.op = "ListPopRange"
  <2> DEFINE New(q) == IF c.end > Len(q) \/ c.start > c.end THEN q
                       ELSE SubSeq(q, 1, c.start) \o SubSeq(q, c.end + 1, Len(q))
  <2>1. \A st : Exec(st, c) = ListPopRange(st, c)
    BY <1>4 DEF Exec
  <2>4. New(<<>>) = <<>>
    <3>1. CASE c.end > Len(<<>>) \/ c.start > c.end
      BY <3>1
    <3>2. CASE ~(c.end > Len(<<>>) \/ c.start > c.end)
      <4>1. c.end = 0 /\ c.start = 0
        BY <1>4, <3>2
      <4>2. PICK e, o : e = SubSeq(<<>>, 1, 0) /\ o = <<>>
        OBVIOUS
      <4>3. o \in Seq({}) /\ Len(o) = 0
        BY ONLY <4>2
      <4>4. e \in Seq({}) /\ Len(e) = 0
        BY ONLY <4>2, <4>3
      <4>5. e = <<>>
        BY ONLY <4>4, SeqIsAList, EmptyList
      <4>6. New(<<>>) = SubSeq(<<>>, 1, 0) \o SubSeq(<<>>, 1, 0)
        BY <3>2, <4>1
      <4>7. e \o e = <<>>
        BY ONLY <4>4, <4>5
      <4> QED
        BY ONLY <4>2, <4>6, <4>7, Zenon
    <3> QED
      BY <3>1, <3>2
  <2>2. ASSUME NEW st, IsStore(st), NEW k
        PROVE  Queue(Exec(st, c).store, k) = IF k = key THEN New(Queue(st, key)) ELSE Queue(st, k)
    <3>1. CASE key \notin DOMAIN st.list
      <4>1. Queue(st, key) = <<>> /\ Exec(st, c).store = st
        BY <1>0, <2>1, <3>1 DEF ListPopRange, Err, Queue
      <4> HIDE DEF New
      <4> QED
        BY <2>4, <4>1
    <3>2. CASE key \in DOMAIN st.list
      BY <1>0, <1>9, <2>1, <2>2, <3>2 DEF ListPopRange, Ok, Err
    <3> QED
      BY <3>1, <3>2
  <2>3. Quiet(a, c) => Exec(a, c).store = a
    BY <1>4, <2>1 DEF Quiet, Logs, ListPopRange, Ok, Err
  <2> HIDE DEF New
  <2> QED
    BY <1>0, <2>2, <2>3 DEF QueueStep
<1>5. CASE c.op = "ListPopCount"
  <2> DEFINE New(q) == IF c.count < Len(q) THEN SubSeq(q, c.count + 2, Len(q)) ELSE <<>>
  <2>1. \A st : Exec(st, c) = ListPopCount(st, c)
    BY <1>5 DEF Exec
  <2>2. ASSUME NEW st, IsStore(st), NEW k
        PROVE  Queue(Exec(st, c).store, k) = IF k = key THEN New(Queue(st, key)) ELSE Queue(st, k)
    BY <1>0, <1>9, <2>1, <2>2 DEF ListPopCount, Ok, Err
  <2>3. ~Quiet(a, c)
    BY <1>5 DEF Quiet, Logs, SlipsBy
  <2> HIDE DEF New
  <2> QED
    BY <1>0, <2>2, <2>3 DEF QueueStep
<1>6. CASE c.op = "ListFlush"
  <2>1. \A st : Exec(st, c) = ListFlush(st, c)
    BY <1>6 DEF Exec
  <2>2. ASSUME NEW st, IsStore(st), NEW k
        PROVE  Queue(Exec(st, c).store, k) = IF k = key THEN <<>> ELSE Queue(st, k)
    <3>1. CASE key \notin DOMAIN st.list
      BY <1>0, <2>1, <3>1 DEF ListFlush, Err, Queue
    <3>2. CASE key \in DOMAIN st.list
      BY <1>0, <1>9, <2>1, <2>2, <3>2 DEF ListFlush, Ok
    <3> QED
      BY <3>1, <3>2
  <2>3. Quiet(a, c) => Exec(a, c).store = a
    BY <1>6, <2>1 DEF Quiet, Logs, ListFlush, Ok, Err
  <2> QED
    BY <1>0, <2>2, <2>3 DEF QueueStep
<1>7. CASE c.op = "ListLen"
  <2>1. \A st : Exec(st, c) = ListLen(st, c)
    BY <1>7 DEF Exec
  <2>2. ASSUME NEW st, IsStore(st), NEW k PROVE Queue(Exec(st, c).store, k) = Queue(st, k)
    BY <1>0, <1>9, <2>1, <2>2 DEF ListLen, Ok
  <2> QED
    BY <1>0, <2>2 DEF QueueStep
<1> QED
  BY <1>1, <1>2, <1>3, <1>4, <1>5, <1>6, <1>7 DEF ListOps

\* A quiet call to the keys or the groups does nothing.
LEMMA QuietStays ==
    ASSUME NEW a, NEW c, c.op \in KvOps \cup LogOps, Quiet(a, c)
    PROVE  Exec(a, c).store = a
<1>1. CASE c.op = "KvSet"
  BY <1>1 DEF Quiet, Logs, Exec, KvSet, Ok
<1>2. CASE c.op = "KvDel"
  <2>1. Exec(a, c) = KvDel(a, c)
    BY <1>2 DEF Exec
  <2> QED
    BY <1>2, <2>1 DEF Quiet, Logs, KvDel, Ok, Err
<1>3. CASE c.op = "KvFlush" \/ c.op = "LogAddRange"
  BY <1>3 DEF Quiet, Logs, SlipsBy
<1>4. CASE c.op = "LogCreateGroup"
  <2>1. Exec(a, c) = LogCreateGroup(a, c)
    BY <1>4 DEF Exec
  <2> QED
    BY <1>4, <2>1 DEF Quiet, Logs, LogCreateGroup, Ok, Err
<1>5. CASE c.op = "LogDropGroup"
  <2>1. Exec(a, c) = LogDropGroup(a, c)
    BY <1>5 DEF Exec
  <2> QED
    BY <1>5, <2>1 DEF Quiet, Logs, LogDropGroup, Ok, Err
<1>6. CASE c.op = "LogAdd"
  <2>1. PICK d, s : d = [group |-> c.group, vals |-> <<c.val>>] /\ s = Storable(<<c.val>>)
    OBVIOUS
  <2>2. Exec(a, c) = LogAddRange(a, d)
    BY <1>6, <2>1 DEF Exec, LogAdd
  <2>3. d.vals = <<c.val>> /\ Storable(d.vals) = s
    BY <2>1
  <2>4. s = d.vals \/ s = <<>>
    BY <2>1, <2>3, OneStored
  <2>5. ~LogAddRange(a, d).ok
    BY <1>6, <2>2 DEF Quiet, Logs
  <2>6. LogAddRange(a, d).store = a
    BY <2>3, <2>4, <2>5 DEF LogAddRange, Ok, Err
  <2> QED
    BY <2>2, <2>6
<1>7. CASE c.op = "LogRemove"
  <2>1. Exec(a, c) = LogRemove(a, c)
    BY <1>7 DEF Exec
  <2> QED
    BY <1>7, <2>1 DEF Quiet, Logs, LogRemove, Ok, Err
<1> QED
  BY <1>1, <1>2, <1>3, <1>4, <1>5, <1>6, <1>7 DEF KvOps, LogOps

\* The contents of a store decide what becomes of its contents, and quiet calls
\* do not change them.
LEMMA ExecSeen ==
    ASSUME NEW a, NEW b, IsStore(a), IsStore(b), NEW c \in Calls, NEW s \in Stores3,
           Contents(a)[s] = Contents(b)[s]
    PROVE  /\ Contents(Exec(a, c).store)[s] = Contents(Exec(b, c).store)[s]
           /\ Quiet(a, c) => Contents(Exec(a, c).store)[s] = Contents(b)[s]
<1>0. c.op \in Ops /\ (c.op = "ListPopRange" => c.start \in Nat /\ c.end \in Nat)
  BY DurabilityAssumption
<1>1. PICK x, y : x = Exec(a, c).store /\ y = Exec(b, c).store
  OBVIOUS
<1>2. PICK t \in Stores3 : t = Category(c)
  BY <1>0, CategoryIs
<1>3. IsStore(x) /\ \A u \in Stores3 \ {t} : x[u] = a[u]
  BY <1>0, <1>1, <1>2, ExecLocal
<1>4. IsStore(y) /\ \A u \in Stores3 \ {t} : y[u] = b[u]
  BY <1>0, <1>1, <1>2, ExecLocal
<1>5. a[t] = b[t] => x[t] = y[t]
  BY <1>0, <1>1, <1>2, ExecLocal
<1>6. CASE s = "list"
  <2>1. \A k : Queue(a, k) = Queue(b, k)
    BY <1>6, ContentsIs
  <2>2. CASE t = "list"
    <3>1. c.op \in ListOps
      BY <1>0, <1>2, <2>2, CategoryIs DEF Ops
    <3>2. QueueStep(a, b, c) /\ QueueStep(b, a, c)
      BY <1>0, <3>1, ListSeen
    <3>3. \A k : Queue(x, k) = Queue(y, k)
      BY ONLY <1>1, <2>1, <3>2 DEF QueueStep
    <3>4. Quiet(a, c) => \A k : Queue(x, k) = Queue(b, k)
      BY ONLY <1>1, <2>1, <3>2 DEF QueueStep
    <3>5. Contents(x).list = Contents(y).list
      BY <1>3, <1>4, <3>3, ContentsIs
    <3>6. Quiet(a, c) => Contents(x).list = Contents(b).list
      BY <1>3, <3>4, ContentsIs
    <3> QED
      BY <1>1, <1>6, <3>5, <3>6
  <2>3. CASE t # "list"
    <3>1. x.list = a.list /\ y.list = b.list
      BY <1>3, <1>4, <2>3 DEF Stores3
    <3>2. \A k : Queue(x, k) = Queue(a, k) /\ Queue(y, k) = Queue(b, k)
      BY <3>1, QueueSame
    <3>3. \A k : Queue(x, k) = Queue(y, k) /\ Queue(x, k) = Queue(b, k)
      BY ONLY <2>1, <3>2
    <3>4. Contents(x).list = Contents(y).list
      BY <1>3, <1>4, <3>3, ContentsIs
    <3>5. Contents(x).list = Contents(b).list
      BY <1>3, <3>3, ContentsIs
    <3> QED
      BY <1>1, <1>6, <3>4, <3>5
  <2> QED
    BY <2>2, <2>3
<1>7. CASE s # "list"
  <2>1. \A st : IsStore(st) => Contents(st)[s] = st[s]
    BY <1>7, ContentsIs DEF Stores3
  <2>2. a[s] = b[s]
    BY <2>1
  <2>3. x[s] = y[s]
    BY <1>3, <1>4, <1>5, <2>2
  <2>4. Quiet(a, c) => x[s] = b[s]
    <3>1. CASE s = t
      <4>1. c.op \in KvOps \cup LogOps
        BY <1>0, <1>2, <1>7, <3>1, CategoryIs DEF Ops
      <4> QED
        BY <1>1, <2>2, <4>1, QuietStays
    <3>2. CASE s # t
      BY <1>3, <2>2, <3>2
    <3> QED
      BY <3>1, <3>2
  <2> QED
    BY ONLY <1>1, <1>3, <1>4, IsStore(b), <2>1, <2>3, <2>4, Zenon
<1> QED
  BY <1>6, <1>7
-----------------------------------------------------------------------------
(* Lines and entries *)

FoundIn(lines, found) ==
    AList(found) /\ \A i \in 1 .. Len(found) : \E n \in 1 .. Len(lines) : found[i] = lines[n].entry

LEMMA EntriesFound == ASSUME NEW lines, AList(lines) PROVE FoundIn(lines, Entries(lines))
<1>1. PICK chosen, good : /\ chosen = {i \in DOMAIN lines : lines[i].text = "entry"}
                          /\ good = Part(lines, chosen)
  OBVIOUS
<1>2. PICK found : found = [i \in DOMAIN good |-> good[i].entry]
  OBVIOUS
<1>3. ChosenFrom(lines, chosen, good)
  BY <1>1, PartElements
<1>4. DOMAIN good = 1 .. Len(good) /\ Len(good) \in Nat
  BY <1>3 DEF ChosenFrom, AList
<1>5. found \in [1 .. Len(good) -> {good[i].entry : i \in 1 .. Len(good)}]
  BY ONLY <1>2, <1>4
<1>6. found \in Seq({good[i].entry : i \in 1 .. Len(good)}) /\ Len(found) = Len(good)
  BY ONLY <1>4, <1>5
<1>7. AList(found)
  BY <1>6, SeqIsAList
<1>8. FoundIn(lines, found)
  BY ONLY <1>2, <1>3, <1>4, <1>6, <1>7 DEF FoundIn, ChosenFrom
<1>9. Entries(lines) = found
  BY ONLY <1>1, <1>2 DEF Entries
<1> QED
  BY ONLY <1>8, <1>9, Zenon

\* A line adds its entry, if it is one.
LEMMA EntriesAppend ==
    ASSUME NEW lines, AList(lines), NEW l
    PROVE  Entries(Append(lines, l)) =
              IF l.text = "entry" THEN Append(Entries(lines), l.entry) ELSE Entries(lines)
<1>1. PICK t, N : t = Append(lines, l) /\ N = Len(lines)
  OBVIOUS
<1>2. /\ AList(t) /\ N \in Nat /\ Len(t) = N + 1 /\ t[N + 1] = l
      /\ \A i \in 1 .. N : t[i] = lines[i]
  BY ONLY <1>1, AList(lines), ListAppend DEF AList
<1>3. PICK I, J, g, h : /\ I = {i \in DOMAIN lines : lines[i].text = "entry"}
                        /\ J = {i \in DOMAIN t : t[i].text = "entry"}
                        /\ g = Part(lines, I) /\ h = Part(t, J)
  OBVIOUS
<1>4. DOMAIN lines = 1 .. N /\ DOMAIN t = 1 .. N + 1
  BY <1>1, <1>2 DEF AList
<1>5. \A i \in 1 .. Len(lines) : i \in I <=> i \in J
  BY ONLY <1>1, <1>2, <1>3, <1>4
<1>6. h = IF N + 1 \in J THEN Append(g, l) ELSE g
  <2>1. Part(Append(lines, l), J) =
           IF Len(lines) + 1 \in J THEN Append(Part(lines, I), l) ELSE Part(lines, I)
    BY ONLY <1>5, AList(lines), PartAppend
  <2> QED
    BY ONLY <1>1, <1>3, <2>1, Zenon
<1>7. N + 1 \in J <=> l.text = "entry"
  BY ONLY <1>2, <1>3, <1>4
<1>8. PICK x, y : x = Entries(lines) /\ y = Entries(t)
  OBVIOUS
<1>9. x = [i \in DOMAIN g |-> g[i].entry] /\ y = [i \in DOMAIN h |-> h[i].entry]
  BY ONLY <1>3, <1>8 DEF Entries
<1>10. AList(g) /\ AList(x) /\ AList(y)
  BY <1>2, <1>3, <1>8, PartElements, EntriesFound DEF ChosenFrom, FoundIn
<1>11. CASE l.text # "entry"
  <2>1. y = x
    BY ONLY <1>6, <1>7, <1>9, <1>11
  <2> QED
    BY ONLY <1>1, <1>8, <1>11, <2>1
<1>12. CASE l.text = "entry"
  <2>1. h = Append(g, l)
    BY ONLY <1>6, <1>7, <1>12
  <2>2. PICK M \in Nat : M = Len(g)
    BY <1>10 DEF AList
  <2>3. AList(h) /\ Len(h) = M + 1 /\ h[M + 1] = l /\ \A i \in 1 .. M : h[i] = g[i]
    BY ONLY <1>10, <2>1, <2>2, ListAppend, Zenon
  <2>4. DOMAIN g = 1 .. M /\ DOMAIN h = 1 .. M + 1
    BY <1>10, <2>2, <2>3 DEF AList
  <2>5. Len(x) = M /\ Len(y) = M + 1
    <3>1. DOMAIN x = 1 .. Len(x) /\ DOMAIN y = 1 .. Len(y) /\ Len(x) \in Nat /\ Len(y) \in Nat
      BY <1>10 DEF AList
    <3>2. DOMAIN x = 1 .. M /\ DOMAIN y = 1 .. M + 1
      BY ONLY <1>9, <2>4
    <3>3. \A m, n \in Nat : 1 .. m = 1 .. n => m = n
      <4> SUFFICES ASSUME NEW m \in Nat, NEW n \in Nat, 1 .. m = 1 .. n PROVE m = n
        OBVIOUS
      <4>1. \A i \in Nat \ {0} : i <= m <=> i <= n
        OBVIOUS
      <4>2. m # 0 => m <= n
        BY <4>1
      <4>3. n # 0 => n <= m
        BY <4>1
      <4> QED
        BY <4>2, <4>3
    <3>4. M + 1 \in Nat
      OBVIOUS
    <3>5. 1 .. Len(x) = 1 .. M /\ 1 .. Len(y) = 1 .. M + 1
      BY ONLY <3>1, <3>2, Zenon
    <3>6. Len(x) = M
      BY ONLY <3>1, <3>3, <3>5, M \in Nat, Zenon
    <3>7. Len(y) = M + 1
      BY ONLY <3>1, <3>3, <3>4, <3>5, Zenon
    <3> QED
      BY <3>6, <3>7
  <2>6. y[M + 1] = l.entry /\ \A i \in 1 .. M : y[i] = x[i]
    BY ONLY <1>9, <2>3, <2>4, M \in Nat
  <2>7. PICK z : z = Append(x, l.entry)
    OBVIOUS
  <2>8. AList(z) /\ Len(z) = M + 1 /\ z[M + 1] = l.entry /\ \A i \in 1 .. M : z[i] = x[i]
    BY ONLY <1>10, <2>5, <2>7, ListAppend, Zenon
  <2>9. \A i \in 1 .. Len(y) : y[i] = z[i]
    BY ONLY <2>5, <2>6, <2>8, M \in Nat
  <2>10. y = z
    BY ONLY <1>10, <2>5, <2>8, <2>9, SameList
  <2> QED
    BY ONLY <1>1, <1>8, <1>12, <2>7, <2>10
<1> QED
  BY <1>11, <1>12

LEMMA EntriesEmpty == Entries(<<>>) = <<>>
<1>1. PICK x, y : x = Part(<<>>, {i \in DOMAIN <<>> : <<>>[i].text = "entry"}) /\ y = Entries(<<>>)
  OBVIOUS
<1>2. x = <<>>
  BY <1>1, PartEmpty
<1>3. y = [i \in DOMAIN x |-> x[i].entry]
  BY ONLY <1>1 DEF Entries
<1>4. DOMAIN y = {}
  BY ONLY <1>2, <1>3
<1>5. AList(y)
  BY <1>1, EmptyList, EntriesFound DEF FoundIn
<1>6. Len(y) = 0
  BY ONLY <1>4, <1>5 DEF AList
<1> QED
  BY <1>1, <1>5, <1>6, EmptyList

\* What bytes do to the entries: one more, none, or one less, when they make
\* an entry without a newline unreadable.
Grows(found, now, e) == now = found \/ now = Append(found, e) \/ \E x : found = Append(now, x)

LEMMA BytesAppended ==
    ASSUME NEW n, NEW lines, LinesOK(lines, n), NEW e, Known(e, n), NEW text \in Cuts, NEW ended \in BOOLEAN,
           NEW after, after = AppendBytes(lines, e, text, ended)
    PROVE  /\ LinesOK(after, n) /\ Grows(Entries(lines), Entries(after), e)
           /\ Complete(lines) /\ text = "entry" /\ ended =>
                Complete(after) /\ Entries(after) = Append(Entries(lines), e)
<1>0. AList(lines)
  BY DEF LinesOK
<1>1. CASE lines = <<>> \/ Last(lines).ended
  <2>1. PICK l : l = Line(e, text, ended)
    OBVIOUS
  <2>2. l.entry = e /\ l.text = text /\ l.ended = ended /\ LineOK(l, n)
    BY <2>1 DEF Line, LineOK
  <2>3. after = Append(lines, l)
    BY <1>1, <2>1 DEF AppendBytes
  <2>4. PICK N \in Nat : N = Len(lines)
    BY <1>0 DEF AList
  <2>5. AList(after) /\ Len(after) = N + 1 /\ after[N + 1] = l
        /\ \A i \in 1 .. N : after[i] = lines[i]
    BY ONLY <1>0, <2>3, <2>4, ListAppend, Zenon
  <2>6. \A i \in 1 .. N : lines[i].ended
    <3>1. CASE lines = <<>>
      BY <2>4, <3>1, EmptyList
    <3>2. CASE lines # <<>>
      <4>1. Last(lines) = lines[N]
        BY ONLY <1>0, <2>4, <3>2, ListFront
      <4>2. \A i \in 1 .. N : ~lines[i].ended => i = N
        BY <2>4 DEF LinesOK
      <4> QED
        BY <1>1, <3>2, <4>1, <4>2
    <3> QED
      BY <3>1, <3>2
  <2>7. \A i \in 1 .. N : LineOK(lines[i], n)
    BY <2>4 DEF LinesOK
  <2>8. LinesOK(after, n)
    BY ONLY <2>2, <2>5, <2>6, <2>7, N \in Nat DEF LinesOK
  <2>9. Entries(after) = IF text = "entry" THEN Append(Entries(lines), e) ELSE Entries(lines)
    BY ONLY <1>0, <2>2, <2>3, EntriesAppend, Zenon
  <2>10. Complete(lines) /\ text = "entry" /\ ended => Complete(after)
    <3> SUFFICES ASSUME Complete(lines), text = "entry", ended, NEW i \in 1 .. N + 1
                 PROVE  after[i].text = "entry" /\ after[i].ended
      BY <2>5 DEF Complete
    <3>1. CASE i = N + 1
      BY ONLY <2>2, <2>5, <3>1, text = "entry", ended, Zenon
    <3>2. CASE i \in 1 .. N
      BY <2>4, <2>5, <3>2 DEF Complete
    <3>3. i = N + 1 \/ i \in 1 .. N
      OBVIOUS
    <3> QED
      BY ONLY <3>1, <3>2, <3>3, Zenon
  <2> QED
    BY ONLY <2>8, <2>9, <2>10 DEF Grows
<1>2. CASE ~(lines = <<>> \/ Last(lines).ended)
  <2>1. PICK front, last : front = Front(lines) /\ last = Last(lines)
    OBVIOUS
  <2>2. PICK N \in Nat \ {0} : N = Len(lines)
    BY ONLY <1>0, <1>2, ListFront
  <2>3. AList(front) /\ Len(front) = N - 1 /\ last = lines[N]
        /\ \A i \in 1 .. N - 1 : front[i] = lines[i]
    BY ONLY <1>0, <1>2, <2>1, <2>2, ListFront, Zenon
  <2>4. lines = Append(front, last)
    BY ONLY <1>0, <1>2, <2>1, ListFront, Zenon
  <2>5. PICK t \in {"poison", "corrupt"} :
           t = IF "poison" \in {last.text, text} THEN "poison" ELSE "corrupt"
    OBVIOUS
  <2>6. PICK l : l = Line(last.entry, t, ended)
    OBVIOUS
  <2>7. after = Append(front, l)
    BY <1>2, <2>1, <2>5, <2>6 DEF AppendBytes
  <2>8. LineOK(last, n) /\ ~last.ended
    BY <1>2, <2>1, <2>2, <2>3 DEF LinesOK
  <2>9. LineOK(l, n) /\ l.text # "entry"
    BY <2>5, <2>6, <2>8 DEF LineOK, Line, Cuts
  <2>10. AList(after) /\ Len(after) = N /\ after[N] = l
         /\ \A i \in 1 .. N - 1 : after[i] = front[i]
    <3>1. AList(after) /\ Len(after) = Len(front) + 1 /\ after[Len(front) + 1] = l
          /\ \A i \in 1 .. Len(front) : after[i] = front[i]
      BY ONLY <2>3, <2>7, ListAppend, Zenon
    <3> QED
      BY ONLY <2>3, <3>1, N \in Nat \ {0}
  <2>11. \A i \in 1 .. N - 1 : LineOK(lines[i], n) /\ lines[i].ended
    BY <2>2 DEF LinesOK
  <2>12. LinesOK(after, n)
    BY ONLY <2>3, <2>9, <2>10, <2>11, N \in Nat \ {0} DEF LinesOK
  <2>13. Entries(after) = Entries(front)
    BY ONLY <2>3, <2>7, <2>9, EntriesAppend
  <2>14. Entries(lines) = IF last.text = "entry" THEN Append(Entries(front), last.entry)
                          ELSE Entries(front)
    BY ONLY <2>3, <2>4, EntriesAppend, Zenon
  <2>15. ~Complete(lines)
    BY <2>2, <2>3, <2>8 DEF Complete
  <2> QED
    BY ONLY <2>12, <2>13, <2>14, <2>15 DEF Grows
<1> QED
  BY <1>1, <1>2
-----------------------------------------------------------------------------
(* What the file and the channel hold *)

LEMMA KnownLater ==
    ASSUME NEW n \in Nat, NEW m \in Nat, n <= m
    PROVE  /\ \A ch : ChanOK(ch, n) => ChanOK(ch, m)
           /\ \A lines : LinesOK(lines, n) => LinesOK(lines, m)
<1>1. \A e : Known(e, n) => Known(e, m)
  BY DEF Known
<1>2. \A l : LineOK(l, n) => LineOK(l, m)
  BY <1>1, Zenon DEF LineOK
<1> QED
  BY ONLY <1>1, <1>2, Zenon DEF ChanOK, LinesOK

LEMMA EntriesKnown ==
    ASSUME NEW lines, NEW n, LinesOK(lines, n)
    PROVE  ChanOK(Entries(lines), n)
<1>1. FoundIn(lines, Entries(lines))
  BY EntriesFound DEF LinesOK
<1>2. \A i \in 1 .. Len(lines) : Known(lines[i].entry, n)
  BY DEF LinesOK, LineOK
<1> QED
  BY ONLY <1>1, <1>2 DEF FoundIn, ChanOK

LEMMA KnownRuns ==
    ASSUME NEW n, NEW x, ChanOK(x, n), NEW y, ChanOK(y, n)
    PROVE  /\ AList(x) /\ AList(y) /\ Runs(x)
           /\ ChanOK(x \o y, n) /\ Runs(x \o y)
<1>0. ASSUME NEW z, ChanOK(z, n) PROVE Runs(z)
  <2>1. \A i \in 1 .. Len(z) : z[i].call \in Calls
    BY <1>0 DEF ChanOK, Known
  <2> QED
    BY <1>0, <2>1, DurabilityAssumption DEF Runs, ChanOK
<1>1. PICK z : z = x \o y
  OBVIOUS
<1>2. AList(x) /\ AList(y)
  BY DEF ChanOK
<1>3. Joined(x, y, z)
  BY ONLY <1>1, <1>2, ListConcat, Zenon
<1>4. \A i \in 1 .. Len(z) : Known(z[i], n)
  <2>1. PICK M \in Nat, N \in Nat : M = Len(x) /\ N = Len(y)
    BY <1>2 DEF AList
  <2>2. Len(z) = M + N /\ (\A i \in 1 .. M : z[i] = x[i]) /\ \A i \in 1 .. N : z[M + i] = y[i]
    BY ONLY <1>3, <2>1, Zenon DEF Joined
  <2>3. (\A i \in 1 .. M : Known(x[i], n)) /\ \A i \in 1 .. N : Known(y[i], n)
    BY <2>1 DEF ChanOK
  <2> SUFFICES ASSUME NEW i \in 1 .. M + N PROVE Known(z[i], n)
    BY <2>2
  <2>4. CASE i \in 1 .. M
    BY ONLY <2>2, <2>3, <2>4
  <2>5. CASE i \in M + 1 .. M + N
    <3>1. i - M \in 1 .. N /\ i = M + (i - M)
      BY ONLY <2>1, <2>5
    <3> QED
      BY ONLY <2>2, <2>3, <3>1
  <2> QED
    BY <2>1, <2>4, <2>5
<1>5. ChanOK(z, n)
  BY ONLY <1>3, <1>4 DEF ChanOK, Joined
<1> QED
  BY ONLY <1>0, <1>1, <1>2, <1>5, ChanOK(x, n), Zenon

LEMMA KnownNumbers ==
    ASSUME NEW n \in Nat, NEW x, ChanOK(x, n)
    PROVE  Len(x) \in Nat /\ \A i \in 1 .. Len(x) : x[i].nr \in 1 .. n
  BY DEF ChanOK, Known, AList

\* A write that takes the first entry of the channel keeps the order, whatever
\* becomes of its bytes; so does a crash that loses the channel.
LEMMA OrderWritten ==
    ASSUME NEW n \in Nat, NEW found, ChanOK(found, n), NEW ch, ChanOK(ch, n), Order(found, ch),
           NEW now, ChanOK(now, n), ch # <<>>, Grows(found, now, Head(ch))
    PROVE  Order(now, Tail(ch)) /\ Order(now, <<>>)
<1>1. PICK M \in Nat, N \in Nat \ {0} : M = Len(found) /\ N = Len(ch)
  BY ListTail DEF ChanOK, AList
<1>2. PICK e, t : e = Head(ch) /\ t = Tail(ch)
  OBVIOUS
<1>3. Len(t) = N - 1 /\ e = ch[1] /\ \A i \in 1 .. N - 1 : t[i] = ch[i + 1]
  <2>1. AList(ch)
    BY DEF ChanOK
  <2>2. Len(t) = Len(ch) - 1 /\ e = ch[1] /\ \A i \in 1 .. Len(ch) - 1 : t[i] = ch[i + 1]
    BY ONLY <1>2, <2>1, ch # <<>>, ListTail, Zenon
  <2> QED
    BY ONLY <1>1, <2>2, Zenon
<1>4. PICK K \in Nat : K = Len(now)
  BY DEF ChanOK, AList
<1>5. /\ \A i \in 1 .. M : found[i].nr \in Nat
      /\ \A i \in 1 .. N : ch[i].nr \in Nat
      /\ \A i \in 1 .. K : now[i].nr \in Nat
  <2>1. ASSUME NEW x, ChanOK(x, n) PROVE \A i \in 1 .. Len(x) : x[i].nr \in Nat
    BY ONLY <2>1, n \in Nat, KnownNumbers
  <2> QED
    BY <1>1, <1>4, <2>1
<1>6. /\ \A i, j \in 1 .. M : i < j => found[i].nr < found[j].nr
      /\ \A i, j \in 1 .. N : i < j => ch[i].nr < ch[j].nr
      /\ \A i \in 1 .. M, j \in 1 .. N : found[i].nr < ch[j].nr
  BY <1>1 DEF Order, Increasing
<1>7. Increasing(t)
  BY ONLY <1>1, <1>3, <1>6 DEF Increasing
<1>8. \A i \in 1 .. M, j \in 1 .. N - 1 : found[i].nr < t[j].nr
  BY ONLY <1>1, <1>3, <1>6
<1>9. Increasing(now) /\ \A i \in 1 .. K, j \in 1 .. N - 1 : now[i].nr < t[j].nr
  <2>1. CASE now = found
    BY ONLY <1>1, <1>4, <1>6, <1>8, <2>1 DEF Increasing
  <2>2. CASE now = Append(found, e)
    <3>1. K = M + 1 /\ now[M + 1] = e /\ \A i \in 1 .. M : now[i] = found[i]
      <4>1. AList(found)
        BY DEF ChanOK
      <4>2. Longer(found, e, now)
        BY ONLY <2>2, <4>1, ListLonger, Zenon
      <4> QED
        BY ONLY <1>1, <1>4, <4>2, Zenon DEF Longer
    <3>2. \A i, j \in 1 .. M + 1 : i < j => now[i].nr < now[j].nr
      <4> SUFFICES ASSUME NEW i \in 1 .. M + 1, NEW j \in 1 .. M + 1, i < j
                   PROVE  now[i].nr < now[j].nr
        OBVIOUS
      <4>1. CASE j = M + 1
        BY ONLY <1>1, <1>3, <1>6, <3>1, <4>1, i < j
      <4>2. CASE j \in 1 .. M
        BY ONLY <1>1, <1>6, <3>1, <4>2, i < j
      <4> QED
        BY ONLY <1>1, <4>1, <4>2
    <3>3. \A j \in 1 .. N - 1 : e.nr < t[j].nr
      BY ONLY <1>1, <1>3, <1>6
    <3>4. \A i \in 1 .. M + 1, j \in 1 .. N - 1 : now[i].nr < t[j].nr
      <4> SUFFICES ASSUME NEW i \in 1 .. M + 1, NEW j \in 1 .. N - 1
                   PROVE  now[i].nr < t[j].nr
        OBVIOUS
      <4>1. i = M + 1 \/ i \in 1 .. M
        BY ONLY <1>1
      <4> QED
        BY ONLY <1>8, <3>1, <3>3, <4>1
    <3> QED
      BY ONLY <1>4, <3>1, <3>2, <3>4 DEF Increasing
  <2>3. CASE \E x : found = Append(now, x)
    <3>1. PICK x : found = Append(now, x)
      BY <2>3
    <3>2. M = K + 1 /\ \A i \in 1 .. K : found[i] = now[i]
      <4>1. AList(now)
        BY DEF ChanOK
      <4>2. Longer(now, x, found)
        BY ONLY <3>1, <4>1, ListLonger, Zenon
      <4> QED
        BY ONLY <1>1, <1>4, <4>2, Zenon DEF Longer
    <3>3. \A i \in 1 .. K : i \in 1 .. M /\ found[i] = now[i]
      BY ONLY <1>4, <3>2
    <3> QED
      BY ONLY <1>4, <1>6, <1>8, <3>3 DEF Increasing
  <2> QED
    BY <1>2, <2>1, <2>2, <2>3 DEF Grows
<1>10. Order(now, t)
  BY ONLY <1>3, <1>4, <1>7, <1>9 DEF Order
<1>11. Order(now, <<>>)
  BY ONLY <1>9, EmptyList DEF Order, Increasing
<1> QED
  BY ONLY <1>2, <1>10, <1>11, Zenon

\* A new entry has the highest number.
LEMMA OrderQueued ==
    ASSUME NEW n \in Nat, NEW found, ChanOK(found, n), NEW ch, ChanOK(ch, n), Order(found, ch),
           NEW e, e.nr = n + 1
    PROVE  Order(found, Append(ch, e))
<1>1. PICK M \in Nat, N \in Nat : M = Len(found) /\ N = Len(ch)
  BY KnownNumbers
<1>2. PICK t : t = Append(ch, e)
  OBVIOUS
<1>3. Len(t) = N + 1 /\ t[N + 1] = e /\ \A i \in 1 .. N : t[i] = ch[i]
  <2>1. AList(ch)
    BY DEF ChanOK
  <2>2. Longer(ch, e, t)
    BY ONLY <1>2, <2>1, ListLonger, Zenon
  <2> QED
    BY ONLY <1>1, <2>2, Zenon DEF Longer
<1>4. /\ \A i \in 1 .. M : found[i].nr \in 1 .. n
      /\ \A i \in 1 .. N : ch[i].nr \in 1 .. n
  BY <1>1, KnownNumbers
<1>5. /\ \A i, j \in 1 .. N : i < j => ch[i].nr < ch[j].nr
      /\ \A i \in 1 .. M, j \in 1 .. N : found[i].nr < ch[j].nr
  BY <1>1 DEF Order, Increasing
<1>6. \A i, j \in 1 .. N + 1 : i < j => t[i].nr < t[j].nr
  <2> SUFFICES ASSUME NEW i \in 1 .. N + 1, NEW j \in 1 .. N + 1, i < j
               PROVE  t[i].nr < t[j].nr
    OBVIOUS
  <2>1. CASE j = N + 1
    <3>1. i \in 1 .. N
      BY ONLY <1>1, <2>1, i < j
    <3> QED
      BY ONLY <1>3, <1>4, <2>1, <3>1, e.nr = n + 1
  <2>2. CASE j \in 1 .. N
    BY ONLY <1>1, <1>3, <1>5, <2>2, i < j
  <2> QED
    BY ONLY <1>1, <2>1, <2>2
<1>7. \A i \in 1 .. M, j \in 1 .. N + 1 : found[i].nr < t[j].nr
  <2> SUFFICES ASSUME NEW i \in 1 .. M, NEW j \in 1 .. N + 1
               PROVE  found[i].nr < t[j].nr
    OBVIOUS
  <2>1. j = N + 1 \/ j \in 1 .. N
    BY ONLY <1>1
  <2> QED
    BY ONLY <1>3, <1>4, <1>5, <2>1, e.nr = n + 1
<1> QED
  BY <1>1, <1>2, <1>3, <1>6, <1>7 DEF Order, Increasing

LEMMA OrderJoined ==
    ASSUME NEW n \in Nat, NEW found, ChanOK(found, n), NEW ch, ChanOK(ch, n), Order(found, ch)
    PROVE  /\ Increasing(found \o ch)
           /\ \A i \in 1 .. Len(found \o ch) : (found \o ch)[i].nr <= n
<1>1. PICK M \in Nat, N \in Nat : M = Len(found) /\ N = Len(ch)
  BY KnownNumbers
<1>2. PICK z : z = found \o ch
  OBVIOUS
<1>3. Len(z) = M + N /\ (\A i \in 1 .. M : z[i] = found[i]) /\ \A i \in 1 .. N : z[M + i] = ch[i]
  <2>1. AList(found) /\ AList(ch)
    BY DEF ChanOK
  <2>2. Joined(found, ch, z)
    BY ONLY <1>2, <2>1, ListConcat, Zenon
  <2> QED
    BY ONLY <1>1, <2>2, Zenon DEF Joined
<1>4. /\ \A i, j \in 1 .. M : i < j => found[i].nr < found[j].nr
      /\ \A i, j \in 1 .. N : i < j => ch[i].nr < ch[j].nr
      /\ \A i \in 1 .. M, j \in 1 .. N : found[i].nr < ch[j].nr
  BY <1>1 DEF Order, Increasing
<1>5. \A i \in 1 .. M + N : i \in 1 .. M \/ (i - M \in 1 .. N /\ z[i] = ch[i - M])
  <2> SUFFICES ASSUME NEW i \in 1 .. M + N, i \notin 1 .. M
               PROVE  i - M \in 1 .. N /\ z[i] = ch[i - M]
    OBVIOUS
  <2>1. i - M \in 1 .. N /\ i = M + (i - M)
    BY ONLY <1>1, i \in 1 .. M + N, i \notin 1 .. M
  <2> QED
    BY ONLY <1>3, <2>1
<1>6. \A i, j \in 1 .. M + N : i < j => z[i].nr < z[j].nr
  <2> SUFFICES ASSUME NEW i \in 1 .. M + N, NEW j \in 1 .. M + N, i < j
               PROVE  z[i].nr < z[j].nr
    OBVIOUS
  <2>1. CASE i \in 1 .. M /\ j \in 1 .. M
    BY ONLY <1>3, <1>4, <2>1, i < j
  <2>2. CASE i \in 1 .. M /\ j \notin 1 .. M
    BY ONLY <1>3, <1>4, <1>5, <2>2, j \in 1 .. M + N
  <2>3. CASE i \notin 1 .. M
    <3>1. j \notin 1 .. M
      BY ONLY <1>1, <2>3, i < j, i \in 1 .. M + N
    <3>2. i - M < j - M
      BY ONLY <1>1, i \in 1 .. M + N, j \in 1 .. M + N, i < j
    <3> QED
      BY ONLY <1>4, <1>5, <2>3, <3>1, <3>2, i \in 1 .. M + N, j \in 1 .. M + N
  <2> QED
    BY ONLY <2>1, <2>2, <2>3
<1>7. \A i \in 1 .. M + N : z[i].nr <= n
  <2>1. ChanOK(z, n)
    BY <1>2, KnownRuns
  <2>2. \A i \in 1 .. Len(z) : z[i].nr \in 1 .. n
    BY ONLY <2>1, n \in Nat, KnownNumbers
  <2> QED
    BY ONLY <1>3, <2>2, n \in Nat
<1> QED
  BY ONLY <1>2, <1>3, <1>6, <1>7, Zenon DEF Increasing

-----------------------------------------------------------------------------
(* Stores compared *)

LEMMA SameStore ==
    ASSUME NEW a, IsStore(a), NEW b, IsStore(b), \A s \in Stores3 : a[s] = b[s]
    PROVE  a = b
<1>1. a.kv = b.kv /\ a.list = b.list /\ a.log = b.log
  BY DEF Stores3
<1> QED
  BY <1>1 DEF IsStore

LEMMA SameContents ==
    ASSUME NEW a, IsStore(a), NEW b, IsStore(b), NEW s \in Stores3, a[s] = b[s]
    PROVE  Contents(a)[s] = Contents(b)[s]
<1>1. CASE s = "kv"
  BY <1>1, ContentsIs
<1>2. CASE s = "log"
  BY <1>2, ContentsIs
<1>3. CASE s = "list"
  <2>1. \A k : Queue(a, k) = Queue(b, k)
    BY <1>3, QueueSame
  <2> QED
    BY <1>3, <2>1, ContentsIs
<1> QED
  BY <1>1, <1>2, <1>3 DEF Stores3

\* The stores but the ones in except hold what a replay of entries builds.
Agrees(st, entries, except) ==
    \A s \in Stores3 \ except : Contents(st)[s] = Contents(Replay(entries))[s]

\* A call whose entry is queued, and one whose entry is not.
LEMMA AgreesLogged ==
    ASSUME NEW a, IsStore(a), NEW log, Runs(log), NEW except, Agrees(a, log, except),
           NEW c \in Calls, NEW e, e.call = c
    PROVE  Agrees(Exec(a, c).store, Append(log, e), except)
<1>1. PICK b, y : b = Replay(log) /\ y = Replay(Append(log, e))
  OBVIOUS
<1>2. y = Exec(b, c).store
  <2>1. ReplayOn(EmptyStore, Append(log, e)) = Exec(ReplayOn(EmptyStore, log), e.call).store
    BY ReplayAppend DEF Runs
  <2> QED
    BY ONLY <1>1, <2>1, e.call = c, Zenon DEF Replay
<1>3. IsStore(b)
  BY <1>1, EmptyIsAStore, ReplayIsAStore DEF Replay
<1>4. ASSUME NEW s \in Stores3, Contents(a)[s] = Contents(b)[s]
      PROVE  Contents(Exec(a, c).store)[s] = Contents(Exec(b, c).store)[s]
  BY <1>3, <1>4, ExecSeen
<1> QED
  BY ONLY <1>1, <1>2, <1>4, Agrees(a, log, except), Zenon DEF Agrees

LEMMA AgreesUnlogged ==
    ASSUME NEW a, IsStore(a), NEW log, Runs(log), NEW except, Agrees(a, log, except),
           NEW c \in Calls, ~(Exec(a, c).ok /\ Logs(c))
    PROVE  Agrees(Exec(a, c).store, log,
                  IF SlipsBy(c, Exec(a, c)) THEN except \cup {Category(c)} ELSE except)
<1>1. PICK b, x, now : /\ b = Replay(log) /\ x = Exec(a, c).store
                       /\ now = IF SlipsBy(c, Exec(a, c)) THEN except \cup {Category(c)}
                                ELSE except
  OBVIOUS
<1>2. IsStore(b)
  BY <1>1, EmptyIsAStore, ReplayIsAStore DEF Replay
<1>3. ASSUME NEW s \in Stores3 \ now PROVE Contents(x)[s] = Contents(b)[s]
  <2>1. s \in Stores3 /\ Contents(a)[s] = Contents(b)[s]
    BY <1>1, <1>3 DEF Agrees
  <2>2. CASE SlipsBy(c, Exec(a, c))
    <3>1. c.op \in Ops
      BY DurabilityAssumption
    <3>2. IsStore(x) /\ \A t \in Stores3 \ {Category(c)} : x[t] = a[t]
      BY <1>1, <3>1, ExecLocal
    <3>3. s # Category(c)
      BY <1>1, <1>3, <2>2
    <3>4. x[s] = a[s]
      BY <2>1, <3>2, <3>3
    <3>5. Contents(x)[s] = Contents(a)[s]
      BY <2>1, <3>2, <3>4, SameContents
    <3> QED
      BY ONLY <2>1, <3>5, Zenon
  <2>3. CASE ~SlipsBy(c, Exec(a, c))
    <3>1. Quiet(a, c)
      BY <2>3 DEF Quiet
    <3>2. Quiet(a, c) => Contents(Exec(a, c).store)[s] = Contents(b)[s]
      BY <1>2, <2>1, ExecSeen
    <3> QED
      BY ONLY <1>1, <3>1, <3>2, Zenon
  <2> QED
    BY ONLY <2>2, <2>3, Zenon
<1>4. Agrees(x, log, now)
  BY ONLY <1>1, <1>3, Zenon DEF Agrees
<1> QED
  BY ONLY <1>1, <1>4, Zenon
-----------------------------------------------------------------------------
(* The invariant is inductive *)

LEMMA MemoryIs == MemoryIsTheReplay <=>
    (phase = "up" /\ ~damaged => Agrees(store, Entries(file) \o chan, unlogged))
  BY DEF MemoryIsTheReplay, Logged, Agrees

LEMMA Starts == Init => IInv
<1> SUFFICES ASSUME Init PROVE IInv
  OBVIOUS
<1>1. /\ phase = "up" /\ store = EmptyStore /\ chan = <<>> /\ file = <<>> /\ todo = Nothing
      /\ calls = 0 /\ crashes = 0 /\ acked = 0 /\ unlogged = {} /\ damaged = FALSE
  BY DEF Init
<1>2. Entries(file) = <<>>
  BY <1>1, EntriesEmpty
<1>3. ChanOK(chan, acked) /\ LinesOK(file, acked) /\ Complete(file)
  BY <1>1, EmptyList DEF ChanOK, LinesOK, Complete
<1>4. Order(Entries(file), chan)
  BY <1>1, <1>2, EmptyList DEF Order, Increasing
<1>5. DOMAIN todo = Stores3 /\ \A s \in Stores3 : TaskOK(todo[s], s)
  BY <1>1, EmptyList DEF Nothing, TaskOK
<1>6. Typed
  <2>1. calls \in 0 .. MaxCalls /\ crashes \in 0 .. MaxCrashes /\ acked \in Nat
    BY <1>1, DurabilityAssumption
  <2>2. phase \in {"up", "down", "replaying"} /\ damaged \in BOOLEAN /\ unlogged \subseteq Stores3
    BY ONLY <1>1, Zenon
  <2>3. IsStore(store)
    BY ONLY <1>1, EmptyIsAStore, Zenon
  <2> QED
    BY ONLY <1>3, <1>5, <2>1, <2>2, <2>3, Zenon DEF Typed
<1>7. Replay(Entries(file) \o chan) = store
  <2>1. <<>> \o <<>> = <<>>
    BY EmptyList, ConcatEmpty
  <2> QED
    BY <1>1, <1>2, <2>1, ReplayEmpty DEF Replay
<1>8. MemoryIsTheReplay
  BY <1>7, MemoryIs DEF Agrees
<1> QED
  BY <1>1, <1>3, <1>4, <1>6, <1>8 DEF IInv, Phases, Intact

LEMMA HandleSteps ==
    ASSUME IInv, NEW c \in Calls, Handle(c)
    PROVE  IInv'
<1>1. PICK r, f, l : r = Exec(store, c) /\ f = Entries(file) /\ l = f \o chan
  OBVIOUS
<1>2. PICK q : q = IF r.ok /\ Logs(c)
                   THEN <<[call |-> c, told |-> r.reply, nr |-> acked + 1]>> ELSE <<>>
  OBVIOUS
<1>3. /\ phase = "up" /\ calls < MaxCalls /\ store' = r.store
      /\ chan' = chan \o q /\ acked' = acked + Len(q) /\ calls' = calls + 1
      /\ unlogged' = IF SlipsBy(c, r) THEN unlogged \cup {Category(c)} ELSE unlogged
      /\ phase' = phase /\ file' = file /\ todo' = todo /\ crashes' = crashes
      /\ damaged' = damaged
  BY <1>1, <1>2 DEF Handle
<1>4. /\ acked \in Nat /\ IsStore(store) /\ ChanOK(chan, acked) /\ LinesOK(file, acked)
      /\ Order(f, chan) /\ (~damaged => Agrees(store, l, unlogged))
  BY <1>1, <1>3, MemoryIs DEF IInv, Typed
<1>5. ChanOK(f, acked)
  BY ONLY <1>1, <1>4, EntriesKnown
<1>6. AList(f) /\ AList(chan) /\ Runs(l)
  BY ONLY <1>1, <1>4, <1>5, KnownRuns
<1>7. c.op \in Ops
  BY DurabilityAssumption
<1>8. IsStore(r.store) /\ Category(c) \in Stores3
  BY <1>1, <1>4, <1>7, ExecLocal
<1>9. /\ acked' \in Nat /\ ChanOK(chan', acked') /\ LinesOK(file', acked') /\ Order(f, chan')
      /\ (~damaged => Agrees(store', f \o chan', unlogged'))
  <2>1. CASE r.ok /\ Logs(c)
    <3>1. PICK e : e = [call |-> c, told |-> r.reply, nr |-> acked + 1]
      OBVIOUS
    <3>2. e.call = c /\ e.nr = acked + 1
      BY <3>1
    <3>3. q = <<e>>
      BY ONLY <1>2, <2>1, <3>1, Zenon
    <3>4. chan' = Append(chan, e) /\ f \o chan' = Append(l, e)
      <4>1. chan \o <<e>> = Append(chan, e) /\ f \o Append(chan, e) = Append(f \o chan, e)
        <5>1. PICK y : y = chan
          OBVIOUS
        <5>2. AList(f) /\ AList(y)
          BY ONLY <1>6, <5>1, Zenon
        <5>3. y \o <<e>> = Append(y, e) /\ f \o Append(y, e) = Append(f \o y, e)
          BY <5>2, ConcatLast
        <5> QED
          BY ONLY <5>1, <5>3
      <4>2. chan' = chan \o <<e>>
        BY ONLY <1>3, <3>3, Zenon
      <4> QED
        BY ONLY <1>1, <4>1, <4>2
    <3>5. acked' = acked + 1
      BY ONLY <1>3, <3>3
    <3>6. LinesOK(file, acked + 1) /\ ChanOK(chan, acked + 1)
      BY ONLY <1>4, KnownLater
    <3>7. ChanOK(chan', acked + 1)
      <4>1. Known(e, acked + 1)
        BY ONLY <1>4, <3>2, c \in Calls DEF Known
      <4>2. Longer(chan, e, chan')
        BY ONLY <1>6, <3>4, ListLonger, Zenon
      <4>3. PICK N \in Nat : N = Len(chan)
        BY ONLY <1>6 DEF AList
      <4>4. /\ AList(chan') /\ Len(chan') = N + 1 /\ chan'[N + 1] = e
            /\ \A i \in 1 .. N : chan'[i] = chan[i]
        BY ONLY <4>2, <4>3, Zenon DEF Longer
      <4>5. \A i \in 1 .. N : Known(chan[i], acked + 1)
        BY ONLY <3>6, <4>3, Zenon DEF ChanOK
      <4>6. \A i \in 1 .. N + 1 : i = N + 1 \/ i \in 1 .. N
        BY ONLY <4>3
      <4>7. \A i \in 1 .. Len(chan') : Known(chan'[i], acked + 1)
        BY ONLY <4>1, <4>4, <4>5, <4>6, Zenon
      <4> QED
        BY ONLY <4>4, <4>7, Zenon DEF ChanOK
    <3>8. Order(f, chan')
      BY ONLY <1>4, <1>5, <3>2, <3>4, OrderQueued
    <3>9. ~damaged => Agrees(store', f \o chan', unlogged')
      <4> SUFFICES ASSUME ~damaged PROVE Agrees(store', f \o chan', unlogged')
        OBVIOUS
      <4>1. Agrees(store', Append(l, e), unlogged)
        BY ONLY <1>1, <1>3, <1>4, <1>6, <3>2, ~damaged, c \in Calls, AgreesLogged, Zenon
      <4>2. unlogged \subseteq unlogged'
        BY <1>3
      <4> QED
        BY ONLY <3>4, <4>1, <4>2, Zenon DEF Agrees
    <3> QED
      BY <1>3, <1>4, <3>5, <3>6, <3>7, <3>8, <3>9
  <2>2. CASE ~(r.ok /\ Logs(c))
    <3>1. q = <<>>
      BY ONLY <1>2, <2>2, Zenon
    <3>2. chan' = chan
      BY ONLY <1>3, <1>6, <3>1, ConcatEmpty, Zenon
    <3>3. acked' = acked
      BY <1>3, <1>4, <3>1, EmptyList
    <3>4. ~damaged => Agrees(store', l, unlogged')
      BY ONLY <1>1, <1>3, <1>4, <1>6, <2>2, c \in Calls, AgreesUnlogged, Zenon
    <3> QED
      BY ONLY <1>1, <1>3, <1>4, <3>2, <3>3, <3>4, Zenon
  <2> QED
    BY ONLY <2>1, <2>2, Zenon
<1>10. Entries(file)' = f
  BY <1>1, <1>3
<1>11. Typed'
  <2>1. calls' \in 0 .. MaxCalls /\ unlogged' \subseteq Stores3
    BY <1>3, <1>8, DurabilityAssumption DEF IInv, Typed
  <2> QED
    BY <1>3, <1>8, <1>9, <2>1 DEF IInv, Typed
<1>12. MemoryIsTheReplay'
  BY <1>3, <1>9, <1>10 DEF MemoryIsTheReplay, Logged, Agrees
<1> QED
  BY <1>1, <1>3, <1>9, <1>10, <1>11, <1>12 DEF IInv, Phases, Intact

\* What the worker and a crash do to the file.
LEMMA FileSteps ==
    ASSUME IInv, chan # <<>>, NEW text \in Cuts, NEW ended \in BOOLEAN,
           NEW after, after = AppendBytes(file, Head(chan), text, ended)
    PROVE  /\ LinesOK(after, acked) /\ ChanOK(Tail(chan), acked)
           /\ Order(Entries(after), Tail(chan)) /\ Order(Entries(after), <<>>)
           /\ Complete(file) /\ text = "entry" /\ ended =>
                Complete(after) /\ Entries(after) \o Tail(chan) = Entries(file) \o chan
<1>1. PICK f, g, e, ch, t, n : /\ f = Entries(file) /\ g = Entries(after) /\ ch = chan
                               /\ e = Head(ch) /\ t = Tail(ch) /\ n = acked
  OBVIOUS
<1>2. n \in Nat /\ ChanOK(ch, n) /\ LinesOK(file, n) /\ Order(f, ch) /\ ch # <<>>
  BY <1>1 DEF IInv, Typed
<1>3. PICK N \in Nat \ {0} : N = Len(ch)
  BY ONLY <1>2, ListTail DEF ChanOK
<1>4. AList(t) /\ Len(t) = N - 1 /\ e = ch[1] /\ \A i \in 1 .. N - 1 : t[i] = ch[i + 1]
  <2>1. AList(ch)
    BY ONLY <1>2 DEF ChanOK
  <2>2. AList(t) /\ Len(t) = Len(ch) - 1 /\ e = ch[1]
        /\ \A i \in 1 .. Len(ch) - 1 : t[i] = ch[i + 1]
    BY ONLY <1>1, <1>2, <2>1, ListTail, Zenon
  <2> QED
    BY ONLY <1>3, <2>2, Zenon
<1>5. Known(e, n) /\ ChanOK(t, n)
  <2>1. \A i \in 1 .. N : Known(ch[i], n)
    BY ONLY <1>2, <1>3, Zenon DEF ChanOK
  <2>2. 1 \in 1 .. N /\ \A i \in 1 .. N - 1 : i + 1 \in 1 .. N
    BY ONLY <1>3
  <2>3. \A i \in 1 .. Len(t) : Known(t[i], n)
    BY ONLY <1>4, <2>1, <2>2, Zenon
  <2> QED
    BY ONLY <1>4, <2>1, <2>2, <2>3, Zenon DEF ChanOK
<1>6. after = AppendBytes(file, e, text, ended)
  BY ONLY <1>1, after = AppendBytes(file, Head(chan), text, ended), Zenon
<1>7. /\ LinesOK(after, n) /\ Grows(f, g, e)
      /\ Complete(file) /\ text = "entry" /\ ended => Complete(after) /\ g = Append(f, e)
  <2>1. LinesOK(file, n) /\ Known(e, n)
    BY ONLY <1>2, <1>5, Zenon
  <2>2. /\ LinesOK(after, n) /\ Grows(Entries(file), Entries(after), e)
        /\ Complete(file) /\ text = "entry" /\ ended =>
             Complete(after) /\ Entries(after) = Append(Entries(file), e)
    BY <1>6, <2>1, BytesAppended
  <2> QED
    BY ONLY <1>1, <2>2, Zenon
<1>8. ChanOK(f, n) /\ ChanOK(g, n)
  BY ONLY <1>1, <1>2, <1>7, EntriesKnown, Zenon
<1>9. Order(g, t) /\ Order(g, <<>>)
  BY ONLY <1>1, <1>2, <1>7, <1>8, OrderWritten, Zenon
<1>10. Append(f, e) \o t = f \o ch
  <2>1. AList(f) /\ AList(ch)
    BY ONLY <1>2, <1>8 DEF ChanOK
  <2> QED
    BY ONLY <1>1, <1>2, <2>1, ConcatMove, Zenon
<1> QED
  BY ONLY <1>1, <1>5, <1>7, <1>9, <1>10, Zenon

LEMMA WriteSteps ==
    ASSUME IInv, WriteEntry
    PROVE  IInv'
<1>1. /\ phase = "up" /\ chan # <<>> /\ chan' = Tail(chan) /\ phase' = phase
      /\ store' = store /\ todo' = todo /\ calls' = calls /\ crashes' = crashes
      /\ acked' = acked /\ unlogged' = unlogged /\ damaged' = damaged
  BY DEF WriteEntry, history
<1>2. PICK after : after = file'
  OBVIOUS
<1>3. after = AppendBytes(file, Head(chan), "entry", TRUE)
  BY <1>2 DEF WriteEntry
<1>4. /\ LinesOK(after, acked) /\ ChanOK(Tail(chan), acked) /\ Order(Entries(after), Tail(chan))
      /\ (Complete(file) /\ "entry" = "entry" /\ TRUE =>
            Complete(after) /\ Entries(after) \o Tail(chan) = Entries(file) \o chan)
  <2>1. "entry" \in Cuts /\ TRUE \in BOOLEAN
    BY DEF Cuts
  <2> QED
    BY <1>1, <1>3, <2>1, FileSteps
<1>5. Complete(file) =>
        Complete(after) /\ Entries(after) \o Tail(chan) = Entries(file) \o chan
  BY ONLY <1>4, Zenon
<1>6. Typed'
  BY <1>1, <1>2, <1>4 DEF IInv, Typed
<1>7. MemoryIsTheReplay'
  <2> SUFFICES ASSUME ~damaged
               PROVE  Agrees(store, Entries(after) \o Tail(chan), unlogged)
    BY <1>1, <1>2 DEF MemoryIsTheReplay, Logged, Agrees
  <2>1. Agrees(store, Entries(file) \o chan, unlogged)
    BY <1>1, MemoryIs DEF IInv
  <2>2. Complete(file)
    BY DEF IInv, Intact
  <2> QED
    BY ONLY <1>5, <2>1, <2>2, Zenon
<1> QED
  BY <1>1, <1>2, <1>4, <1>5, <1>6, <1>7 DEF IInv, Phases, Intact

LEMMA FailSteps ==
    ASSUME IInv, WriteFails
    PROVE  IInv'
<1>1. /\ phase = "up" /\ chan # <<>> /\ chan' = Tail(chan) /\ phase' = phase
      /\ store' = store /\ todo' = todo /\ calls' = calls /\ crashes' = crashes
      /\ acked' = acked /\ unlogged' = unlogged /\ damaged' = TRUE
  BY DEF WriteFails
<1>2. PICK after : after = file'
  OBVIOUS
<1>3. LinesOK(after, acked) /\ ChanOK(Tail(chan), acked) /\ Order(Entries(after), Tail(chan))
  <2>1. CASE after = file
    <3>1. acked \in Nat /\ LinesOK(file, acked) /\ ChanOK(chan, acked)
          /\ Order(Entries(file), chan)
      BY DEF IInv, Typed
    <3>2. ChanOK(Entries(file), acked)
      BY ONLY <3>1, EntriesKnown
    <3>3. Grows(Entries(file), Entries(file), Head(chan))
      BY DEF Grows
    <3>4. Order(Entries(file), Tail(chan))
      BY ONLY <1>1, <3>1, <3>2, <3>3, OrderWritten
    <3>5. ChanOK(Tail(chan), acked)
      <4>1. "entry" \in Cuts /\ TRUE \in BOOLEAN
        BY DEF Cuts
      <4> QED
        BY <1>1, <4>1, FileSteps
    <3> QED
      BY ONLY <2>1, <3>1, <3>4, <3>5, Zenon
  <2>2. CASE \E cut \in Cuts : after = AppendBytes(file, Head(chan), cut, FALSE)
    <3>1. PICK cut \in Cuts : after = AppendBytes(file, Head(chan), cut, FALSE)
      BY <2>2
    <3>2. FALSE \in BOOLEAN
      OBVIOUS
    <3> QED
      BY <1>1, <3>1, <3>2, FileSteps
  <2> QED
    BY <1>2, <2>1, <2>2 DEF WriteFails
<1>4. Typed'
  BY <1>1, <1>2, <1>3 DEF IInv, Typed
<1>5. MemoryIsTheReplay' /\ Intact'
  BY <1>1 DEF MemoryIsTheReplay, Intact
<1> QED
  BY <1>1, <1>2, <1>3, <1>4, <1>5 DEF IInv, Phases

LEMMA CrashSteps ==
    ASSUME IInv, Crash
    PROVE  IInv'
<1>1. /\ phase' = "down" /\ crashes < MaxCrashes /\ store' = EmptyStore /\ chan' = <<>>
      /\ todo' = Nothing /\ unlogged' = {} /\ crashes' = crashes + 1
      /\ calls' = calls /\ acked' = acked
  BY DEF Crash
<1>2. PICK after : after = file'
  OBVIOUS
<1>3. LinesOK(after, acked) /\ Order(Entries(after), <<>>) /\ Intact' /\ damaged' \in BOOLEAN
  <2>1. CASE UNCHANGED <<file, damaged>>
    <3>1. LinesOK(file, acked) /\ Order(Entries(file), chan) /\ Intact /\ damaged \in BOOLEAN
      BY DEF IInv, Typed
    <3>2. Order(Entries(file), <<>>)
      BY <3>1, EmptyList DEF Order, Increasing
    <3>3. Intact'
      BY <2>1, <3>1 DEF Intact
    <3> QED
      BY <1>2, <2>1, <3>1, <3>2, <3>3
  <2>2. CASE /\ chan # <<>> /\ damaged' = TRUE
             /\ \E cut \in Cuts : after = AppendBytes(file, Head(chan), cut, FALSE)
    <3>1. PICK cut \in Cuts : after = AppendBytes(file, Head(chan), cut, FALSE)
      BY <2>2
    <3>2. FALSE \in BOOLEAN
      OBVIOUS
    <3>3. LinesOK(after, acked) /\ Order(Entries(after), <<>>)
      BY <2>2, <3>1, <3>2, FileSteps
    <3> QED
      BY <2>2, <3>3 DEF Intact
  <2> QED
    BY <1>2, <2>1, <2>2 DEF Crash
<1>4. Typed'
  <2>1. crashes' \in 0 .. MaxCrashes /\ calls' \in 0 .. MaxCalls /\ acked' \in Nat
    BY <1>1, DurabilityAssumption DEF IInv, Typed
  <2>2. ChanOK(chan', acked')
    BY <1>1, EmptyList DEF ChanOK
  <2>3. DOMAIN todo' = Stores3 /\ \A s \in Stores3 : TaskOK(todo'[s], s)
    BY <1>1, EmptyList DEF Nothing, TaskOK
  <2>4. IsStore(store') /\ LinesOK(file', acked')
    BY <1>1, <1>2, <1>3, EmptyIsAStore
  <2> QED
    BY <1>1, <1>3, <2>1, <2>2, <2>3, <2>4 DEF Typed
<1>5. MemoryIsTheReplay' /\ Phases'
  BY <1>1 DEF MemoryIsTheReplay, Phases
<1> QED
  BY <1>1, <1>2, <1>3, <1>4, <1>5 DEF IInv

LEMMA LoadSteps ==
    ASSUME IInv, LoadAof
    PROVE  IInv'
<1>1. /\ phase = "down" /\ phase' = "replaying" /\ store' = store /\ chan' = chan /\ file' = file
      /\ todo' = [s \in Stores3 |-> EntriesOf(s, Entries(file))]
      /\ calls' = calls /\ crashes' = crashes
      /\ acked' = acked /\ unlogged' = unlogged /\ damaged' = damaged
  BY DEF LoadAof, history
<1>2. PICK f : f = Entries(file)
  OBVIOUS
<1>3. ChanOK(f, acked)
  BY <1>2, EntriesKnown DEF IInv, Typed
<1>4. Runs(f) /\ \A n \in 1 .. Len(f) : f[n].call \in Calls
  BY <1>3, KnownRuns DEF ChanOK, Known
<1>5. \A s \in Stores3 : TaskOK(todo'[s], s)
  <2> SUFFICES ASSUME NEW s \in Stores3 PROVE TaskOK(todo'[s], s)
    OBVIOUS
  <2>1. PICK p : p = EntriesOf(s, f)
    OBVIOUS
  <2>2. todo'[s] = p
    BY <1>1, <1>2, <2>1
  <2>3. /\ Runs(p)
        /\ \A i \in 1 .. Len(p) : /\ Category(p[i].call) = s
                                  /\ \E n \in 1 .. Len(f) : p[i] = f[n]
    <3>1. /\ Runs(EntriesOf(s, f))
          /\ \A i \in 1 .. Len(EntriesOf(s, f)) :
                /\ Category(EntriesOf(s, f)[i].call) = s
                /\ \E n \in 1 .. Len(f) : EntriesOf(s, f)[i] = f[n]
      BY <1>4, EntriesOfRun
    <3> QED
      BY ONLY <2>1, <3>1, Zenon
  <2>4. AList(p)
    BY ONLY <2>3 DEF Runs
  <2>5. \A i \in 1 .. Len(p) : p[i].call \in Calls /\ Category(p[i].call) = s
    BY ONLY <1>4, <2>3
  <2>6. TaskOK(p, s)
    BY ONLY <2>4, <2>5, Zenon DEF TaskOK
  <2> QED
    BY ONLY <2>2, <2>6, Zenon
<1>6. \A s \in Stores3 : ReplayOn(store', todo'[s])[s] = Replay(f)[s]
  <2> SUFFICES ASSUME NEW s \in Stores3 PROVE ReplayOn(store', todo'[s])[s] = Replay(f)[s]
    OBVIOUS
  <2>1. todo'[s] = EntriesOf(s, f)
    BY <1>1, <1>2
  <2>2. store' = EmptyStore
    BY <1>1 DEF IInv, Phases
  <2>3. Replay(EntriesOf(s, f))[s] = Replay(f)[s]
    BY <1>4, ReplayPart
  <2> QED
    BY ONLY <2>1, <2>2, <2>3, Zenon DEF Replay
<1>7. Typed'
  <2>1. DOMAIN todo' = Stores3
    BY <1>1
  <2> QED
    BY <1>1, <1>5, <2>1 DEF IInv, Typed
<1>8. Phases'
  <2>1. chan = <<>>
    BY <1>1 DEF IInv, Phases
  <2> QED
    BY <1>1, <1>2, <1>6, <2>1 DEF Phases
<1>9. MemoryIsTheReplay' /\ Intact'
  BY <1>1 DEF IInv, MemoryIsTheReplay, Intact
<1> QED
  BY <1>1, <1>7, <1>8, <1>9 DEF IInv

\* The argument why the three replay tasks need not wait for one another: an
\* entry changes the store of its own task only, and by what that store holds.
LEMMA ApplySteps ==
    ASSUME IInv, NEW t \in Stores3, ApplyNext(t)
    PROVE  IInv'
<1>1. /\ phase = "replaying" /\ todo[t] # <<>> /\ phase' = phase /\ chan' = chan /\ file' = file
      /\ store' = Exec(store, Head(todo[t]).call).store
      /\ todo' = [todo EXCEPT ![t] = Tail(@)]
      /\ calls' = calls /\ crashes' = crashes
      /\ acked' = acked /\ unlogged' = unlogged /\ damaged' = damaged
  BY DEF ApplyNext, history
<1>2. /\ IsStore(store) /\ DOMAIN todo = Stores3 /\ \A s \in Stores3 : TaskOK(todo[s], s)
  BY DEF IInv, Typed
<1>3. PICK a, b, es, c, f, r : /\ a = store /\ es = todo[t] /\ c = Head(es).call /\ r = Tail(es)
                               /\ b = Exec(a, c).store /\ f = Entries(file)
  OBVIOUS
<1>4. AList(es) /\ es # <<>> /\ \A i \in 1 .. Len(es) : /\ es[i].call \in Calls
                                                       /\ Category(es[i].call) = t
  BY <1>1, <1>2, <1>3 DEF TaskOK
<1>5. PICK N \in Nat \ {0} : N = Len(es)
  BY ONLY <1>4, ListTail
<1>6. AList(r) /\ Len(r) = N - 1 /\ Head(es) = es[1] /\ \A i \in 1 .. N - 1 : r[i] = es[i + 1]
  <2>1. /\ AList(r) /\ Len(r) = Len(es) - 1
        /\ Head(es) = es[1] /\ \A i \in 1 .. Len(es) - 1 : r[i] = es[i + 1]
    BY ONLY <1>3, <1>4, ListTail, Zenon
  <2> QED
    BY ONLY <1>5, <2>1, Zenon
<1>7. c \in Calls /\ Category(c) = t
  BY ONLY <1>3, <1>4, <1>5, <1>6
<1>8. TaskOK(r, t)
  <2>1. \A i \in 1 .. N - 1 : i + 1 \in 1 .. N
    BY ONLY <1>5
  <2>2. \A i \in 1 .. Len(r) : r[i].call \in Calls /\ Category(r[i].call) = t
    BY ONLY <1>4, <1>5, <1>6, <2>1
  <2> QED
    BY ONLY <1>6, <2>2, Zenon DEF TaskOK
<1>9. IsStore(b) /\ \A s \in Stores3 \ {t} : b[s] = a[s]
  <2>1. c.op \in Ops /\ IsStore(a)
    BY <1>2, <1>3, <1>7, DurabilityAssumption
  <2> QED
    BY ONLY <1>3, <1>7, <2>1, ExecLocal
<1>10. store' = b /\ todo'[t] = r /\ DOMAIN todo' = Stores3
       /\ \A s \in Stores3 \ {t} : todo'[s] = todo[s]
  BY <1>1, <1>2, <1>3
<1>11. \A s \in Stores3 : ReplayOn(a, todo[s])[s] = Replay(f)[s]
  BY <1>1, <1>3 DEF IInv, Phases
<1>12. ReplayOn(b, r)[t] = Replay(f)[t]
  <2>1. ReplayOn(a, es) = ReplayOn(Exec(a, Head(es).call).store, Tail(es))
    BY ONLY <1>4, ReplayHead, Zenon
  <2> QED
    BY ONLY <1>3, <1>11, <2>1, t \in Stores3, Zenon
<1>13. ASSUME NEW s \in Stores3 \ {t} PROVE ReplayOn(b, todo[s])[s] = Replay(f)[s]
  <2>1. PICK us : us = todo[s]
    OBVIOUS
  <2>2. AList(us) /\ \A i \in 1 .. Len(us) : us[i].call \in Calls /\ Category(us[i].call) = s
    BY <1>2, <2>1 DEF TaskOK
  <2>3. Runs(us)
    BY ONLY <2>2, DurabilityAssumption DEF Runs
  <2>4. IsStore(a) /\ b[s] = a[s] /\ s \in Stores3
    BY <1>2, <1>3, <1>9
  <2>5. ReplayOn(b, us)[s] = ReplayOn(a, us)[s]
    BY ONLY <1>9, <2>2, <2>3, <2>4, ReplayLocal
  <2> QED
    BY ONLY <1>11, <2>1, <2>4, <2>5, Zenon
<1>14. Typed'
  <2>1. \A s \in Stores3 : TaskOK(todo'[s], s)
    BY ONLY <1>2, <1>8, <1>10, Zenon
  <2> QED
    BY <1>1, <1>9, <1>10, <2>1 DEF IInv, Typed
<1>15. Phases'
  <2>1. \A s \in Stores3 : ReplayOn(store', todo'[s])[s] = Replay(f)[s]
    BY ONLY <1>10, <1>12, <1>13, Zenon
  <2> QED
    BY <1>1, <1>3, <2>1 DEF IInv, Phases
<1>16. MemoryIsTheReplay' /\ Intact'
  BY <1>1 DEF IInv, MemoryIsTheReplay, Intact
<1> QED
  BY <1>1, <1>14, <1>15, <1>16 DEF IInv

LEMMA ReplayEnds ==
    ASSUME IInv, phase = "replaying", todo = Nothing
    PROVE  store = Replay(Entries(file))
<1>1. PICK f : f = Entries(file)
  OBVIOUS
<1>2. IsStore(store) /\ ChanOK(f, acked)
  BY <1>1, EntriesKnown DEF IInv, Typed
<1>3. IsStore(Replay(f))
  BY <1>2, KnownRuns, EmptyIsAStore, ReplayIsAStore DEF Replay
<1>4. \A s \in Stores3 : store[s] = Replay(f)[s]
  <2> SUFFICES ASSUME NEW s \in Stores3 PROVE store[s] = Replay(f)[s]
    OBVIOUS
  <2>1. ReplayOn(store, todo[s])[s] = Replay(f)[s]
    BY <1>1 DEF IInv, Phases
  <2>2. todo[s] = <<>>
    BY DEF Nothing
  <2>3. ReplayOn(store, <<>>) = store
    BY ReplayEmpty
  <2> QED
    BY ONLY <2>1, <2>2, <2>3, Zenon
<1> QED
  BY ONLY <1>1, <1>2, <1>3, <1>4, SameStore

LEMMA DoneSteps ==
    ASSUME IInv, ReplayDone
    PROVE  IInv'
<1>1. /\ phase = "replaying" /\ todo = Nothing /\ phase' = "up"
      /\ store' = store /\ chan' = chan /\ file' = file /\ todo' = todo
      /\ calls' = calls /\ crashes' = crashes
      /\ acked' = acked /\ unlogged' = unlogged /\ damaged' = damaged
  BY DEF ReplayDone, history
<1>2. PICK f : f = Entries(file)
  OBVIOUS
<1>3. store = Replay(f) /\ chan = <<>>
  BY <1>1, <1>2, ReplayEnds DEF IInv, Phases
<1>4. f \o chan = f
  <2>1. AList(f)
    BY <1>2, EntriesKnown DEF IInv, Typed, ChanOK
  <2> QED
    BY ONLY <1>3, <2>1, ConcatEmpty, Zenon
<1>5. MemoryIsTheReplay'
  BY <1>1, <1>2, <1>3, <1>4 DEF MemoryIsTheReplay, Logged
<1>6. Typed' /\ Phases' /\ Intact'
  BY <1>1 DEF IInv, Typed, Phases, Intact
<1> QED
  BY <1>1, <1>5, <1>6 DEF IInv

LEMMA Steps == IInv /\ [Next]_vars => IInv'
<1> SUFFICES ASSUME IInv, [Next]_vars PROVE IInv'
  OBVIOUS
<1>1. ASSUME NEW c \in Calls, HandleKv(c) \/ HandleLog(c) \/ HandleList(c) PROVE IInv'
  BY <1>1, HandleSteps DEF HandleKv, HandleLog, HandleList
<1>2. CASE WriteEntry
  BY <1>2, WriteSteps
<1>3. CASE WriteFails
  BY <1>3, FailSteps
<1>4. CASE Crash
  BY <1>4, CrashSteps
<1>5. CASE LoadAof
  BY <1>5, LoadSteps
<1>6. ASSUME NEW s \in Stores3, ApplyNext(s) PROVE IInv'
  BY <1>6, ApplySteps
<1>7. CASE ReplayDone
  BY <1>7, DoneSteps
<1>8. CASE LoadPanics \/ UNCHANGED vars
  <2>1. /\ phase' = phase /\ store' = store /\ chan' = chan /\ file' = file /\ todo' = todo
        /\ calls' = calls /\ crashes' = crashes
        /\ acked' = acked /\ unlogged' = unlogged /\ damaged' = damaged
    BY <1>8 DEF LoadPanics, vars, history
  <2> QED
    BY <2>1 DEF IInv, Typed, Phases, Intact, MemoryIsTheReplay, Logged
<1> QED
  BY <1>1, <1>2, <1>3, <1>4, <1>5, <1>6, <1>7, <1>8 DEF Next

LEMMA Invariant == Spec => []IInv
  BY Starts, Steps, PTL DEF Spec
-----------------------------------------------------------------------------
(* The theorems *)

\* Of every reachable state: the channel holds calls, only the last line of the
\* file can lack its newline, and each replay task has the entries of its store.
THEOREM Types == Spec => []TypeOK
<1>1. IInv => TypeOK
  <2> SUFFICES ASSUME IInv PROVE TypeOK
    OBVIOUS
  <2>1. /\ phase \in {"up", "down", "replaying"} /\ unlogged \subseteq Stores3
        /\ calls \in 0 .. MaxCalls /\ crashes \in 0 .. MaxCrashes
        /\ ChanOK(chan, acked) /\ LinesOK(file, acked) /\ \A s \in Stores3 : TaskOK(todo[s], s)
    BY DEF IInv, Typed
  <2>2. \A i \in DOMAIN chan : chan[i].call \in Calls
    BY <2>1 DEF ChanOK, AList, Known
  <2>3. \A i \in DOMAIN file : file[i].text \in Cuts /\ (~file[i].ended => i = Len(file))
    <3>1. DOMAIN file = 1 .. Len(file)
      BY <2>1 DEF LinesOK, AList
    <3> QED
      BY ONLY <2>1, <3>1, Zenon DEF LinesOK, LineOK
  <2>4. \A s \in Stores3 : \A i \in DOMAIN todo[s] : Category(todo[s][i].call) = s
    <3> SUFFICES ASSUME NEW s \in Stores3
                 PROVE  \A i \in DOMAIN todo[s] : Category(todo[s][i].call) = s
      OBVIOUS
    <3>1. DOMAIN todo[s] = 1 .. Len(todo[s])
      BY <2>1 DEF TaskOK, AList
    <3> QED
      BY ONLY <2>1, <3>1, Zenon DEF TaskOK
  <2> QED
    BY ONLY <2>1, <2>2, <2>3, <2>4, Zenon DEF TypeOK
<1> QED
  BY <1>1, Invariant, PTL

\* However writes, failed writes, cut lines and crashes follow one another, the
\* entries of the file and then of the channel are in the order in which the
\* handlers changed the stores, and no entry is there twice.
THEOREM OrderIsKept == Spec => []LogKeepsTheOrder
<1>1. IInv => LogKeepsTheOrder
  <2> SUFFICES ASSUME IInv PROVE LogKeepsTheOrder
    OBVIOUS
  <2>1. /\ acked \in Nat /\ ChanOK(chan, acked) /\ LinesOK(file, acked)
        /\ Order(Entries(file), chan)
    BY DEF IInv, Typed
  <2>2. ChanOK(Entries(file), acked)
    BY ONLY <2>1, EntriesKnown
  <2>3. /\ Increasing(Entries(file) \o chan)
        /\ \A i \in 1 .. Len(Entries(file) \o chan) : (Entries(file) \o chan)[i].nr <= acked
    BY ONLY <2>1, <2>2, OrderJoined
  <2> QED
    BY ONLY <2>3, Zenon DEF LogKeepsTheOrder, Logged, Increasing
<1> QED
  BY <1>1, Invariant, PTL

\* While no write was cut or lost, what the handlers of db.rs keep in memory and
\* what a replay of their log builds are the same to every reader, but for the
\* stores that kv_flush or a range failing half way changed since the last start.
THEOREM MemoryIsReplayed == Spec => []MemoryIsTheReplay
<1>1. IInv => MemoryIsTheReplay
  BY DEF IInv
<1> QED
  BY <1>1, Invariant, PTL

\* DB::new ends with the stores that applying the file's entries one by one, in
\* their order, builds: however its three replay tasks were interleaved.
THEOREM ReplayTasksAgree == Spec => ReplayIsSequential
<1>1. ASSUME IInv, [Next]_vars
      PROVE  [phase = "replaying" /\ phase' = "up" => store' = Replay(Entries(file))]_vars
  <2> SUFFICES ASSUME phase = "replaying", phase' = "up"
               PROVE  store' = Replay(Entries(file))
    OBVIOUS
  <2>1. ReplayDone
    <3>1. phase' # phase
      OBVIOUS
    <3> QED
      BY <1>1, <3>1 DEF Next, HandleKv, HandleLog, HandleList, Handle, WriteEntry, WriteFails,
                        Crash, LoadAof, LoadPanics, ApplyNext, vars
  <2> QED
    BY <1>1, <2>1, ReplayEnds DEF ReplayDone
<1> QED
  BY <1>1, Invariant, PTL DEF Spec, ReplayIsSequential
=============================================================================
