------------------------- MODULE ReplicationProofs -------------------------
(***************************************************************************)
(* Proofs about Replication, for any set of nodes, roles and registrations *)
(* and any number of crashes, failed connections and failed writes.        *)
(***************************************************************************)
EXTENDS Replication, ProofLemmas

Kinds == {"main", "start", "register", "reg", "beat"}
Tasks == Kinds \X Origins

\* A registration that has a place in the queue of its node, and one that has
\* got past it.
Busy    == {"queued", "beating", "listing", "copying", "syncing"}
Serving == {"beating", "listing", "copying", "syncing"}

\* Who waits in the queues h, and who is at the head.
In(h, n, t)      == t \in ToSet(h[n])
HoldsIn(h, n, t) == h[n] # <<>> /\ Head(h[n]) = t

\* Functions and records have their shapes.
IsStart(r) == r = [step |-> r.step, left |-> r.left, entry |-> r.entry]
IsBeat(r)  == r = [step |-> r.step, left |-> r.left]
IsReg(r)   == r = [step |-> r.step, at |-> r.at, addr |-> r.addr, copy |-> r.copy]

MainOK(mn)  == mn \in [Nodes -> {"down", "starting", "locking", "registering", "listening"}]
StartOK(st) == DOMAIN st = Nodes /\ st = [n \in Nodes |-> st[n]] /\ \A n \in Nodes : IsStart(st[n])
BeatOK(bt)  == /\ DOMAIN bt = Nodes /\ bt = [n \in Nodes |-> bt[n]]
               /\ \A n \in Nodes : /\ IsBeat(bt[n]) /\ bt[n].left \in Seq(Nodes)
                                   /\ bt[n].step \in {"connecting", "beating", "missed"} =>
                                        bt[n].left # <<>>
RegOK(rg)   == /\ DOMAIN rg = Origins /\ rg = [o \in Origins |-> rg[o]]
               /\ \A o \in Origins : IsReg(rg[o]) /\ rg[o].at \in Nodes /\ rg[o].addr \in Nodes
QueuesOK(h) == h \in [Nodes -> Seq(Tasks)] /\ \A n \in Nodes : IsInjective(h[n])
LogsOK(l, f) == /\ DOMAIN l = Nodes /\ l = [n \in Nodes |-> l[n]]
                /\ DOMAIN f = Nodes /\ f = [n \in Nodes |-> f[n]]
                /\ \A n \in Nodes : AList(l[n]) /\ f[n] \in 0 .. Len(l[n])

Shapes ==
    /\ MainOK(main) /\ StartOK(start) /\ BeatOK(beat) /\ RegOK(reg) /\ QueuesOK(ha)
    /\ LogsOK(log, file)
    /\ followers \in [Nodes -> Seq(Nodes)] /\ misses \in [Nodes -> [Nodes -> 0 .. 3]]

\* Only tasks that wait are in a queue, and only a node that listens is called.
MainPlaces(h, mn) ==
    \A n \in Nodes, o \in Origins :
        In(h, n, <<"main", o>>) => o = n /\ mn[n] \in {"locking", "registering"}
StartPlaces(h, st) ==
    \A n \in Nodes, o \in Origins :
        In(h, n, <<"start", o>>) => o = n /\ st[n].step \in {"queued", "pushing"}
RegisterPlaces(h, rg) ==
    \A n \in Nodes, o \in Origins :
        In(h, n, <<"register", o>>) => rg[o].at = n /\ rg[o].step \in Busy
RegPlaces(h, rg, mn) ==
    \A n \in Nodes, o \in Origins :
        In(h, n, <<"reg", o>>) =>
            rg[o].addr = n /\ rg[o].step = "beating" /\ mn[n] = "listening"
BeatPlaces(h, bt, mn) ==
    \A n \in Nodes, o \in Origins :
        In(h, n, <<"beat", o>>) => /\ o \in Nodes /\ bt[o].step = "beating"
                                   /\ Head(bt[o].left) = n /\ mn[n] = "listening"

\* Whoever is past its place has the lock.
MainHolds(h, mn)  == \A n \in Nodes : mn[n] = "registering" => HoldsIn(h, n, <<"main", n>>)
StartHolds(h, st) == \A n \in Nodes : st[n].step = "pushing" => HoldsIn(h, n, <<"start", n>>)
RegHolds(h, rg)   ==
    \A o \in Origins : rg[o].step \in Serving => HoldsIn(h, rg[o].at, <<"register", o>>)

\* A node asks to be registered only while its main waits for the answer, or
\* has ended meanwhile.
Asks(mn, rg) ==
    \A n \in Nodes : mn[n] \notin {"down", "registering"} => rg[n].step = "none"

\* A process that does not run has no tasks; the heartbeats begin as it listens.
Quiet(mn, st, bt) ==
    \A n \in Nodes : /\ mn[n] = "down" => st[n].step = "none"
                     /\ mn[n] # "listening" => bt[n].step = "none"

Places  == /\ MainPlaces(ha, main) /\ StartPlaces(ha, start) /\ RegisterPlaces(ha, reg)
           /\ RegPlaces(ha, reg, main) /\ BeatPlaces(ha, beat, main)
Holders == MainHolds(ha, main) /\ StartHolds(ha, start) /\ RegHolds(ha, reg)
IInv == /\ Shapes /\ Places /\ Holders /\ Asks(main, reg) /\ Quiet(main, start, beat)
-----------------------------------------------------------------------------
(* The queues for the locks: a task enters, the holder leaves, a node ends *)

Entered(h, g, n, t) ==
    /\ QueuesOK(g)
    /\ \A m \in Nodes : \A x : In(g, m, x) <=> In(h, m, x) \/ (m = n /\ x = t)
    /\ \A m \in Nodes : \A x : HoldsIn(h, m, x) => HoldsIn(g, m, x)

Released(h, g, n, t) ==
    /\ QueuesOK(g)
    /\ \A m \in Nodes : \A x : In(g, m, x) <=> In(h, m, x) /\ ~(m = n /\ x = t)
    /\ \A m \in Nodes : \A x : HoldsIn(h, m, x) /\ ~(m = n /\ x = t) => HoldsIn(g, m, x)

Ended(h, g, n, leaving) ==
    /\ QueuesOK(g)
    /\ \A m \in Nodes : \A x : In(g, m, x) <=> In(h, m, x) /\ m # n /\ x \notin leaving
    /\ \A m \in Nodes : \A x : HoldsIn(h, m, x) /\ m # n /\ x \notin leaving => HoldsIn(g, m, x)

LEMMA HolderIsIn ==
    ASSUME NEW h, QueuesOK(h), NEW n \in Nodes, NEW t, HoldsIn(h, n, t)
    PROVE  In(h, n, t) /\ t \in Tasks
<1>1. PICK q : q = h[n]
  OBVIOUS
<1>2. q \in Seq(Tasks) /\ IsInjective(q) /\ q # <<>> /\ Head(q) = t
  BY <1>1 DEF QueuesOK, HoldsIn
<1>3. Head(q) \in ToSet(q) /\ Head(q) \in Tasks
  BY ONLY <1>2, InjectiveTail
<1> QED
  BY ONLY <1>1, <1>2, <1>3, Zenon DEF In

LEMMA EnterQueue ==
    ASSUME NEW h, QueuesOK(h), NEW n \in Nodes, NEW t \in Tasks, ~In(h, n, t),
           NEW g, g = [h EXCEPT ![n] = Append(@, t)]
    PROVE  Entered(h, g, n, t)
<1>1. PICK q, p : q = h[n] /\ p = Append(q, t)
  OBVIOUS
<1>2. h \in [Nodes -> Seq(Tasks)] /\ q \in Seq(Tasks) /\ IsInjective(q) /\ t \notin ToSet(q)
  BY <1>1 DEF QueuesOK, In
<1>3. /\ p \in Seq(Tasks) /\ IsInjective(p) /\ ToSet(p) = ToSet(q) \cup {t}
      /\ q # <<>> => Head(p) = Head(q)
      /\ p # <<>>
  <2>1. Len(p) = Len(q) + 1 /\ Len(q) \in Nat /\ p \in Seq(Tasks)
    BY ONLY <1>1, <1>2, t \in Tasks
  <2>2. p # <<>>
    BY ONLY <2>1
  <2> QED
    BY ONLY <1>1, <1>2, <2>2, t \in Tasks, InjectiveAppend
<1>4. g \in [Nodes -> Seq(Tasks)] /\ g[n] = p /\ \A m \in Nodes \ {n} : g[m] = h[m]
  BY ONLY <1>1, <1>2, <1>3, n \in Nodes, g = [h EXCEPT ![n] = Append(@, t)]
<1>5. QueuesOK(g)
  BY <1>3, <1>4 DEF QueuesOK
<1>6. \A m \in Nodes : \A x : In(g, m, x) <=> In(h, m, x) \/ (m = n /\ x = t)
  <2> SUFFICES ASSUME NEW m \in Nodes, NEW x
               PROVE  In(g, m, x) <=> In(h, m, x) \/ (m = n /\ x = t)
    OBVIOUS
  <2>1. CASE m = n
    BY ONLY <1>1, <1>3, <1>4, <2>1 DEF In
  <2>2. CASE m # n
    BY ONLY <1>4, <2>2, m \in Nodes DEF In
  <2> QED
    BY <2>1, <2>2
<1>7. \A m \in Nodes : \A x : HoldsIn(h, m, x) => HoldsIn(g, m, x)
  BY ONLY <1>1, <1>3, <1>4, n \in Nodes DEF HoldsIn
<1> QED
  BY ONLY <1>5, <1>6, <1>7, Zenon DEF Entered

LEMMA ReleaseQueue ==
    ASSUME NEW h, QueuesOK(h), NEW n \in Nodes, NEW t, HoldsIn(h, n, t),
           NEW g, g = [h EXCEPT ![n] = Tail(@)]
    PROVE  Released(h, g, n, t)
<1>1. PICK q, p : q = h[n] /\ p = Tail(q)
  OBVIOUS
<1>2. h \in [Nodes -> Seq(Tasks)] /\ q \in Seq(Tasks) /\ IsInjective(q) /\ q # <<>> /\ Head(q) = t
  BY <1>1 DEF QueuesOK, HoldsIn
<1>3. p \in Seq(Tasks) /\ IsInjective(p) /\ ToSet(p) = ToSet(q) \ {t}
  BY ONLY <1>1, <1>2, InjectiveTail
<1>4. g \in [Nodes -> Seq(Tasks)] /\ g[n] = p /\ \A m \in Nodes \ {n} : g[m] = h[m]
  BY ONLY <1>1, <1>2, <1>3, n \in Nodes, g = [h EXCEPT ![n] = Tail(@)]
<1>5. QueuesOK(g)
  BY <1>3, <1>4 DEF QueuesOK
<1>6. \A m \in Nodes : \A x : In(g, m, x) <=> In(h, m, x) /\ ~(m = n /\ x = t)
  BY ONLY <1>1, <1>3, <1>4, n \in Nodes DEF In
<1>7. \A m \in Nodes : \A x : HoldsIn(h, m, x) /\ ~(m = n /\ x = t) => HoldsIn(g, m, x)
  BY ONLY <1>1, <1>2, <1>4, n \in Nodes DEF HoldsIn
<1> QED
  BY ONLY <1>5, <1>6, <1>7, Zenon DEF Released

LEMMA EndQueue ==
    ASSUME NEW h, QueuesOK(h), NEW n \in Nodes, NEW leaving,
           NEW g, g = [m \in Nodes |-> IF m = n THEN <<>>
                          ELSE Part(h[m], {i \in DOMAIN h[m] : h[m][i] \notin leaving})]
    PROVE  Ended(h, g, n, leaving)
<1>1. h \in [Nodes -> Seq(Tasks)] /\ \A m \in Nodes : IsInjective(h[m])
  BY DEF QueuesOK
<1>2. g[n] = <<>> /\ g[n] \in Seq(Tasks) /\ IsInjective(g[n]) /\ ToSet(g[n]) = {}
  <2>1. g[n] = <<>>
    OBVIOUS
  <2>2. PICK e : e = <<>>
    OBVIOUS
  <2>3. e \in Seq(Tasks) /\ IsInjective(e) /\ ToSet(e) = {}
    BY <2>2 DEF IsInjective, ToSet
  <2> QED
    BY ONLY <2>1, <2>2, <2>3, Zenon
<1>3. ASSUME NEW m \in Nodes \ {n}
      PROVE  /\ g[m] \in Seq(Tasks) /\ IsInjective(g[m]) /\ ToSet(g[m]) = ToSet(h[m]) \ leaving
             /\ h[m] # <<>> /\ Head(h[m]) \notin leaving => g[m] # <<>> /\ Head(g[m]) = Head(h[m])
  <2>1. PICK q, I, p : q = h[m] /\ I = {i \in DOMAIN q : q[i] \notin leaving} /\ p = Part(q, I)
    OBVIOUS
  <2>2. g[m] = p
    BY <1>3, <2>1
  <2>3. q \in Seq(Tasks) /\ IsInjective(q) /\ Len(q) \in Nat /\ DOMAIN q = 1 .. Len(q)
    BY <1>1, <2>1
  <2>4. PartOf(Tasks, q, I, Len(q), p)
    BY ONLY <2>1, <2>3, PartSet
  <2>5. /\ p \in Seq(Tasks) /\ ToSet(p) = {q[i] : i \in I \cap 1 .. Len(q)} /\ IsInjective(p)
        /\ Len(q) > 0 /\ 1 \in I => p # <<>> /\ Head(p) = q[1]
    BY ONLY <2>3, <2>4 DEF PartOf
  <2>6. {q[i] : i \in I \cap 1 .. Len(q)} = ToSet(q) \ leaving
    BY ONLY <2>1, <2>3 DEF ToSet
  <2>7. q # <<>> => Len(q) > 0 /\ Head(q) = q[1] /\ 1 \in DOMAIN q
    BY ONLY <2>3
  <2>8. q # <<>> /\ Head(q) \notin leaving => p # <<>> /\ Head(p) = Head(q)
    BY ONLY <2>1, <2>5, <2>7
  <2> QED
    BY ONLY <2>1, <2>2, <2>5, <2>6, <2>8, Zenon
<1>4. QueuesOK(g)
  <2>1. \A m \in Nodes : g[m] \in Seq(Tasks) /\ IsInjective(g[m])
    BY <1>2, <1>3
  <2>2. g = [m \in Nodes |-> g[m]]
    OBVIOUS
  <2> QED
    BY ONLY <2>1, <2>2 DEF QueuesOK
<1>5. \A m \in Nodes : \A x : In(g, m, x) <=> In(h, m, x) /\ m # n /\ x \notin leaving
  BY ONLY <1>2, <1>3 DEF In
<1>6. \A m \in Nodes : \A x : HoldsIn(h, m, x) /\ m # n /\ x \notin leaving => HoldsIn(g, m, x)
  BY ONLY <1>3 DEF HoldsIn
<1> QED
  BY ONLY <1>4, <1>5, <1>6, Zenon DEF Ended

\* A call is lost: like a release, but from any place.
LEMMA LoseQueue ==
    ASSUME NEW h, QueuesOK(h), NEW n \in Nodes, NEW t,
           NEW g, g = [h EXCEPT ![n] = Part(@, {i \in DOMAIN @ : @[i] # t})]
    PROVE  Released(h, g, n, t)
<1>1. PICK q, I, p : q = h[n] /\ I = {i \in DOMAIN q : q[i] # t} /\ p = Part(q, I)
  OBVIOUS
<1>2. h \in [Nodes -> Seq(Tasks)] /\ q \in Seq(Tasks) /\ IsInjective(q)
  BY <1>1 DEF QueuesOK
<1>3. Len(q) \in Nat /\ DOMAIN q = 1 .. Len(q)
  BY ONLY <1>2
<1>4. PartOf(Tasks, q, I, Len(q), p)
  BY ONLY <1>1, <1>2, <1>3, PartSet
<1>5. /\ p \in Seq(Tasks) /\ ToSet(p) = {q[i] : i \in I \cap 1 .. Len(q)} /\ IsInjective(p)
      /\ Len(q) > 0 /\ 1 \in I => p # <<>> /\ Head(p) = q[1]
  BY ONLY <1>2, <1>3, <1>4 DEF PartOf
<1>6. ToSet(p) = ToSet(q) \ {t}
  BY ONLY <1>1, <1>3, <1>5 DEF ToSet
<1>7. q # <<>> => Len(q) > 0 /\ Head(q) = q[1] /\ 1 \in DOMAIN q
  BY ONLY <1>2, <1>3
<1>8. q # <<>> /\ Head(q) # t => p # <<>> /\ Head(p) = Head(q)
  BY ONLY <1>1, <1>5, <1>7
<1>9. g \in [Nodes -> Seq(Tasks)] /\ g[n] = p /\ \A m \in Nodes \ {n} : g[m] = h[m]
  <2>1. g = [h EXCEPT ![n] = p]
    BY <1>1
  <2> QED
    BY ONLY <1>2, <1>5, <2>1, n \in Nodes
<1>10. QueuesOK(g)
  BY <1>5, <1>9 DEF QueuesOK
<1>11. \A m \in Nodes : \A x : In(g, m, x) <=> In(h, m, x) /\ ~(m = n /\ x = t)
  BY ONLY <1>1, <1>6, <1>9, n \in Nodes DEF In
<1>12. \A m \in Nodes : \A x : HoldsIn(h, m, x) /\ ~(m = n /\ x = t) => HoldsIn(g, m, x)
  BY ONLY <1>1, <1>8, <1>9, n \in Nodes DEF HoldsIn
<1> QED
  BY ONLY <1>10, <1>11, <1>12, Zenon DEF Released
-----------------------------------------------------------------------------
(* Changes of a record *)

StartIs(st, g, n, s) ==
    StartOK(g) /\ g[n].step = s /\ \A m \in Nodes \ {n} : g[m].step = st[m].step

LEMMA StartRecord ==
    ASSUME NEW st, StartOK(st), NEW n \in Nodes, NEW r, IsStart(r), NEW g, g = [st EXCEPT ![n] = r]
    PROVE  StartIs(st, g, n, r.step)
<1>1. DOMAIN g = Nodes /\ g = [m \in Nodes |-> g[m]] /\ g[n] = r
      /\ \A m \in Nodes \ {n} : g[m] = st[m]
  BY DEF StartOK
<1>2. StartOK(g)
  BY <1>1 DEF StartOK
<1> QED
  BY <1>1, <1>2 DEF StartIs

LEMMA StartField ==
    ASSUME NEW r, IsStart(r), NEW x
    PROVE  /\ IsStart([r EXCEPT !.step = x]) /\ [r EXCEPT !.step = x].step = x
           /\ IsStart([r EXCEPT !.left = x]) /\ [r EXCEPT !.left = x].step = r.step
<1>1. PICK a, b, c : r = [step |-> a, left |-> b, entry |-> c]
  BY DEF IsStart
<1> QED
  BY <1>1 DEF IsStart

BeatIs(bt, g, n, b) ==
    BeatOK(g) /\ g[n] = b /\ \A m \in Nodes \ {n} : g[m] = bt[m]

LEMMA BeatRecord ==
    ASSUME NEW bt, BeatOK(bt), NEW n \in Nodes, NEW r, IsBeat(r), r.left \in Seq(Nodes),
           r.step \in {"connecting", "beating", "missed"} => r.left # <<>>,
           NEW g, g = [bt EXCEPT ![n] = r]
    PROVE  BeatIs(bt, g, n, r)
<1>1. DOMAIN g = Nodes /\ g = [m \in Nodes |-> g[m]] /\ g[n] = r
      /\ \A m \in Nodes \ {n} : g[m] = bt[m]
  BY DEF BeatOK
<1>2. BeatOK(g)
  BY <1>1 DEF BeatOK
<1> QED
  BY <1>1, <1>2 DEF BeatIs

LEMMA BeatField ==
    ASSUME NEW r, IsBeat(r), NEW x
    PROVE  /\ IsBeat([r EXCEPT !.step = x]) /\ [r EXCEPT !.step = x].step = x
           /\ [r EXCEPT !.step = x].left = r.left
<1>1. PICK a, b : r = [step |-> a, left |-> b]
  BY DEF IsBeat
<1> QED
  BY <1>1 DEF IsBeat

RegIs(rg, g, o, s) ==
    /\ RegOK(g)
    /\ \A p \in Origins : g[p].at = rg[p].at /\ g[p].addr = rg[p].addr
    /\ g[o].step = s /\ \A p \in Origins \ {o} : g[p].step = rg[p].step

RegSet(rg, g, o, r) ==
    RegOK(g) /\ g[o] = r /\ \A p \in Origins \ {o} : g[p] = rg[p]

LEMMA RegRecord ==
    ASSUME NEW rg, RegOK(rg), NEW o \in Origins, NEW r, IsReg(r),
           r.at \in Nodes, r.addr \in Nodes, NEW g, g = [rg EXCEPT ![o] = r]
    PROVE  RegSet(rg, g, o, r)
<1>1. DOMAIN g = Origins /\ g = [p \in Origins |-> g[p]] /\ g[o] = r
      /\ \A p \in Origins \ {o} : g[p] = rg[p]
  BY DEF RegOK
<1>2. RegOK(g)
  BY <1>1 DEF RegOK
<1> QED
  BY <1>1, <1>2 DEF RegSet

LEMMA RegField ==
    ASSUME NEW r, IsReg(r), NEW x
    PROVE  /\ IsReg([r EXCEPT !.step = x]) /\ [r EXCEPT !.step = x].step = x
           /\ [r EXCEPT !.step = x].at = r.at /\ [r EXCEPT !.step = x].addr = r.addr
           /\ IsReg([r EXCEPT !.copy = x]) /\ [r EXCEPT !.copy = x].step = r.step
           /\ [r EXCEPT !.copy = x].at = r.at /\ [r EXCEPT !.copy = x].addr = r.addr
<1>1. PICK a, b, c, d : r = [step |-> a, at |-> b, addr |-> c, copy |-> d]
  BY DEF IsReg
<1> QED
  BY <1>1 DEF IsReg

LEMMA RegStepIs ==
    ASSUME NEW rg, RegOK(rg), NEW o \in Origins, NEW s, NEW g, g = [rg EXCEPT ![o].step = s]
    PROVE  RegIs(rg, g, o, s)
<1>1. PICK r : r = [rg[o] EXCEPT !.step = s]
  OBVIOUS
<1>2. IsReg(rg[o]) /\ rg[o].at \in Nodes /\ rg[o].addr \in Nodes
  BY DEF RegOK
<1>3. IsReg(r) /\ r.step = s /\ r.at = rg[o].at /\ r.addr = rg[o].addr
  BY ONLY <1>1, <1>2, RegField, ZenonT(30)
<1>4. g = [rg EXCEPT ![o] = r]
  BY <1>1
<1>5. RegSet(rg, g, o, r)
  <2>1. r.at \in Nodes /\ r.addr \in Nodes
    BY ONLY <1>2, <1>3, Zenon
  <2> QED
    BY <1>3, <1>4, <2>1, RegRecord
<1> QED
  BY ONLY <1>3, <1>5 DEF RegIs, RegSet

\* The loop of n is elsewhere, with the same nodes left.
BeatAt(bt, g, n, s) ==
    /\ BeatOK(g) /\ g[n].step = s
    /\ \A m \in Nodes : g[m].left = bt[m].left /\ (m # n => g[m].step = bt[m].step)

LEMMA BeatStepIs ==
    ASSUME NEW bt, BeatOK(bt), NEW n \in Nodes, NEW s, bt[n].left # <<>> \/ s = "ticking",
           NEW g, g = [bt EXCEPT ![n].step = s]
    PROVE  BeatAt(bt, g, n, s)
<1>1. PICK r : r = [bt[n] EXCEPT !.step = s]
  OBVIOUS
<1>2. IsBeat(bt[n]) /\ bt[n].left \in Seq(Nodes)
  BY DEF BeatOK
<1>3. IsBeat(r) /\ r.step = s /\ r.left = bt[n].left
  BY ONLY <1>1, <1>2, BeatField, Zenon
<1>4. g = [bt EXCEPT ![n] = r]
  BY <1>1
<1>5. BeatIs(bt, g, n, r)
  BY <1>2, <1>3, <1>4, BeatRecord
<1> QED
  BY ONLY <1>3, <1>5 DEF BeatIs, BeatAt

LEMMA StartStepIs ==
    ASSUME NEW st, StartOK(st), NEW n \in Nodes, NEW s, NEW g, g = [st EXCEPT ![n].step = s]
    PROVE  StartIs(st, g, n, s)
<1>1. PICK r : r = [st[n] EXCEPT !.step = s]
  OBVIOUS
<1>2. IsStart(st[n])
  BY DEF StartOK
<1>3. IsStart(r) /\ r.step = s
  BY ONLY <1>1, <1>2, StartField, Zenon
<1>4. g = [st EXCEPT ![n] = r]
  BY <1>1
<1> QED
  BY <1>3, <1>4, StartRecord
-----------------------------------------------------------------------------
(* What a change of the queues leaves as it is, by the kind of the task *)

Fewer(h, g, k) ==
    \A n \in Nodes, o \in Origins : In(g, n, <<k, o>>) => In(h, n, <<k, o>>)
Stay(h, g, k) ==
    \A n \in Nodes, o \in Origins : In(h, n, <<k, o>>) => In(g, n, <<k, o>>)
Keep(h, g, k) ==
    \A n \in Nodes, o \in Origins : HoldsIn(h, n, <<k, o>>) => HoldsIn(g, n, <<k, o>>)

LEMMA EnteredKinds ==
    ASSUME NEW h, NEW g, NEW n, NEW k, NEW o, Entered(h, g, n, <<k, o>>)
    PROVE  \A j : Keep(h, g, j) /\ Stay(h, g, j) /\ (j # k => Fewer(h, g, j))
<1>1. \A j : Keep(h, g, j) /\ Stay(h, g, j)
  BY Zenon DEF Entered, Keep, Stay
<1>2. ASSUME NEW j, j # k PROVE Fewer(h, g, j)
  <2>1. \A x : <<j, x>> # <<k, o>>
    BY <1>2
  <2> QED
    BY <2>1, Zenon DEF Entered, Fewer
<1> QED
  BY <1>1, <1>2

LEMMA ReleasedKinds ==
    ASSUME NEW h, NEW g, NEW n, NEW k, NEW o, Released(h, g, n, <<k, o>>)
    PROVE  \A j : Fewer(h, g, j) /\ (j # k => Keep(h, g, j) /\ Stay(h, g, j))
<1>1. \A j : Fewer(h, g, j)
  BY Zenon DEF Released, Fewer
<1>2. ASSUME NEW j, j # k PROVE Keep(h, g, j) /\ Stay(h, g, j)
  <2>1. \A x : <<j, x>> # <<k, o>>
    BY <1>2
  <2> QED
    BY <2>1, Zenon DEF Released, Keep, Stay
<1> QED
  BY <1>1, <1>2

LEMMA Frames ==
    ASSUME NEW h, NEW g
    PROVE  /\ \A mn : MainPlaces(h, mn) /\ Fewer(h, g, "main") => MainPlaces(g, mn)
           /\ \A st : StartPlaces(h, st) /\ Fewer(h, g, "start") => StartPlaces(g, st)
           /\ \A rg : RegisterPlaces(h, rg) /\ Fewer(h, g, "register") => RegisterPlaces(g, rg)
           /\ \A rg, mn : RegPlaces(h, rg, mn) /\ Fewer(h, g, "reg") => RegPlaces(g, rg, mn)
           /\ \A bt, mn : BeatPlaces(h, bt, mn) /\ Fewer(h, g, "beat") => BeatPlaces(g, bt, mn)
           /\ \A mn : MainHolds(h, mn) /\ Keep(h, g, "main") => MainHolds(g, mn)
           /\ \A st : StartHolds(h, st) /\ Keep(h, g, "start") => StartHolds(g, st)
           /\ \A rg : RegOK(rg) /\ RegHolds(h, rg) /\ Keep(h, g, "register") => RegHolds(g, rg)
<1>1. Nodes \subseteq Origins
  BY DEF Origins
<1>2. \A mn : MainPlaces(h, mn) /\ Fewer(h, g, "main") => MainPlaces(g, mn)
  BY Zenon DEF MainPlaces, Fewer
<1>3. \A st : StartPlaces(h, st) /\ Fewer(h, g, "start") => StartPlaces(g, st)
  BY Zenon DEF StartPlaces, Fewer
<1>4. \A rg : RegisterPlaces(h, rg) /\ Fewer(h, g, "register") => RegisterPlaces(g, rg)
  BY Zenon DEF RegisterPlaces, Fewer
<1>5. \A rg, mn : RegPlaces(h, rg, mn) /\ Fewer(h, g, "reg") => RegPlaces(g, rg, mn)
  BY Zenon DEF RegPlaces, Fewer
<1>6. \A bt, mn : BeatPlaces(h, bt, mn) /\ Fewer(h, g, "beat") => BeatPlaces(g, bt, mn)
  BY Zenon DEF BeatPlaces, Fewer
<1>7. \A mn : MainHolds(h, mn) /\ Keep(h, g, "main") => MainHolds(g, mn)
  BY <1>1, Zenon DEF MainHolds, Keep
<1>8. \A st : StartHolds(h, st) /\ Keep(h, g, "start") => StartHolds(g, st)
  BY <1>1, Zenon DEF StartHolds, Keep
<1>9. \A rg : RegOK(rg) /\ RegHolds(h, rg) /\ Keep(h, g, "register") => RegHolds(g, rg)
  BY Zenon DEF RegOK, RegHolds, Keep
<1> QED
  BY ONLY <1>2, <1>3, <1>4, <1>5, <1>6, <1>7, <1>8, <1>9, Zenon

\* Only tasks of kind k came or went.
Only(h, g, k) ==
    QueuesOK(g) /\ \A j : j # k => Fewer(h, g, j) /\ Keep(h, g, j) /\ Stay(h, g, j)

LEMMA OnlyKind ==
    ASSUME NEW h, QueuesOK(h), NEW g, NEW k
    PROVE  /\ h = g => Only(h, g, k)
           /\ \A n, o : Entered(h, g, n, <<k, o>>) => Only(h, g, k)
           /\ \A n, o : Released(h, g, n, <<k, o>>) => Only(h, g, k)
<1>1. h = g => Only(h, g, k)
  BY Zenon DEF Only, Fewer, Keep, Stay
<1>2. ASSUME NEW n, NEW o, Entered(h, g, n, <<k, o>>) PROVE Only(h, g, k)
  <2>1. QueuesOK(g)
    BY <1>2 DEF Entered
  <2> QED
    BY <1>2, <2>1, EnteredKinds DEF Only
<1>3. ASSUME NEW n, NEW o, Released(h, g, n, <<k, o>>) PROVE Only(h, g, k)
  <2>1. QueuesOK(g)
    BY <1>3 DEF Released
  <2> QED
    BY <1>3, <2>1, ReleasedKinds DEF Only
<1> QED
  BY <1>1, <1>2, <1>3
-----------------------------------------------------------------------------
(* HaManager::start *)

\* A step of start disturbs nobody else.
LEMMA StartMoves ==
    ASSUME IInv, StartOK(start'), Only(ha, ha', "start"),
           StartPlaces(ha', start'), StartHolds(ha', start'), Quiet(main, start', beat),
           main' = main, beat' = beat, followers' = followers, misses' = misses,
           reg' = reg, log' = log, file' = file
    PROVE  IInv'
<1>1. Shapes'
  BY DEF IInv, Shapes, Only
<1>2. /\ \A j : j # "start" => /\ Fewer(ha, ha', j) /\ Keep(ha, ha', j) /\ Stay(ha, ha', j)
  BY DEF Only
<1>3. Places'
  BY <1>2, Frames DEF IInv, Places
<1>4. Holders'
  BY <1>2, Frames DEF IInv, Shapes, Holders
<1> QED
  BY <1>1, <1>3, <1>4 DEF IInv

LEMMA StartLocksStep ==
    ASSUME IInv, NEW n \in Nodes, StartLocks(n)
    PROVE  IInv'
<1>1. /\ start[n].step = "spawned" /\ start' = [start EXCEPT ![n].step = "queued"]
      /\ ha' = [ha EXCEPT ![n] = Append(@, <<"start", n>>)]
      /\ main' = main /\ beat' = beat /\ followers' = followers /\ misses' = misses
      /\ reg' = reg /\ log' = log /\ file' = file
  BY DEF StartLocks, Enter, boot, data, hist
<1>2. StartIs(start, start', n, "queued")
  BY <1>1, StartStepIs DEF IInv, Shapes
<1>3. Entered(ha, ha', n, <<"start", n>>)
  <2>1. <<"start", n>> \in Tasks
    BY DEF Tasks, Kinds, Origins
  <2>2. ~In(ha, n, <<"start", n>>)
    BY <1>1 DEF IInv, Places, StartPlaces, Origins
  <2> QED
    BY <1>1, <2>1, <2>2, EnterQueue DEF IInv, Shapes
<1>4. Only(ha, ha', "start")
  BY <1>3, OnlyKind DEF IInv, Shapes
<1>5. StartPlaces(ha', start')
  BY <1>1, <1>2, <1>3, ZenonT(30) DEF IInv, Places, StartPlaces, StartIs, Entered
<1>6. StartHolds(ha', start')
  BY <1>2, <1>3 DEF IInv, Holders, StartHolds, StartIs, Entered
<1>7. StartOK(start') /\ Quiet(main, start', beat)
  BY <1>1, <1>2 DEF IInv, Quiet, StartIs
<1> QED
  BY <1>1, <1>4, <1>5, <1>6, <1>7, StartMoves

\* start gives the lock back.
LEMMA StartReleases ==
    ASSUME IInv, NEW n \in Nodes, HoldsIn(ha, n, <<"start", n>>), start[n].step # "none",
           StartIs(start, start', n, "done"), ha' = [ha EXCEPT ![n] = Tail(@)],
           main' = main, beat' = beat, followers' = followers, misses' = misses,
           reg' = reg, log' = log, file' = file
    PROVE  IInv'
<1>1. Released(ha, ha', n, <<"start", n>>)
  BY ReleaseQueue DEF IInv, Shapes
<1>2. Only(ha, ha', "start")
  BY <1>1, OnlyKind DEF IInv, Shapes
<1>3. StartPlaces(ha', start')
  BY <1>1, ZenonT(30) DEF IInv, Places, StartPlaces, StartIs, Released
<1>4. StartHolds(ha', start')
  <2> SUFFICES ASSUME NEW m \in Nodes, start'[m].step = "pushing"
               PROVE  HoldsIn(ha', m, <<"start", m>>)
    BY DEF StartHolds
  <2>1. m # n /\ start[m].step = "pushing"
    BY DEF StartIs
  <2>2. HoldsIn(ha, m, <<"start", m>>)
    BY <2>1 DEF IInv, Holders, StartHolds
  <2> QED
    BY <1>1, <2>1, <2>2 DEF Released
<1>5. StartOK(start') /\ Quiet(main, start', beat)
  BY DEF IInv, Quiet, StartIs
<1> QED
  BY <1>2, <1>3, <1>4, <1>5, StartMoves

LEMMA TakeEventStep ==
    ASSUME IInv, NEW n \in Nodes, TakeEvent(n)
    PROVE  IInv'
<1>1. /\ start[n].step = "queued" /\ HoldsIn(ha, n, <<"start", n>>)
      /\ main' = main /\ beat' = beat /\ followers' = followers /\ misses' = misses
      /\ reg' = reg /\ log' = log /\ file' = file
  BY DEF TakeEvent, Holds, HoldsIn, boot, hist
<1>2. CASE BufferSize <= 1
  <2>1. PICK r : r = [step |-> "pushing", left |-> followers[n], entry |-> Head(events[n])]
    OBVIOUS
  <2>2. start' = [start EXCEPT ![n] = r] /\ ha' = ha
    BY <1>2, <2>1 DEF TakeEvent
  <2>3. StartIs(start, start', n, "pushing")
    <3>1. IsStart(r) /\ r.step = "pushing"
      BY <2>1 DEF IsStart
    <3>2. StartIs(start, start', n, r.step)
      BY <2>2, <3>1, StartRecord DEF IInv, Shapes
    <3> QED
      BY ONLY <3>1, <3>2, Zenon
  <2>4. Only(ha, ha', "start")
    BY <2>2, OnlyKind DEF IInv, Shapes
  <2>5. StartPlaces(ha', start')
    BY <2>2, <2>3 DEF IInv, Places, StartPlaces, StartIs
  <2>6. StartHolds(ha', start')
    BY <1>1, <2>2, <2>3 DEF IInv, Holders, StartHolds, StartIs
  <2>7. StartOK(start') /\ Quiet(main, start', beat)
    BY <1>1, <2>3 DEF IInv, Quiet, StartIs
  <2> QED
    BY <1>1, <2>4, <2>5, <2>6, <2>7, StartMoves
<1>3. CASE ~(BufferSize <= 1)
  <2>1. PICK r : r = [NoStart EXCEPT !.step = "done"]
    OBVIOUS
  <2>2. start' = [start EXCEPT ![n] = r] /\ ha' = [ha EXCEPT ![n] = Tail(@)]
    BY <1>3, <2>1 DEF TakeEvent, Release
  <2>3. StartIs(start, start', n, "done")
    <3>1. IsStart(r) /\ r.step = "done"
      BY <2>1 DEF IsStart, NoStart
    <3>2. StartIs(start, start', n, r.step)
      BY <2>2, <3>1, StartRecord DEF IInv, Shapes
    <3> QED
      BY ONLY <3>1, <3>2, Zenon
  <2> QED
    BY <1>1, <2>2, <2>3, StartReleases
<1> QED
  BY <1>2, <1>3

LEMMA PushEventStep ==
    ASSUME IInv, NEW n \in Nodes, PushEvent(n)
    PROVE  IInv'
<1>1. /\ start[n].step = "pushing" /\ start' = [start EXCEPT ![n].left = Tail(@)] /\ ha' = ha
      /\ main' = main /\ beat' = beat /\ followers' = followers /\ misses' = misses
      /\ reg' = reg /\ log' = log /\ file' = file
  BY DEF PushEvent, boot
<1>2. StartIs(start, start', n, start[n].step)
  <2>1. PICK s, x, r : s = start[n] /\ x = Tail(s.left) /\ r = [s EXCEPT !.left = x]
    OBVIOUS
  <2>2. IsStart(s)
    BY <2>1 DEF IInv, Shapes, StartOK
  <2>3. IsStart(r) /\ r.step = start[n].step
    <3>1. IsStart([s EXCEPT !.left = x]) /\ [s EXCEPT !.left = x].step = s.step
      BY ONLY <2>2, StartField
    <3> QED
      BY ONLY <2>1, <3>1, Zenon
  <2>4. start' = [start EXCEPT ![n] = r]
    BY <1>1, <2>1
  <2>5. StartIs(start, start', n, r.step)
    BY <2>3, <2>4, StartRecord DEF IInv, Shapes
  <2> QED
    BY ONLY <2>3, <2>5, Zenon
<1>3. Only(ha, ha', "start")
  BY <1>1, OnlyKind DEF IInv, Shapes
<1>4. \A m \in Nodes : start'[m].step = start[m].step
  BY <1>2 DEF StartIs
<1>5. StartPlaces(ha', start') /\ StartHolds(ha', start')
  BY <1>1, <1>4 DEF IInv, Places, StartPlaces, Holders, StartHolds
<1>6. StartOK(start') /\ Quiet(main, start', beat)
  BY <1>1, <1>2 DEF IInv, Quiet, StartIs
<1> QED
  BY <1>1, <1>3, <1>5, <1>6, StartMoves

LEMMA StartEndsStep ==
    ASSUME IInv, NEW n \in Nodes, StartEnds(n)
    PROVE  IInv'
<1>1. PICK r : r = [NoStart EXCEPT !.step = "done"]
  OBVIOUS
<1>2. /\ start[n].step = "pushing" /\ start' = [start EXCEPT ![n] = r]
      /\ ha' = [ha EXCEPT ![n] = Tail(@)]
      /\ main' = main /\ beat' = beat /\ followers' = followers /\ misses' = misses
      /\ reg' = reg /\ log' = log /\ file' = file
  BY <1>1 DEF StartEnds, Release, boot, data, hist
<1>3. HoldsIn(ha, n, <<"start", n>>)
  BY <1>2 DEF IInv, Holders, StartHolds
<1>4. StartIs(start, start', n, "done")
  <2>1. IsStart(r) /\ r.step = "done"
    BY <1>1 DEF IsStart, NoStart
  <2>2. StartIs(start, start', n, r.step)
    BY <1>2, <2>1, StartRecord DEF IInv, Shapes
  <2> QED
    BY ONLY <2>1, <2>2, Zenon
<1> QED
  BY <1>2, <1>3, <1>4, StartReleases
-----------------------------------------------------------------------------
(* The loop of heartbeat_followers *)

\* A step of the loop disturbs nobody else.
LEMMA BeatMoves ==
    ASSUME IInv, BeatOK(beat'), Only(ha, ha', "beat"),
           BeatPlaces(ha', beat', main), Quiet(main, start, beat'),
           followers' \in [Nodes -> Seq(Nodes)], misses' \in [Nodes -> [Nodes -> 0 .. 3]],
           main' = main, start' = start, reg' = reg, log' = log, file' = file
    PROVE  IInv'
<1>1. Shapes'
  BY DEF IInv, Shapes, Only
<1>2. \A j : j # "beat" => Fewer(ha, ha', j) /\ Keep(ha, ha', j) /\ Stay(ha, ha', j)
  BY DEF Only
<1>3. Places'
  BY <1>2, Frames DEF IInv, Places
<1>4. Holders'
  BY <1>2, Frames DEF IInv, Shapes, Holders
<1> QED
  BY <1>1, <1>3, <1>4 DEF IInv

\* The node a loop is busy with.
LEMMA BeatHead ==
    ASSUME NEW bt, BeatOK(bt), NEW n \in Nodes, bt[n].step \in {"connecting", "beating", "missed"}
    PROVE  /\ bt[n].left # <<>> /\ bt[n].left \in Seq(Nodes) /\ Head(bt[n].left) \in Nodes
           /\ Head(bt[n].left) \in ToSet(bt[n].left)
<1>1. PICK l : l = bt[n].left
  OBVIOUS
<1>2. l \in Seq(Nodes) /\ l # <<>>
  BY <1>1 DEF BeatOK
<1>3. Head(l) \in Nodes /\ Head(l) \in ToSet(l)
  BY ONLY <1>2 DEF ToSet
<1> QED
  BY ONLY <1>1, <1>2, <1>3, Zenon

LEMMA TickStep ==
    ASSUME IInv, NEW n \in Nodes, Tick(n)
    PROVE  IInv'
<1>1. PICK r : r = [step |-> "connecting", left |-> followers[n]]
  OBVIOUS
<1>2. /\ beat[n].step = "ticking" /\ followers[n] # <<>> /\ beat' = [beat EXCEPT ![n] = r]
      /\ main' = main /\ start' = start /\ ha' = ha /\ followers' = followers
      /\ misses' = misses /\ reg' = reg /\ log' = log /\ file' = file
  BY <1>1 DEF Tick, boot, data, hist
<1>3. IsBeat(r) /\ r.step = "connecting" /\ r.left = followers[n]
  BY ONLY <1>1 DEF IsBeat
<1>4. BeatIs(beat, beat', n, r)
  BY <1>2, <1>3, BeatRecord DEF IInv, Shapes
<1>5. Only(ha, ha', "beat")
  BY <1>2, OnlyKind DEF IInv, Shapes
<1>6. BeatOK(beat') /\ BeatPlaces(ha', beat', main) /\ Quiet(main, start, beat')
  BY <1>2, <1>4 DEF IInv, Places, BeatPlaces, Quiet, BeatIs
<1> QED
  BY <1>2, <1>5, <1>6, BeatMoves DEF IInv, Shapes

LEMMA HeartbeatStep ==
    ASSUME IInv, NEW n \in Nodes, heartbeat_follower(n)
    PROVE  IInv'
<1>1. PICK f : f = Head(beat[n].left)
  OBVIOUS
<1>2. /\ beat[n].step = "connecting"
      /\ \/ /\ Up(f) /\ beat' = [beat EXCEPT ![n].step = "beating"]
            /\ ha' = [ha EXCEPT ![f] = Append(@, <<"beat", n>>)]
         \/ beat' = [beat EXCEPT ![n].step = "missed"] /\ ha' = ha
      /\ main' = main /\ start' = start /\ followers' = followers
      /\ misses' = misses /\ reg' = reg /\ log' = log /\ file' = file
  BY <1>1 DEF heartbeat_follower, Enter, boot, data, hist
<1>3. beat[n].left # <<>> /\ f \in Nodes
  BY <1>1, <1>2, BeatHead DEF IInv, Shapes
<1>4. ~In(ha, f, <<"beat", n>>) /\ \A m \in Nodes : ~In(ha, m, <<"beat", n>>)
  BY <1>2, <1>3 DEF IInv, Places, BeatPlaces, Origins
<1>5. ASSUME NEW s \in {"beating", "missed"}, beat' = [beat EXCEPT ![n].step = s]
      PROVE  /\ BeatOK(beat') /\ Quiet(main, start, beat') /\ beat'[n].step = s
             /\ \A m \in Nodes : /\ beat'[m].left = beat[m].left
                                 /\ m # n => beat'[m].step = beat[m].step
  <2>1. BeatAt(beat, beat', n, s)
    BY <1>3, <1>5, BeatStepIs DEF IInv, Shapes
  <2> QED
    BY <1>2, <2>1 DEF IInv, Quiet, BeatAt
<1>6. CASE /\ Up(f) /\ beat' = [beat EXCEPT ![n].step = "beating"]
           /\ ha' = [ha EXCEPT ![f] = Append(@, <<"beat", n>>)]
  <2>1. Entered(ha, ha', f, <<"beat", n>>)
    <3>1. <<"beat", n>> \in Tasks
      BY DEF Tasks, Kinds, Origins
    <3> QED
      BY <1>3, <1>4, <1>6, <3>1, EnterQueue DEF IInv, Shapes
  <2>2. Only(ha, ha', "beat")
    BY <2>1, OnlyKind DEF IInv, Shapes
  <2>3. BeatPlaces(ha', beat', main)
    <3> SUFFICES ASSUME NEW m \in Nodes, NEW o \in Origins, In(ha', m, <<"beat", o>>)
                 PROVE  /\ o \in Nodes /\ beat'[o].step = "beating"
                        /\ Head(beat'[o].left) = m /\ main[m] = "listening"
      BY DEF BeatPlaces
    <3>1. In(ha, m, <<"beat", o>>) \/ (m = f /\ <<"beat", o>> = <<"beat", n>>)
      BY <2>1, Zenon DEF Entered
    <3>2. CASE m = f /\ o = n
      BY <1>1, <1>5, <1>6, <3>2 DEF Up
    <3>3. CASE In(ha, m, <<"beat", o>>)
      BY <1>2, <1>5, <1>6, <3>3 DEF IInv, Places, BeatPlaces
    <3> QED
      BY <3>1, <3>2, <3>3
  <2> QED
    BY <1>2, <1>5, <1>6, <2>2, <2>3, BeatMoves DEF IInv, Shapes
<1>7. CASE beat' = [beat EXCEPT ![n].step = "missed"] /\ ha' = ha
  <2>1. Only(ha, ha', "beat")
    BY <1>7, OnlyKind DEF IInv, Shapes
  <2>2. BeatPlaces(ha', beat', main)
    BY <1>2, <1>5, <1>7 DEF IInv, Places, BeatPlaces
  <2> QED
    BY <1>2, <1>5, <1>7, <2>1, <2>2, BeatMoves DEF IInv, Shapes
<1> QED
  BY <1>2, <1>6, <1>7

LEMMA BeatBreaksStep ==
    ASSUME IInv, NEW n \in Nodes, BeatBreaks(n)
    PROVE  IInv'
<1>1. PICK f : f = Head(beat[n].left)
  OBVIOUS
<1>2. /\ beat[n].step = "beating" /\ ~In(ha, f, <<"beat", n>>)
      /\ beat' = [beat EXCEPT ![n].step = "missed"]
      /\ main' = main /\ start' = start /\ ha' = ha /\ followers' = followers
      /\ misses' = misses /\ reg' = reg /\ log' = log /\ file' = file
  BY <1>1 DEF BeatBreaks, Waits, In, boot, data, hist
<1>3. beat[n].left # <<>> /\ f \in Nodes
  BY <1>1, <1>2, BeatHead DEF IInv, Shapes
<1>4. BeatAt(beat, beat', n, "missed")
  BY <1>2, <1>3, BeatStepIs DEF IInv, Shapes
<1>5. \A m \in Nodes : ~In(ha, m, <<"beat", n>>)
  BY <1>1, <1>2 DEF IInv, Places, BeatPlaces, Origins
<1>6. Only(ha, ha', "beat") /\ BeatOK(beat') /\ Quiet(main, start, beat')
  BY <1>2, <1>4, OnlyKind DEF IInv, Shapes, Quiet, BeatAt
<1>7. BeatPlaces(ha', beat', main)
  BY <1>2, <1>4, <1>5 DEF IInv, Places, BeatPlaces, BeatAt
<1> QED
  BY <1>2, <1>6, <1>7, BeatMoves DEF IInv, Shapes

LEMMA NextBeatIs ==
    ASSUME NEW b, b.left \in Seq(Nodes), b.left # <<>>, NEW r, r = NextBeat(b)
    PROVE  /\ IsBeat(r) /\ r.left \in Seq(Nodes) /\ ToSet(r.left) \subseteq ToSet(b.left)
           /\ r.step \in {"ticking", "connecting"} /\ (r.step = "connecting" => r.left # <<>>)
<1>1. PICK l, k : l = b.left /\ k = Tail(l)
  OBVIOUS
<1>2. k \in Seq(Nodes) /\ ToSet(k) \subseteq ToSet(l)
  BY <1>1 DEF ToSet
<1>3. CASE k = <<>>
  <2>1. r = [NoBeat EXCEPT !.step = "ticking"]
    BY <1>1, <1>3 DEF NextBeat
  <2>2. r = [step |-> "ticking", left |-> <<>>]
    BY <2>1 DEF NoBeat
  <2>3. IsBeat(r) /\ r.left = k /\ r.step = "ticking"
    BY ONLY <1>3, <2>2 DEF IsBeat
  <2> QED
    BY ONLY <1>1, <1>2, <2>3
<1>4. CASE k # <<>>
  <2>1. r = [step |-> "connecting", left |-> k]
    BY <1>1, <1>4 DEF NextBeat
  <2>2. IsBeat(r) /\ r.left = k /\ r.step = "connecting"
    BY ONLY <2>1 DEF IsBeat
  <2> QED
    BY ONLY <1>1, <1>2, <1>4, <2>2
<1> QED
  BY <1>3, <1>4

\* What a miss does to the list and to the counts: one node may go, on the
\* fourth.
LEMMA MissCounted ==
    ASSUME IInv, NEW n \in Nodes, CountMiss(n)
    PROVE  /\ followers' \in [Nodes -> Seq(Nodes)] /\ misses' \in [Nodes -> [Nodes -> 0 .. 3]]
           /\ \A m \in Nodes : \A x \in ToSet(followers[m]) :
                \/ x \in ToSet(followers'[m])
                \/ m = n /\ x = Head(beat[n].left) /\ x \in Nodes /\ misses[n][x] >= 3
<1>1. PICK f, fo, mi : f = Head(beat[n].left) /\ fo = followers /\ mi = misses
  OBVIOUS
<1>2. /\ beat[n].step = "missed"
      /\ misses' = [mi EXCEPT ![n][f] = IF mi[n][f] >= 3 THEN 0 ELSE @ + 1]
      /\ followers' = IF mi[n][f] >= 3
                      THEN [fo EXCEPT ![n] = Part(@, {i \in DOMAIN @ : @[i] # f})]
                      ELSE fo
  BY <1>1 DEF CountMiss
<1>3. f \in Nodes
  BY <1>1, <1>2, BeatHead DEF IInv, Shapes
<1>4. fo \in [Nodes -> Seq(Nodes)] /\ mi \in [Nodes -> [Nodes -> 0 .. 3]]
  BY <1>1 DEF IInv, Shapes
<1>5. misses' \in [Nodes -> [Nodes -> 0 .. 3]]
  <2>1. PICK v : v = IF mi[n][f] >= 3 THEN 0 ELSE mi[n][f] + 1
    OBVIOUS
  <2>2. v \in 0 .. 3
    <3>1. mi[n][f] \in 0 .. 3
      BY ONLY <1>3, <1>4, n \in Nodes
    <3> QED
      BY ONLY <2>1, <3>1
  <2>3. misses' = [mi EXCEPT ![n] = [mi[n] EXCEPT ![f] = v]]
    BY ONLY <1>2, <1>3, <1>4, <2>1, n \in Nodes
  <2> QED
    BY ONLY <1>3, <1>4, <2>2, <2>3, n \in Nodes
<1>6. CASE mi[n][f] >= 3
  <2>1. PICK q, I, p : q = fo[n] /\ I = {i \in DOMAIN q : q[i] # f} /\ p = Part(q, I)
    OBVIOUS
  <2>2. followers' = [fo EXCEPT ![n] = p]
    BY ONLY <1>2, <1>6, <2>1
  <2>3. q \in Seq(Nodes) /\ Len(q) \in Nat /\ DOMAIN q = 1 .. Len(q)
    BY ONLY <1>4, <2>1, n \in Nodes
  <2>4. PartOf(Nodes, q, I, Len(q), p)
    BY ONLY <2>1, <2>3, PartSet
  <2>5. p \in Seq(Nodes) /\ ToSet(p) = {q[i] : i \in I \cap 1 .. Len(q)}
    BY ONLY <2>3, <2>4 DEF PartOf
  <2>6. ToSet(p) = ToSet(q) \ {f}
    BY ONLY <2>1, <2>3, <2>5 DEF ToSet
  <2>7. /\ followers' \in [Nodes -> Seq(Nodes)] /\ followers'[n] = p
        /\ \A m \in Nodes \ {n} : followers'[m] = fo[m]
    BY ONLY <1>4, <2>2, <2>5, n \in Nodes
  <2>8. \A m \in Nodes : \A x \in ToSet(fo[m]) :
          x \in ToSet(followers'[m]) \/ (m = n /\ x = f)
    BY ONLY <2>1, <2>6, <2>7
  <2> QED
    BY <1>1, <1>3, <1>5, <1>6, <2>7, <2>8
<1>7. CASE ~(mi[n][f] >= 3)
  BY <1>1, <1>2, <1>4, <1>5, <1>7
<1> QED
  BY <1>6, <1>7

LEMMA CountMissStep ==
    ASSUME IInv, NEW n \in Nodes, CountMiss(n)
    PROVE  IInv'
<1>1. PICK b, r : b = beat[n] /\ r = NextBeat(b)
  OBVIOUS
<1>2. /\ b.step = "missed" /\ beat' = [beat EXCEPT ![n] = r]
      /\ main' = main /\ start' = start /\ ha' = ha /\ reg' = reg /\ log' = log
      /\ file' = file
  BY <1>1 DEF CountMiss, boot, data, hist
<1>3. b.left # <<>> /\ b.left \in Seq(Nodes)
  BY <1>1, <1>2, BeatHead DEF IInv, Shapes
<1>4. /\ IsBeat(r) /\ r.left \in Seq(Nodes) /\ ToSet(r.left) \subseteq ToSet(b.left)
      /\ r.step \in {"ticking", "connecting"} /\ (r.step = "connecting" => r.left # <<>>)
  BY ONLY <1>1, <1>3, NextBeatIs
<1>5. BeatIs(beat, beat', n, r)
  BY <1>2, <1>4, BeatRecord DEF IInv, Shapes
<1>6. followers' \in [Nodes -> Seq(Nodes)] /\ misses' \in [Nodes -> [Nodes -> 0 .. 3]]
  BY MissCounted
<1>7. Only(ha, ha', "beat") /\ BeatOK(beat') /\ Quiet(main, start, beat')
  BY <1>1, <1>2, <1>5, OnlyKind DEF IInv, Shapes, Quiet, BeatIs
<1>8. BeatPlaces(ha', beat', main)
  BY <1>1, <1>2, <1>5 DEF IInv, Places, BeatPlaces, BeatIs
<1> QED
  BY <1>2, <1>6, <1>7, <1>8, BeatMoves

LEMMA AckBeatStep ==
    ASSUME IInv, NEW k \in Nodes, NEW n \in Nodes, AckBeat(k, n)
    PROVE  IInv'
<1>1. PICK r : r = [NoBeat EXCEPT !.step = "done"]
  OBVIOUS
<1>2. /\ HoldsIn(ha, k, <<"beat", n>>) /\ ha' = [ha EXCEPT ![k] = Tail(@)]
      /\ beat' = [beat EXCEPT ![n] = r]
      /\ main' = main /\ start' = start /\ followers' = followers
      /\ misses' = misses /\ reg' = reg /\ log' = log /\ file' = file
  BY <1>1 DEF AckBeat, Holds, HoldsIn, Release, boot, data, hist
<1>3. In(ha, k, <<"beat", n>>)
  BY <1>2, HolderIsIn DEF IInv, Shapes
<1>4. beat[n].step = "beating" /\ Head(beat[n].left) = k
  BY <1>3 DEF IInv, Places, BeatPlaces, Origins
<1>5. Released(ha, ha', k, <<"beat", n>>)
  BY <1>2, ReleaseQueue DEF IInv, Shapes
<1>6. IsBeat(r) /\ r.step = "done" /\ r.left = <<>>
  BY <1>1 DEF NoBeat, IsBeat
<1>7. BeatIs(beat, beat', n, r)
  <2>1. r.left \in Seq(Nodes)
    BY <1>6
  <2> QED
    BY <1>2, <1>6, <2>1, BeatRecord DEF IInv, Shapes
<1>8. Only(ha, ha', "beat") /\ BeatOK(beat') /\ Quiet(main, start, beat')
  BY <1>4, <1>5, <1>7, OnlyKind DEF IInv, Shapes, Quiet, BeatIs
<1>9. BeatPlaces(ha', beat', main)
  <2> SUFFICES ASSUME NEW m \in Nodes, NEW o \in Origins, In(ha', m, <<"beat", o>>)
               PROVE  /\ o \in Nodes /\ beat'[o].step = "beating"
                      /\ Head(beat'[o].left) = m /\ main[m] = "listening"
    BY DEF BeatPlaces
  <2>1. In(ha, m, <<"beat", o>>) /\ ~(m = k /\ <<"beat", o>> = <<"beat", n>>)
    BY <1>5, Zenon DEF Released
  <2>2. /\ o \in Nodes /\ beat[o].step = "beating" /\ Head(beat[o].left) = m
        /\ main[m] = "listening"
    BY <2>1 DEF IInv, Places, BeatPlaces
  <2>3. o # n
    BY <1>4, <2>1, <2>2
  <2> QED
    BY <1>7, <2>2, <2>3 DEF BeatIs
<1> QED
  BY <1>2, <1>8, <1>9, BeatMoves DEF IInv, Shapes
-----------------------------------------------------------------------------
(* HaRegisterFollower *)

\* Everybody else goes on as before.
Aside(k) ==
    /\ Only(ha, ha', k) /\ start' = start /\ beat' = beat /\ misses' = misses
    /\ log' = log /\ file' = file

\* A step of a registration disturbs nobody else.
LEMMA RegMoves ==
    ASSUME IInv, RegOK(reg'), NEW k \in {"register", "reg"}, Aside(k),
           RegisterPlaces(ha', reg'), RegPlaces(ha', reg', main), RegHolds(ha', reg'),
           Asks(main, reg'), followers' \in [Nodes -> Seq(Nodes)], main' = main
    PROVE  IInv'
<1>1. Shapes'
  BY DEF IInv, Shapes, Aside, Only
<1>2. \A j : j # k => Fewer(ha, ha', j) /\ Keep(ha, ha', j) /\ Stay(ha, ha', j)
  BY DEF Aside, Only
<1>3. Places'
  BY <1>2, Frames DEF IInv, Places, Aside
<1>4. Holders'
  BY <1>2, Frames DEF IInv, Shapes, Holders, Aside
<1> QED
  BY <1>1, <1>3, <1>4 DEF IInv, Aside

\* The registration of o ends at s and gives the lock back.
LEMMA RegReleases ==
    ASSUME IInv, NEW o \in Origins, NEW r, RegSet(reg, reg', o, r), r.step \notin Busy,
           ha' = [ha EXCEPT ![reg[o].at] = Tail(@)],
           HoldsIn(ha, reg[o].at, <<"register", o>>),
           ~In(ha, reg[o].addr, <<"reg", o>>),
           main' = main, start' = start, beat' = beat, followers' = followers,
           misses' = misses, log' = log, file' = file
    PROVE  IInv'
<1>1. PICK n : n = reg[o].at
  OBVIOUS
<1>2. n \in Nodes /\ In(ha, n, <<"register", o>>)
  BY <1>1, HolderIsIn DEF IInv, Shapes, RegOK
<1>3. Released(ha, ha', n, <<"register", o>>)
  BY <1>1, <1>2, ReleaseQueue DEF IInv, Shapes
<1>4. Aside("register")
  BY <1>3, OnlyKind DEF IInv, Shapes, Aside
<1>5. r.step \notin {"queued", "beating", "listing", "copying", "syncing"}
  BY DEF Busy
<1>6. reg[o].step \in Busy
  BY <1>2 DEF IInv, Places, RegisterPlaces
<1>7. RegisterPlaces(ha', reg')
  <2> SUFFICES ASSUME NEW m \in Nodes, NEW p \in Origins, In(ha', m, <<"register", p>>)
               PROVE  reg'[p].at = m /\ reg'[p].step \in Busy
    BY DEF RegisterPlaces
  <2>1. In(ha, m, <<"register", p>>) /\ ~(m = n /\ <<"register", p>> = <<"register", o>>)
    BY <1>3, Zenon DEF Released
  <2>2. reg[p].at = m /\ reg[p].step \in Busy
    BY <2>1 DEF IInv, Places, RegisterPlaces
  <2>3. p # o
    BY <1>1, <2>1, <2>2
  <2> QED
    BY <2>2, <2>3 DEF RegSet
<1>8. RegPlaces(ha', reg', main)
  <2> SUFFICES ASSUME NEW m \in Nodes, NEW p \in Origins, In(ha', m, <<"reg", p>>)
               PROVE  reg'[p].addr = m /\ reg'[p].step = "beating" /\ main[m] = "listening"
    BY DEF RegPlaces
  <2>1. In(ha, m, <<"reg", p>>)
    BY <1>3, Zenon DEF Released
  <2>2. reg[p].addr = m /\ reg[p].step = "beating" /\ main[m] = "listening"
    BY <2>1 DEF IInv, Places, RegPlaces
  <2>3. p # o
    BY <2>1, <2>2
  <2> QED
    BY <2>2, <2>3 DEF RegSet
<1>9. RegHolds(ha', reg')
  <2> SUFFICES ASSUME NEW p \in Origins, reg'[p].step \in Serving
               PROVE  HoldsIn(ha', reg'[p].at, <<"register", p>>)
    BY DEF RegHolds
  <2>1. p # o
    BY <1>5 DEF RegSet, Serving
  <2>2. reg'[p] = reg[p] /\ reg[p].at \in Nodes
    BY <2>1 DEF RegSet, IInv, Shapes, RegOK
  <2>3. HoldsIn(ha, reg[p].at, <<"register", p>>)
    BY <2>2 DEF IInv, Holders, RegHolds
  <2>4. <<"register", p>> # <<"register", o>>
    BY <2>1
  <2> QED
    BY <1>3, <2>2, <2>3, <2>4 DEF Released
<1>10. Asks(main, reg')
  BY <1>6 DEF IInv, Asks, RegSet, Busy, Origins
<1> QED
  BY <1>4, <1>7, <1>8, <1>9, <1>10, RegMoves DEF IInv, Shapes, RegSet

LEMMA AnswerStep ==
    ASSUME IInv, NEW o \in Origins, NEW ok, Answer(o, ok),
           HoldsIn(ha, reg[o].at, <<"register", o>>), ~In(ha, reg[o].addr, <<"reg", o>>),
           main' = main, start' = start, beat' = beat, followers' = followers,
           misses' = misses, log' = log, file' = file
    PROVE  IInv'
<1>1. PICK rg, s : rg = reg /\ s = IF ok THEN "accepted" ELSE "refused"
  OBVIOUS
<1>2. PICK q, r : q = rg[o] /\ r = IF o \in Nodes THEN [q EXCEPT !.step = s]
                                   ELSE [NoReg EXCEPT !.step = "done"]
  OBVIOUS
<1>3. ha' = [ha EXCEPT ![reg[o].at] = Tail(@)] /\ reg' = [rg EXCEPT ![o] = r]
  BY <1>1, <1>2 DEF Answer, Release
<1>4. RegOK(rg) /\ IsReg(q) /\ q.at \in Nodes /\ q.addr \in Nodes
  BY <1>1, <1>2 DEF IInv, Shapes, RegOK
<1>5. IsReg(r) /\ r.at \in Nodes /\ r.addr \in Nodes /\ r.step \in {"accepted", "refused", "done"}
  <2>1. CASE o \in Nodes
    <3>1. /\ IsReg([q EXCEPT !.step = s]) /\ [q EXCEPT !.step = s].step = s
          /\ [q EXCEPT !.step = s].at = q.at /\ [q EXCEPT !.step = s].addr = q.addr
      BY ONLY <1>4, RegField
    <3>2. r = [q EXCEPT !.step = s]
      BY <1>2, <2>1
    <3>3. IsReg(r) /\ r.step = s /\ r.at = q.at /\ r.addr = q.addr
      BY ONLY <3>1, <3>2, Zenon
    <3>4. s \in {"accepted", "refused"}
      BY <1>1
    <3> QED
      BY ONLY <1>4, <3>3, <3>4
  <2>2. CASE o \notin Nodes
    <3>1. r = [step |-> "done", at |-> Writer, addr |-> Writer, copy |-> <<>>]
      BY <1>2, <2>2 DEF NoReg
    <3>2. IsReg(r) /\ r.step = "done" /\ r.at = Writer /\ r.addr = Writer
      BY ONLY <3>1 DEF IsReg
    <3> QED
      BY ONLY <3>2, ReplicationAssumption
  <2> QED
    BY <2>1, <2>2
<1>6. RegSet(rg, reg', o, r)
  BY <1>3, <1>4, <1>5, RegRecord
<1>7. r.step \notin Busy
  BY <1>5 DEF Busy
<1> QED
  BY <1>1, <1>3, <1>6, <1>7, RegReleases

\* A registration past its place has the lock; past its call, nobody answers it.
LEMMA ServesAlone ==
    ASSUME IInv, NEW o \in Origins, reg[o].step \in Serving
    PROVE  /\ HoldsIn(ha, reg[o].at, <<"register", o>>)
           /\ reg[o].step # "beating" => ~In(ha, reg[o].addr, <<"reg", o>>)
<1>1. reg[o].addr \in Nodes
  BY DEF IInv, Shapes, RegOK
<1> QED
  BY <1>1 DEF IInv, Holders, RegHolds, Places, RegPlaces

LEMMA RegisterBreaksStep ==
    ASSUME IInv, NEW o \in Origins, RegisterBreaks(o)
    PROVE  IInv'
<1>1. /\ reg[o].step = "beating" /\ ~In(ha, reg[o].addr, <<"reg", o>>) /\ Answer(o, FALSE)
      /\ main' = main /\ start' = start /\ beat' = beat /\ followers' = followers
      /\ misses' = misses /\ log' = log /\ file' = file
  BY DEF RegisterBreaks, Waits, In, boot, data, hist
<1>2. HoldsIn(ha, reg[o].at, <<"register", o>>)
  BY <1>1, ServesAlone DEF Serving
<1> QED
  BY <1>1, <1>2, AnswerStep

LEMMA AnswersStep ==
    ASSUME IInv, NEW o \in Origins, CopyFails(o) \/ sync_follower(o) \/ SyncFails(o)
    PROVE  IInv'
<1>1. /\ reg[o].step \in {"copying", "syncing"}
      /\ Answer(o, FALSE) \/ Answer(o, TRUE)
      /\ main' = main /\ start' = start /\ beat' = beat /\ followers' = followers
      /\ misses' = misses /\ log' = log /\ file' = file
  BY DEF CopyFails, sync_follower, SyncFails, boot, data, hist
<1>2. HoldsIn(ha, reg[o].at, <<"register", o>>) /\ ~In(ha, reg[o].addr, <<"reg", o>>)
  BY <1>1, ServesAlone DEF Serving
<1> QED
  BY <1>1, <1>2, AnswerStep

\* A registration that has the lock goes on to s.
LEMMA RegAdvances ==
    ASSUME IInv, NEW o \in Origins, NEW s \in Serving, RegIs(reg, reg', o, s), Aside("reg"),
           HoldsIn(ha, reg[o].at, <<"register", o>>), RegPlaces(ha', reg', main),
           followers' \in [Nodes -> Seq(Nodes)], main' = main
    PROVE  IInv'
<1>1. \A p \in Origins : reg'[p].at = reg[p].at /\ reg'[p].addr = reg[p].addr
      /\ (p # o => reg'[p].step = reg[p].step)
  BY DEF RegIs
<1>2. RegOK(reg') /\ reg'[o].step = s
  BY DEF RegIs
<1>3. reg[o].at \in Nodes /\ In(ha, reg[o].at, <<"register", o>>)
  BY HolderIsIn DEF IInv, Shapes, RegOK
<1>4. s \in Busy /\ reg[o].step \in Busy
  BY <1>3 DEF IInv, Places, RegisterPlaces, Serving, Busy
<1>5. Fewer(ha, ha', "register") /\ Keep(ha, ha', "register")
  BY DEF Aside, Only
<1>6. RegisterPlaces(ha', reg')
  BY <1>1, <1>2, <1>4, <1>5 DEF IInv, Places, RegisterPlaces, Fewer
<1>7. RegHolds(ha', reg')
  <2> SUFFICES ASSUME NEW p \in Origins, reg'[p].step \in Serving
               PROVE  HoldsIn(ha', reg'[p].at, <<"register", p>>)
    BY DEF RegHolds
  <2>1. HoldsIn(ha, reg[p].at, <<"register", p>>)
    BY <1>1 DEF IInv, Holders, RegHolds
  <2>2. reg[p].at \in Nodes /\ reg'[p].at = reg[p].at
    BY <1>1 DEF IInv, Shapes, RegOK
  <2> QED
    BY <1>5, <2>1, <2>2 DEF Keep
<1>8. Asks(main, reg')
  BY <1>1, <1>4 DEF IInv, Asks, Busy, Origins
<1> QED
  BY <1>2, <1>6, <1>7, <1>8, RegMoves

LEMMA RegisterFollowerStep ==
    ASSUME IInv, NEW o \in Origins, register_follower(o)
    PROVE  IInv'
<1>1. PICK a : a = reg[o].addr
  OBVIOUS
<1>2. /\ reg[o].step = "queued" /\ HoldsIn(ha, reg[o].at, <<"register", o>>)
      /\ \/ /\ Up(a) /\ ha' = [ha EXCEPT ![a] = Append(@, <<"reg", o>>)]
            /\ reg' = [reg EXCEPT ![o].step = "beating"]
         \/ Answer(o, FALSE)
      /\ main' = main /\ start' = start /\ beat' = beat /\ followers' = followers
      /\ misses' = misses /\ log' = log /\ file' = file
  BY <1>1 DEF register_follower, Holds, HoldsIn, Enter, boot, data, hist
<1>3. a \in Nodes /\ ~In(ha, a, <<"reg", o>>)
  BY <1>1, <1>2 DEF IInv, Shapes, RegOK, Places, RegPlaces
<1>4. CASE Answer(o, FALSE)
  BY <1>1, <1>2, <1>3, <1>4, AnswerStep
<1>5. CASE /\ Up(a) /\ ha' = [ha EXCEPT ![a] = Append(@, <<"reg", o>>)]
           /\ reg' = [reg EXCEPT ![o].step = "beating"]
  <2>1. Entered(ha, ha', a, <<"reg", o>>)
    <3>1. <<"reg", o>> \in Tasks
      BY DEF Tasks, Kinds
    <3> QED
      BY <1>3, <1>5, <3>1, EnterQueue DEF IInv, Shapes
  <2>2. Aside("reg")
    BY <1>2, <2>1, OnlyKind DEF IInv, Shapes, Aside
  <2>3. RegIs(reg, reg', o, "beating")
    BY <1>5, RegStepIs DEF IInv, Shapes
  <2>4. RegPlaces(ha', reg', main)
    <3> SUFFICES ASSUME NEW m \in Nodes, NEW p \in Origins, In(ha', m, <<"reg", p>>)
                 PROVE  reg'[p].addr = m /\ reg'[p].step = "beating" /\ main[m] = "listening"
      BY DEF RegPlaces
    <3>1. In(ha, m, <<"reg", p>>) \/ (m = a /\ <<"reg", p>> = <<"reg", o>>)
      BY <2>1, Zenon DEF Entered
    <3>2. CASE m = a /\ p = o
      BY <1>1, <1>5, <2>3, <3>2 DEF RegIs, Up
    <3>3. CASE In(ha, m, <<"reg", p>>)
      BY <2>3, <3>3 DEF IInv, Places, RegPlaces, RegIs
    <3> QED
      BY <3>1, <3>2, <3>3
  <2> QED
    BY <1>2, <2>2, <2>3, <2>4, RegAdvances DEF Serving, IInv, Shapes
<1> QED
  BY <1>2, <1>4, <1>5

LEMMA AckRegisterStep ==
    ASSUME IInv, NEW k \in Nodes, NEW o \in Origins, AckRegister(k, o)
    PROVE  IInv'
<1>1. /\ HoldsIn(ha, k, <<"reg", o>>) /\ ha' = [ha EXCEPT ![k] = Tail(@)]
      /\ reg' = [reg EXCEPT ![o].step = "listing"]
      /\ main' = main /\ start' = start /\ beat' = beat /\ followers' = followers
      /\ misses' = misses /\ log' = log /\ file' = file
  BY DEF AckRegister, Holds, HoldsIn, Release, boot, data, hist
<1>2. In(ha, k, <<"reg", o>>)
  BY <1>1, HolderIsIn DEF IInv, Shapes
<1>3. reg[o].addr = k /\ reg[o].step = "beating" /\ main[k] = "listening"
  BY <1>2 DEF IInv, Places, RegPlaces
<1>4. Released(ha, ha', k, <<"reg", o>>)
  BY <1>1, ReleaseQueue DEF IInv, Shapes
<1>5. Aside("reg")
  BY <1>1, <1>4, OnlyKind DEF IInv, Shapes, Aside
<1>6. RegIs(reg, reg', o, "listing")
  BY <1>1, RegStepIs DEF IInv, Shapes
<1>7. RegPlaces(ha', reg', main)
  <2> SUFFICES ASSUME NEW m \in Nodes, NEW p \in Origins, In(ha', m, <<"reg", p>>)
               PROVE  reg'[p].addr = m /\ reg'[p].step = "beating" /\ main[m] = "listening"
    BY DEF RegPlaces
  <2>1. In(ha, m, <<"reg", p>>) /\ ~(m = k /\ <<"reg", p>> = <<"reg", o>>)
    BY <1>4, Zenon DEF Released
  <2>2. reg[p].addr = m /\ reg[p].step = "beating" /\ main[m] = "listening"
    BY <2>1 DEF IInv, Places, RegPlaces
  <2>3. p # o
    BY <1>3, <2>1, <2>2
  <2> QED
    BY <1>6, <2>2, <2>3 DEF RegIs
<1>8. HoldsIn(ha, reg[o].at, <<"register", o>>)
  BY <1>3, ServesAlone DEF Serving
<1> QED
  BY <1>1, <1>5, <1>6, <1>7, <1>8, RegAdvances DEF Serving, IInv, Shapes

\* A registration gets to s with the copy c.
CopySet(rg, g, o, s, c) ==
    RegIs(rg, g, o, s) /\ g[o].copy = c /\ \A p \in Origins \ {o} : g[p] = rg[p]

LEMMA RegCopies ==
    ASSUME NEW rg, RegOK(rg), NEW o \in Origins, NEW s, NEW c,
           NEW g, g = [rg EXCEPT ![o].step = s, ![o].copy = c]
    PROVE  CopySet(rg, g, o, s, c)
<1>1. PICK q, p, r : q = rg[o] /\ p = [q EXCEPT !.step = s] /\ r = [p EXCEPT !.copy = c]
  OBVIOUS
<1>2. DOMAIN rg = Origins /\ IsReg(q) /\ q.at \in Nodes /\ q.addr \in Nodes
  BY <1>1 DEF RegOK
<1>3. g = [rg EXCEPT ![o] = r]
  <2>1. g = [rg EXCEPT ![o] = [[q EXCEPT !.step = s] EXCEPT !.copy = c]]
    BY ONLY <1>1, <1>2, o \in Origins, g = [rg EXCEPT ![o].step = s, ![o].copy = c]
  <2> QED
    BY ONLY <1>1, <2>1, Zenon
<1>4. IsReg(r) /\ r.step = s /\ r.at = q.at /\ r.addr = q.addr /\ r.copy = c
  <2>1. PICK a, x, y, d : q = [step |-> a, at |-> x, addr |-> y, copy |-> d]
    BY ONLY <1>2 DEF IsReg
  <2>2. p = [step |-> s, at |-> x, addr |-> y, copy |-> d]
    BY ONLY <1>1, <2>1
  <2>3. r = [step |-> s, at |-> x, addr |-> y, copy |-> c]
    <3>1. r = [p EXCEPT !.copy = c]
      BY ONLY <1>1, Zenon
    <3> QED
      BY ONLY <2>2, <3>1
  <2> QED
    BY ONLY <2>1, <2>3 DEF IsReg
<1>5. RegSet(rg, g, o, r)
  <2>1. r.at \in Nodes /\ r.addr \in Nodes
    BY ONLY <1>2, <1>4, Zenon
  <2> QED
    BY <1>3, <1>4, <2>1, RegRecord
<1> QED
  BY ONLY <1>1, <1>4, <1>5 DEF RegSet, RegIs, CopySet

LEMMA ListFollowerStep ==
    ASSUME IInv, NEW o \in Origins, ListFollower(o)
    PROVE  IInv'
<1>1. PICK n, a, fo, c : /\ n = reg[o].at /\ a = reg[o].addr /\ fo = followers
                         /\ c = lines[reg[o].at]
  OBVIOUS
<1>2. /\ reg[o].step = "listing" /\ followers' = [fo EXCEPT ![n] = Append(@, a)]
      /\ reg' = [reg EXCEPT ![o].step = "copying", ![o].copy = c] /\ ha' = ha
      /\ main' = main /\ start' = start /\ beat' = beat
      /\ misses' = misses /\ log' = log /\ file' = file
  BY <1>1 DEF ListFollower, boot, data, hist
<1>3. n \in Nodes /\ a \in Nodes /\ fo \in [Nodes -> Seq(Nodes)]
  BY <1>1, <1>2 DEF IInv, Shapes, RegOK
<1>4. followers' \in [Nodes -> Seq(Nodes)]
  <2>1. PICK q, p : q = fo[n] /\ p = Append(q, a)
    OBVIOUS
  <2>2. q \in Seq(Nodes) /\ p \in Seq(Nodes)
    BY ONLY <1>3, <2>1
  <2>3. followers' = [fo EXCEPT ![n] = p]
    BY ONLY <1>2, <2>1
  <2> QED
    BY ONLY <1>3, <2>1, <2>2, <2>3
<1>5. Aside("reg")
  BY <1>2, OnlyKind DEF IInv, Shapes, Aside
<1>6. RegIs(reg, reg', o, "copying")
  BY <1>2, RegCopies DEF IInv, Shapes, CopySet
<1>7. RegPlaces(ha', reg', main)
  <2>1. RegPlaces(ha, reg, main) /\ ha' = ha /\ reg[o].step = "listing"
    BY <1>2 DEF IInv, Places
  <2> QED
    BY ONLY <1>6, <2>1 DEF RegPlaces, RegIs
<1>8. HoldsIn(ha, reg[o].at, <<"register", o>>)
  BY <1>2, ServesAlone DEF Serving
<1> QED
  BY <1>2, <1>4, <1>5, <1>6, <1>7, <1>8, RegAdvances DEF Serving

LEMMA TakeCopyStep ==
    ASSUME IInv, NEW o \in Origins, TakeCopy(o)
    PROVE  IInv'
<1>1. PICK copy : \/ Answer(o, TRUE)
                  \/ reg' = [reg EXCEPT ![o].step = "syncing", ![o].copy = copy] /\ ha' = ha
  BY DEF TakeCopy
<1>2. /\ reg[o].step = "copying"
      /\ main' = main /\ start' = start /\ beat' = beat /\ followers' = followers
      /\ misses' = misses /\ log' = log /\ file' = file
  BY DEF TakeCopy, boot, data, hist
<1>3. HoldsIn(ha, reg[o].at, <<"register", o>>) /\ ~In(ha, reg[o].addr, <<"reg", o>>)
  BY <1>2, ServesAlone DEF Serving
<1>4. CASE Answer(o, TRUE)
  BY <1>2, <1>3, <1>4, AnswerStep
<1>5. CASE reg' = [reg EXCEPT ![o].step = "syncing", ![o].copy = copy] /\ ha' = ha
  <2>1. RegIs(reg, reg', o, "syncing")
    BY <1>5, RegCopies DEF IInv, Shapes, CopySet
  <2>2. Aside("reg")
    BY <1>2, <1>5, OnlyKind DEF IInv, Shapes, Aside
  <2>3. RegPlaces(ha', reg', main)
    <3>1. RegPlaces(ha, reg, main) /\ ha' = ha /\ reg[o].step = "copying"
      BY <1>2, <1>5 DEF IInv, Places
    <3> QED
      BY ONLY <2>1, <3>1 DEF RegPlaces, RegIs
  <2> QED
    BY <1>2, <1>3, <2>1, <2>2, <2>3, RegAdvances DEF Serving, IInv, Shapes
<1> QED
  BY <1>1, <1>4, <1>5

\* The registrations rg have their places in the queues h.
RegsOK(h, rg) ==
    /\ RegOK(rg) /\ RegisterPlaces(h, rg) /\ RegPlaces(h, rg, main) /\ RegHolds(h, rg)

Asked(m, a) == [step |-> "queued", at |-> m, addr |-> a, copy |-> <<>>]

Asking(h, rg, o, m) ==
    /\ Entered(ha, h, m, <<"register", o>>) /\ RegsOK(h, rg)
    /\ \A p \in Origins \ {o} : rg[p] = reg[p]

\* A registration that was not under way asks for the lock of node m.
LEMMA RegQueues ==
    ASSUME IInv, NEW o \in Origins, reg[o].step = "none", NEW m \in Nodes, NEW a \in Nodes,
           NEW rg, rg = [reg EXCEPT ![o] = Asked(m, a)],
           NEW h, h = [ha EXCEPT ![m] = Append(@, <<"register", o>>)]
    PROVE  Asking(h, rg, o, m)
<1>1. PICK r : r = Asked(m, a)
  OBVIOUS
<1>2. IsReg(r) /\ r.step = "queued" /\ r.at = m /\ r.addr = a
  BY ONLY <1>1 DEF IsReg, Asked
<1>3. RegSet(reg, rg, o, r)
  <2>1. rg = [reg EXCEPT ![o] = r] /\ r.at \in Nodes /\ r.addr \in Nodes
    BY <1>1, <1>2
  <2> QED
    BY <1>2, <2>1, RegRecord DEF IInv, Shapes
<1>4. RegOK(rg) /\ rg[o] = r /\ \A p \in Origins \ {o} : rg[p] = reg[p]
  BY ONLY <1>3, Zenon DEF RegSet
<1>5. \A k \in Nodes : ~In(ha, k, <<"register", o>>) /\ ~In(ha, k, <<"reg", o>>)
  BY DEF IInv, Places, RegisterPlaces, RegPlaces, Busy
<1>6. Entered(ha, h, m, <<"register", o>>)
  <2>1. <<"register", o>> \in Tasks
    BY DEF Tasks, Kinds
  <2> QED
    BY <1>5, <2>1, EnterQueue DEF IInv, Shapes
<1>7. RegisterPlaces(h, rg)
  <2> SUFFICES ASSUME NEW k \in Nodes, NEW p \in Origins, In(h, k, <<"register", p>>)
               PROVE  rg[p].at = k /\ rg[p].step \in Busy
    BY DEF RegisterPlaces
  <2>1. In(ha, k, <<"register", p>>) \/ (k = m /\ <<"register", p>> = <<"register", o>>)
    BY <1>6, Zenon DEF Entered
  <2>2. CASE In(ha, k, <<"register", p>>)
    BY <1>4, <1>5, <2>2 DEF IInv, Places, RegisterPlaces
  <2>3. CASE k = m /\ p = o
    BY <1>2, <1>4, <2>3 DEF Busy
  <2> QED
    BY <2>1, <2>2, <2>3
<1>8. RegPlaces(h, rg, main)
  <2> SUFFICES ASSUME NEW k \in Nodes, NEW p \in Origins, In(h, k, <<"reg", p>>)
               PROVE  rg[p].addr = k /\ rg[p].step = "beating" /\ main[k] = "listening"
    BY DEF RegPlaces
  <2>1. <<"reg", p>> # <<"register", o>>
    OBVIOUS
  <2>2. In(ha, k, <<"reg", p>>)
    BY <1>6, <2>1, Zenon DEF Entered
  <2> QED
    BY <1>4, <1>5, <2>2 DEF IInv, Places, RegPlaces
<1>9. RegHolds(h, rg)
  <2> SUFFICES ASSUME NEW p \in Origins, rg[p].step \in Serving
               PROVE  HoldsIn(h, rg[p].at, <<"register", p>>)
    BY DEF RegHolds
  <2>1. p # o
    BY <1>2, <1>4 DEF Serving
  <2>2. rg[p] = reg[p] /\ reg[p].at \in Nodes
    BY <1>4, <2>1 DEF IInv, Shapes, RegOK
  <2>3. HoldsIn(ha, reg[p].at, <<"register", p>>)
    BY <2>2 DEF IInv, Holders, RegHolds
  <2> QED
    BY <1>6, <2>2, <2>3 DEF Entered
<1> QED
  BY <1>4, <1>6, <1>7, <1>8, <1>9 DEF RegsOK, Asking

LEMMA AskRegisterStep ==
    ASSUME IInv, NEW o \in Registrars, AskRegister(o)
    PROVE  IInv'
<1>1. PICK m \in Nodes, a \in Nodes :
        /\ reg' = [reg EXCEPT ![o] = Asked(m, a)]
        /\ ha' = [ha EXCEPT ![m] = Append(@, <<"register", o>>)]
  BY DEF AskRegister, Enter, Asked
<1>2. /\ reg[o].step = "none" /\ o \in Origins \ Nodes
      /\ main' = main /\ start' = start /\ beat' = beat /\ followers' = followers
      /\ misses' = misses /\ log' = log /\ file' = file
  BY ReplicationAssumption DEF AskRegister, Origins, boot, data, hist
<1>3. /\ Entered(ha, ha', m, <<"register", o>>) /\ RegsOK(ha', reg')
      /\ \A p \in Origins \ {o} : reg'[p] = reg[p]
  <2>1. o \in Origins /\ reg[o].step = "none"
    BY <1>2
  <2>2. Asking(ha', reg', o, m)
    BY <1>1, <2>1, RegQueues
  <2> QED
    BY <2>2 DEF Asking
<1>4. Aside("register")
  BY <1>2, <1>3, OnlyKind DEF IInv, Shapes, Aside
<1>5. Asks(main, reg')
  BY <1>2, <1>3 DEF IInv, Asks, Origins
<1> QED
  BY <1>2, <1>3, <1>4, <1>5, RegMoves DEF IInv, Shapes, RegsOK

Forgotten(rg, n) ==
    RegsOK(ha, rg) /\ rg[n].step = "none" /\ \A p \in Origins \ {n} : rg[p] = reg[p]

\* An answer was read: the registration of n is forgotten.
LEMMA RegForgets ==
    ASSUME IInv, NEW n \in Nodes, reg[n].step \in {"accepted", "refused"},
           NEW rg, rg = [reg EXCEPT ![n] = NoReg]
    PROVE  Forgotten(rg, n)
<1>1. IsReg(NoReg) /\ NoReg.step = "none" /\ NoReg.at \in Nodes /\ NoReg.addr \in Nodes
  BY ReplicationAssumption DEF NoReg, IsReg
<1>2. n \in Origins
  BY DEF Origins
<1>3. RegSet(reg, rg, n, NoReg)
  <2>1. PICK r : r = NoReg
    OBVIOUS
  <2>2. IsReg(r) /\ r.at \in Nodes /\ r.addr \in Nodes
    BY ONLY <1>1, <2>1, Zenon
  <2>3. RegOK(reg) /\ rg = [reg EXCEPT ![n] = r]
    BY <2>1 DEF IInv, Shapes
  <2>4. RegSet(reg, rg, n, r)
    BY ONLY <1>2, <2>2, <2>3, RegRecord
  <2> QED
    BY ONLY <2>1, <2>4, Zenon
<1>4. RegOK(rg) /\ rg[n].step = "none" /\ \A p \in Origins \ {n} : rg[p] = reg[p]
  BY ONLY <1>1, <1>3, Zenon DEF RegSet
<1>5. \A k \in Nodes : ~In(ha, k, <<"register", n>>) /\ ~In(ha, k, <<"reg", n>>)
  BY <1>2 DEF IInv, Places, RegisterPlaces, RegPlaces, Busy
<1>6. RegisterPlaces(ha, rg) /\ RegPlaces(ha, rg, main)
  BY <1>4, <1>5 DEF IInv, Places, RegisterPlaces, RegPlaces
<1>7. RegHolds(ha, rg)
  BY <1>4 DEF IInv, Holders, RegHolds, Serving
<1> QED
  BY <1>4, <1>6, <1>7 DEF RegsOK, Forgotten
-----------------------------------------------------------------------------
(* The life of a process *)

\* No node stops listening.
Grows(mn, new) == \A m \in Nodes : mn[m] = "listening" => new[m] = "listening"

LEMMA GrowFrames ==
    ASSUME NEW mn, NEW new, Grows(mn, new)
    PROVE  /\ \A h, rg : RegPlaces(h, rg, mn) => RegPlaces(h, rg, new)
           /\ \A h, bt : BeatPlaces(h, bt, mn) => BeatPlaces(h, bt, new)
<1>1. \A h, rg : RegPlaces(h, rg, mn) => RegPlaces(h, rg, new)
  BY DEF Grows, RegPlaces
<1>2. \A h, bt : BeatPlaces(h, bt, mn) => BeatPlaces(h, bt, new)
  BY DEF Grows, BeatPlaces
<1> QED
  BY <1>1, <1>2

\* main goes on: what is to be shown of such a step.
LEMMA MainMoves ==
    ASSUME IInv, MainOK(main'), Grows(main, main'), StartOK(start'), RegsOK(ha', reg'),
           QueuesOK(ha'), MainPlaces(ha', main'), StartPlaces(ha', start'),
           BeatPlaces(ha', beat', main), MainHolds(ha', main'), StartHolds(ha', start'),
           Asks(main', reg'), Quiet(main', start', beat'),
           BeatOK(beat'), followers' = followers, misses' = misses, log' = log, file' = file
    PROVE  IInv'
<1>1. Shapes'
  BY DEF IInv, Shapes, RegsOK
<1>2. RegPlaces(ha', reg', main') /\ BeatPlaces(ha', beat', main')
  BY GrowFrames DEF RegsOK
<1>3. Places' /\ Holders'
  BY <1>2 DEF Places, Holders, RegsOK
<1> QED
  BY <1>1, <1>3 DEF IInv

LEMMA BootProcess ==
    ASSUME IInv, NEW n \in Nodes, Boot(n)
    PROVE  IInv'
<1>1. PICK x, s : /\ x = IF role[n] \in {"leader", "follower"} THEN "starting" ELSE "listening"
                  /\ s = IF role[n] = "alone" THEN "none" ELSE "spawned"
  OBVIOUS
<1>2. /\ main[n] = "down" /\ reg[n].step = "none"
      /\ main' = [main EXCEPT ![n] = x] /\ start' = [start EXCEPT ![n].step = s]
      /\ beat' = beat /\ ha' = ha /\ followers' = followers /\ misses' = misses
      /\ reg' = reg /\ log' = log /\ file' = file
  BY <1>1 DEF Boot, hist
<1>3. x \in {"starting", "listening"} /\ s \in {"none", "spawned"}
  BY <1>1
<1>4. /\ MainOK(main') /\ main'[n] = x /\ \A m \in Nodes \ {n} : main'[m] = main[m]
  BY <1>2, <1>3 DEF IInv, Shapes, MainOK
<1>5. StartIs(start, start', n, s)
  BY <1>2, StartStepIs DEF IInv, Shapes
<1>6. start[n].step = "none" /\ beat[n].step = "none"
  BY <1>2 DEF IInv, Quiet
<1>7. Grows(main, main') /\ Asks(main', reg')
  BY <1>2, <1>4 DEF IInv, Grows, Asks
<1>8. StartOK(start') /\ StartPlaces(ha', start') /\ StartHolds(ha', start')
  BY <1>2, <1>3, <1>5, <1>6 DEF IInv, Places, StartPlaces, Holders, StartHolds, StartIs
<1>9. MainPlaces(ha', main') /\ MainHolds(ha', main')
  BY <1>2, <1>3, <1>4 DEF IInv, Places, MainPlaces, Holders, MainHolds
<1>10. Quiet(main', start', beat')
  BY <1>2, <1>3, <1>4, <1>5, <1>6 DEF IInv, Quiet, StartIs
<1>11. RegsOK(ha', reg')
  BY <1>2 DEF IInv, Shapes, Places, Holders, RegsOK
<1> QED
  BY <1>2, <1>4, <1>7, <1>8, <1>9, <1>10, <1>11, MainMoves
     DEF IInv, Shapes, Places

LEMMA MainLocksStep ==
    ASSUME IInv, NEW n \in Nodes, MainLocks(n)
    PROVE  IInv'
<1>1. /\ main[n] = "starting" /\ main' = [main EXCEPT ![n] = "locking"]
      /\ ha' = [ha EXCEPT ![n] = Append(@, <<"main", n>>)]
      /\ start' = start /\ beat' = beat /\ followers' = followers /\ misses' = misses
      /\ reg' = reg /\ log' = log /\ file' = file
  BY DEF MainLocks, Enter, data, hist
<1>2. MainOK(main') /\ main'[n] = "locking" /\ \A m \in Nodes \ {n} : main'[m] = main[m]
  BY <1>1 DEF IInv, Shapes, MainOK
<1>3. Entered(ha, ha', n, <<"main", n>>)
  <2>1. <<"main", n>> \in Tasks
    BY DEF Tasks, Kinds, Origins
  <2>2. ~In(ha, n, <<"main", n>>)
    BY <1>1 DEF IInv, Places, MainPlaces, Origins
  <2> QED
    BY <1>1, <2>1, <2>2, EnterQueue DEF IInv, Shapes
<1>4. Only(ha, ha', "main")
  BY <1>3, OnlyKind DEF IInv, Shapes
<1>5. /\ QueuesOK(ha')
      /\ \A j : j # "main" => Fewer(ha, ha', j) /\ Keep(ha, ha', j) /\ Stay(ha, ha', j)
  BY <1>4 DEF Only
<1>6. Grows(main, main') /\ Asks(main', reg') /\ Quiet(main', start', beat')
  BY <1>1, <1>2 DEF IInv, Grows, Asks, Quiet
<1>7. MainPlaces(ha', main')
  <2> SUFFICES ASSUME NEW m \in Nodes, NEW o \in Origins, In(ha', m, <<"main", o>>)
               PROVE  o = m /\ main'[m] \in {"locking", "registering"}
    BY DEF MainPlaces
  <2>1. In(ha, m, <<"main", o>>) \/ (m = n /\ <<"main", o>> = <<"main", n>>)
    BY <1>3, Zenon DEF Entered
  <2>2. CASE In(ha, m, <<"main", o>>)
    BY <1>2, <2>2 DEF IInv, Places, MainPlaces
  <2>3. CASE m = n /\ o = n
    BY <1>2, <2>3
  <2> QED
    BY <2>1, <2>2, <2>3
<1>8. MainHolds(ha', main')
  BY <1>2, <1>3 DEF IInv, Holders, MainHolds, Entered
<1>9. StartPlaces(ha', start') /\ StartHolds(ha', start') /\ BeatPlaces(ha', beat', main)
  BY <1>1, <1>5, Frames DEF IInv, Places, Holders
<1>10. RegsOK(ha', reg')
  BY <1>1, <1>5, Frames DEF IInv, Shapes, Places, Holders, RegsOK
<1> QED
  BY <1>1, <1>2, <1>5, <1>6, <1>7, <1>8, <1>9, <1>10, MainMoves
     DEF IInv, Shapes

\* main of n gives the lock back and the server listens.
Listens(n) ==
    /\ MainOK(main') /\ main'[n] = "listening" /\ \A m \in Nodes \ {n} : main'[m] = main[m]
    /\ Grows(main, main') /\ MainPlaces(ha', main') /\ MainHolds(ha', main')
    /\ Only(ha, ha', "main")

LEMMA MainReleases ==
    ASSUME IInv, NEW n \in Nodes, HoldsIn(ha, n, <<"main", n>>),
           main' = [main EXCEPT ![n] = "listening"], ha' = [ha EXCEPT ![n] = Tail(@)]
    PROVE  Listens(n)
<1>1. MainOK(main') /\ main'[n] = "listening" /\ \A m \in Nodes \ {n} : main'[m] = main[m]
  BY DEF IInv, Shapes, MainOK
<1>2. Released(ha, ha', n, <<"main", n>>)
  BY ReleaseQueue DEF IInv, Shapes
<1>3. Only(ha, ha', "main")
  BY <1>2, OnlyKind DEF IInv, Shapes
<1>4. Grows(main, main')
  BY <1>1 DEF Grows
<1>5. MainPlaces(ha', main')
  <2> SUFFICES ASSUME NEW m \in Nodes, NEW o \in Origins, In(ha', m, <<"main", o>>)
               PROVE  o = m /\ main'[m] \in {"locking", "registering"}
    BY DEF MainPlaces
  <2>1. In(ha, m, <<"main", o>>) /\ ~(m = n /\ <<"main", o>> = <<"main", n>>)
    BY <1>2, Zenon DEF Released
  <2>2. o = m /\ main[m] \in {"locking", "registering"}
    BY <2>1 DEF IInv, Places, MainPlaces
  <2> QED
    BY <1>1, <2>1, <2>2
<1>6. MainHolds(ha', main')
  <2> SUFFICES ASSUME NEW m \in Nodes, main'[m] = "registering"
               PROVE  HoldsIn(ha', m, <<"main", m>>)
    BY DEF MainHolds
  <2>1. m # n /\ HoldsIn(ha, m, <<"main", m>>)
    BY <1>1 DEF IInv, Holders, MainHolds
  <2> QED
    BY <1>2, <2>1 DEF Released
<1> QED
  BY <1>1, <1>3, <1>4, <1>5, <1>6 DEF Listens

LEMMA LeaderMainStep ==
    ASSUME IInv, NEW n \in Nodes, LeaderMain(n)
    PROVE  IInv'
<1>1. /\ main[n] = "locking" /\ HoldsIn(ha, n, <<"main", n>>)
      /\ main' = [main EXCEPT ![n] = "listening"] /\ ha' = [ha EXCEPT ![n] = Tail(@)]
      /\ beat' = [beat EXCEPT ![n].step = "ticking"]
      /\ start' = start /\ followers' = followers /\ misses' = misses
      /\ reg' = reg /\ log' = log /\ file' = file
  BY DEF LeaderMain, Holds, HoldsIn, Release, data, hist
<1>2. Listens(n)
  BY <1>1, MainReleases
<1>3. /\ QueuesOK(ha')
      /\ \A j : j # "main" => Fewer(ha, ha', j) /\ Keep(ha, ha', j) /\ Stay(ha, ha', j)
  BY <1>2 DEF Listens, Only
<1>4. BeatAt(beat, beat', n, "ticking")
  BY <1>1, BeatStepIs DEF IInv, Shapes
<1>5. reg[n].step = "none" /\ beat[n].step = "none"
  <2>1. Quiet(main, start, beat) /\ Asks(main, reg) /\ main[n] = "locking"
    BY <1>1 DEF IInv
  <2> QED
    BY ONLY <2>1, n \in Nodes DEF Quiet, Asks
<1>6. Asks(main', reg')
  BY <1>1, <1>2, <1>5 DEF IInv, Asks, Listens
<1>7. Quiet(main', start', beat')
  BY <1>1, <1>2, <1>4 DEF IInv, Quiet, Listens, BeatAt
<1>8. /\ StartPlaces(ha', start') /\ StartHolds(ha', start') /\ BeatPlaces(ha', beat, main)
      /\ RegsOK(ha', reg')
  BY <1>1, <1>3, Frames DEF IInv, Shapes, Places, Holders, RegsOK
<1>9. BeatOK(beat') /\ BeatPlaces(ha', beat', main)
  BY <1>4, <1>5, <1>8 DEF BeatPlaces, BeatAt
<1> QED
  BY <1>1, <1>2, <1>3, <1>6, <1>7, <1>8, <1>9, MainMoves
     DEF Listens, IInv, Shapes

LEMMA RegisterMasterStep ==
    ASSUME IInv, NEW n \in Nodes, main[n] = "locking", HoldsIn(ha, n, <<"main", n>>),
           NEW m \in Nodes,
           main' = [main EXCEPT ![n] = "registering"],
           reg' = [reg EXCEPT ![n] = Asked(m, n)],
           ha' = [ha EXCEPT ![m] = Append(@, <<"register", n>>)],
           start' = start, beat' = beat, followers' = followers, misses' = misses,
           log' = log, file' = file
    PROVE  IInv'
<1>1. n \in Origins /\ reg[n].step = "none"
  BY DEF IInv, Asks, Origins
<1>2. Asking(ha', reg', n, m)
  BY <1>1, RegQueues
<1>3. /\ Entered(ha, ha', m, <<"register", n>>) /\ RegsOK(ha', reg')
      /\ \A p \in Origins \ {n} : reg'[p] = reg[p]
  BY <1>2 DEF Asking
<1>4. Only(ha, ha', "register")
  BY <1>3, OnlyKind DEF IInv, Shapes
<1>5. /\ QueuesOK(ha')
      /\ \A j : j # "register" => Fewer(ha, ha', j) /\ Keep(ha, ha', j) /\ Stay(ha, ha', j)
  BY <1>4 DEF Only
<1>6. MainOK(main') /\ main'[n] = "registering" /\ \A k \in Nodes \ {n} : main'[k] = main[k]
  BY DEF IInv, Shapes, MainOK
<1>7. Grows(main, main') /\ Quiet(main', start', beat')
  BY <1>6 DEF IInv, Grows, Quiet
<1>8. Asks(main', reg')
  BY <1>3, <1>6 DEF IInv, Asks, Origins
<1>9. /\ StartPlaces(ha', start') /\ StartHolds(ha', start') /\ BeatPlaces(ha', beat', main)
      /\ MainPlaces(ha', main)
      /\ Keep(ha, ha', "main")
  BY <1>5, Frames DEF IInv, Shapes, Places, Holders
<1>10. MainPlaces(ha', main')
  BY <1>6, <1>9 DEF MainPlaces
<1>11. MainHolds(ha', main')
  <2> SUFFICES ASSUME NEW k \in Nodes, main'[k] = "registering"
               PROVE  HoldsIn(ha', k, <<"main", k>>)
    BY DEF MainHolds
  <2>1. HoldsIn(ha, k, <<"main", k>>)
    BY <1>6 DEF IInv, Holders, MainHolds
  <2> QED
    BY <1>9, <2>1 DEF Keep, Origins
<1> QED
  BY <1>3, <1>5, <1>6, <1>7, <1>8, <1>9, <1>10, <1>11, MainMoves
     DEF IInv, Shapes

LEMMA MasterAcceptsStep ==
    ASSUME IInv, NEW n \in Nodes, reg[n].step \in {"accepted", "refused"},
           reg' = [reg EXCEPT ![n] = NoReg], start' = start, beat' = beat,
           followers' = followers, misses' = misses, log' = log, file' = file,
           \/ main' = main /\ ha' = ha
           \/ /\ main[n] = "registering" /\ main' = [main EXCEPT ![n] = "listening"]
              /\ ha' = [ha EXCEPT ![n] = Tail(@)]
    PROVE  IInv'
<1>1. RegsOK(ha, reg') /\ reg'[n].step = "none" /\ \A p \in Origins \ {n} : reg'[p] = reg[p]
  <2>1. Forgotten(reg', n)
    BY RegForgets
  <2> QED
    BY <2>1 DEF Forgotten
<1>2. CASE main' = main /\ ha' = ha
  <2>1. Aside("register")
    BY <1>2, OnlyKind DEF IInv, Shapes, Aside
  <2>2. Asks(main, reg')
    BY <1>1 DEF IInv, Asks, Origins
  <2> QED
    BY <1>1, <1>2, <2>1, <2>2, RegMoves DEF RegsOK, IInv, Shapes
<1>3. CASE /\ main[n] = "registering" /\ main' = [main EXCEPT ![n] = "listening"]
           /\ ha' = [ha EXCEPT ![n] = Tail(@)]
  <2>1. HoldsIn(ha, n, <<"main", n>>)
    BY <1>3 DEF IInv, Holders, MainHolds
  <2>2. Listens(n)
    BY <1>3, <2>1, MainReleases
  <2>3. /\ QueuesOK(ha')
        /\ \A j : j # "main" => Fewer(ha, ha', j) /\ Keep(ha, ha', j) /\ Stay(ha, ha', j)
    BY <2>2 DEF Listens, Only
  <2>4. Asks(main', reg')
    BY <1>1, <2>2 DEF IInv, Asks, Listens, Origins
  <2>5. Quiet(main', start', beat')
    BY <1>3, <2>2 DEF IInv, Quiet, Listens
  <2>6. /\ StartPlaces(ha', start') /\ StartHolds(ha', start') /\ BeatPlaces(ha', beat', main)
    BY <2>3, Frames DEF IInv, Shapes, Places, Holders
  <2>7. RegsOK(ha', reg')
    BY <1>1, <2>3, Frames DEF RegsOK
  <2> QED
    BY <2>2, <2>3, <2>4, <2>5, <2>6, <2>7, MainMoves DEF Listens, IInv, Shapes
<1> QED
  BY <1>2, <1>3

\* The calls that a node was waiting for, and the registrations it was serving.
Leaving(n, r) ==
    {t \in Tasks : t = <<"beat", n>> \/ (t[1] = "reg" /\ r[t[2]].at = n /\ r[t[2]].step = "beating")}
Broken(n, r, o) == r[o].at = n /\ r[o].step \notin {"none", "done", "accepted", "refused"}

LEMMA EndRegs ==
    ASSUME NEW n \in Nodes, NEW r, End(n, r), RegOK(r)
    PROVE  /\ RegOK(reg')
           /\ \A o \in Origins : ~Broken(n, r, o) => reg'[o] = r[o]
           /\ \A o \in Origins : Broken(n, r, o) => reg'[o].step \in {"refused", "done"}
<1>1. reg' = [o \in Origins |->
                 CASE ~Broken(n, r, o) -> r[o]
                   [] Broken(n, r, o) /\ o \in Nodes -> [r[o] EXCEPT !.step = "refused"]
                   [] Broken(n, r, o) /\ o \notin Nodes -> [NoReg EXCEPT !.step = "done"]]
  BY DEF End, Broken
<1>2. ASSUME NEW o \in Origins
      PROVE  /\ IsReg(reg'[o]) /\ reg'[o].at \in Nodes /\ reg'[o].addr \in Nodes
             /\ ~Broken(n, r, o) => reg'[o] = r[o]
             /\ Broken(n, r, o) => reg'[o].step \in {"refused", "done"}
  <2>1. PICK q : q = r[o]
    OBVIOUS
  <2>2. IsReg(q) /\ q.at \in Nodes /\ q.addr \in Nodes
    BY <2>1 DEF RegOK
  <2>3. CASE ~Broken(n, r, o)
    BY <1>1, <2>1, <2>2, <2>3
  <2>4. CASE Broken(n, r, o) /\ o \in Nodes
    <3>1. PICK s : s = "refused"
      OBVIOUS
    <3>2. reg'[o] = [q EXCEPT !.step = s]
      BY <1>1, <2>1, <2>4, <3>1
    <3>3. /\ IsReg([q EXCEPT !.step = s]) /\ [q EXCEPT !.step = s].step = s
          /\ [q EXCEPT !.step = s].at = q.at /\ [q EXCEPT !.step = s].addr = q.addr
      BY ONLY <2>2, RegField
    <3>4. IsReg(reg'[o]) /\ reg'[o].step = s /\ reg'[o].at = q.at /\ reg'[o].addr = q.addr
      BY ONLY <3>2, <3>3, Zenon
    <3> QED
      BY ONLY <2>2, <2>4, <3>1, <3>4
  <2>5. CASE Broken(n, r, o) /\ o \notin Nodes
    <3>1. reg'[o] = [step |-> "done", at |-> Writer, addr |-> Writer, copy |-> <<>>]
      BY <1>1, <2>5 DEF NoReg
    <3>2. PICK x : x = reg'[o]
      OBVIOUS
    <3>3. IsReg(x) /\ x.step = "done" /\ x.at = Writer /\ x.addr = Writer
      BY ONLY <3>1, <3>2 DEF IsReg
    <3>4. IsReg(x) /\ x.step = "done" /\ x.at \in Nodes /\ x.addr \in Nodes
      BY ONLY <3>3, ReplicationAssumption
    <3> QED
      BY ONLY <2>5, <3>2, <3>4
  <2> QED
    BY <2>3, <2>4, <2>5
<1>3. DOMAIN reg' = Origins /\ reg' = [o \in Origins |-> reg'[o]]
  BY <1>1
<1>4. RegOK(reg')
  BY ONLY <1>2, <1>3 DEF RegOK
<1> QED
  BY <1>2, <1>4

LEMMA EndQueues ==
    ASSUME QueuesOK(ha), NEW n \in Nodes, NEW r, End(n, r)
    PROVE  Ended(ha, ha', n, Leaving(n, r))
<1>1. PICK leaving : leaving = Leaving(n, r)
  OBVIOUS
<1>2. ha' = [m \in Nodes |-> IF m = n THEN <<>>
                ELSE Part(ha[m], {i \in DOMAIN ha[m] :
                        ~(\/ ha[m][i] = <<"beat", n>>
                          \/ ha[m][i][1] = "reg" /\ r[ha[m][i][2]].at = n
                                                 /\ r[ha[m][i][2]].step = "beating")})]
  BY DEF End
<1>3. ASSUME NEW m \in Nodes
      PROVE  {i \in DOMAIN ha[m] :
                 ~(\/ ha[m][i] = <<"beat", n>>
                   \/ ha[m][i][1] = "reg" /\ r[ha[m][i][2]].at = n
                                          /\ r[ha[m][i][2]].step = "beating")}
             = {i \in DOMAIN ha[m] : ha[m][i] \notin leaving}
  <2>1. ha[m] \in Seq(Tasks)
    BY DEF QueuesOK
  <2>2. \A i \in DOMAIN ha[m] : ha[m][i] \in Tasks
    BY ONLY <2>1
  <2> QED
    BY ONLY <1>1, <2>2 DEF Leaving
<1>4. ha' = [m \in Nodes |-> IF m = n THEN <<>>
                ELSE Part(ha[m], {i \in DOMAIN ha[m] : ha[m][i] \notin leaving})]
  BY ONLY <1>2, <1>3
<1>5. Ended(ha, ha', n, leaving)
  BY ONLY <1>4, QueuesOK(ha), n \in Nodes, EndQueue
<1> QED
  BY ONLY <1>1, <1>5, Zenon

LEMMA EndLogs ==
    ASSUME LogsOK(log, file), NEW n \in Nodes, NEW r, End(n, r)
    PROVE  LogsOK(log', file')
<1>1. PICK k \in Nat : /\ k <= Len(log[n]) /\ log' = [log EXCEPT ![n] = SubSeq(log[n], 1, k)]
                       /\ file' = [file EXCEPT ![n] = k]
  <2>1. AList(log[n]) /\ file[n] \in 0 .. Len(log[n]) /\ file = [m \in Nodes |-> file[m]]
    BY DEF LogsOK
  <2>2. CASE log' = [log EXCEPT ![n] = SubSeq(log[n], 1, file[n])] /\ file' = file
    <3>1. file' = [file EXCEPT ![n] = file[n]]
      BY <2>1, <2>2
    <3>2. file[n] \in Nat /\ file[n] <= Len(log[n])
      BY ONLY <2>1 DEF AList
    <3> QED
      BY <2>2, <3>1, <3>2
  <2>3. CASE /\ log' = [log EXCEPT ![n] = SubSeq(log[n], 1, file[n] + 1)]
             /\ file[n] < Len(log[n]) /\ file' = [file EXCEPT ![n] = @ + 1]
    <3>1. file[n] + 1 \in Nat /\ file[n] + 1 <= Len(log[n])
      BY ONLY <2>1, <2>3 DEF AList
    <3> QED
      BY <2>3, <3>1
  <2> QED
    BY <2>2, <2>3 DEF End, WorkerEnds, Prefix
<1>2. PICK l, p : l = log[n] /\ p = SubSeq(l, 1, k)
  OBVIOUS
<1>3. AList(l) /\ k \in 0 .. Len(l)
  BY <1>1, <1>2 DEF LogsOK, AList
<1>4. AList(p) /\ Len(p) = k
  BY ONLY <1>2, <1>3 DEF AList
<1>5. k \in 0 .. Len(p)
  BY ONLY <1>3, <1>4 DEF AList
<1> QED
  BY <1>1, <1>2, <1>4, <1>5 DEF LogsOK

\* A process ends: by a crash, or because it does not get past its registration.
LEMMA EndStep ==
    ASSUME IInv, NEW n \in Nodes, NEW r, End(n, r), RegsOK(ha, r),
           \A m \in Nodes \ {n} : main[m] \notin {"down", "registering"} => r[m].step = "none"
    PROVE  IInv'
<1>1. /\ main' = [main EXCEPT ![n] = "down"] /\ start' = [start EXCEPT ![n] = NoStart]
      /\ beat' = [beat EXCEPT ![n] = NoBeat] /\ followers' = [followers EXCEPT ![n] = <<>>]
      /\ misses' = [misses EXCEPT ![n] = [f \in Nodes |-> 0]]
  BY DEF End
<1>2. /\ MainOK(main') /\ main'[n] = "down" /\ \A m \in Nodes \ {n} : main'[m] = main[m]
  BY <1>1 DEF IInv, Shapes, MainOK
<1>3. StartIs(start, start', n, "none")
  <2>1. PICK s : s = NoStart
    OBVIOUS
  <2>2. IsStart(s) /\ s.step = "none" /\ start' = [start EXCEPT ![n] = s]
    BY <1>1, <2>1 DEF IsStart, NoStart
  <2>3. StartIs(start, start', n, s.step)
    BY <2>2, StartRecord DEF IInv, Shapes
  <2> QED
    BY ONLY <2>2, <2>3, Zenon
<1>4. /\ BeatOK(beat') /\ beat'[n].step = "none" /\ ToSet(beat'[n].left) = {}
      /\ \A m \in Nodes \ {n} : beat'[m] = beat[m]
  <2>1. PICK b : b = NoBeat
    OBVIOUS
  <2>2. IsBeat(b) /\ b.step = "none" /\ b.left = <<>> /\ beat' = [beat EXCEPT ![n] = b]
    BY <1>1, <2>1 DEF IsBeat, NoBeat
  <2>3. b.left \in Seq(Nodes) /\ ToSet(b.left) = {}
    BY <2>2 DEF ToSet
  <2>4. BeatIs(beat, beat', n, b)
    BY <2>2, <2>3, BeatRecord DEF IInv, Shapes
  <2> QED
    BY ONLY <2>2, <2>3, <2>4 DEF BeatIs
<1>5. /\ RegOK(reg')
      /\ \A o \in Origins : ~Broken(n, r, o) => reg'[o] = r[o]
      /\ \A o \in Origins : Broken(n, r, o) => reg'[o].step \in {"refused", "done"}
  BY EndRegs DEF RegsOK
<1>6. PICK leaving : leaving = Leaving(n, r) /\ Ended(ha, ha', n, leaving)
  BY EndQueues DEF IInv, Shapes
<1>7. /\ \A o \in Origins : /\ <<"main", o>> \notin leaving /\ <<"start", o>> \notin leaving
                            /\ <<"register", o>> \notin leaving
                            /\ o # n => <<"beat", o>> \notin leaving
      /\ <<"beat", n>> \in leaving
      /\ \A o \in Origins : r[o].at = n /\ r[o].step = "beating" => <<"reg", o>> \in leaving
  BY ONLY <1>6, n \in Nodes DEF Leaving, Tasks, Kinds, Origins
<1>8. /\ QueuesOK(ha')
      /\ \A m \in Nodes : \A x : In(ha', m, x) => In(ha, m, x) /\ m # n /\ x \notin leaving
      /\ \A m \in Nodes : \A x : In(ha, m, x) /\ m # n /\ x \notin leaving => In(ha', m, x)
      /\ \A m \in Nodes : \A x : HoldsIn(ha, m, x) /\ m # n /\ x \notin leaving => HoldsIn(ha', m, x)
  BY ONLY <1>6, Zenon DEF Ended
<1>9. Shapes'
  <2>1. LogsOK(log', file')
    BY EndLogs DEF IInv, Shapes
  <2>2. followers' \in [Nodes -> Seq(Nodes)] /\ misses' \in [Nodes -> [Nodes -> 0 .. 3]]
    BY <1>1 DEF IInv, Shapes
  <2> QED
    BY <1>2, <1>3, <1>4, <1>5, <1>8, <2>1, <2>2 DEF Shapes, StartIs
<1>10. Places'
  <2>1. MainPlaces(ha', main')
    BY <1>2, <1>8 DEF IInv, Places, MainPlaces
  <2>2. StartPlaces(ha', start')
    BY <1>3, <1>8 DEF IInv, Places, StartPlaces, StartIs
  <2>3. RegisterPlaces(ha', reg')
    BY <1>5, <1>8 DEF RegsOK, RegisterPlaces, Broken
  <2>4. RegPlaces(ha', reg', main')
    BY <1>2, <1>5, <1>7, <1>8 DEF RegsOK, RegPlaces, Broken
  <2>5. BeatPlaces(ha', beat', main')
    BY <1>2, <1>4, <1>7, <1>8 DEF IInv, Places, BeatPlaces
  <2> QED
    BY <2>1, <2>2, <2>3, <2>4, <2>5 DEF Places
<1>11. Holders'
  <2>1. MainHolds(ha', main')
    BY <1>2, <1>7, <1>8 DEF IInv, Holders, MainHolds, Origins
  <2>2. StartHolds(ha', start')
    BY <1>3, <1>7, <1>8 DEF IInv, Holders, StartHolds, StartIs, Origins
  <2>3. RegHolds(ha', reg')
    <3> SUFFICES ASSUME NEW o \in Origins, reg'[o].step \in Serving
                 PROVE  HoldsIn(ha', reg'[o].at, <<"register", o>>)
      BY DEF RegHolds
    <3>1. ~Broken(n, r, o) /\ reg'[o] = r[o]
      BY <1>5 DEF Serving
    <3>2. r[o].at \in Nodes /\ r[o].at # n
      BY <3>1 DEF Broken, Serving, RegsOK, RegOK
    <3>3. HoldsIn(ha, r[o].at, <<"register", o>>)
      BY <3>1 DEF RegsOK, RegHolds
    <3> QED
      BY <1>7, <1>8, <3>1, <3>2, <3>3
  <2> QED
    BY <2>1, <2>2, <2>3 DEF Holders
<1>12. Asks(main', reg') /\ Quiet(main', start', beat')
  BY <1>2, <1>3, <1>4, <1>5 DEF IInv, Asks, Quiet, StartIs, Broken, Origins
<1> QED
  BY <1>9, <1>10, <1>11, <1>12 DEF IInv

\* The registrations are as they were, but for the node's own, if it has one.
LEMMA ProcessEnds ==
    ASSUME IInv, NEW n \in Nodes, NEW r, End(n, r), RegsOK(ha, r),
           \A m \in Nodes \ {n} : r[m] = reg[m]
    PROVE  IInv'
<1>1. \A m \in Nodes \ {n} : main[m] \notin {"down", "registering"} => r[m].step = "none"
  BY DEF IInv, Asks
<1> QED
  BY <1>1, EndStep

LEMMA CrashStep ==
    ASSUME IInv, NEW n \in Nodes, End(n, reg)
    PROVE  IInv'
<1>1. RegsOK(ha, reg)
  BY DEF IInv, Shapes, Places, Holders, RegsOK
<1> QED
  BY <1>1, ProcessEnds

LEMMA MainAsksStep ==
    ASSUME IInv, NEW n \in Nodes, register_master(n)
    PROVE  IInv'
<1>1. PICK m \in Nodes : m = Master[n]
  BY ReplicationAssumption
<1>2. main[n] = "locking" /\ HoldsIn(ha, n, <<"main", n>>)
  BY DEF register_master, Holds, HoldsIn
<1>3. \/ /\ main' = [main EXCEPT ![n] = "registering"]
         /\ reg' = [reg EXCEPT ![n] = Asked(m, n)]
         /\ ha' = [ha EXCEPT ![m] = Append(@, <<"register", n>>)]
         /\ start' = start /\ beat' = beat /\ followers' = followers /\ misses' = misses
         /\ log' = log /\ file' = file
      \/ End(n, reg)
  BY <1>1 DEF register_master, Asked, Enter, data, hist
<1> QED
  BY <1>2, <1>3, RegisterMasterStep, CrashStep

LEMMA MasterAnswersStep ==
    ASSUME IInv, NEW n \in Nodes, MasterAnswers(n)
    PROVE  IInv'
<1>1. PICK r : r = [reg EXCEPT ![n] = NoReg]
  OBVIOUS
<1>2. reg[n].step \in {"accepted", "refused"}
  BY DEF MasterAnswers
<1>3. CASE main[n] # "registering"
  <2>1. /\ reg' = [reg EXCEPT ![n] = NoReg] /\ main' = main /\ ha' = ha
        /\ start' = start /\ beat' = beat /\ followers' = followers /\ misses' = misses
        /\ log' = log /\ file' = file
    BY <1>3 DEF MasterAnswers, boot, data, hist
  <2> QED
    BY <1>2, <2>1, MasterAcceptsStep
<1>4. CASE main[n] = "registering" /\ reg[n].step = "refused"
  <2>1. End(n, r)
    BY <1>1, <1>4 DEF MasterAnswers
  <2>2. Forgotten(r, n)
    BY <1>1, <1>2, RegForgets
  <2>3. RegsOK(ha, r) /\ \A m \in Nodes \ {n} : r[m] = reg[m]
    BY <2>2 DEF Forgotten, Origins
  <2> QED
    BY <2>1, <2>3, ProcessEnds
<1>5. CASE main[n] = "registering" /\ reg[n].step # "refused"
  <2>1. /\ reg' = [reg EXCEPT ![n] = NoReg] /\ main' = [main EXCEPT ![n] = "listening"]
        /\ ha' = [ha EXCEPT ![n] = Tail(@)]
        /\ start' = start /\ beat' = beat /\ followers' = followers /\ misses' = misses
        /\ log' = log /\ file' = file
    BY <1>5 DEF MasterAnswers, Release, data, hist
  <2> QED
    BY <1>2, <1>5, <2>1, MasterAcceptsStep
<1> QED
  BY <1>3, <1>4, <1>5

\* A call is lost; its caller has not noticed yet.
LEMMA CallLostStep ==
    ASSUME IInv, NEW m \in Nodes, CallLost(m)
    PROVE  IInv'
<1>1. PICK t \in ToSet(ha[m]) :
        /\ t[1] \in {"beat", "reg"}
        /\ ha' = [ha EXCEPT ![m] = Part(@, {i \in DOMAIN @ : @[i] # t})]
  BY DEF CallLost
<1>2. /\ main' = main /\ start' = start /\ beat' = beat /\ followers' = followers
      /\ misses' = misses /\ reg' = reg /\ log' = log /\ file' = file
  BY DEF CallLost, boot, data
<1>3. Released(ha, ha', m, t)
  BY <1>1, LoseQueue DEF IInv, Shapes
<1>4. PICK k \in {"beat", "reg"}, o \in Origins : t = <<k, o>>
  <2>1. ha[m] \in Seq(Tasks)
    BY DEF IInv, Shapes, QueuesOK
  <2>2. t \in Tasks
    BY <2>1 DEF ToSet
  <2> QED
    BY <1>1, <2>2 DEF Tasks
<1>5. Only(ha, ha', k) /\ \A j : Fewer(ha, ha', j)
  BY <1>3, <1>4, OnlyKind, ReleasedKinds DEF IInv, Shapes
<1>6. CASE k = "beat"
  <2>1. BeatPlaces(ha', beat', main)
    BY <1>2, <1>5, Frames DEF IInv, Places
  <2> QED
    BY <1>2, <1>5, <1>6, <2>1, BeatMoves DEF IInv, Shapes
<1>7. CASE k = "reg"
  <2>1. Aside("reg")
    BY <1>2, <1>5, <1>7 DEF Aside
  <2>2. RegisterPlaces(ha', reg') /\ RegPlaces(ha', reg', main)
    BY <1>2, <1>5, Frames DEF IInv, Places
  <2>3. RegHolds(ha', reg')
    BY <1>2, <1>5, <1>7, Frames DEF IInv, Shapes, Holders, Only
  <2> QED
    BY <1>2, <2>1, <2>2, <2>3, RegMoves DEF IInv, Shapes
<1> QED
  BY <1>6, <1>7
-----------------------------------------------------------------------------
(* Clients of the database *)

\* Only the logs changed.
LEMMA DataMoves ==
    ASSUME IInv, LogsOK(log', file'), main' = main, start' = start, beat' = beat, ha' = ha,
           followers' = followers, misses' = misses, reg' = reg
    PROVE  IInv'
<1>1. Shapes'
  BY DEF IInv, Shapes
<1>2. Places' /\ Holders'
  BY DEF IInv, Places, Holders
<1> QED
  BY <1>1, <1>2 DEF IInv

LEMMA WriteStep ==
    ASSUME IInv, Write
    PROVE  IInv'
<1>1. PICK c, l, p : /\ c = Script[writes] /\ l = log[Writer]
                     /\ p = IF Exec(mem[Writer], c).ok /\ c.op \notin {"KvFlush", "ListLen"}
                            THEN Append(l, c) ELSE l
  OBVIOUS
<1>2. /\ log' = [log EXCEPT ![Writer] = p] /\ file' = file
      /\ main' = main /\ start' = start /\ beat' = beat /\ ha' = ha
      /\ followers' = followers /\ misses' = misses /\ reg' = reg
  BY <1>1 DEF Write, boot, hist
<1>3. Writer \in Nodes /\ LogsOK(log, file)
  BY ReplicationAssumption DEF IInv, Shapes
<1>4. AList(l) /\ file[Writer] \in 0 .. Len(l)
  BY <1>1, <1>3 DEF LogsOK
<1>5. AList(p) /\ Len(p) >= Len(l)
  <2>1. p = l \/ p = Append(l, c)
    BY <1>1
  <2>2. CASE p = l
    BY ONLY <1>4, <2>2 DEF AList
  <2>3. CASE p = Append(l, c)
    <3>1. Longer(l, c, p)
      BY ONLY <1>4, <2>3, ListLonger
    <3> QED
      BY ONLY <1>4, <3>1 DEF Longer, AList
  <2> QED
    BY <2>1, <2>2, <2>3
<1>6. file[Writer] \in 0 .. Len(p)
  BY ONLY <1>4, <1>5 DEF AList
<1>7. LogsOK(log', file')
  BY ONLY <1>2, <1>3, <1>5, <1>6 DEF LogsOK
<1> QED
  BY <1>2, <1>7, DataMoves

LEMMA WorkerStep ==
    ASSUME IInv, NEW n \in Nodes, aof_worker(n)
    PROVE  IInv'
<1>1. /\ file[n] < Len(log[n]) /\ file' = [file EXCEPT ![n] = @ + 1] /\ log' = log
      /\ main' = main /\ start' = start /\ beat' = beat /\ ha' = ha
      /\ followers' = followers /\ misses' = misses /\ reg' = reg
  BY DEF aof_worker, boot
<1>2. LogsOK(log, file)
  BY DEF IInv, Shapes
<1>3. PICK f, x : f = file' /\ x = file[n] + 1
  OBVIOUS
<1>4. AList(log[n]) /\ file[n] \in 0 .. Len(log[n]) /\ DOMAIN file = Nodes
  BY ONLY <1>2, n \in Nodes DEF LogsOK
<1>5. x \in 0 .. Len(log[n])
  BY ONLY <1>1, <1>3, <1>4 DEF AList
<1>6. /\ DOMAIN f = Nodes /\ f = [m \in Nodes |-> f[m]] /\ f[n] = x
      /\ \A m \in Nodes \ {n} : f[m] = file[m]
  BY ONLY <1>1, <1>3, <1>4, n \in Nodes
<1>7. LogsOK(log, f)
  BY ONLY <1>2, <1>5, <1>6 DEF LogsOK
<1>8. LogsOK(log', file')
  BY ONLY <1>1, <1>3, <1>7, Zenon
<1> QED
  BY <1>1, <1>8, DataMoves
-----------------------------------------------------------------------------
(* The theorems *)

LEMMA InitIInv == Init => IInv
<1> SUFFICES ASSUME Init PROVE IInv
  OBVIOUS
<1>1. /\ main = [n \in Nodes |-> "down"] /\ start = [n \in Nodes |-> NoStart]
      /\ beat = [n \in Nodes |-> NoBeat] /\ ha = [n \in Nodes |-> <<>>]
      /\ followers = [n \in Nodes |-> <<>>] /\ misses = [n \in Nodes |-> [f \in Nodes |-> 0]]
      /\ reg = [o \in Origins |-> NoReg] /\ log = [n \in Nodes |-> <<>>]
      /\ file = [n \in Nodes |-> 0]
  BY DEF Init
<1>2. PICK e : e = <<>>
  OBVIOUS
<1>3. /\ \A T : e \in Seq(T)
      /\ IsInjective(e) /\ ToSet(e) = {} /\ Len(e) = 0 /\ AList(e)
  BY ONLY <1>2 DEF IsInjective, ToSet, AList
<1>4. PICK s, b, r : s = NoStart /\ b = NoBeat /\ r = NoReg
  OBVIOUS
<1>5. IsStart(s) /\ s.step = "none"
  BY ONLY <1>4 DEF NoStart, IsStart
<1>6. IsBeat(b) /\ b.step = "none" /\ b.left = e
  BY ONLY <1>2, <1>4 DEF NoBeat, IsBeat
<1>7. IsReg(r) /\ r.step = "none" /\ r.at \in Nodes /\ r.addr \in Nodes
  BY ONLY <1>4, ReplicationAssumption DEF NoReg, IsReg
<1>8. MainOK(main) /\ StartOK(start) /\ LogsOK(log, file)
  BY <1>1, <1>2, <1>3, <1>4, <1>5 DEF MainOK, StartOK, LogsOK
<1>9. BeatOK(beat) /\ RegOK(reg) /\ QueuesOK(ha)
  <2>1. beat = [n \in Nodes |-> b] /\ reg = [o \in Origins |-> r] /\ ha = [n \in Nodes |-> e]
    BY <1>1, <1>2, <1>4
  <2>2. BeatOK(beat)
    BY ONLY <1>3, <1>6, <2>1 DEF BeatOK
  <2>3. RegOK(reg)
    BY ONLY <1>7, <2>1 DEF RegOK
  <2>4. QueuesOK(ha)
    BY ONLY <1>3, <2>1 DEF QueuesOK
  <2> QED
    BY <2>2, <2>3, <2>4
<1>10. Shapes
  BY <1>1, <1>8, <1>9 DEF Shapes
<1>11. /\ \A n \in Nodes : /\ main[n] = "down" /\ start[n].step = "none" /\ beat[n].step = "none"
                           /\ ToSet(beat[n].left) = {} /\ ToSet(ha[n]) = {}
                           /\ ToSet(followers[n]) = {} /\ \A f \in Nodes : misses[n][f] = 0
       /\ \A o \in Origins : reg[o].step = "none"
  BY ONLY <1>1, <1>2, <1>3, <1>4, <1>5, <1>6, <1>7
<1>12. \A n \in Nodes : \A t : ~In(ha, n, t)
  BY ONLY <1>11 DEF In
<1>13. Places
  BY ONLY <1>12, Zenon
     DEF Places, MainPlaces, StartPlaces, RegisterPlaces, RegPlaces, BeatPlaces
<1>14. Holders
  BY ONLY <1>11 DEF Holders, MainHolds, StartHolds, RegHolds, Serving
<1>15. Asks(main, reg) /\ Quiet(main, start, beat)
  BY ONLY <1>11 DEF Asks, Quiet
<1> QED
  BY <1>10, <1>13, <1>14, <1>15 DEF IInv

LEMMA NextIInv == IInv /\ [Next]_vars => IInv'
<1> SUFFICES ASSUME IInv, [Next]_vars PROVE IInv'
  OBVIOUS
<1>1. ASSUME NEW n \in Nodes,
             \/ Boot(n) \/ BootStep(n) \/ StartStep(n) \/ BeatStep(n)
             \/ Crash(n) \/ aof_worker(n) \/ CallLost(n)
      PROVE  IInv'
  <2>1. CASE Boot(n) \/ Crash(n) \/ aof_worker(n) \/ CallLost(n)
    BY <2>1, BootProcess, CrashStep, WorkerStep, CallLostStep DEF Crash
  <2>2. CASE BootStep(n)
    BY <2>2, MainLocksStep, LeaderMainStep, MainAsksStep, CrashStep, MasterAnswersStep
       DEF BootStep, MasterUnheard
  <2>3. CASE StartStep(n)
    BY <2>3, StartLocksStep, TakeEventStep, PushEventStep, StartEndsStep DEF StartStep
  <2>4. CASE BeatStep(n)
    BY <2>4, TickStep, HeartbeatStep, BeatBreaksStep, CountMissStep DEF BeatStep
  <2> QED
    BY <1>1, <2>1, <2>2, <2>3, <2>4
<1>2. ASSUME NEW o \in Registrars, AskRegister(o) PROVE IInv'
  BY <1>2, AskRegisterStep
<1>3. ASSUME NEW o \in Origins, RegStep(o) PROVE IInv'
  BY <1>3, RegisterFollowerStep, RegisterBreaksStep, ListFollowerStep, TakeCopyStep, AnswersStep
     DEF RegStep
<1>4. ASSUME NEW m \in Nodes, AckStep(m) PROVE IInv'
  BY <1>4, AckBeatStep, AckRegisterStep DEF AckStep
<1>5. ASSUME AskWrite \/ (\E fr \in stray : LandStray(fr)) \/ UNCHANGED vars PROVE IInv'
  <2>1. /\ main' = main /\ start' = start /\ beat' = beat /\ ha' = ha
        /\ followers' = followers /\ misses' = misses /\ reg' = reg /\ log' = log
        /\ file' = file
    BY <1>5 DEF AskWrite, LandStray, vars, boot, data, hist
  <2>2. LogsOK(log', file')
    BY <2>1 DEF IInv, Shapes
  <2> QED
    BY <2>1, <2>2, DataMoves
<1>6. CASE Write
  BY <1>6, WriteStep
<1> QED
  BY <1>1, <1>2, <1>3, <1>4, <1>5, <1>6 DEF Next

LEMMA IInvTypes == IInv => TypeOK
<1> SUFFICES ASSUME IInv PROVE TypeOK
  OBVIOUS
<1>1. ASSUME NEW n \in Nodes
      PROVE  /\ main[n] \in {"down", "starting", "locking", "registering", "listening"}
             /\ file[n] \in 0 .. Len(log[n]) /\ \A f \in Nodes : misses[n][f] \in 0 .. 3
             /\ IsInjective(ha[n])
             /\ start[n].step = "pushing" => Holds(n, <<"start", n>>)
  BY DEF IInv, Shapes, MainOK, LogsOK, QueuesOK, Holders, StartHolds, HoldsIn, Holds
<1>2. ASSUME NEW n \in Nodes, NEW t \in ToSet(ha[n])
      PROVE  \/ t = <<"main", n>> /\ main[n] \in {"locking", "registering"}
             \/ t = <<"start", n>> /\ start[n].step \in {"queued", "pushing"}
             \/ t[1] = "register" /\ reg[t[2]].at = n
             \/ t[1] = "reg" /\ reg[t[2]].addr = n /\ reg[t[2]].step = "beating"
             \/ t[1] = "beat" /\ beat[t[2]].step = "beating" /\ Head(beat[t[2]].left) = n
  <2>1. t \in Tasks
    <3>1. ha[n] \in Seq(Tasks)
      BY DEF IInv, Shapes, QueuesOK
    <3> QED
      BY <3>1 DEF ToSet
  <2>2. PICK k \in Kinds, o \in Origins : t = <<k, o>>
    BY <2>1 DEF Tasks
  <2>3. In(ha, n, <<k, o>>) /\ t[1] = k /\ t[2] = o
    BY <2>2 DEF In
  <2>4. CASE k = "main"
    BY <2>2, <2>3, <2>4 DEF IInv, Places, MainPlaces
  <2>5. CASE k = "start"
    BY <2>2, <2>3, <2>5 DEF IInv, Places, StartPlaces
  <2>6. CASE k = "register"
    BY <2>3, <2>6 DEF IInv, Places, RegisterPlaces
  <2>7. CASE k = "reg"
    BY <2>3, <2>7 DEF IInv, Places, RegPlaces
  <2>8. CASE k = "beat"
    BY <2>3, <2>8 DEF IInv, Places, BeatPlaces
  <2> QED
    BY <2>4, <2>5, <2>6, <2>7, <2>8 DEF Kinds
<1>3. ASSUME NEW o \in Origins, reg[o].step \in {"beating", "listing", "copying", "syncing"}
      PROVE  Holds(reg[o].at, <<"register", o>>)
  BY <1>3 DEF IInv, Holders, RegHolds, HoldsIn, Holds, Serving
<1> QED
  BY <1>1, <1>2, <1>3 DEF TypeOK

\* The lock of every HaManager has its queue, for any number of nodes: nobody is
\* in it twice, only those who wait are in it, also after the process of a
\* waiter or of the node has ended, and whoever calls another node with the lock
\* held (start, register_follower) is at its head.
THEOREM QueuesAreSound == Spec => []TypeOK
<1>1. Init => IInv
  BY InitIInv
<1>2. IInv /\ [Next]_vars => IInv'
  BY NextIInv
<1>3. IInv => TypeOK
  BY IInvTypes
<1> QED
  BY <1>1, <1>2, <1>3, PTL DEF Spec

\* Every miss that a leader has counted is one of its calls that failed, and so
\* is the one it is about to count.
Due(b, f) == IF b.step = "missed" /\ Head(b.left) = f THEN 1 ELSE 0

Tallied(bt, mi, fa) ==
    /\ fa \in [Nodes -> [Nodes -> Nat]]
    /\ \A n, f \in Nodes : mi[n][f] + Due(bt[n], f) <= fa[n][f]

\* A loop that is not about to count may be anywhere else.
LEMMA NothingDue ==
    ASSUME IInv, Tallied(beat, misses, failed), misses' = misses, failed' = failed,
           \A n \in Nodes : beat'[n] = beat[n] \/ beat'[n].step # "missed"
    PROVE  Tallied(beat', misses', failed')
<1> SUFFICES ASSUME NEW n \in Nodes, NEW f \in Nodes
             PROVE  misses[n][f] + Due(beat'[n], f) <= failed[n][f]
  BY DEF Tallied
<1>1. misses[n][f] \in 0 .. 3 /\ failed[n][f] \in Nat
  BY DEF IInv, Shapes, Tallied
<1>2. Due(beat'[n], f) <= Due(beat[n], f) /\ Due(beat'[n], f) \in 0 .. 1 /\ Due(beat[n], f) \in 0 .. 1
  BY DEF Due
<1>3. misses[n][f] + Due(beat[n], f) <= failed[n][f]
  BY DEF Tallied
<1> QED
  BY ONLY <1>1, <1>2, <1>3

\* A call of n fails: one more is due.
LEMMA OneDue ==
    ASSUME IInv, Tallied(beat, misses, failed), NEW n \in Nodes, beat[n].step # "missed",
           beat[n].left # <<>>, Head(beat[n].left) \in Nodes,
           beat' = [beat EXCEPT ![n].step = "missed"], misses' = misses,
           Fails(n, Head(beat[n].left))
    PROVE  Tallied(beat', misses', failed')
<1>1. PICK x : x = Head(beat[n].left) /\ x \in Nodes
  OBVIOUS
<1>2. BeatAt(beat, beat', n, "missed")
  BY BeatStepIs DEF IInv, Shapes
<1>3. PICK fa, new : fa = failed /\ new = failed'
  OBVIOUS
<1>4. fa \in [Nodes -> [Nodes -> Nat]] /\ new = [fa EXCEPT ![n][x] = @ + 1]
  BY <1>1, <1>3 DEF Fails, Tallied
<1>5. new = [fa EXCEPT ![n] = [fa[n] EXCEPT ![x] = fa[n][x] + 1]]
  BY ONLY <1>1, <1>4, n \in Nodes
<1>6. /\ new \in [Nodes -> [Nodes -> Nat]]
      /\ \A m, f \in Nodes : new[m][f] = IF m = n /\ f = x THEN fa[m][f] + 1 ELSE fa[m][f]
  BY ONLY <1>1, <1>4, <1>5, n \in Nodes
<1>7. ASSUME NEW m \in Nodes, NEW f \in Nodes
      PROVE  misses[m][f] + Due(beat'[m], f) <= new[m][f]
  <2>1. misses[m][f] + Due(beat[m], f) <= fa[m][f]
    BY <1>3 DEF Tallied
  <2>2. misses[m][f] \in 0 .. 3 /\ fa[m][f] \in Nat
    BY <1>4 DEF IInv, Shapes
  <2>3. CASE m = n
    <3>1. Due(beat[m], f) = 0
      BY <2>3 DEF Due
    <3>2. Due(beat'[m], f) = IF f = x THEN 1 ELSE 0
      BY <1>1, <1>2, <2>3 DEF Due, BeatAt
    <3> QED
      BY ONLY <1>6, <2>1, <2>2, <2>3, <3>1, <3>2, m \in Nodes, f \in Nodes
  <2>4. CASE m # n
    <3>1. Due(beat'[m], f) = Due(beat[m], f)
      BY <1>2, <2>4 DEF Due, BeatAt
    <3> QED
      BY ONLY <1>6, <2>1, <2>4, <3>1, m \in Nodes, f \in Nodes
  <2> QED
    BY <2>3, <2>4
<1> QED
  BY <1>3, <1>6, <1>7 DEF Tallied

\* The miss is counted; at the fourth the count starts afresh.
LEMMA DueCounted ==
    ASSUME IInv, Tallied(beat, misses, failed), NEW n \in Nodes, CountMiss(n)
    PROVE  /\ Tallied(beat', misses', failed')
           /\ \A x \in Nodes : x = Head(beat[n].left) => misses[n][x] + 1 <= failed[n][x]
<1>1. PICK x, b, r, mi, fa : /\ x = Head(beat[n].left) /\ b = beat[n] /\ r = NextBeat(b)
                             /\ mi = misses /\ fa = failed
  OBVIOUS
<1>2. PICK v, w : /\ v = IF mi[n][x] >= 3 THEN 0 ELSE mi[n][x] + 1
                  /\ w = IF mi[n][x] >= 3 THEN 0 ELSE fa[n][x]
  OBVIOUS
<1>3. /\ b.step = "missed" /\ beat' = [beat EXCEPT ![n] = r]
      /\ misses' = [mi EXCEPT ![n][x] = IF mi[n][x] >= 3 THEN 0 ELSE @ + 1]
      /\ failed' = IF mi[n][x] >= 3 THEN [fa EXCEPT ![n][x] = 0] ELSE fa
  BY <1>1 DEF CountMiss
<1>4. x \in Nodes /\ b.left # <<>> /\ b.left \in Seq(Nodes)
  BY <1>1, <1>3, BeatHead DEF IInv, Shapes
<1>5. mi \in [Nodes -> [Nodes -> 0 .. 3]] /\ fa \in [Nodes -> [Nodes -> Nat]]
  BY <1>1 DEF IInv, Shapes, Tallied
<1>6. r.step # "missed" /\ beat'[n] = r /\ \A m \in Nodes \ {n} : beat'[m] = beat[m]
  <2>1. r.step \in {"ticking", "connecting"}
    BY ONLY <1>1, <1>4, NextBeatIs
  <2>2. DOMAIN beat = Nodes
    BY DEF IInv, Shapes, BeatOK
  <2> QED
    BY ONLY <1>3, <2>1, <2>2, n \in Nodes
<1>7. \A m, f \in Nodes : misses'[m][f] = IF m = n /\ f = x THEN v ELSE mi[m][f]
  <2>1. misses' = [mi EXCEPT ![n] = [mi[n] EXCEPT ![x] = v]]
    BY ONLY <1>2, <1>3, <1>4, <1>5, n \in Nodes
  <2> QED
    BY ONLY <1>4, <1>5, <2>1, n \in Nodes
<1>8. /\ failed' \in [Nodes -> [Nodes -> Nat]]
      /\ \A m, f \in Nodes : failed'[m][f] = IF m = n /\ f = x THEN w ELSE fa[m][f]
  <2>1. CASE mi[n][x] >= 3
    <3>1. failed' = [fa EXCEPT ![n] = [fa[n] EXCEPT ![x] = 0]] /\ w = 0
      BY ONLY <1>2, <1>3, <1>4, <1>5, <2>1, n \in Nodes
    <3> QED
      BY ONLY <1>4, <1>5, <3>1, n \in Nodes
  <2>2. CASE ~(mi[n][x] >= 3)
    BY ONLY <1>2, <1>3, <1>5, <2>2
  <2> QED
    BY <2>1, <2>2
<1>9. mi[n][x] + 1 <= fa[n][x]
  <2>1. mi[n][x] + Due(b, x) <= fa[n][x]
    BY <1>1, <1>4 DEF Tallied
  <2>2. Due(b, x) = 1
    BY <1>1, <1>3 DEF Due
  <2> QED
    BY ONLY <2>1, <2>2
<1>10. ASSUME NEW m \in Nodes, NEW f \in Nodes
       PROVE  misses'[m][f] + Due(beat'[m], f) <= failed'[m][f]
  <2>1. mi[m][f] + Due(beat[m], f) <= fa[m][f] /\ mi[m][f] \in 0 .. 3 /\ fa[m][f] \in Nat
    BY <1>1, <1>5 DEF Tallied
  <2>2. CASE m = n
    <3>1. Due(beat'[m], f) = 0 /\ Due(beat[m], f) \in 0 .. 1
      BY <1>6, <2>2 DEF Due
    <3> QED
      BY ONLY <1>2, <1>7, <1>8, <1>9, <2>1, <2>2, <3>1, m \in Nodes, f \in Nodes
  <2>3. CASE m # n
    <3>1. beat'[m] = beat[m]
      BY <1>6, <2>3
    <3> QED
      BY ONLY <1>7, <1>8, <2>1, <2>3, <3>1, m \in Nodes, f \in Nodes
  <2> QED
    BY <2>2, <2>3
<1> QED
  BY <1>1, <1>8, <1>9, <1>10 DEF Tallied

LEMMA EndCounted ==
    ASSUME IInv, Tallied(beat, misses, failed), NEW n \in Nodes, NEW r, End(n, r)
    PROVE  Tallied(beat', misses', failed')
<1>1. /\ beat' = [beat EXCEPT ![n] = NoBeat]
      /\ misses' = [misses EXCEPT ![n] = [f \in Nodes |-> 0]]
      /\ failed' = [failed EXCEPT ![n] = [f \in Nodes |-> 0]]
  BY DEF End
<1>2. DOMAIN beat = Nodes /\ DOMAIN misses = Nodes /\ failed \in [Nodes -> [Nodes -> Nat]]
  BY DEF IInv, Shapes, BeatOK, Tallied
<1>3. failed' \in [Nodes -> [Nodes -> Nat]]
  BY ONLY <1>1, <1>2
<1>4. ASSUME NEW m \in Nodes, NEW f \in Nodes
      PROVE  misses'[m][f] + Due(beat'[m], f) <= failed'[m][f]
  <2>1. CASE m = n
    <3>1. misses'[m][f] = 0 /\ failed'[m][f] = 0 /\ beat'[m] = NoBeat
      BY <1>1, <1>2, <2>1
    <3>2. Due(beat'[m], f) = 0
      BY <3>1 DEF Due, NoBeat
    <3> QED
      BY ONLY <3>1, <3>2
  <2>2. CASE m # n
    <3>1. misses'[m] = misses[m] /\ failed'[m] = failed[m] /\ beat'[m] = beat[m]
      BY <1>1, <1>2, <2>2
    <3> QED
      BY <3>1 DEF Tallied
  <2> QED
    BY <2>1, <2>2
<1> QED
  BY <1>3, <1>4 DEF Tallied

\* Which steps change what a leader knows of its followers.
Listing(o)  == ListFollower(o) /\ UNCHANGED <<beat, misses, failed>>
Strikes(n)  == CountMiss(n)
Misses(n)   == /\ beat[n].step \in {"connecting", "beating"}
               /\ beat' = [beat EXCEPT ![n].step = "missed"]
               /\ Fails(n, Head(beat[n].left)) /\ UNCHANGED <<followers, misses>>
Moves(n)    == /\ \A m \in Nodes : beat'[m] = beat[m] \/ beat'[m].step # "missed"
               /\ UNCHANGED <<followers, misses, failed>>
Same        == UNCHANGED <<beat, followers, misses, failed>>

LEMMA NextKinds ==
    ASSUME IInv, [Next]_vars
    PROVE  \/ \E o \in Origins : Listing(o)
           \/ \E n \in Nodes : Strikes(n) \/ Misses(n) \/ Moves(n) \/ \E r : End(n, r)
           \/ Same
<1>1. DOMAIN beat = Nodes /\ \A n \in Nodes : IsBeat(beat[n])
  BY DEF IInv, Shapes, BeatOK
<1>2. ASSUME NEW n \in Nodes, NEW r, r.step # "missed", beat' = [beat EXCEPT ![n] = r],
             UNCHANGED <<followers, misses, failed>>
      PROVE  Moves(n)
  BY <1>1, <1>2 DEF Moves
<1>3. ASSUME NEW n \in Nodes, NEW s, s # "missed", beat' = [beat EXCEPT ![n].step = s],
             UNCHANGED <<followers, misses, failed>>
      PROVE  Moves(n)
  <2>1. PICK r : r = [beat[n] EXCEPT !.step = s]
    OBVIOUS
  <2>2. IsBeat(beat[n])
    BY <1>1
  <2>3. r.step = s
    BY ONLY <2>1, <2>2, BeatField, Zenon
  <2>4. beat' = [beat EXCEPT ![n] = r]
    BY <1>1, <1>3, <2>1
  <2> QED
    BY <1>2, <1>3, <2>3, <2>4
<1>4. ASSUME NEW n \in Nodes,
             \/ Boot(n) \/ BootStep(n) \/ StartStep(n) \/ BeatStep(n)
             \/ Crash(n) \/ aof_worker(n) \/ CallLost(n)
      PROVE  Strikes(n) \/ Misses(n) \/ Moves(n) \/ (\E r : End(n, r)) \/ Same
  <2>1. CASE Boot(n) \/ aof_worker(n) \/ Crash(n) \/ CallLost(n)
    BY <2>1 DEF Boot, aof_worker, Crash, CallLost, hist, Same
  <2>2. CASE MainLocks(n)
    BY <2>2 DEF MainLocks, hist, Same
  <2>3. CASE LeaderMain(n)
    <3>1. beat' = [beat EXCEPT ![n].step = "ticking"] /\ UNCHANGED <<followers, misses, failed>>
      BY <2>3 DEF LeaderMain, hist
    <3> QED
      BY <1>3, <3>1
  <2>4. CASE register_master(n)
    BY <2>4 DEF register_master, hist, Same
  <2>5. CASE MasterUnheard(n)
    BY <2>5 DEF MasterUnheard
  <2>6. CASE MasterAnswers(n)
    BY <2>6 DEF MasterAnswers, hist, Same
  <2>7. CASE StartStep(n)
    BY <2>7 DEF StartStep, StartLocks, TakeEvent, PushEvent, StartEnds, hist, Same
  <2>8. CASE Tick(n)
    <3>1. PICK r : r = [step |-> "connecting", left |-> followers[n]]
      OBVIOUS
    <3>2. beat' = [beat EXCEPT ![n] = r] /\ UNCHANGED <<followers, misses, failed>>
      BY <2>8, <3>1 DEF Tick, hist
    <3>3. r.step # "missed"
      BY ONLY <3>1
    <3> QED
      BY <1>2, <3>2, <3>3
  <2>9. CASE heartbeat_follower(n)
    <3>1. \/ beat' = [beat EXCEPT ![n].step = "beating"] /\ UNCHANGED failed
          \/ beat' = [beat EXCEPT ![n].step = "missed"] /\ Fails(n, Head(beat[n].left))
      BY <2>9 DEF heartbeat_follower
    <3>2. beat[n].step = "connecting" /\ UNCHANGED <<followers, misses>>
      BY <2>9 DEF heartbeat_follower
    <3>3. CASE beat' = [beat EXCEPT ![n].step = "beating"] /\ UNCHANGED failed
      BY <1>3, <3>2, <3>3
    <3> QED
      BY <3>1, <3>2, <3>3 DEF Misses
  <2>10. CASE BeatBreaks(n)
    BY <2>10 DEF BeatBreaks, Misses
  <2>11. CASE CountMiss(n)
    BY <2>11 DEF Strikes
  <2> QED
    BY <1>4, <2>1, <2>2, <2>3, <2>4, <2>5, <2>6, <2>7, <2>8, <2>9, <2>10, <2>11
       DEF BootStep, BeatStep
<1>5. ASSUME NEW o \in Registrars, AskRegister(o) PROVE Same
  BY <1>5 DEF AskRegister, hist, Same
<1>6. ASSUME NEW o \in Origins, RegStep(o) PROVE Same \/ Listing(o)
  BY <1>6 DEF RegStep, register_follower, RegisterBreaks, ListFollower, TakeCopy, CopyFails,
              sync_follower, SyncFails, hist, Same, Listing
<1>7. ASSUME NEW m \in Nodes, AckStep(m) PROVE Same \/ \E n \in Nodes : Moves(n)
  <2>1. CASE \E o \in Origins : AckRegister(m, o)
    BY <2>1 DEF AckRegister, hist, Same
  <2>2. CASE \E n \in Nodes : AckBeat(m, n)
    <3>1. PICK n \in Nodes : AckBeat(m, n)
      BY <2>2
    <3>2. PICK r : r = [NoBeat EXCEPT !.step = "done"]
      OBVIOUS
    <3>3. beat' = [beat EXCEPT ![n] = r] /\ UNCHANGED <<followers, misses, failed>>
      BY <3>1, <3>2 DEF AckBeat, hist
    <3>4. r.step # "missed"
      BY ONLY <3>2 DEF NoBeat
    <3>5. Moves(n)
      BY <1>2, <3>3, <3>4
    <3> QED
      BY <3>5
  <2> QED
    BY <1>7, <2>1, <2>2 DEF AckStep
<1>8. ASSUME AskWrite \/ Write \/ (\E fr \in stray : LandStray(fr)) \/ UNCHANGED vars PROVE Same
  BY <1>8 DEF AskWrite, Write, LandStray, hist, vars, Same
<1>9. ASSUME \E n \in Nodes : \/ Boot(n) \/ BootStep(n) \/ StartStep(n) \/ BeatStep(n)
                              \/ Crash(n) \/ aof_worker(n) \/ CallLost(n)
      PROVE  \/ \E n \in Nodes : Strikes(n) \/ Misses(n) \/ Moves(n) \/ \E r : End(n, r)
             \/ Same
  BY <1>4, <1>9
<1>10. ASSUME \E o \in Origins : RegStep(o) PROVE Same \/ \E o \in Origins : Listing(o)
  BY <1>6, <1>10
<1> QED
  BY <1>5, <1>7, <1>8, <1>9, <1>10 DEF Next

LEMMA NextCounted ==
    ASSUME IInv, Tallied(beat, misses, failed), [Next]_vars
    PROVE  Tallied(beat', misses', failed')
<1>1. ASSUME NEW n \in Nodes, Misses(n) PROVE Tallied(beat', misses', failed')
  <2>1. beat[n].left # <<>> /\ Head(beat[n].left) \in Nodes
    BY <1>1, BeatHead DEF Misses, IInv, Shapes
  <2> QED
    BY <1>1, <2>1, OneDue DEF Misses
<1>2. ASSUME (\E o \in Origins : Listing(o)) \/ (\E n \in Nodes : Moves(n)) \/ Same
      PROVE  Tallied(beat', misses', failed')
  <2>1. misses' = misses /\ failed' = failed
    BY <1>2 DEF Listing, Moves, Same
  <2>2. \A n \in Nodes : beat'[n] = beat[n] \/ beat'[n].step # "missed"
    BY <1>2 DEF Listing, Moves, Same
  <2> QED
    BY <2>1, <2>2, NothingDue
<1>3. ASSUME NEW n \in Nodes, Strikes(n) \/ \E r : End(n, r) PROVE Tallied(beat', misses', failed')
  BY <1>3, DueCounted, EndCounted DEF Strikes
<1> QED
  BY <1>1, <1>2, <1>3, NextKinds

LEMMA DropStep ==
    ASSUME IInv, Tallied(beat, misses, failed), [Next]_vars
    PROVE  \A n \in Nodes : \A f \in ToSet(followers[n]) \ ToSet(followers'[n]) :
               main'[n] = "down" \/ failed[n][f] >= 4
<1> SUFFICES ASSUME NEW n \in Nodes, NEW f \in ToSet(followers[n]) \ ToSet(followers'[n])
             PROVE  main'[n] = "down" \/ failed[n][f] >= 4
  OBVIOUS
<1>1. followers' # followers
  OBVIOUS
<1>2. ASSUME NEW m \in Nodes, Strikes(m) PROVE failed[n][f] >= 4
  <2>1. n = m /\ f = Head(beat[m].left) /\ f \in Nodes /\ misses[n][f] >= 3
    BY <1>2, MissCounted DEF Strikes
  <2>2. misses[n][f] + 1 <= failed[n][f]
    BY <1>2, <2>1, DueCounted DEF Strikes
  <2>3. misses[n][f] \in 0 .. 3 /\ failed[n][f] \in Nat
    BY <2>1 DEF IInv, Shapes, Tallied
  <2> QED
    BY ONLY <2>1, <2>2, <2>3
<1>3. ASSUME NEW m \in Nodes, NEW r, End(m, r) PROVE main'[n] = "down"
  <2>1. main' = [main EXCEPT ![m] = "down"] /\ followers' = [followers EXCEPT ![m] = <<>>]
    BY <1>3 DEF End
  <2>2. main'[m] = "down" /\ \A k \in Nodes \ {m} : followers'[k] = followers[k]
    BY <2>1 DEF IInv, Shapes, MainOK
  <2> QED
    BY <2>2
<1>4. ASSUME NEW o \in Origins, ListFollower(o) PROVE FALSE
  <2>1. PICK k, a, fo : k = reg[o].at /\ a = reg[o].addr /\ fo = followers
    OBVIOUS
  <2>2. followers' = [fo EXCEPT ![k] = Append(@, a)] /\ k \in Nodes /\ a \in Nodes
        /\ fo \in [Nodes -> Seq(Nodes)]
    BY <1>4, <2>1 DEF ListFollower, IInv, Shapes, RegOK
  <2>3. PICK q, p : q = fo[k] /\ p = Append(q, a)
    OBVIOUS
  <2>4. q \in Seq(Nodes)
    BY ONLY <2>2, <2>3
  <2>5. ToSet(q) \subseteq ToSet(p)
    <3>1. Len(p) = Len(q) + 1 /\ Len(q) \in Nat /\ \A i \in 1 .. Len(q) : p[i] = q[i]
      BY ONLY <2>2, <2>3, <2>4
    <3>2. DOMAIN q = 1 .. Len(q) /\ DOMAIN p = 1 .. Len(p)
      BY ONLY <2>2, <2>3, <2>4
    <3>3. \A i \in DOMAIN q : i \in DOMAIN p /\ p[i] = q[i]
      BY ONLY <3>1, <3>2
    <3> QED
      BY ONLY <3>3, Zenon DEF ToSet
  <2>6. followers'[k] = p /\ \A m \in Nodes \ {k} : followers'[m] = fo[m]
    BY ONLY <2>2, <2>3
  <2> QED
    BY <2>1, <2>3, <2>5, <2>6
<1>5. (\E o \in Origins : ListFollower(o)) \/ \E m \in Nodes : Strikes(m) \/ \E r : End(m, r)
  BY <1>1, NextKinds DEF Listing, Misses, Moves, Same
<1> QED
  BY <1>2, <1>3, <1>4, <1>5

\* A leader strikes a node off its list only after four of its calls to that
\* node failed since it did so last (or since it was started): for any nodes,
\* however long the locks are held, whatever connections fail and processes
\* crash, and however often the node is listed, heartbeat_followers counts no
\* miss for a node that merely answers late, none twice, and none from before
\* it dropped that node.
THEOREM OnlyTheUnreachable == Spec => OnlyTheUnreachableAreDropped
<1>1. Init => IInv /\ Tallied(beat, misses, failed)
  <2> SUFFICES ASSUME Init PROVE Tallied(beat, misses, failed)
    BY InitIInv
  <2>1. /\ failed \in [Nodes -> [Nodes -> Nat]]
        /\ \A n, f \in Nodes : misses[n][f] = 0 /\ failed[n][f] = 0 /\ beat[n] = NoBeat
    BY DEF Init
  <2>2. \A n, f \in Nodes : Due(beat[n], f) = 0
    BY <2>1 DEF Due, NoBeat
  <2> QED
    BY <2>1, <2>2 DEF Tallied
<1>2. IInv /\ Tallied(beat, misses, failed) /\ [Next]_vars => (IInv /\ Tallied(beat, misses, failed))'
  BY NextIInv, NextCounted
<1>3. IInv /\ Tallied(beat, misses, failed) /\ [Next]_vars =>
        [\A n \in Nodes : \A f \in ToSet(followers[n]) \ ToSet(followers'[n]) :
            main'[n] = "down" \/ failed[n][f] >= 4]_vars
  BY DropStep
<1> QED
  BY <1>1, <1>2, <1>3, PTL DEF Spec, OnlyTheUnreachableAreDropped
-----------------------------------------------------------------------------
(* The keys of a store: what an entry does to them, and a whole log *)

\* A replay: g[n] is the store after n entries.
Replays(p, g) ==
    /\ Replay(p) = g[Len(p)] /\ g[0] = EmptyStore
    /\ \A n \in 1 .. Len(p) : g[n] = Exec(g[n - 1], p[n]).store

LEMMA ReplayLoop ==
    ASSUME NEW p, AList(p)
    PROVE  \E g : Replays(p, g)
<1>1. PICK N, c0 : N = Len(p) /\ c0 = EmptyStore /\ N \in Nat
  BY DEF AList
<1> DEFINE Round(n, x) == Exec(x, p[n]).store
           Body(g) == [n \in 0 .. N |-> IF n = 0 THEN c0 ELSE Round(n, g[n - 1])]
           Runs(n, g) == g[0] = c0 /\ \A i \in 1 .. n : g[i] = Round(i, g[i - 1])
           Good == {n \in 0 .. N : \E g : Runs(n, g)}
<1> HIDE DEF Round
<1>2. 0 \in Good
  <2>1. PICK g : g = [i \in 0 .. 0 |-> c0]
    OBVIOUS
  <2>2. g[0] = c0 /\ \A i \in 1 .. 0 : g[i] = Round(i, g[i - 1])
    BY ONLY <2>1
  <2> QED
    BY ONLY <1>1, <2>2
<1>3. ASSUME NEW n \in 1 .. N, n - 1 \in Good PROVE n \in Good
  <2>1. PICK g : g[0] = c0 /\ \A i \in 1 .. n - 1 : g[i] = Round(i, g[i - 1])
    BY ONLY <1>3
  <2>2. PICK v, h : v = Round(n, g[n - 1]) /\ h = [i \in 0 .. n |-> IF i = n THEN v ELSE g[i]]
    OBVIOUS
  <2>3. n \in 0 .. N /\ 0 \in 0 .. n /\ 0 # n
    BY ONLY <1>1, n \in 1 .. N
  <2>4. h[0] = c0
    BY ONLY <2>1, <2>2, <2>3
  <2>5. ASSUME NEW i \in 1 .. n PROVE h[i] = Round(i, h[i - 1])
    <3>1. i - 1 \in 0 .. n /\ i - 1 # n /\ i \in 0 .. n /\ (i # n => i \in 1 .. n - 1)
      BY ONLY <1>1, n \in 1 .. N, i \in 1 .. n
    <3>2. h[i - 1] = g[i - 1] /\ h[i] = IF i = n THEN v ELSE g[i]
      BY ONLY <2>2, <3>1
    <3>3. CASE i = n
      BY ONLY <2>2, <3>2, <3>3
    <3>4. CASE i # n
      BY ONLY <2>1, <3>1, <3>2, <3>4
    <3> QED
      BY ONLY <3>3, <3>4
  <2> QED
    BY ONLY <2>3, <2>4, <2>5
<1>4. \A n \in 1 .. N : n - 1 \in Good => n \in Good
  BY ONLY <1>3
<1> HIDE DEF Good
<1>5. N \in Good
  <2>1. N \in 0 .. N
    BY ONLY <1>1
  <2> QED
    BY ONLY <1>1, <1>2, <1>4, <2>1, IntervalInduction
<1>6. PICK f : f[0] = c0 /\ \A i \in 1 .. N : f[i] = Round(i, f[i - 1])
  BY ONLY <1>5 DEF Good
<1>7. PICK g : g = [i \in 0 .. N |-> f[i]]
  OBVIOUS
<1>8. g = Body(g)
  <2>1. ASSUME NEW i \in 0 .. N PROVE f[i] = IF i = 0 THEN c0 ELSE Round(i, g[i - 1])
    <3>1. i # 0 => i \in 1 .. N /\ i - 1 \in 0 .. N
      BY ONLY <1>1, i \in 0 .. N
    <3>2. i # 0 => g[i - 1] = f[i - 1]
      BY ONLY <1>7, <3>1
    <3>3. i # 0 => Round(i, g[i - 1]) = Round(i, f[i - 1])
      BY ONLY <3>2, Zenon
    <3>4. i # 0 => f[i] = Round(i, f[i - 1])
      BY ONLY <1>6, <3>1
    <3> QED
      BY ONLY <1>6, <3>3, <3>4
  <2> QED
    BY ONLY <1>7, <2>1
<1>9. PICK after : after = CHOOSE h : h = Body(h)
  OBVIOUS
<1>10. after = Body(after)
  BY <1>8, <1>9
<1>11. after[0] = c0 /\ \A i \in 1 .. N : after[i] = Round(i, after[i - 1])
  <2>1. 0 \in 0 .. N /\ \A i \in 1 .. N : i \in 0 .. N /\ i # 0
    BY ONLY <1>1
  <2> QED
    BY ONLY <1>10, <2>1
<1>12. Replay(p) = after[N]
  BY ONLY <1>1, <1>9 DEF Replay, Body, Round
<1>13. \A n \in 1 .. N : after[n] = Exec(after[n - 1], p[n]).store
  BY ONLY <1>11 DEF Round
<1>14. Replays(p, after)
  BY ONLY <1>1, <1>11, <1>12, <1>13 DEF Replays
<1> QED
  BY ONLY <1>14

\* A follower that applies p to the store m.
Applies(m, p, g) ==
    /\ apply_aof(m, p) = g[Len(p)] /\ g[0] = m
    /\ \A n \in 1 .. Len(p) : g[n] = Applied(g[n - 1], p[n])

LEMMA ApplyLoop ==
    ASSUME NEW m, NEW p, AList(p)
    PROVE  \E g : Applies(m, p, g)
<1>1. PICK N, c0 : N = Len(p) /\ c0 = m /\ N \in Nat
  BY DEF AList
<1> DEFINE Round(n, x) == Applied(x, p[n])
           Body(g) == [n \in 0 .. N |-> IF n = 0 THEN c0 ELSE Round(n, g[n - 1])]
           Runs(n, g) == g[0] = c0 /\ \A i \in 1 .. n : g[i] = Round(i, g[i - 1])
           Good == {n \in 0 .. N : \E g : Runs(n, g)}
<1> HIDE DEF Round
<1>2. 0 \in Good
  <2>1. PICK g : g = [i \in 0 .. 0 |-> c0]
    OBVIOUS
  <2>2. g[0] = c0 /\ \A i \in 1 .. 0 : g[i] = Round(i, g[i - 1])
    BY ONLY <2>1
  <2> QED
    BY ONLY <1>1, <2>2
<1>3. ASSUME NEW n \in 1 .. N, n - 1 \in Good PROVE n \in Good
  <2>1. PICK g : g[0] = c0 /\ \A i \in 1 .. n - 1 : g[i] = Round(i, g[i - 1])
    BY ONLY <1>3
  <2>2. PICK v, h : v = Round(n, g[n - 1]) /\ h = [i \in 0 .. n |-> IF i = n THEN v ELSE g[i]]
    OBVIOUS
  <2>3. n \in 0 .. N /\ 0 \in 0 .. n /\ 0 # n
    BY ONLY <1>1, n \in 1 .. N
  <2>4. h[0] = c0
    BY ONLY <2>1, <2>2, <2>3
  <2>5. ASSUME NEW i \in 1 .. n PROVE h[i] = Round(i, h[i - 1])
    <3>1. i - 1 \in 0 .. n /\ i - 1 # n /\ i \in 0 .. n /\ (i # n => i \in 1 .. n - 1)
      BY ONLY <1>1, n \in 1 .. N, i \in 1 .. n
    <3>2. h[i - 1] = g[i - 1] /\ h[i] = IF i = n THEN v ELSE g[i]
      BY ONLY <2>2, <3>1
    <3>3. CASE i = n
      BY ONLY <2>2, <3>2, <3>3
    <3>4. CASE i # n
      BY ONLY <2>1, <3>1, <3>2, <3>4
    <3> QED
      BY ONLY <3>3, <3>4
  <2> QED
    BY ONLY <2>3, <2>4, <2>5
<1>4. \A n \in 1 .. N : n - 1 \in Good => n \in Good
  BY ONLY <1>3
<1> HIDE DEF Good
<1>5. N \in Good
  <2>1. N \in 0 .. N
    BY ONLY <1>1
  <2> QED
    BY ONLY <1>1, <1>2, <1>4, <2>1, IntervalInduction
<1>6. PICK f : f[0] = c0 /\ \A i \in 1 .. N : f[i] = Round(i, f[i - 1])
  BY ONLY <1>5 DEF Good
<1>7. PICK g : g = [i \in 0 .. N |-> f[i]]
  OBVIOUS
<1>8. g = Body(g)
  <2>1. ASSUME NEW i \in 0 .. N PROVE f[i] = IF i = 0 THEN c0 ELSE Round(i, g[i - 1])
    <3>1. i # 0 => i \in 1 .. N /\ i - 1 \in 0 .. N
      BY ONLY <1>1, i \in 0 .. N
    <3>2. i # 0 => g[i - 1] = f[i - 1]
      BY ONLY <1>7, <3>1
    <3>3. i # 0 => Round(i, g[i - 1]) = Round(i, f[i - 1])
      BY ONLY <3>2, Zenon
    <3>4. i # 0 => f[i] = Round(i, f[i - 1])
      BY ONLY <1>6, <3>1
    <3> QED
      BY ONLY <1>6, <3>3, <3>4
  <2> QED
    BY ONLY <1>7, <2>1
<1>9. PICK after : after = CHOOSE h : h = Body(h)
  OBVIOUS
<1>10. after = Body(after)
  BY <1>8, <1>9
<1>11. after[0] = c0 /\ \A i \in 1 .. N : after[i] = Round(i, after[i - 1])
  <2>1. 0 \in 0 .. N /\ \A i \in 1 .. N : i \in 0 .. N /\ i # 0
    BY ONLY <1>1
  <2> QED
    BY ONLY <1>10, <2>1
<1>12. apply_aof(m, p) = after[N]
  BY ONLY <1>1, <1>9 DEF apply_aof, Body, Round
<1>13. \A n \in 1 .. N : after[n] = Applied(after[n - 1], p[n])
  BY ONLY <1>11 DEF Round
<1>14. Applies(m, p, after)
  BY ONLY <1>1, <1>11, <1>12, <1>13 DEF Applies
<1> QED
  BY ONLY <1>14

\* A store that has keys, and what it has for one of them.
HasKeys(st) == "kv" \in DOMAIN st /\ st.kv = [k \in DOMAIN st.kv |-> st.kv[k]]
At(st, k)   == IF k \in DOMAIN st.kv THEN <<st.kv[k]>> ELSE <<>>

\* Entries that a log can have, the key that one sets or deletes, and what is
\* there afterwards.
Loggable    == Ops \ {"KvFlush"}
Changes(c, k) == c.op \in KvOps /\ k = <<c.db, c.key>>
Given(c)    == IF c.op = "KvSet" THEN <<c.val>> ELSE <<>>

LEMMA SameKeys ==
    ASSUME NEW a, NEW b, HasKeys(a), HasKeys(b), \A k : At(a, k) = At(b, k)
    PROVE  a.kv = b.kv
<1>1. PICK x, y : x = a.kv /\ y = b.kv
  OBVIOUS
<1>2. x = [k \in DOMAIN x |-> x[k]] /\ y = [k \in DOMAIN y |-> y[k]]
  BY ONLY <1>1, HasKeys(a), HasKeys(b) DEF HasKeys
<1>3. ASSUME NEW k PROVE (k \in DOMAIN x <=> k \in DOMAIN y) /\ (k \in DOMAIN x => x[k] = y[k])
  <2>1. (IF k \in DOMAIN x THEN <<x[k]>> ELSE <<>>) = (IF k \in DOMAIN y THEN <<y[k]>> ELSE <<>>)
    BY ONLY <1>1, \A j : At(a, j) = At(b, j) DEF At
  <2>2. PICK u, v : u = x[k] /\ v = y[k]
    OBVIOUS
  <2>3. <<u>> # <<>> /\ <<v>> # <<>> /\ (<<u>> = <<v>> => u = v)
    OBVIOUS
  <2> QED
    BY ONLY <2>1, <2>2, <2>3
<1>4. DOMAIN x = DOMAIN y
  BY ONLY <1>3
<1> QED
  BY ONLY <1>1, <1>2, <1>3, <1>4

\* A field set in a store.
LEMMA WithKeys ==
    ASSUME NEW st, HasKeys(st), NEW x
    PROVE  /\ HasKeys([st EXCEPT !.list = x]) /\ [st EXCEPT !.list = x].kv = st.kv
           /\ HasKeys([st EXCEPT !.log = x]) /\ [st EXCEPT !.log = x].kv = st.kv
           /\ "kv" \in DOMAIN [st EXCEPT !.kv = x] /\ [st EXCEPT !.kv = x].kv = x
<1>1. "kv" \in DOMAIN st /\ "kv" # "list" /\ "kv" # "log"
  BY DEF HasKeys
<1>2. "kv" \in DOMAIN [st EXCEPT !.list = x] /\ [st EXCEPT !.list = x].kv = st.kv
  BY ONLY <1>1
<1>3. "kv" \in DOMAIN [st EXCEPT !.log = x] /\ [st EXCEPT !.log = x].kv = st.kv
  BY ONLY <1>1
<1>4. "kv" \in DOMAIN [st EXCEPT !.kv = x] /\ [st EXCEPT !.kv = x].kv = x
  BY ONLY <1>1
<1>5. PICK a, b : a = [st EXCEPT !.list = x] /\ b = [st EXCEPT !.log = x]
  OBVIOUS
<1>6. HasKeys(a) /\ HasKeys(b)
  BY ONLY <1>2, <1>3, <1>5, HasKeys(st) DEF HasKeys
<1> QED
  BY ONLY <1>2, <1>3, <1>4, <1>5, <1>6

Keeps(a, b) == HasKeys(b) /\ b.kv = a.kv

LEMMA SetQueueKeeps ==
    ASSUME NEW st, HasKeys(st), NEW key, NEW q
    PROVE  Keeps(st, SetQueue(st, key, q))
<1>1. SetQueue(st, key, q) = [st EXCEPT !.list = Put(st.list, key, q)]
  BY DEF SetQueue
<1> QED
  BY ONLY <1>1, HasKeys(st), WithKeys DEF Keeps

LEMMA PushKeeps ==
    ASSUME NEW st, HasKeys(st), NEW c
    PROVE  Keeps(st, ListPushRange(st, c).store)
<1>1. PICK stored : stored = Storable(c.vals)
  OBVIOUS
<1>2. ListPushRange(st, c).store = IF stored = <<>> THEN st
                                   ELSE SetQueue(st, c.key, Queue(st, c.key) \o stored)
  BY ONLY <1>1 DEF ListPushRange, Ok, Err
<1>3. Keeps(st, st)
  BY DEF Keeps
<1> QED
  BY ONLY <1>2, <1>3, HasKeys(st), SetQueueKeeps

LEMMA ListKeeps ==
    ASSUME NEW st, HasKeys(st), NEW c, c.op \in ListOps
    PROVE  Keeps(st, Exec(st, c).store)
<1>0. Keeps(st, st)
  BY DEF Keeps
<1>1. CASE c.op = "ListPush"
  <2>1. Exec(st, c) = ListPushRange(st, [key |-> c.key, vals |-> <<c.val>>])
    BY <1>1 DEF Exec, ListPush
  <2> QED
    BY ONLY <2>1, HasKeys(st), PushKeeps
<1>2. CASE c.op = "ListPushRange"
  <2>1. Exec(st, c) = ListPushRange(st, c)
    BY <1>2 DEF Exec
  <2> QED
    BY ONLY <2>1, HasKeys(st), PushKeeps
<1>3. CASE c.op = "ListPop"
  <2>1. Exec(st, c) = ListPop(st, c)
    BY <1>3 DEF Exec
  <2>2. PICK q : q = Queue(st, c.key)
    OBVIOUS
  <2>3. ListPop(st, c).store = IF q = <<>> THEN st ELSE SetQueue(st, c.key, Tail(q))
    BY ONLY <2>2 DEF ListPop, Ok, Err
  <2> QED
    BY ONLY <1>0, <2>1, <2>3, HasKeys(st), SetQueueKeeps
<1>4. CASE c.op = "ListPopRange"
  <2>1. Exec(st, c) = ListPopRange(st, c)
    BY <1>4 DEF Exec
  <2>2. \/ ListPopRange(st, c).store = st
        \/ \E q : ListPopRange(st, c).store = SetQueue(st, c.key, q)
    BY ONLY DEF ListPopRange, Ok, Err
  <2> QED
    BY ONLY <1>0, <2>1, <2>2, HasKeys(st), SetQueueKeeps
<1>5. CASE c.op = "ListPopCount"
  <2>1. Exec(st, c) = ListPopCount(st, c)
    BY <1>5 DEF Exec
  <2>2. \/ ListPopCount(st, c).store = st
        \/ \E q : ListPopCount(st, c).store = SetQueue(st, c.key, q)
    BY ONLY DEF ListPopCount, Ok, Err
  <2> QED
    BY ONLY <1>0, <2>1, <2>2, HasKeys(st), SetQueueKeeps
<1>6. CASE c.op = "ListFlush"
  <2>1. Exec(st, c) = ListFlush(st, c)
    BY <1>6 DEF Exec
  <2>2. ListFlush(st, c).store = st \/ ListFlush(st, c).store = SetQueue(st, c.key, <<>>)
    BY ONLY DEF ListFlush, Ok, Err
  <2> QED
    BY ONLY <1>0, <2>1, <2>2, HasKeys(st), SetQueueKeeps
<1>7. CASE c.op = "ListLen"
  <2>1. Exec(st, c).store = SetQueue(st, c.key, Queue(st, c.key))
    BY <1>7 DEF Exec, ListLen, Ok
  <2> QED
    BY ONLY <2>1, HasKeys(st), SetQueueKeeps
<1> QED
  BY <1>1, <1>2, <1>3, <1>4, <1>5, <1>6, <1>7 DEF ListOps

LEMMA AddKeeps ==
    ASSUME NEW st, HasKeys(st), NEW c
    PROVE  Keeps(st, LogAddRange(st, c).store)
<1>0. Keeps(st, st) /\ \A x : Keeps(st, [st EXCEPT !.log = x])
  BY WithKeys DEF Keeps
<1>1. \/ LogAddRange(st, c).store = st
      \/ \E x : LogAddRange(st, c).store = [st EXCEPT !.log = x]
  <2>1. \A g : [st EXCEPT !.log[c.group] = g] = [st EXCEPT !.log = [st.log EXCEPT ![c.group] = g]]
    OBVIOUS
  <2>2. \/ LogAddRange(st, c).store = st
        \/ \E g : LogAddRange(st, c).store = [st EXCEPT !.log[c.group] = g]
    BY ONLY DEF LogAddRange, Ok, Err
  <2> QED
    BY ONLY <2>1, <2>2
<1> QED
  BY ONLY <1>0, <1>1

LEMMA LogKeeps ==
    ASSUME NEW st, HasKeys(st), NEW c, c.op \in LogOps
    PROVE  Keeps(st, Exec(st, c).store)
<1>0. Keeps(st, st) /\ \A x : Keeps(st, [st EXCEPT !.log = x])
  BY WithKeys DEF Keeps
<1>1. CASE c.op = "LogCreateGroup"
  <2>1. Exec(st, c) = LogCreateGroup(st, c)
    BY <1>1 DEF Exec
  <2>2. LogCreateGroup(st, c).store = st \/ \E x : LogCreateGroup(st, c).store = [st EXCEPT !.log = x]
    BY ONLY DEF LogCreateGroup, Ok, Err
  <2> QED
    BY ONLY <1>0, <2>1, <2>2
<1>2. CASE c.op = "LogDropGroup"
  <2>1. Exec(st, c) = LogDropGroup(st, c)
    BY <1>2 DEF Exec
  <2>2. LogDropGroup(st, c).store = st \/ \E x : LogDropGroup(st, c).store = [st EXCEPT !.log = x]
    BY ONLY DEF LogDropGroup, Ok, Err
  <2> QED
    BY ONLY <1>0, <2>1, <2>2
<1>3. CASE c.op = "LogAdd"
  <2>1. Exec(st, c) = LogAddRange(st, [group |-> c.group, vals |-> <<c.val>>])
    BY <1>3 DEF Exec, LogAdd
  <2> QED
    BY ONLY <2>1, HasKeys(st), AddKeeps
<1>4. CASE c.op = "LogAddRange"
  <2>1. Exec(st, c) = LogAddRange(st, c)
    BY <1>4 DEF Exec
  <2> QED
    BY ONLY <2>1, HasKeys(st), AddKeeps
<1>5. CASE c.op = "LogRemove"
  <2>1. Exec(st, c) = LogRemove(st, c)
    BY <1>5 DEF Exec
  <2>2. LogRemove(st, c).store = st \/ \E x : LogRemove(st, c).store = [st EXCEPT !.log = x]
    <3>1. PICK x : x = [st.log EXCEPT ![c.group].entries = Drop(@, {id \in DOMAIN @ : id < c.up_to})]
      OBVIOUS
    <3>2. LogRemove(st, c).store = st \/ LogRemove(st, c).store = [st EXCEPT !.log = x]
      BY ONLY <3>1 DEF LogRemove, Ok, Err
    <3> QED
      BY ONLY <3>2
  <2> QED
    BY ONLY <1>0, <2>1, <2>2
<1> QED
  BY <1>1, <1>2, <1>3, <1>4, <1>5 DEF LogOps

\* An entry gives its key a value or takes it away, whatever was there before,
\* and leaves all others alone.
Gives(a, c, b) ==
    /\ HasKeys(b)
    /\ \A k : At(b, k) = IF Changes(c, k) THEN Given(c) ELSE At(a, k)

LEMMA ExecGives ==
    ASSUME NEW st, HasKeys(st), NEW c, c.op \in Loggable
    PROVE  Gives(st, c, Exec(st, c).store)
<1>1. CASE c.op \notin KvOps
  <2>1. c.op \in ListOps \/ c.op \in LogOps
    BY <1>1 DEF Loggable, Ops
  <2>2. Keeps(st, Exec(st, c).store)
    BY <2>1, ListKeeps, LogKeeps
  <2>3. \A k : ~Changes(c, k)
    BY <1>1 DEF Changes
  <2> QED
    BY ONLY <2>2, <2>3 DEF Gives, Keeps, At
<1>2. PICK k0, m, v : k0 = <<c.db, c.key>> /\ m = st.kv /\ v = c.val
  OBVIOUS
<1>3. m = [k \in DOMAIN m |-> m[k]]
  BY ONLY <1>2, HasKeys(st) DEF HasKeys
<1>4. CASE c.op = "KvSet"
  <2>1. PICK x : x = Put(m, k0, v)
    OBVIOUS
  <2>2. PICK b : b = Exec(st, c).store
    OBVIOUS
  <2>3. b = [st EXCEPT !.kv = x]
    BY <1>2, <1>4, <2>1, <2>2 DEF Exec, KvSet, Ok
  <2>4. "kv" \in DOMAIN b /\ b.kv = x
    BY ONLY <2>3, HasKeys(st), WithKeys
  <2>5. /\ DOMAIN x = DOMAIN m \cup {k0} /\ x = [k \in DOMAIN x |-> x[k]] /\ x[k0] = v
        /\ \A k \in DOMAIN m : k # k0 => x[k] = m[k]
    BY ONLY <2>1 DEF Put
  <2>6. HasKeys(b)
    BY ONLY <2>4, <2>5 DEF HasKeys
  <2>7. ASSUME NEW k PROVE At(b, k) = IF k = k0 THEN <<v>> ELSE At(st, k)
    BY ONLY <1>2, <2>4, <2>5 DEF At
  <2>8. Given(c) = <<v>> /\ \A k : Changes(c, k) <=> k = k0
    BY ONLY <1>2, <1>4 DEF Given, Changes, KvOps
  <2> QED
    BY ONLY <2>2, <2>6, <2>7, <2>8 DEF Gives
<1>5. CASE c.op = "KvDel"
  <2>1. PICK x : x = IF k0 \in DOMAIN m THEN Drop(m, {k0}) ELSE m
    OBVIOUS
  <2>2. PICK b : b = Exec(st, c).store
    OBVIOUS
  <2>3. b = IF k0 \in DOMAIN m THEN [st EXCEPT !.kv = x] ELSE st
    BY <1>2, <1>5, <2>1, <2>2 DEF Exec, KvDel, Ok, Err
  <2>4. "kv" \in DOMAIN b /\ b.kv = x
    <3>1. "kv" \in DOMAIN st
      BY ONLY HasKeys(st) DEF HasKeys
    <3> QED
      BY ONLY <1>2, <2>1, <2>3, <3>1, HasKeys(st), WithKeys
  <2>5. /\ DOMAIN x = DOMAIN m \ {k0} /\ x = [k \in DOMAIN x |-> x[k]]
        /\ \A k \in DOMAIN x : x[k] = m[k]
    BY ONLY <1>3, <2>1 DEF Drop
  <2>6. HasKeys(b)
    BY ONLY <2>4, <2>5 DEF HasKeys
  <2>7. ASSUME NEW k PROVE At(b, k) = IF k = k0 THEN <<>> ELSE At(st, k)
    BY ONLY <1>2, <2>4, <2>5 DEF At
  <2>8. Given(c) = <<>> /\ \A k : Changes(c, k) <=> k = k0
    BY ONLY <1>2, <1>5 DEF Given, Changes, KvOps
  <2> QED
    BY ONLY <2>2, <2>6, <2>7, <2>8 DEF Gives
<1> QED
  BY <1>1, <1>4, <1>5 DEF KvOps, Loggable

LEMMA AppliedGives ==
    ASSUME NEW st, HasKeys(st), NEW c, c.op \in Loggable
    PROVE  Gives(st, c, Applied(st, c))
<1>1. CASE c.op \in KvOps
  BY <1>1, ExecGives DEF Applied
<1>2. CASE c.op \notin KvOps
  BY <1>2 DEF Applied, Gives, Changes
<1> QED
  BY <1>1, <1>2

\* The first n elements.
FirstOf(l, n, s) == AList(s) /\ Len(s) = n /\ \A j \in 1 .. n : s[j] = l[j]

LEMMA FirstIs ==
    ASSUME NEW l, AList(l), NEW n \in 0 .. Len(l)
    PROVE  FirstOf(l, n, SubSeq(l, 1, n))
<1>1. PICK s : s = SubSeq(l, 1, n)
  OBVIOUS
<1>2. n \in Nat /\ n - 1 + 1 = n /\ \A j \in 1 .. n : 1 + j - 1 = j
  BY DEF AList
<1>3. s = [j \in 1 .. n |-> l[j]]
  BY ONLY <1>1, <1>2, AList(l), n \in 0 .. Len(l) DEF AList
<1>4. Len(s) = n
  BY ONLY <1>2, <1>3
<1>5. AList(s) /\ \A j \in 1 .. n : s[j] = l[j]
  BY ONLY <1>2, <1>3, <1>4 DEF AList
<1> QED
  BY ONLY <1>1, <1>4, <1>5 DEF FirstOf

\* Two lists with the same first n elements.
LEMMA FirstSame ==
    ASSUME NEW l, AList(l), NEW k, AList(k), NEW n \in 0 .. Len(l), n \in 0 .. Len(k),
           \A j \in 1 .. n : k[j] = l[j]
    PROVE  SubSeq(k, 1, n) = SubSeq(l, 1, n)
<1>1. PICK s, t : s = SubSeq(l, 1, n) /\ t = SubSeq(k, 1, n)
  OBVIOUS
<1>2. FirstOf(l, n, s) /\ FirstOf(k, n, t)
  BY <1>1, FirstIs
<1>3. AList(s) /\ AList(t) /\ Len(s) = n /\ Len(t) = n /\ \A j \in 1 .. n : t[j] = s[j]
  BY ONLY <1>2, \A j \in 1 .. n : k[j] = l[j] DEF FirstOf
<1>4. s = t
  BY ONLY <1>3, SameList
<1> QED
  BY ONLY <1>1, <1>4

\* What a log holds.
OfLog(p) == AList(p) /\ \A j \in 1 .. Len(p) : p[j].op \in Loggable

LEMMA FirstOfLog ==
    ASSUME NEW p, OfLog(p), NEW n \in 0 .. Len(p)
    PROVE  OfLog(SubSeq(p, 1, n)) /\ Len(SubSeq(p, 1, n)) = n
<1>1. PICK s : s = SubSeq(p, 1, n)
  OBVIOUS
<1>2. FirstOf(p, n, s) /\ Len(p) \in Nat
  BY <1>1, FirstIs DEF OfLog, AList
<1>3. \A j \in 1 .. n : j \in 1 .. Len(p)
  BY ONLY <1>2, n \in 0 .. Len(p)
<1>4. OfLog(s) /\ Len(s) = n
  BY ONLY <1>2, <1>3, OfLog(p) DEF FirstOf, OfLog
<1> QED
  BY ONLY <1>1, <1>4

LEMMA ReplayPrefix ==
    ASSUME NEW p, AList(p), NEW f, Replays(p, f), NEW n \in 0 .. Len(p)
    PROVE  Replay(SubSeq(p, 1, n)) = f[n]
<1>1. PICK s : s = SubSeq(p, 1, n)
  OBVIOUS
<1>2. AList(s) /\ Len(s) = n /\ \A j \in 1 .. n : s[j] = p[j]
  BY <1>1, FirstIs DEF FirstOf
<1>3. PICK g : Replays(s, g)
  BY ONLY <1>2, ReplayLoop
<1>4. Replay(s) = g[n] /\ g[0] = EmptyStore /\ \A i \in 1 .. n : g[i] = Exec(g[i - 1], s[i]).store
  BY ONLY <1>2, <1>3, Zenon DEF Replays
<1>5. f[0] = EmptyStore /\ \A i \in 1 .. Len(p) : f[i] = Exec(f[i - 1], p[i]).store
  BY ONLY Replays(p, f), Zenon DEF Replays
<1>6. n \in Nat /\ n \in 0 .. n /\ \A i \in 1 .. n : i \in 0 .. n /\ i \in 1 .. Len(p)
  BY DEF AList
<1> DEFINE Good == {i \in 0 .. n : g[i] = f[i]}
<1>7. 0 \in Good
  BY ONLY <1>4, <1>5, <1>6
<1>8. \A i \in 1 .. n : i - 1 \in Good => i \in Good
  <2> SUFFICES ASSUME NEW i \in 1 .. n, i - 1 \in Good PROVE i \in Good
    OBVIOUS
  <2>1. g[i - 1] = f[i - 1] /\ s[i] = p[i] /\ i \in 0 .. n /\ i \in 1 .. Len(p)
    BY <1>2, <1>6
  <2>2. g[i] = Exec(g[i - 1], s[i]).store /\ f[i] = Exec(f[i - 1], p[i]).store
    BY ONLY <1>4, <1>5, <2>1, i \in 1 .. n, Zenon
  <2>3. g[i] = f[i]
    BY ONLY <2>1, <2>2, Zenon
  <2> QED
    BY ONLY <2>1, <2>3
<1> HIDE DEF Good
<1>9. n \in Good
  BY ONLY <1>6, <1>7, <1>8, IntervalInduction
<1>10. g[n] = f[n]
  BY ONLY <1>9 DEF Good
<1> QED
  BY ONLY <1>1, <1>4, <1>10, Zenon

\* None of the first n entries is about k.
Untouched(p, n, k) == \A j \in 1 .. n : ~Changes(p[j], k)

\* A store x of a replay, and the store y of a follower that applies the same
\* entries to m: they agree on the keys touched so far, and the others are
\* missing here and as before there.
InStep(p, n, m, x, y) ==
    /\ HasKeys(x) /\ HasKeys(y)
    /\ \A k : \/ Untouched(p, n, k) /\ At(x, k) = <<>> /\ At(y, k) = At(m, k)
              \/ ~Untouched(p, n, k) /\ At(x, k) = At(y, k)

LEMMA InStepNext ==
    ASSUME NEW p, NEW n \in Nat \ {0}, NEW m, NEW x, NEW y, InStep(p, n - 1, m, x, y),
           NEW u, NEW v, Gives(x, p[n], u), Gives(y, p[n], v)
    PROVE  InStep(p, n, m, u, v)
<1>1. HasKeys(u) /\ HasKeys(v)
  BY DEF Gives
<1>2. ASSUME NEW k
      PROVE  \/ Untouched(p, n, k) /\ At(u, k) = <<>> /\ At(v, k) = At(m, k)
             \/ ~Untouched(p, n, k) /\ At(u, k) = At(v, k)
  <2>1. 1 .. n = (1 .. n - 1) \cup {n}
    OBVIOUS
  <2>2. Untouched(p, n, k) <=> Untouched(p, n - 1, k) /\ ~Changes(p[n], k)
    BY ONLY <2>1 DEF Untouched
  <2>3. \/ Untouched(p, n - 1, k) /\ At(x, k) = <<>> /\ At(y, k) = At(m, k)
        \/ ~Untouched(p, n - 1, k) /\ At(x, k) = At(y, k)
    BY ONLY InStep(p, n - 1, m, x, y) DEF InStep
  <2>4. /\ At(u, k) = IF Changes(p[n], k) THEN Given(p[n]) ELSE At(x, k)
        /\ At(v, k) = IF Changes(p[n], k) THEN Given(p[n]) ELSE At(y, k)
    BY ONLY Gives(x, p[n], u), Gives(y, p[n], v) DEF Gives
  <2> QED
    BY ONLY <2>2, <2>3, <2>4, Zenon
<1> QED
  BY ONLY <1>1, <1>2 DEF InStep

LEMMA EmptyKeys == HasKeys(EmptyStore) /\ \A k : At(EmptyStore, k) = <<>>
<1>1. PICK e : e = EmptyStore.kv
  OBVIOUS
<1>2. e = [x \in {} |-> <<>>] /\ "kv" \in DOMAIN EmptyStore
  BY <1>1 DEF EmptyStore, EmptyMap
<1>3. DOMAIN e = {} /\ e = [x \in DOMAIN e |-> e[x]]
  BY ONLY <1>2
<1> QED
  BY ONLY <1>1, <1>2, <1>3 DEF HasKeys, At

\* A copy applied to a node that holds the keys of a part of it gives the node
\* the keys of the copy: entries that it already had do no harm.
LEMMA ApplyOver ==
    ASSUME NEW p, OfLog(p), NEW m, HasKeys(m), NEW i \in 0 .. Len(p),
           m.kv = Replay(SubSeq(p, 1, i)).kv
    PROVE  HasKeys(apply_aof(m, p)) /\ apply_aof(m, p).kv = Replay(p).kv
<1>1. PICK N \in Nat : N = Len(p)
  BY DEF OfLog, AList
<1>2. AList(p) /\ \A n \in 1 .. N : p[n].op \in Loggable
  BY <1>1 DEF OfLog
<1>3. PICK f : Replays(p, f)
  BY ONLY <1>2, ReplayLoop
<1>4. PICK g : Applies(m, p, g)
  BY ONLY <1>2, ApplyLoop
<1>5. Replay(p) = f[N] /\ f[0] = EmptyStore /\ \A n \in 1 .. N : f[n] = Exec(f[n - 1], p[n]).store
  BY ONLY <1>1, <1>3, Zenon DEF Replays
<1>6. apply_aof(m, p) = g[N] /\ g[0] = m /\ \A n \in 1 .. N : g[n] = Applied(g[n - 1], p[n])
  BY ONLY <1>1, <1>4, Zenon DEF Applies
<1> DEFINE Good == {n \in 0 .. N : InStep(p, n, m, f[n], g[n])}
<1>7. 0 \in Good
  <2>1. \A k : Untouched(p, 0, k)
    BY DEF Untouched
  <2>2. InStep(p, 0, m, f[0], g[0])
    BY ONLY <1>5, <1>6, <2>1, HasKeys(m), EmptyKeys DEF InStep
  <2> QED
    BY ONLY <1>1, <2>2
<1>8. \A n \in 1 .. N : n - 1 \in Good => n \in Good
  <2> SUFFICES ASSUME NEW n \in 1 .. N, n - 1 \in Good PROVE n \in Good
    OBVIOUS
  <2>1. InStep(p, n - 1, m, f[n - 1], g[n - 1]) /\ n \in 0 .. N /\ n \in Nat \ {0}
    OBVIOUS
  <2>2. HasKeys(f[n - 1]) /\ HasKeys(g[n - 1]) /\ p[n].op \in Loggable
    BY ONLY <1>2, <2>1, n \in 1 .. N DEF InStep
  <2>3. f[n] = Exec(f[n - 1], p[n]).store /\ g[n] = Applied(g[n - 1], p[n])
    BY ONLY <1>5, <1>6, n \in 1 .. N, Zenon
  <2>4. Gives(f[n - 1], p[n], f[n]) /\ Gives(g[n - 1], p[n], g[n])
    BY ONLY <2>2, <2>3, ExecGives, AppliedGives, Zenon
  <2>5. InStep(p, n, m, f[n], g[n])
    BY ONLY <2>1, <2>4, InStepNext
  <2> QED
    BY ONLY <2>1, <2>5
<1> HIDE DEF Good
<1>9. \A n \in 0 .. N : n \in Good
  BY ONLY <1>1, <1>7, <1>8, IntervalInduction
<1>10. InStep(p, N, m, f[N], g[N]) /\ InStep(p, i, m, f[i], g[i])
  <2>1. N \in 0 .. N /\ i \in 0 .. N
    BY ONLY <1>1, i \in 0 .. Len(p)
  <2> QED
    BY ONLY <1>9, <2>1 DEF Good
<1>11. m.kv = f[i].kv
  BY ONLY <1>2, <1>3, i \in 0 .. Len(p), m.kv = Replay(SubSeq(p, 1, i)).kv, ReplayPrefix
<1>12. ASSUME NEW k PROVE At(g[N], k) = At(f[N], k)
  <2>1. CASE ~Untouched(p, N, k)
    BY ONLY <1>10, <2>1 DEF InStep
  <2>2. CASE Untouched(p, N, k)
    <3>1. \A j \in 1 .. i : j \in 1 .. N
      BY ONLY <1>1, i \in 0 .. Len(p)
    <3>2. Untouched(p, i, k)
      BY ONLY <2>2, <3>1 DEF Untouched
    <3>3. At(f[i], k) = <<>>
      BY ONLY <1>10, <3>2 DEF InStep
    <3>4. At(m, k) = At(f[i], k)
      BY ONLY <1>11 DEF At
    <3>5. At(f[N], k) = <<>> /\ At(g[N], k) = At(m, k)
      BY ONLY <1>10, <2>2 DEF InStep
    <3> QED
      BY ONLY <3>3, <3>4, <3>5, Zenon
  <2> QED
    BY ONLY <2>1, <2>2
<1>13. HasKeys(f[N]) /\ HasKeys(g[N])
  BY ONLY <1>10 DEF InStep
<1>14. g[N].kv = f[N].kv
  BY ONLY <1>12, <1>13, SameKeys
<1> QED
  BY ONLY <1>5, <1>6, <1>13, <1>14, Zenon
-----------------------------------------------------------------------------
(* What a load finds in a file *)

\* The lines are of entries up to the k-th, in the order of the log.
Ordered(ls, k) ==
    /\ AList(ls) /\ \A i \in 1 .. Len(ls) : ls[i].entry \in 1 .. k
    /\ \A i, j \in 1 .. Len(ls) : i < j => ls[i].entry < ls[j].entry

\* They are the first k entries.
Whole(ls, k) ==
    /\ AList(ls) /\ Len(ls) = k
    /\ \A i \in 1 .. k : ls[i].entry = i /\ ls[i].text = "entry" /\ ls[i].ended

\* A part of the first n lines, in order.
SortedTo(p, s, n) ==
    /\ AList(p) /\ \A i \in 1 .. Len(p) : \E q \in 1 .. n : p[i] = s[q]
    /\ \A i, j \in 1 .. Len(p) : i < j => p[i].entry < p[j].entry

LEMMA PartOrdered ==
    ASSUME NEW k, NEW ls, Ordered(ls, k), NEW chosen
    PROVE  Ordered(Part(ls, chosen), k)
<1>1. PICK N \in Nat : N = Len(ls)
  BY DEF Ordered, AList
<1>2. PICK taken : TakesPart(ls, chosen, taken)
  BY PartLoop DEF Ordered
<1>3. /\ taken[0] = <<>> /\ Part(ls, chosen) = taken[N]
      /\ \A n \in 1 .. N :
            taken[n] = IF n \in chosen THEN Append(taken[n - 1], ls[n]) ELSE taken[n - 1]
  BY <1>1, <1>2 DEF TakesPart
<1> DEFINE Good == {n \in 0 .. N : SortedTo(taken[n], ls, n)}
<1>4. 0 \in Good
  <2>1. AList(taken[0]) /\ Len(taken[0]) = 0
    BY <1>3, EmptyList
  <2> QED
    BY <2>1 DEF SortedTo
<1>5. \A n \in 1 .. N : n - 1 \in Good => n \in Good
  <2> SUFFICES ASSUME NEW n \in 1 .. N, SortedTo(taken[n - 1], ls, n - 1)
               PROVE  SortedTo(taken[n], ls, n)
    OBVIOUS
  <2>1. PICK p, t, e : p = taken[n - 1] /\ t = taken[n] /\ e = ls[n]
    OBVIOUS
  <2>2. PICK K : K = Len(p)
    OBVIOUS
  <2>3. /\ AList(p) /\ K \in Nat /\ \A i \in 1 .. K : \E q \in 1 .. n - 1 : p[i] = ls[q]
        /\ \A i, j \in 1 .. K : i < j => p[i].entry < p[j].entry
    BY ONLY <2>1, <2>2, SortedTo(taken[n - 1], ls, n - 1) DEF SortedTo, AList
  <2>4. \A q \in 1 .. n - 1 : q \in 1 .. n /\ q \in 1 .. N /\ q < n
    BY ONLY N \in Nat, n \in 1 .. N
  <2>5. \A q \in 1 .. n - 1 : ls[q].entry < e.entry
    BY <1>1, <2>1, <2>4 DEF Ordered
  <2>6. CASE n \notin chosen
    <3>1. t = p
      BY <1>3, <2>1, <2>6
    <3>2. SortedTo(p, ls, n)
      BY ONLY <2>2, <2>3, <2>4 DEF SortedTo
    <3> QED
      BY ONLY <2>1, <3>1, <3>2
  <2>7. CASE n \in chosen
    <3>1. t = Append(p, e)
      BY <1>3, <2>1, <2>7
    <3>2. AList(t) /\ Len(t) = K + 1 /\ t[K + 1] = e /\ \A i \in 1 .. K : t[i] = p[i]
      <4>1. AList(p)
        BY ONLY <2>3
      <4> QED
        BY ONLY <2>2, <3>1, <4>1, ListAppend, Zenon
    <3>3. \A i \in 1 .. K + 1 : i \in 1 .. K \/ i = K + 1
      BY ONLY <2>3
    <3>4. \A i \in 1 .. K + 1 : \E q \in 1 .. n : t[i] = ls[q]
      <4>1. n \in 1 .. n
        OBVIOUS
      <4> QED
        BY ONLY <2>1, <2>3, <2>4, <3>2, <3>3, <4>1
    <3>5. \A i \in 1 .. K : t[i].entry < e.entry
      BY ONLY <2>3, <2>5, <3>2
    <3>6. ASSUME NEW i \in 1 .. K + 1, NEW j \in 1 .. K + 1, i < j
          PROVE  t[i].entry < t[j].entry
      <4>1. i \in 1 .. K
        BY ONLY <2>3, i \in 1 .. K + 1, j \in 1 .. K + 1, i < j
      <4>2. CASE j \in 1 .. K
        BY ONLY <2>3, <3>2, <3>6, <4>1, <4>2
      <4>3. CASE j = K + 1
        BY ONLY <3>2, <3>5, <4>1, <4>3
      <4> QED
        BY ONLY <3>3, <4>2, <4>3, j \in 1 .. K + 1
    <3>7. SortedTo(t, ls, n)
      BY ONLY <3>2, <3>4, <3>6 DEF SortedTo
    <3> QED
      BY ONLY <2>1, <3>7
  <2> QED
    BY <2>6, <2>7
<1> HIDE DEF Good
<1>6. N \in 0 .. N
  OBVIOUS
<1>7. N \in Good
  BY ONLY <1>4, <1>5, <1>6, N \in Nat, IntervalInduction
<1>8. SortedTo(taken[N], ls, N)
  BY <1>7 DEF Good
<1>9. PICK p : p = taken[N]
  OBVIOUS
<1>10. Ordered(p, k)
  <2>1. \A i \in 1 .. N : ls[i].entry \in 1 .. k
    BY <1>1 DEF Ordered
  <2> QED
    BY ONLY <1>8, <1>9, <2>1 DEF SortedTo, Ordered
<1> QED
  BY ONLY <1>3, <1>9, <1>10, Zenon

\* Nothing is left out.
LEMMA PartAll ==
    ASSUME NEW s, AList(s), NEW chosen, \A i \in 1 .. Len(s) : i \in chosen
    PROVE  Part(s, chosen) = s
<1>1. PICK N \in Nat : N = Len(s)
  BY DEF AList
<1>2. N \in 0 .. Len(s) /\ \A n \in 1 .. Len(s) : n \in chosen <=> n <= N
  BY <1>1
<1>3. PICK p : p = Part(s, chosen)
  OBVIOUS
<1>4. AList(p) /\ Len(p) = N /\ \A i \in 1 .. N : p[i] = s[i]
  BY <1>2, <1>3, PartFirst
<1>5. p = s
  BY ONLY <1>1, <1>4, AList(s), SameList
<1> QED
  BY ONLY <1>3, <1>5

\* Each line that is an entry gives the call at its place in the log.
Reads(s, l, good) ==
    AList(s) /\ Len(s) = Len(good) /\ \A i \in 1 .. Len(good) : s[i] = l[good[i].entry]

LEMMA LoadedIs ==
    ASSUME NEW n, NEW ls, AList(ls), NEW good,
           good = Part(ls, {i \in DOMAIN ls : ls[i].text = "entry"})
    PROVE  Reads(Loaded(n, ls), log[n], good)
<1>1. PICK found, l : found = [i \in DOMAIN good |-> good[i].entry] /\ l = log[n]
  OBVIOUS
<1>2. AList(good)
  BY PartElements DEF ChosenFrom
<1>3. PICK K \in Nat : K = Len(good)
  BY <1>2 DEF AList
<1>4. DOMAIN good = 1 .. K
  BY ONLY <1>2, <1>3 DEF AList
<1>5. DOMAIN found = 1 .. K /\ \A i \in 1 .. K : found[i] = good[i].entry
  BY ONLY <1>1, <1>4
<1>6. PICK s : s = [i \in DOMAIN found |-> l[found[i]]]
  OBVIOUS
<1>7. s = [i \in 1 .. K |-> l[good[i].entry]]
  BY ONLY <1>5, <1>6
<1>8. Len(s) = K
  BY ONLY <1>7, K \in Nat
<1>9. Reads(s, l, good)
  BY ONLY <1>3, <1>7, <1>8 DEF Reads, AList
<1>10. Entries(ls) = found
  BY <1>1 DEF Entries
<1>11. Loaded(n, ls) = s
  BY ONLY <1>1, <1>6, <1>10 DEF Loaded
<1> QED
  BY ONLY <1>1, <1>9, <1>11, Zenon

\* It is a selection from the log,
LEMMA LoadedSelects ==
    ASSUME NEW n, AList(log[n]), NEW k \in 0 .. Len(log[n]), NEW ls, Ordered(ls, k)
    PROVE  /\ Selection(Loaded(n, ls), log[n])
           /\ k = 0 => Loaded(n, ls) = <<>>
<1>1. PICK good : good = Part(ls, {i \in DOMAIN ls : ls[i].text = "entry"})
  OBVIOUS
<1>2. Ordered(good, k)
  BY <1>1, PartOrdered
<1>3. PICK s, l : s = Loaded(n, ls) /\ l = log[n]
  OBVIOUS
<1>4. Reads(s, l, good)
  BY <1>1, <1>3, LoadedIs DEF Ordered
<1>5. Len(s) = Len(good) /\ Len(s) \in Nat /\ AList(s)
  BY ONLY <1>4 DEF Reads, AList
<1>6. PICK at : at = [i \in 1 .. Len(s) |-> good[i].entry]
  OBVIOUS
<1>7. \A i \in 1 .. Len(s) : at[i] = good[i].entry
  BY ONLY <1>6
<1>8. \A i \in 1 .. Len(s) : at[i] \in 1 .. k
  BY ONLY <1>2, <1>5, <1>7 DEF Ordered
<1>9. at \in [1 .. Len(s) -> 1 .. Len(l)]
  <2>1. \A x \in 1 .. k : x \in 1 .. Len(l)
    BY ONLY <1>3, AList(log[n]), k \in 0 .. Len(log[n]) DEF AList
  <2> QED
    BY ONLY <1>6, <1>7, <1>8, <2>1
<1>10. /\ \A i, j \in 1 .. Len(s) : i < j => at[i] < at[j]
       /\ \A i \in 1 .. Len(s) : s[i] = l[at[i]]
  BY ONLY <1>2, <1>4, <1>5, <1>7 DEF Ordered, Reads
<1>11. Selection(s, l)
  BY ONLY <1>9, <1>10 DEF Selection
<1>12. k = 0 => s = <<>>
  <2>1. ASSUME k = 0 PROVE Len(s) = 0
    <3>1. ~(1 \in 1 .. Len(s))
      BY ONLY <1>8, <2>1
    <3> QED
      BY ONLY <1>5, <3>1
  <2>2. Len(s) = 0 => s = <<>>
    BY ONLY <1>5, EmptyList
  <2> QED
    BY ONLY <2>1, <2>2
<1> QED
  BY ONLY <1>3, <1>11, <1>12

\* and all of its beginning when no entry was lost.
LEMMA LoadedWhole ==
    ASSUME NEW n, AList(log[n]), NEW k \in 0 .. Len(log[n]), NEW ls, Whole(ls, k)
    PROVE  Loaded(n, ls) = SubSeq(log[n], 1, k)
<1>1. PICK chosen : chosen = {i \in DOMAIN ls : ls[i].text = "entry"}
  OBVIOUS
<1>2. AList(ls) /\ Len(ls) = k /\ \A i \in 1 .. k : ls[i].entry = i /\ ls[i].text = "entry"
  BY DEF Whole
<1>3. \A i \in 1 .. Len(ls) : i \in chosen
  BY ONLY <1>1, <1>2 DEF AList
<1>4. Part(ls, chosen) = ls
  BY ONLY <1>2, <1>3, PartAll
<1>5. PICK s, l : s = Loaded(n, ls) /\ l = log[n]
  OBVIOUS
<1>6. Reads(s, l, ls)
  BY <1>1, <1>2, <1>4, <1>5, LoadedIs
<1>7. PICK t : t = SubSeq(l, 1, k)
  OBVIOUS
<1>8. FirstOf(l, k, t)
  BY <1>5, <1>7, FirstIs
<1>9. AList(s) /\ AList(t) /\ Len(s) = Len(t) /\ \A i \in 1 .. Len(s) : s[i] = t[i]
  BY ONLY <1>2, <1>6, <1>8 DEF Reads, FirstOf
<1>10. s = t
  BY ONLY <1>9, SameList
<1> QED
  BY ONLY <1>5, <1>7, <1>10

\* A line is added, or the last one becomes longer.
LEMMA BytesOrdered ==
    ASSUME NEW k \in Nat, NEW ls, Ordered(ls, k), NEW text, NEW ended,
           NEW after, after = AppendBytes(ls, k + 1, text, ended)
    PROVE  Ordered(after, k + 1)
<1>1. PICK N \in Nat : N = Len(ls)
  BY DEF Ordered, AList
<1>2. /\ AList(ls) /\ \A i \in 1 .. N : ls[i].entry \in 1 .. k
      /\ \A i, j \in 1 .. N : i < j => ls[i].entry < ls[j].entry
  BY ONLY <1>1, Ordered(ls, k) DEF Ordered
<1>3. \A x \in 1 .. k : x \in 1 .. k + 1 /\ x < k + 1
  BY ONLY k \in Nat
<1>4. k + 1 \in 1 .. k + 1
  BY ONLY k \in Nat
<1>5. CASE ls = <<>> \/ Last(ls).ended
  <2>1. PICK l : l = Line(k + 1, text, ended)
    OBVIOUS
  <2>2. l.entry = k + 1
    BY ONLY <2>1 DEF Line
  <2>3. after = Append(ls, l)
    BY <1>5, <2>1 DEF AppendBytes
  <2>4. AList(after) /\ Len(after) = N + 1 /\ after[N + 1] = l
        /\ \A i \in 1 .. N : after[i] = ls[i]
    BY ONLY <1>1, <1>2, <2>3, ListAppend
  <2>5. \A i \in 1 .. N + 1 : i \in 1 .. N \/ i = N + 1
    BY ONLY N \in Nat
  <2>6. \A i \in 1 .. N + 1 : after[i].entry \in 1 .. k + 1
    BY ONLY <1>2, <1>3, <1>4, <2>2, <2>4, <2>5
  <2>7. ASSUME NEW i \in 1 .. N + 1, NEW j \in 1 .. N + 1, i < j
        PROVE  after[i].entry < after[j].entry
    <3>1. i \in 1 .. N
      BY ONLY N \in Nat, i \in 1 .. N + 1, j \in 1 .. N + 1, i < j
    <3>2. CASE j \in 1 .. N
      BY ONLY <1>2, <2>4, <2>7, <3>1, <3>2
    <3>3. CASE j = N + 1
      BY ONLY <1>2, <1>3, <2>2, <2>4, <3>1, <3>3
    <3> QED
      BY ONLY <2>5, <3>2, <3>3, j \in 1 .. N + 1
  <2> QED
    BY ONLY <2>4, <2>6, <2>7 DEF Ordered
<1>6. CASE ~(ls = <<>> \/ Last(ls).ended)
  <2>1. PICK t : t = IF "poison" \in {Last(ls).text, text} THEN "poison" ELSE "corrupt"
    OBVIOUS
  <2>2. PICK f, z, l : f = Front(ls) /\ z = Last(ls) /\ l = Line(Last(ls).entry, t, ended)
    OBVIOUS
  <2>3. l.entry = z.entry
    BY ONLY <2>2 DEF Line
  <2>4. after = Append(f, l)
    BY <1>6, <2>1, <2>2 DEF AppendBytes
  <2>5. /\ N \in Nat \ {0} /\ AList(f) /\ Len(f) = N - 1 /\ z = ls[N]
        /\ \A i \in 1 .. N - 1 : f[i] = ls[i]
    BY ONLY <1>1, <1>2, <1>6, <2>2, ListFront
  <2>6. AList(after) /\ Len(after) = N /\ after[N] = l /\ \A i \in 1 .. N - 1 : after[i] = ls[i]
    <3>1. /\ AList(after) /\ Len(after) = Len(f) + 1 /\ after[Len(f) + 1] = l
          /\ \A i \in 1 .. Len(f) : after[i] = f[i]
      BY ONLY <2>4, <2>5, ListAppend
    <3>2. N - 1 + 1 = N
      OBVIOUS
    <3> QED
      BY ONLY <2>5, <3>1, <3>2
  <2>7. \A i \in 1 .. N : after[i].entry = ls[i].entry
    <3>1. \A i \in 1 .. N : i \in 1 .. N - 1 \/ i = N
      BY ONLY N \in Nat
    <3> QED
      BY ONLY <2>3, <2>5, <2>6, <3>1
  <2> QED
    BY ONLY <1>2, <1>3, <2>6, <2>7 DEF Ordered
<1> QED
  BY <1>5, <1>6

LEMMA BytesWhole ==
    ASSUME NEW k \in Nat, NEW ls, Whole(ls, k),
           NEW after, after = AppendBytes(ls, k + 1, "entry", TRUE)
    PROVE  Whole(after, k + 1)
<1>1. PICK l : l = Line(k + 1, "entry", TRUE)
  OBVIOUS
<1>2. l.entry = k + 1 /\ l.text = "entry" /\ l.ended
  BY ONLY <1>1 DEF Line
<1>3. AList(ls) /\ Len(ls) = k
  BY DEF Whole
<1>4. after = Append(ls, l)
  <2>1. CASE ls = <<>>
    BY <1>1, <2>1 DEF AppendBytes
  <2>2. CASE ls # <<>>
    <3>1. Last(ls) = ls[k] /\ k \in Nat \ {0}
      BY ONLY <1>3, <2>2, ListFront
    <3>2. k \in 1 .. k
      BY ONLY <3>1
    <3>3. Last(ls).ended
      BY <3>1, <3>2 DEF Whole
    <3> QED
      BY <1>1, <3>3 DEF AppendBytes
  <2> QED
    BY <2>1, <2>2
<1>5. AList(after) /\ Len(after) = k + 1 /\ after[k + 1] = l /\ \A i \in 1 .. k : after[i] = ls[i]
  BY ONLY <1>3, <1>4, ListAppend
<1>6. \A i \in 1 .. k + 1 : i \in 1 .. k \/ i = k + 1
  BY ONLY k \in Nat
<1> QED
  BY ONLY <1>2, <1>5, <1>6, Whole(ls, k) DEF Whole
-----------------------------------------------------------------------------
(* The files and the keys of the followers *)

\* Only the writer logs; the lines of a file are in the order of the log, and
\* so is every copy on its way.
Turns(pd, wr) == wr \in Nat /\ (pd => wr \in 1 .. Len(Script))
Logs(l)       == OfLog(l[Writer]) /\ \A n \in Nodes \ {Writer} : l[n] = <<>>
Rows(ls, k)   == DOMAIN ls = Nodes /\ \A n \in Nodes : Ordered(ls[n], k[n])
Selects(rg, l) ==
    \A o \in Origins : rg[o].step = "syncing" => Selection(rg[o].copy, l[rg[o].at])

Files ==
    /\ DOMAIN mem = Nodes /\ Turns(pending, writes) /\ Logs(log) /\ Rows(lines, file)
    /\ Selects(reg, log)

\* As long as no entry was lost, the file of the writer is the beginning of its
\* log, every copy on its way is a beginning of the file, and the keys of a node
\* that got no event are those of a part that is no longer than any such copy.
Copies(rg, w, k) ==
    \A o \in Origins : rg[o].step = "syncing" =>
        rg[o].at = Writer /\ \E j \in 0 .. k : rg[o].copy = SubSeq(w, 1, j)
Behind(rg, i) == \A o \in Origins : rg[o].step = "syncing" => i <= Len(rg[o].copy)
Follows(m, rg, w, k) ==
    HasKeys(m) /\ \E i \in 0 .. k : m.kv = Replay(SubSeq(w, 1, i)).kv /\ Behind(rg, i)

Sound ==
    /\ Whole(lines[Writer], file[Writer]) /\ Copies(reg, log[Writer], file[Writer])
    /\ \A n \in Nodes \ ({Writer} \cup pushed) : Follows(mem[n], reg, log[Writer], file[Writer])

KInv == Files /\ (~damaged => Sound)

\* What every step keeps.
Kept == Files' /\ (Sound /\ ~damaged' => Sound')

\* No registration starts to send a copy.
Quieter(rg, g) ==
    \A o \in Origins : g[o].step = "syncing" => rg[o].step = "syncing" /\ g[o] = rg[o]

\* The log v has the first k entries of w, and l of them are in the file.
Extends(w, k, v, l) ==
    /\ AList(w) /\ AList(v) /\ k \in 0 .. Len(w) /\ l \in 0 .. Len(v) /\ k <= l
    /\ \A j \in 1 .. k : v[j] = w[j]

LEMMA ExtendsFirst ==
    ASSUME NEW w, NEW k, NEW v, NEW l, Extends(w, k, v, l), NEW i \in 0 .. k
    PROVE  i \in 0 .. l /\ SubSeq(v, 1, i) = SubSeq(w, 1, i)
<1>1. AList(w) /\ AList(v) /\ k \in 0 .. Len(w) /\ l \in 0 .. Len(v) /\ k <= l
      /\ \A j \in 1 .. k : v[j] = w[j]
  BY DEF Extends
<1>2. i \in 0 .. l /\ i \in 0 .. Len(w) /\ i \in 0 .. Len(v) /\ \A j \in 1 .. i : j \in 1 .. k
  BY ONLY <1>1, i \in 0 .. k DEF AList
<1>3. \A j \in 1 .. i : v[j] = w[j]
  BY ONLY <1>1, <1>2
<1> QED
  BY ONLY <1>1, <1>2, <1>3, FirstSame

LEMMA CopiesStay ==
    ASSUME NEW rg, NEW g, Quieter(rg, g), NEW w, NEW k, NEW v, NEW l, Extends(w, k, v, l),
           Copies(rg, w, k)
    PROVE  Copies(g, v, l)
<1> SUFFICES ASSUME NEW o \in Origins, g[o].step = "syncing"
             PROVE  g[o].at = Writer /\ \E j \in 0 .. l : g[o].copy = SubSeq(v, 1, j)
  BY DEF Copies
<1>1. rg[o].step = "syncing" /\ g[o] = rg[o]
  BY DEF Quieter
<1>2. PICK j \in 0 .. k : rg[o].copy = SubSeq(w, 1, j)
  BY <1>1 DEF Copies
<1>3. j \in 0 .. l /\ SubSeq(v, 1, j) = SubSeq(w, 1, j)
  BY ExtendsFirst
<1>4. rg[o].at = Writer
  BY <1>1 DEF Copies
<1> QED
  BY ONLY <1>1, <1>2, <1>3, <1>4

LEMMA FollowsStays ==
    ASSUME NEW rg, NEW g, Quieter(rg, g), NEW w, NEW k, NEW v, NEW l, Extends(w, k, v, l),
           NEW m, Follows(m, rg, w, k)
    PROVE  Follows(m, g, v, l)
<1>1. PICK i \in 0 .. k : m.kv = Replay(SubSeq(w, 1, i)).kv /\ Behind(rg, i)
  BY DEF Follows
<1>2. i \in 0 .. l /\ SubSeq(v, 1, i) = SubSeq(w, 1, i)
  BY ExtendsFirst
<1>3. Behind(g, i)
  BY ONLY <1>1, Quieter(rg, g) DEF Behind, Quieter
<1>4. HasKeys(m)
  BY DEF Follows
<1>5. m.kv = Replay(SubSeq(v, 1, i)).kv
  BY ONLY <1>1, <1>2, Zenon
<1> QED
  BY ONLY <1>2, <1>3, <1>4, <1>5 DEF Follows

LEMMA ReplayNothing == Replay(<<>>) = EmptyStore
<1>1. PICK e : e = <<>>
  OBVIOUS
<1>2. AList(e) /\ Len(e) = 0
  BY ONLY <1>1, EmptyList
<1>3. PICK g : Replays(e, g)
  BY ONLY <1>2, ReplayLoop
<1>4. Replay(e) = g[0] /\ g[0] = EmptyStore
  BY ONLY <1>2, <1>3 DEF Replays
<1> QED
  BY ONLY <1>1, <1>4

LEMMA EmptyFollows ==
    ASSUME NEW rg, NEW w, AList(w), NEW k \in 0 .. Len(w), Copies(rg, w, k)
    PROVE  Follows(EmptyStore, rg, w, k)
<1>1. k \in Nat /\ Len(w) \in Nat /\ 0 \in 0 .. k /\ 0 \in 0 .. Len(w)
  BY DEF AList
<1>2. SubSeq(w, 1, 0) = <<>>
  <2>1. FirstOf(w, 0, SubSeq(w, 1, 0))
    BY ONLY <1>1, AList(w), FirstIs
  <2> QED
    BY ONLY <2>1, EmptyList DEF FirstOf
<1>3. EmptyStore.kv = Replay(SubSeq(w, 1, 0)).kv
  BY ONLY <1>2, ReplayNothing
<1>4. Behind(rg, 0)
  <2> SUFFICES ASSUME NEW o \in Origins, rg[o].step = "syncing" PROVE 0 <= Len(rg[o].copy)
    BY DEF Behind
  <2>1. PICK j \in 0 .. k : rg[o].copy = SubSeq(w, 1, j)
    BY DEF Copies
  <2>2. j \in 0 .. Len(w)
    BY ONLY <1>1, k \in 0 .. Len(w), j \in 0 .. k
  <2>3. FirstOf(w, j, SubSeq(w, 1, j))
    BY ONLY <2>2, AList(w), FirstIs
  <2>4. Len(rg[o].copy) \in Nat
    BY ONLY <2>1, <2>3 DEF FirstOf, AList
  <2> QED
    BY ONLY <2>4
<1> QED
  BY ONLY <1>1, <1>3, <1>4, EmptyKeys DEF Follows

LEMMA WriterLog ==
    ASSUME IInv
    PROVE  /\ Writer \in Nodes /\ AList(log[Writer]) /\ file[Writer] \in 0 .. Len(log[Writer])
           /\ Extends(log[Writer], file[Writer], log[Writer], file[Writer])
<1>1. Writer \in Nodes
  BY ReplicationAssumption
<1>2. PICK w, k : w = log[Writer] /\ k = file[Writer]
  OBVIOUS
<1>3. AList(w) /\ k \in 0 .. Len(w)
  BY <1>1, <1>2 DEF IInv, Shapes, LogsOK
<1>4. k <= k
  BY ONLY <1>3 DEF AList
<1>5. Extends(w, k, w, k)
  BY ONLY <1>3, <1>4 DEF Extends
<1> QED
  BY ONLY <1>1, <1>2, <1>3, <1>5, Zenon
\* A step that starts no sync: the log keeps what the file has, and each node
\* keeps its keys, is emptied, or is sent an event.
LEMMA KeysMove ==
    ASSUME Files, Quieter(reg, reg'), Turns(pending', writes'), Logs(log'), DOMAIN mem' = Nodes,
           Rows(lines', file'), Selects(reg', log'),
           Extends(log[Writer], file[Writer], log'[Writer], file'[Writer]),
           Sound /\ ~damaged' =>
              /\ Whole(lines'[Writer], file'[Writer])
              /\ \A n \in Nodes \ ({Writer} \cup pushed') :
                    \/ n \notin pushed /\ mem'[n] = mem[n]
                    \/ mem'[n] = EmptyStore
                    \/ Follows(mem'[n], reg', log'[Writer], file'[Writer])
    PROVE  Kept
<1> SUFFICES ASSUME Sound, ~damaged' PROVE Sound'
  BY DEF Kept, Files
<1>1. PICK w, k, v, l : w = log[Writer] /\ k = file[Writer] /\ v = log'[Writer] /\ l = file'[Writer]
  OBVIOUS
<1>2. Extends(w, k, v, l) /\ Copies(reg, w, k)
  BY <1>1 DEF Sound
<1>3. Copies(reg', v, l)
  BY ONLY <1>2, Quieter(reg, reg'), CopiesStay
<1>4. AList(v) /\ l \in 0 .. Len(v)
  BY ONLY <1>2 DEF Extends
<1>5. ASSUME NEW n \in Nodes \ ({Writer} \cup pushed')
      PROVE  Follows(mem'[n], reg', v, l)
  <2>1. CASE n \notin pushed /\ mem'[n] = mem[n]
    <3>1. Follows(mem[n], reg, w, k)
      BY <1>1, <2>1 DEF Sound
    <3>2. Follows(mem[n], reg', v, l)
      BY ONLY <1>2, <3>1, Quieter(reg, reg'), FollowsStays
    <3> QED
      BY ONLY <2>1, <3>2, Zenon
  <2>2. CASE mem'[n] = EmptyStore
    <3>1. Follows(EmptyStore, reg', v, l)
      BY ONLY <1>3, <1>4, EmptyFollows
    <3> QED
      BY ONLY <2>2, <3>1, Zenon
  <2>3. CASE Follows(mem'[n], reg', log'[Writer], file'[Writer])
    BY ONLY <1>1, <2>3, Zenon
  <2> QED
    BY <2>1, <2>2, <2>3
<1> QED
  BY <1>1, <1>3, <1>5 DEF Sound

LEMMA RegQuiet ==
    ASSUME RegOK(reg), NEW o \in Origins, NEW r, r.step # "syncing", reg' = [reg EXCEPT ![o] = r]
    PROVE  Quieter(reg, reg')
<1>1. reg'[o] = r /\ \A p \in Origins \ {o} : reg'[p] = reg[p]
  BY DEF RegOK
<1> QED
  BY ONLY <1>1, r.step # "syncing" DEF Quieter

LEMMA RegStepQuiet ==
    ASSUME RegOK(reg), NEW o \in Origins, NEW s, s # "syncing", reg' = [reg EXCEPT ![o].step = s]
    PROVE  Quieter(reg, reg')
<1>1. PICK r : r = [reg[o] EXCEPT !.step = s]
  OBVIOUS
<1>2. IsReg(reg[o])
  BY DEF RegOK
<1>3. r.step = s
  BY ONLY <1>1, <1>2, RegField, Zenon
<1>4. reg' = [reg EXCEPT ![o] = r]
  BY <1>1
<1> QED
  BY <1>3, <1>4, RegQuiet

LEMMA AnswerQuiet ==
    ASSUME RegOK(reg), NEW o \in Origins, NEW ok, Answer(o, ok)
    PROVE  Quieter(reg, reg') /\ reg'[o].step # "syncing"
<1>1. PICK q, s : q = reg[o] /\ s = IF ok THEN "accepted" ELSE "refused"
  OBVIOUS
<1>2. PICK r : r = IF o \in Nodes THEN [q EXCEPT !.step = s] ELSE [NoReg EXCEPT !.step = "done"]
  OBVIOUS
<1>3. reg' = [reg EXCEPT ![o] = r]
  BY <1>1, <1>2 DEF Answer
<1>4. IsReg(q) /\ s # "syncing"
  BY <1>1 DEF RegOK
<1>5. [q EXCEPT !.step = s].step = s
  BY ONLY <1>4, RegField
<1>6. [NoReg EXCEPT !.step = "done"].step = "done"
  BY DEF NoReg
<1>7. r.step # "syncing"
  BY ONLY <1>2, <1>4, <1>5, <1>6
<1>8. reg'[o] = r
  BY <1>3 DEF RegOK
<1> QED
  BY <1>3, <1>7, <1>8, RegQuiet

LEMMA SameRegs == ASSUME reg' = reg PROVE Quieter(reg, reg')
  BY DEF Quieter

LEMMA SelectsStay ==
    ASSUME NEW rg, NEW g, Quieter(rg, g), NEW l, Selects(rg, l)
    PROVE  Selects(g, l)
  BY DEF Selects, Quieter

\* A log that grows keeps its selections.
LEMMA SelectionGrows ==
    ASSUME NEW s, NEW w, AList(w), NEW v, AList(v), Len(w) <= Len(v),
           \A i \in 1 .. Len(w) : v[i] = w[i], Selection(s, w)
    PROVE  Selection(s, v)
<1>1. PICK at \in [1 .. Len(s) -> 1 .. Len(w)] :
        /\ \A i, j \in 1 .. Len(s) : i < j => at[i] < at[j]
        /\ \A i \in 1 .. Len(s) : s[i] = w[at[i]]
  BY DEF Selection
<1>2. \A x \in 1 .. Len(w) : x \in 1 .. Len(v)
  BY DEF AList
<1>3. at \in [1 .. Len(s) -> 1 .. Len(v)]
  BY ONLY <1>2, at \in [1 .. Len(s) -> 1 .. Len(w)]
<1>4. \A i \in 1 .. Len(s) : s[i] = v[at[i]]
  BY ONLY <1>1, at \in [1 .. Len(s) -> 1 .. Len(w)], \A i \in 1 .. Len(w) : v[i] = w[i]
<1> QED
  BY ONLY <1>1, <1>3, <1>4 DEF Selection

\* A step that leaves the stores, the logs and the files alone.
LEMMA KeysIdle ==
    ASSUME IInv, Files, Quieter(reg, reg'), Turns(pending', writes'),
           mem' = mem, log' = log, file' = file, lines' = lines, pushed' = pushed
    PROVE  Kept
<1>1. Extends(log[Writer], file[Writer], log'[Writer], file'[Writer])
  BY WriterLog
<1>2. Logs(log') /\ DOMAIN mem' = Nodes /\ Rows(lines', file')
  BY DEF Files
<1>3. \A n \in Nodes \ ({Writer} \cup pushed') : n \notin pushed /\ mem'[n] = mem[n]
  OBVIOUS
<1>4. Selects(reg', log')
  BY SelectsStay DEF Files
<1>5. Sound => Whole(lines'[Writer], file'[Writer])
  BY DEF Sound
<1> QED
  BY <1>1, <1>2, <1>3, <1>4, <1>5, KeysMove

LEMMA TurnsStay ==
    ASSUME Files, pending' = pending, writes' = writes
    PROVE  Turns(pending', writes')
  BY DEF Files

\* What the worker leaves behind: the log up to the last entry it wrote, or
\* began to write.
LEMMA WorkerLeaves ==
    ASSUME IInv, Files, NEW n \in Nodes, WorkerEnds(n)
    PROVE  \E k \in file[n] .. Len(log[n]) :
              /\ log' = [log EXCEPT ![n] = SubSeq(log[n], 1, k)] /\ file' = [file EXCEPT ![n] = k]
              /\ Rows(lines', file') /\ (~damaged' => lines' = lines /\ file' = file)
<1>1. AList(log[n]) /\ file[n] \in 0 .. Len(log[n]) /\ file = [m \in Nodes |-> file[m]]
  BY DEF IInv, Shapes, LogsOK
<1>2. Rows(lines, file)
  BY DEF Files
<1>3. CASE log' = [log EXCEPT ![n] = SubSeq(log[n], 1, file[n])] /\ file' = file /\ lines' = lines
  <2>1. file' = [file EXCEPT ![n] = file[n]]
    BY <1>1, <1>3
  <2>2. file[n] \in file[n] .. Len(log[n])
    BY ONLY <1>1 DEF AList
  <2>3. Rows(lines', file')
    BY <1>2, <1>3
  <2> QED
    BY <1>3, <2>1, <2>2, <2>3
<1>4. CASE /\ file[n] < Len(log[n]) /\ log' = [log EXCEPT ![n] = SubSeq(log[n], 1, file[n] + 1)]
           /\ file' = [file EXCEPT ![n] = @ + 1] /\ damaged' = TRUE
           /\ \E cut \in Cuts : lines' = [lines EXCEPT ![n] = AppendBytes(@, file'[n], cut, FALSE)]
  <2>1. PICK k : k = file[n]
    OBVIOUS
  <2>2. k \in Nat /\ k + 1 \in k .. Len(log[n])
    BY ONLY <1>1, <1>4, <2>1 DEF AList
  <2>3. file' = [file EXCEPT ![n] = k + 1]
    BY <1>4, <2>1
  <2>4. file'[n] = k + 1 /\ \A m \in Nodes \ {n} : file'[m] = file[m]
    BY ONLY <1>1, <2>3, n \in Nodes
  <2>5. PICK cut, after : /\ after = AppendBytes(lines[n], k + 1, cut, FALSE)
                          /\ lines' = [lines EXCEPT ![n] = after]
    BY <1>4, <2>4
  <2>6. Ordered(lines[n], k) /\ DOMAIN lines = Nodes
    BY ONLY <1>2, <2>1, n \in Nodes DEF Rows
  <2>7. Ordered(after, k + 1)
    BY ONLY <2>2, <2>5, <2>6, BytesOrdered
  <2>8. /\ DOMAIN lines' = Nodes /\ lines'[n] = after
        /\ \A m \in Nodes \ {n} : lines'[m] = lines[m]
    BY ONLY <2>5, <2>6, n \in Nodes
  <2>9. Rows(lines', file')
    BY ONLY <1>2, <2>4, <2>7, <2>8, n \in Nodes DEF Rows
  <2> QED
    BY <1>4, <2>1, <2>2, <2>3, <2>9
<1> QED
  BY <1>3, <1>4 DEF WorkerEnds, Prefix

LEMMA EndKeys ==
    ASSUME IInv, Files, NEW n \in Nodes, NEW r, End(n, r), RegOK(r), Quieter(reg, r)
    PROVE  Kept
<1>1. /\ mem' = [mem EXCEPT ![n] = EmptyStore] /\ pushed' = pushed \ {n}
      /\ pending' = (pending /\ n # Writer) /\ writes' = writes /\ WorkerEnds(n)
  BY DEF End
<1>2. ASSUME NEW o \in Origins, reg'[o].step = "syncing"
      PROVE  reg'[o] = r[o] /\ r[o].at # n
  <2>1. ~Broken(n, r, o)
    BY <1>2, EndRegs
  <2>2. reg'[o] = r[o]
    BY <2>1, EndRegs
  <2> QED
    BY <1>2, <2>1, <2>2 DEF Broken
<1>3. Quieter(reg, reg')
  BY <1>2 DEF Quieter
<1>4. Turns(pending', writes')
  <2>1. Turns(pending, writes)
    BY DEF Files
  <2> QED
    BY ONLY <1>1, <2>1, Zenon DEF Turns
<1>5. PICK k \in file[n] .. Len(log[n]) :
         /\ log' = [log EXCEPT ![n] = SubSeq(log[n], 1, k)] /\ file' = [file EXCEPT ![n] = k]
         /\ Rows(lines', file') /\ (~damaged' => lines' = lines /\ file' = file)
  BY <1>1, WorkerLeaves
<1>6. PICK l, f, p : l = log[n] /\ f = file[n] /\ p = SubSeq(l, 1, k)
  OBVIOUS
<1>7. AList(l) /\ f \in 0 .. Len(l) /\ DOMAIN log = Nodes /\ DOMAIN file = Nodes
  BY <1>6 DEF IInv, Shapes, LogsOK
<1>8. k \in f .. Len(l)
  BY <1>6
<1>9. k \in 0 .. Len(l) /\ k \in Nat /\ f <= k
  BY ONLY <1>7, <1>8 DEF AList
<1>10. AList(p) /\ Len(p) = k /\ \A j \in 1 .. k : p[j] = l[j]
  BY ONLY <1>6, <1>7, <1>9, FirstIs DEF FirstOf
<1>11. log'[n] = p /\ \A m \in Nodes \ {n} : log'[m] = log[m]
  BY ONLY <1>5, <1>6, <1>7, n \in Nodes
<1>12. file'[n] = k /\ \A m \in Nodes \ {n} : file'[m] = file[m]
  BY ONLY <1>5, <1>7, n \in Nodes
<1>13. Writer \in Nodes /\ Logs(log)
  BY ReplicationAssumption DEF Files
<1>14. Logs(log') /\ Extends(log[Writer], file[Writer], log'[Writer], file'[Writer])
  <2>1. CASE n = Writer
    <3>1. OfLog(p)
      <4>1. OfLog(l)
        BY ONLY <1>6, <1>13, <2>1 DEF Logs
      <4> QED
        BY ONLY <1>6, <1>9, <4>1, FirstOfLog
    <3>2. Logs(log')
      BY ONLY <1>11, <1>13, <2>1, <3>1 DEF Logs
    <3>3. k \in 0 .. Len(p) /\ \A j \in 1 .. f : j \in 1 .. k
      BY ONLY <1>7, <1>9, <1>10 DEF AList
    <3>4. Extends(l, f, p, k)
      BY ONLY <1>7, <1>9, <1>10, <3>3 DEF Extends
    <3> QED
      BY ONLY <1>6, <1>11, <1>12, <2>1, <3>2, <3>4, Zenon
  <2>2. CASE n # Writer
    <3>1. l = <<>>
      BY ONLY <1>6, <1>13, <2>2, n \in Nodes DEF Logs
    <3>2. k = 0
      BY ONLY <1>9, <3>1, EmptyList
    <3>3. p = <<>>
      BY ONLY <1>10, <3>2, EmptyList
    <3>4. Logs(log')
      BY ONLY <1>11, <1>13, <2>2, <3>3, n \in Nodes DEF Logs
    <3>5. log'[Writer] = log[Writer] /\ file'[Writer] = file[Writer]
      BY ONLY <1>11, <1>12, <1>13, <2>2
    <3> QED
      BY <3>4, <3>5, WriterLog
  <2> QED
    BY <2>1, <2>2
<1>15. Selects(reg', log')
  <2> SUFFICES ASSUME NEW o \in Origins, reg'[o].step = "syncing"
               PROVE  Selection(reg'[o].copy, log'[reg'[o].at])
    BY DEF Selects
  <2>1. reg'[o] = r[o] /\ r[o].at # n /\ r[o].at \in Nodes
    BY <1>2 DEF RegOK
  <2>2. reg[o].step = "syncing" /\ reg'[o] = reg[o]
    BY <1>3 DEF Quieter
  <2>3. Selection(reg[o].copy, log[reg[o].at])
    BY <2>2 DEF Files, Selects
  <2>4. log'[reg'[o].at] = log[reg[o].at]
    BY ONLY <1>11, <2>1, <2>2
  <2> QED
    BY ONLY <2>2, <2>3, <2>4
<1>16. DOMAIN mem = Nodes
  BY DEF Files
<1>17. DOMAIN mem' = Nodes /\ mem'[n] = EmptyStore /\ \A m \in Nodes \ {n} : mem'[m] = mem[m]
  BY ONLY <1>1, <1>16, n \in Nodes
<1>18. \A m \in Nodes \ ({Writer} \cup pushed') :
          (m \notin pushed /\ mem'[m] = mem[m]) \/ mem'[m] = EmptyStore
  BY ONLY <1>1, <1>17
<1>19. Sound /\ ~damaged' => Whole(lines'[Writer], file'[Writer])
  BY <1>5 DEF Sound
<1> QED
  BY <1>3, <1>4, <1>5, <1>14, <1>15, <1>17, <1>18, <1>19, KeysMove

LEMMA BootKeys ==
    ASSUME IInv, Files, NEW n \in Nodes, Boot(n)
    PROVE  Kept
<1>1. /\ mem' = [mem EXCEPT ![n] = Replay(Loaded(n, lines[n]))] /\ log' = log /\ file' = file
      /\ lines' = lines /\ reg' = reg /\ pending' = pending /\ writes' = writes
      /\ pushed' = pushed
  BY DEF Boot, hist
<1>2. DOMAIN mem = Nodes /\ Logs(log) /\ Rows(lines, file) /\ Selects(reg, log)
  BY DEF Files
<1>3. PICK st : st = Replay(Loaded(n, lines[n]))
  OBVIOUS
<1>4. DOMAIN mem' = Nodes /\ mem'[n] = st /\ \A m \in Nodes \ {n} : mem'[m] = mem[m]
  BY ONLY <1>1, <1>2, <1>3, n \in Nodes
<1>5. ASSUME n # Writer PROVE st = EmptyStore
  <2>1. log[n] = <<>> /\ file[n] \in 0 .. Len(log[n]) /\ AList(log[n])
    BY <1>2, <1>5 DEF Logs, IInv, Shapes, LogsOK
  <2>2. file[n] = 0
    BY ONLY <2>1, EmptyList
  <2>3. Ordered(lines[n], file[n])
    BY <1>2 DEF Rows
  <2>4. Loaded(n, lines[n]) = <<>>
    BY ONLY <2>1, <2>2, <2>3, LoadedSelects
  <2> QED
    BY ONLY <1>3, <2>4, ReplayNothing
<1>6. \A m \in Nodes \ ({Writer} \cup pushed') :
         (m \notin pushed /\ mem'[m] = mem[m]) \/ mem'[m] = EmptyStore
  BY ONLY <1>1, <1>4, <1>5
<1>7. Extends(log[Writer], file[Writer], log'[Writer], file'[Writer])
  BY <1>1, WriterLog
<1>8. Quieter(reg, reg') /\ Turns(pending', writes')
  BY <1>1, SameRegs, TurnsStay
<1>9. Sound => Whole(lines'[Writer], file'[Writer])
  BY <1>1 DEF Sound
<1> QED
  BY <1>1, <1>2, <1>4, <1>6, <1>7, <1>8, <1>9, KeysMove

LEMMA MainKeys ==
    ASSUME IInv, Files, NEW n \in Nodes, BootStep(n)
    PROVE  Kept
<1>1. RegOK(reg) /\ n \in Origins
  BY DEF IInv, Shapes, Origins
<1>2. ASSUME End(n, reg) PROVE Kept
  <2>1. Quieter(reg, reg)
    BY DEF Quieter
  <2> QED
    BY <1>1, <1>2, <2>1, EndKeys
<1>3. CASE MainLocks(n) \/ LeaderMain(n)
  <2>1. /\ mem' = mem /\ log' = log /\ file' = file /\ lines' = lines /\ reg' = reg
        /\ pending' = pending /\ writes' = writes /\ pushed' = pushed
    BY <1>3 DEF MainLocks, LeaderMain, data, hist
  <2> QED
    BY <2>1, SameRegs, TurnsStay, KeysIdle
<1>4. CASE register_master(n)
  <2>1. CASE End(n, reg)
    BY <1>2, <2>1
  <2>2. CASE ~End(n, reg)
    <3>1. /\ mem' = mem /\ log' = log /\ file' = file /\ lines' = lines
          /\ pending' = pending /\ writes' = writes /\ pushed' = pushed
      BY <1>4, <2>2 DEF register_master, data, hist
    <3>2. PICK r : r = [step |-> "queued", at |-> Master[n], addr |-> n, copy |-> <<>>]
      OBVIOUS
    <3>3. reg' = [reg EXCEPT ![n] = r] /\ r.step # "syncing"
      BY <1>4, <2>2, <3>2 DEF register_master
    <3>4. Quieter(reg, reg')
      BY <1>1, <3>3, RegQuiet
    <3> QED
      BY <3>1, <3>4, TurnsStay, KeysIdle
  <2> QED
    BY <2>1, <2>2
<1>5. CASE MasterUnheard(n)
  BY <1>2, <1>5 DEF MasterUnheard
<1>6. CASE MasterAnswers(n)
  <2>1. PICK r : r = [reg EXCEPT ![n] = NoReg]
    OBVIOUS
  <2>2. NoReg.step = "none"
    BY DEF NoReg
  <2>3. reg[n].step \in {"accepted", "refused"}
    BY <1>6 DEF MasterAnswers
  <2>4. Quieter(reg, r)
    <3>1. r[n] = NoReg /\ \A p \in Origins \ {n} : r[p] = reg[p]
      BY <1>1, <2>1 DEF RegOK
    <3> QED
      BY ONLY <2>2, <3>1 DEF Quieter
  <2>5. CASE main[n] = "registering" /\ reg[n].step = "refused"
    <3>1. End(n, r)
      BY <1>6, <2>1, <2>5 DEF MasterAnswers
    <3>2. RegOK(r)
      BY <2>1, <2>3, RegForgets DEF Forgotten, RegsOK
    <3> QED
      BY <2>4, <3>1, <3>2, EndKeys
  <2>6. CASE ~(main[n] = "registering" /\ reg[n].step = "refused")
    <3>1. /\ mem' = mem /\ log' = log /\ file' = file /\ lines' = lines /\ reg' = r
          /\ pending' = pending /\ writes' = writes /\ pushed' = pushed
      BY <1>6, <2>1, <2>6 DEF MasterAnswers, data, hist
    <3>2. Quieter(reg, reg')
      BY <2>4, <3>1
    <3> QED
      BY <3>1, <3>2, TurnsStay, KeysIdle
  <2> QED
    BY <2>5, <2>6
<1> QED
  BY <1>3, <1>4, <1>5, <1>6 DEF BootStep

\* An event, or a frame that nobody waits for, arrives at f.
LEMMA PushedKeys ==
    ASSUME IInv, Files, NEW f, NEW x, mem' = [mem EXCEPT ![f] = x], pushed' = pushed \cup {f},
           log' = log, file' = file, lines' = lines, reg' = reg, pending' = pending,
           writes' = writes
    PROVE  Kept
<1>1. DOMAIN mem = Nodes /\ Logs(log) /\ Rows(lines, file) /\ Selects(reg, log)
  BY DEF Files
<1>2. DOMAIN mem' = Nodes /\ \A m \in Nodes \ {f} : mem'[m] = mem[m]
  BY ONLY <1>1, mem' = [mem EXCEPT ![f] = x]
<1>3. \A m \in Nodes \ ({Writer} \cup pushed') : m \notin pushed /\ mem'[m] = mem[m]
  BY ONLY <1>2, pushed' = pushed \cup {f}
<1>4. Extends(log[Writer], file[Writer], log'[Writer], file'[Writer])
  BY WriterLog
<1>5. Quieter(reg, reg') /\ Turns(pending', writes')
  BY SameRegs, TurnsStay
<1>6. Sound => Whole(lines'[Writer], file'[Writer])
  BY DEF Sound
<1> QED
  BY <1>1, <1>2, <1>3, <1>4, <1>5, <1>6, KeysMove

LEMMA StartKeys ==
    ASSUME IInv, Files, NEW n \in Nodes, StartStep(n)
    PROVE  Kept
<1>1. CASE StartLocks(n) \/ TakeEvent(n) \/ StartEnds(n)
  <2>1. /\ mem' = mem /\ log' = log /\ file' = file /\ lines' = lines /\ reg' = reg
        /\ pending' = pending /\ writes' = writes /\ pushed' = pushed
    BY <1>1 DEF StartLocks, TakeEvent, StartEnds, data, hist
  <2> QED
    BY <2>1, SameRegs, TurnsStay, KeysIdle
<1>2. CASE PushEvent(n)
  BY <1>2, PushedKeys DEF PushEvent
<1> QED
  BY <1>1, <1>2 DEF StartStep

LEMMA StrayKeys ==
    ASSUME IInv, Files, NEW fr, LandStray(fr)
    PROVE  Kept
  BY PushedKeys DEF LandStray

\* The heartbeats have nothing to do with it.
LEMMA BeatKeys ==
    ASSUME IInv, Files, NEW n \in Nodes,
           BeatStep(n) \/ CallLost(n) \/ \E m \in Nodes : AckBeat(m, n)
    PROVE  Kept
<1>1. /\ mem' = mem /\ log' = log /\ file' = file /\ lines' = lines /\ reg' = reg
      /\ pending' = pending /\ writes' = writes /\ pushed' = pushed
  BY DEF BeatStep, Tick, heartbeat_follower, BeatBreaks, CountMiss, AckBeat, CallLost, data, hist
<1> QED
  BY <1>1, SameRegs, TurnsStay, KeysIdle

LEMMA RegIdleKeys ==
    ASSUME IInv, Files, NEW o \in Origins,
           \/ register_follower(o) \/ RegisterBreaks(o) \/ ListFollower(o) \/ CopyFails(o)
           \/ SyncFails(o) \/ \E m \in Nodes : AckRegister(m, o)
    PROVE  Kept
<1>1. RegOK(reg)
  BY DEF IInv, Shapes
<1>2. /\ mem' = mem /\ log' = log /\ file' = file /\ lines' = lines
      /\ pending' = pending /\ writes' = writes /\ pushed' = pushed
  BY DEF register_follower, RegisterBreaks, ListFollower, CopyFails, SyncFails, AckRegister,
         data, hist
<1>3. \/ Answer(o, TRUE) \/ Answer(o, FALSE)
      \/ \E s \in {"beating", "listing"} : reg' = [reg EXCEPT ![o].step = s]
      \/ reg' = [reg EXCEPT ![o].step = "copying", ![o].copy = lines[reg[o].at]]
  BY DEF register_follower, RegisterBreaks, ListFollower, CopyFails, SyncFails, AckRegister
<1>4. Quieter(reg, reg')
  <2>1. CASE Answer(o, TRUE) \/ Answer(o, FALSE)
    BY <1>1, <2>1, AnswerQuiet
  <2>2. CASE \E s \in {"beating", "listing"} : reg' = [reg EXCEPT ![o].step = s]
    <3>1. PICK s \in {"beating", "listing"} : reg' = [reg EXCEPT ![o].step = s]
      BY <2>2
    <3>2. s # "syncing"
      OBVIOUS
    <3> QED
      BY <1>1, <3>1, <3>2, RegStepQuiet
  <2>3. CASE reg' = [reg EXCEPT ![o].step = "copying", ![o].copy = lines[reg[o].at]]
    <3>1. PICK c, s, g : c = lines[reg[o].at] /\ s = "copying" /\ g = reg'
      OBVIOUS
    <3>2. g = [reg EXCEPT ![o].step = s, ![o].copy = c]
      BY <2>3, <3>1
    <3>3. CopySet(reg, g, o, s, c)
      BY ONLY <1>1, <3>2, o \in Origins, RegCopies
    <3> QED
      BY ONLY <3>1, <3>3 DEF CopySet, RegIs, Quieter
  <2> QED
    BY <1>3, <2>1, <2>2, <2>3
<1> QED
  BY <1>2, <1>4, TurnsStay, KeysIdle

LEMMA AskKeys ==
    ASSUME IInv, Files, NEW o \in Registrars, AskRegister(o)
    PROVE  Kept
<1>1. RegOK(reg) /\ o \in Origins
  BY DEF IInv, Shapes, Origins
<1>2. /\ mem' = mem /\ log' = log /\ file' = file /\ lines' = lines
      /\ pending' = pending /\ writes' = writes /\ pushed' = pushed
  BY DEF AskRegister, data, hist
<1>3. PICK m, a \in Nodes : reg' = [reg EXCEPT ![o] = Asked(m, a)]
  BY DEF AskRegister, Asked
<1>4. Asked(m, a).step # "syncing"
  BY DEF Asked
<1>5. Quieter(reg, reg')
  BY <1>1, <1>3, <1>4, RegQuiet
<1> QED
  BY <1>2, <1>5, TurnsStay, KeysIdle

\* The copy is a selection from the log; if no entry was lost, it is the whole
\* file of the writer, which no node is ahead of.
LEMMA CopyKeys ==
    ASSUME IInv, Files, NEW o \in Origins, TakeCopy(o)
    PROVE  Kept
<1>1. RegOK(reg) /\ DOMAIN mem = Nodes /\ Logs(log) /\ Rows(lines, file) /\ Selects(reg, log)
  BY DEF IInv, Shapes, Files
<1>2. /\ mem' = mem /\ log' = log /\ file' = file /\ lines' = lines
      /\ pending' = pending /\ writes' = writes /\ pushed' = pushed
  BY DEF TakeCopy, data, hist
<1>3. PICK a, ls : a = reg[o].at /\ ls = lines[reg[o].at]
  OBVIOUS
<1>4. PICK torn, copy :
        /\ copy = Loaded(a, Part(ls, 1 .. Len(ls) \ torn))
        /\ IF copy = <<>> THEN Answer(o, TRUE)
           ELSE reg' = [reg EXCEPT ![o].step = "syncing", ![o].copy = copy]
        /\ damaged' = (damaged \/ torn # {})
  BY <1>3 DEF TakeCopy, get_aof_copy
<1>5. a \in Nodes
  BY <1>1, <1>3 DEF RegOK
<1>6. AList(log[a]) /\ file[a] \in 0 .. Len(log[a])
  BY <1>5 DEF IInv, Shapes, LogsOK
<1>7. Ordered(ls, file[a])
  BY <1>1, <1>3, <1>5 DEF Rows
<1>8. Selection(copy, log[a]) /\ (file[a] = 0 => copy = <<>>)
  <2>1. Ordered(Part(ls, 1 .. Len(ls) \ torn), file[a])
    BY <1>7, PartOrdered
  <2> QED
    BY <1>4, <1>6, <2>1, LoadedSelects
<1>9. Turns(pending', writes')
  BY <1>2, TurnsStay
<1>10. CASE copy = <<>>
  <2>1. Quieter(reg, reg')
    BY <1>1, <1>4, <1>10, AnswerQuiet
  <2> QED
    BY <1>2, <1>9, <2>1, KeysIdle
<1>11. CASE copy # <<>>
  <2>1. PICK g, s : g = reg' /\ s = "syncing"
    OBVIOUS
  <2>2. g = [reg EXCEPT ![o].step = s, ![o].copy = copy]
    BY <1>4, <1>11, <2>1
  <2>3. CopySet(reg, g, o, s, copy)
    BY ONLY <1>1, <2>2, o \in Origins, RegCopies
  <2>4. /\ reg'[o].step = "syncing" /\ reg'[o].at = a /\ reg'[o].copy = copy
        /\ \A p \in Origins \ {o} : reg'[p] = reg[p]
    BY ONLY <1>3, <2>1, <2>3, o \in Origins DEF CopySet, RegIs
  <2>5. Selects(reg', log)
    BY ONLY <1>1, <1>8, <2>4 DEF Selects
  <2>6. Files'
    BY <1>1, <1>2, <1>9, <2>5 DEF Files
  <2>7. ASSUME Sound, ~damaged' PROVE Sound'
    <3>1. a = Writer
      <4> SUFFICES ASSUME a # Writer PROVE FALSE
        OBVIOUS
      <4>1. log[a] = <<>>
        BY ONLY <1>1, <1>5, a # Writer DEF Logs
      <4>2. file[a] = 0
        BY ONLY <1>6, <4>1, EmptyList
      <4> QED
        BY ONLY <1>8, <1>11, <4>2
    <3>2. PICK w, k : w = log[Writer] /\ k = file[Writer]
      OBVIOUS
    <3>3. AList(w) /\ k \in 0 .. Len(w) /\ Whole(ls, k)
      BY <1>3, <2>7, <3>1, <3>2, WriterLog DEF Sound
    <3>4. torn = {}
      BY <1>4, <2>7
    <3>5. Part(ls, 1 .. Len(ls) \ torn) = ls
      <4>1. AList(ls) /\ \A i \in 1 .. Len(ls) : i \in 1 .. Len(ls) \ torn
        BY ONLY <3>3, <3>4 DEF Whole
      <4> QED
        BY ONLY <4>1, PartAll
    <3>6. copy = SubSeq(w, 1, k)
      <4>1. copy = Loaded(Writer, ls)
        BY ONLY <1>4, <3>1, <3>5
      <4>2. AList(log[Writer]) /\ k \in 0 .. Len(log[Writer])
        BY ONLY <3>2, <3>3
      <4>3. Loaded(Writer, ls) = SubSeq(log[Writer], 1, k)
        BY ONLY <3>3, <4>2, LoadedWhole
      <4> QED
        BY ONLY <3>2, <4>1, <4>3
    <3>7. Len(copy) = k /\ k \in Nat /\ k \in 0 .. k
      <4>1. FirstOf(w, k, copy)
        BY ONLY <3>3, <3>6, FirstIs
      <4> QED
        BY ONLY <3>3, <4>1 DEF FirstOf, AList
    <3>8. Copies(reg, w, k)
      BY <2>7, <3>2 DEF Sound
    <3>9. Copies(reg', w, k)
      <4> SUFFICES ASSUME NEW p \in Origins, reg'[p].step = "syncing"
                   PROVE  reg'[p].at = Writer /\ \E j \in 0 .. k : reg'[p].copy = SubSeq(w, 1, j)
        BY DEF Copies
      <4>1. CASE p = o
        BY ONLY <2>4, <3>1, <3>6, <3>7, <4>1
      <4>2. CASE p # o
        <5>1. reg'[p] = reg[p]
          BY ONLY <2>4, <4>2, p \in Origins
        <5> QED
          BY ONLY <3>8, <5>1, reg'[p].step = "syncing", p \in Origins DEF Copies
      <4> QED
        BY ONLY <4>1, <4>2
    <3>10. ASSUME NEW m, Follows(m, reg, w, k) PROVE Follows(m, reg', w, k)
      <4>1. PICK i \in 0 .. k : m.kv = Replay(SubSeq(w, 1, i)).kv /\ Behind(reg, i)
        BY <3>10 DEF Follows
      <4>2. i <= k
        BY ONLY <3>7, i \in 0 .. k
      <4>3. Behind(reg', i)
        BY ONLY <2>4, <3>7, <4>1, <4>2 DEF Behind
      <4>4. HasKeys(m)
        BY <3>10 DEF Follows
      <4> QED
        BY ONLY <4>1, <4>3, <4>4 DEF Follows
    <3>11. ASSUME NEW n \in Nodes \ ({Writer} \cup pushed) PROVE Follows(mem[n], reg', w, k)
      <4>1. Follows(mem[n], reg, w, k)
        BY <2>7, <3>2 DEF Sound
      <4> QED
        BY ONLY <3>10, <4>1
    <3> QED
      BY <1>2, <2>7, <3>2, <3>9, <3>11 DEF Sound
  <2> QED
    BY <2>6, <2>7 DEF Kept
<1> QED
  BY <1>10, <1>11

\* The copy that arrives is applied to keys that are a part of it, and it was
\* the only one on its way.
LEMMA SyncFollows ==
    ASSUME IInv, Files, Sound, NEW o \in Origins, sync_follower(o),
           reg[o].addr \notin {Writer} \cup pushed
    PROVE  Follows(apply_aof(mem[reg[o].addr], reg[o].copy), reg', log[Writer], file[Writer])
<1>1. RegOK(reg) /\ DOMAIN mem = Nodes /\ Logs(log)
  BY DEF IInv, Shapes, Files
<1>2. PICK f, copy, x : f = reg[o].addr /\ copy = reg[o].copy /\ x = apply_aof(mem[f], copy)
  OBVIOUS
<1>3. reg[o].step = "syncing" /\ Answer(o, TRUE)
  BY DEF sync_follower
<1>4. Quieter(reg, reg') /\ reg'[o].step # "syncing"
  BY <1>1, <1>3, AnswerQuiet
<1>5. f \in Nodes
  BY <1>1, <1>2 DEF RegOK
<1>7. PICK w, k : w = log[Writer] /\ k = file[Writer]
  OBVIOUS
<1>8. AList(w) /\ k \in 0 .. Len(w) /\ OfLog(w) /\ Copies(reg, w, k)
  BY <1>1, <1>7, WriterLog DEF Logs, Sound
<1>9. reg[o].at = Writer
  BY ONLY <1>3, <1>8, o \in Origins DEF Copies
<1>10. PICK j \in 0 .. k : copy = SubSeq(w, 1, j)
  BY ONLY <1>2, <1>3, <1>8, o \in Origins DEF Copies
<1>11. j \in 0 .. Len(w) /\ j \in Nat
  BY ONLY <1>8, j \in 0 .. k DEF AList
<1>12. OfLog(copy) /\ Len(copy) = j /\ FirstOf(w, j, copy)
  BY ONLY <1>8, <1>10, <1>11, FirstOfLog, FirstIs
<1>13. Follows(x, reg', w, k)
  <2>1. Follows(mem[f], reg, w, k)
    BY <1>2, <1>5, <1>7 DEF Sound
  <2>2. PICK m : m = mem[f]
    OBVIOUS
  <2>3. HasKeys(m)
    BY ONLY <2>1, <2>2 DEF Follows
  <2>4. PICK i \in 0 .. k : m.kv = Replay(SubSeq(w, 1, i)).kv /\ Behind(reg, i)
    BY ONLY <2>1, <2>2 DEF Follows
  <2>5. i <= j
    BY ONLY <1>2, <1>3, <1>12, <2>4, o \in Origins DEF Behind
  <2>6. i \in 0 .. j /\ i \in 0 .. Len(w) /\ \A s \in 1 .. i : s \in 1 .. j
    BY ONLY <1>8, <1>11, <2>5, i \in 0 .. k DEF AList
  <2>7. SubSeq(copy, 1, i) = SubSeq(w, 1, i)
    <3>1. AList(copy) /\ i \in 0 .. Len(copy) /\ \A s \in 1 .. i : copy[s] = w[s]
      BY ONLY <1>12, <2>6 DEF FirstOf
    <3> QED
      BY ONLY <1>8, <2>6, <3>1, FirstSame
  <2>8. m.kv = Replay(SubSeq(copy, 1, i)).kv /\ i \in 0 .. Len(copy)
    BY ONLY <1>12, <2>4, <2>6, <2>7, Zenon
  <2>9. HasKeys(apply_aof(m, copy)) /\ apply_aof(m, copy).kv = Replay(copy).kv
    BY ONLY <1>12, <2>3, <2>8, ApplyOver
  <2>10. HasKeys(x) /\ x.kv = Replay(SubSeq(w, 1, j)).kv
    BY ONLY <1>2, <1>10, <2>2, <2>9, Zenon
  <2>11. Behind(reg', j)
    <3> SUFFICES ASSUME NEW p \in Origins, reg'[p].step = "syncing" PROVE FALSE
      BY DEF Behind
    <3>1. reg[p].step = "syncing" /\ p # o
      BY ONLY <1>4, reg'[p].step = "syncing", p \in Origins DEF Quieter
    <3>2. reg[p].at = Writer
      BY ONLY <1>8, <3>1, p \in Origins DEF Copies
    <3>3. HoldsIn(ha, Writer, <<"register", p>>) /\ HoldsIn(ha, Writer, <<"register", o>>)
      BY <1>3, <1>9, <3>1, <3>2, ServesAlone DEF Serving
    <3>4. <<"register", p>> = <<"register", o>>
      BY ONLY <3>3 DEF HoldsIn
    <3> QED
      BY ONLY <3>1, <3>4
  <2> QED
    BY ONLY <2>10, <2>11, j \in 0 .. k DEF Follows
<1> QED
  BY ONLY <1>2, <1>7, <1>13, Zenon

LEMMA SyncKeys ==
    ASSUME IInv, Files, NEW o \in Origins, sync_follower(o)
    PROVE  Kept
<1>1. /\ RegOK(reg) /\ DOMAIN mem = Nodes /\ Logs(log) /\ Rows(lines, file)
      /\ Selects(reg, log)
  BY DEF IInv, Shapes, Files
<1>2. PICK f, x : f = reg[o].addr /\ x = apply_aof(mem[reg[o].addr], reg[o].copy)
  OBVIOUS
<1>3. /\ reg[o].step = "syncing" /\ Answer(o, TRUE) /\ mem' = [mem EXCEPT ![f] = x]
      /\ log' = log /\ file' = file /\ lines' = lines /\ pending' = pending /\ writes' = writes
      /\ pushed' = pushed
  BY <1>2 DEF sync_follower, hist
<1>4. Quieter(reg, reg')
  BY <1>1, <1>3, AnswerQuiet
<1>5. f \in Nodes
  BY <1>1, <1>2 DEF RegOK
<1>6. DOMAIN mem' = Nodes /\ mem'[f] = x /\ \A n \in Nodes \ {f} : mem'[n] = mem[n]
  BY ONLY <1>1, <1>3, <1>5
<1>7. ASSUME Sound, NEW n \in Nodes \ ({Writer} \cup pushed')
      PROVE  \/ n \notin pushed /\ mem'[n] = mem[n]
             \/ Follows(mem'[n], reg', log'[Writer], file'[Writer])
  <2>1. CASE n = f
    <3>1. Follows(x, reg', log[Writer], file[Writer])
      BY <1>2, <1>3, <1>7, <2>1, SyncFollows
    <3> QED
      BY ONLY <1>3, <1>6, <2>1, <3>1, Zenon
  <2>2. CASE n # f
    BY <1>3, <1>6, <2>2
  <2> QED
    BY <2>1, <2>2
<1>8. Extends(log[Writer], file[Writer], log'[Writer], file'[Writer])
  BY <1>3, WriterLog
<1>9. Turns(pending', writes') /\ Logs(log') /\ Rows(lines', file') /\ Selects(reg', log')
  BY <1>1, <1>3, <1>4, TurnsStay, SelectsStay
<1>10. Sound => Whole(lines'[Writer], file'[Writer])
  BY <1>3 DEF Sound
<1> QED
  BY <1>4, <1>6, <1>7, <1>8, <1>9, <1>10, KeysMove

LEMMA WriteKeys ==
    ASSUME IInv, Files, Write
    PROVE  Kept
<1>1. PICK c, w, k, v : /\ c = Script[writes] /\ w = log[Writer] /\ k = file[Writer]
                        /\ v = IF Exec(mem[Writer], c).ok /\ c.op \notin {"KvFlush", "ListLen"}
                               THEN Append(w, c) ELSE w
  OBVIOUS
<1>2. /\ pending /\ log' = [log EXCEPT ![Writer] = v] /\ file' = file /\ reg' = reg
      /\ lines' = lines /\ mem' = [mem EXCEPT ![Writer] = Exec(mem[Writer], c).store]
      /\ pending' = FALSE /\ writes' = writes /\ pushed' = pushed
  BY <1>1 DEF Write, hist
<1>3. DOMAIN mem = Nodes /\ Logs(log) /\ Turns(pending, writes) /\ DOMAIN log = Nodes
  BY DEF Files, IInv, Shapes, LogsOK
<1>4. Writer \in Nodes /\ AList(w) /\ k \in 0 .. Len(w) /\ OfLog(w)
  BY <1>1, <1>3, WriterLog DEF Logs
<1>5. c.op \in Ops
  <2>1. writes \in 1 .. Len(Script)
    BY ONLY <1>2, <1>3, Zenon DEF Turns
  <2>2. Script \in Seq(ToSet(Script)) /\ \A d \in ToSet(Script) : d.op \in Ops
    BY ReplicationAssumption
  <2>3. c \in ToSet(Script)
    <3>1. PICK T : T = ToSet(Script)
      OBVIOUS
    <3>2. Script \in Seq(T)
      BY ONLY <2>2, <3>1, Zenon
    <3>3. c \in T
      BY ONLY <1>1, <2>1, <3>2
    <3> QED
      BY ONLY <3>1, <3>3, Zenon
  <2> QED
    BY ONLY <2>2, <2>3, Zenon
<1>6. OfLog(v) /\ Extends(w, k, v, k)
  <2>1. k \in Nat /\ Len(w) \in Nat /\ k <= k /\ \A j \in 1 .. k : j \in 1 .. Len(w)
    BY ONLY <1>4 DEF AList
  <2>2. CASE v = w
    <3>1. Extends(w, k, w, k)
      BY ONLY <1>4, <2>1 DEF Extends
    <3> QED
      BY ONLY <1>4, <2>2, <3>1
  <2>3. CASE v # w
    <3>1. v = Append(w, c) /\ c.op \in Loggable
      BY <1>1, <1>5, <2>3 DEF Loggable
    <3>2. /\ AList(v) /\ Len(v) = Len(w) + 1 /\ v[Len(w) + 1] = c
          /\ \A i \in 1 .. Len(w) : v[i] = w[i]
      BY ONLY <1>4, <3>1, ListAppend
    <3>3. ASSUME NEW i \in 1 .. Len(v) PROVE v[i].op \in Loggable
      <4>1. i \in 1 .. Len(w) \/ i = Len(w) + 1
        BY ONLY <2>1, <3>2, i \in 1 .. Len(v)
      <4>2. CASE i \in 1 .. Len(w)
        BY ONLY <1>4, <3>2, <4>2 DEF OfLog
      <4>3. CASE i = Len(w) + 1
        BY ONLY <3>1, <3>2, <4>3
      <4> QED
        BY ONLY <4>1, <4>2, <4>3
    <3>4. k \in 0 .. Len(v)
      BY ONLY <1>4, <2>1, <3>2
    <3>5. OfLog(v)
      BY ONLY <3>2, <3>3 DEF OfLog
    <3>6. Extends(w, k, v, k)
      BY ONLY <1>4, <2>1, <3>2, <3>4 DEF Extends
    <3> QED
      BY ONLY <3>5, <3>6
  <2> QED
    BY ONLY <2>2, <2>3
<1>7. log'[Writer] = v /\ \A n \in Nodes \ {Writer} : log'[n] = log[n]
  BY ONLY <1>2, <1>3, <1>4
<1>8. Logs(log')
  BY ONLY <1>3, <1>6, <1>7 DEF Logs
<1>9. DOMAIN mem' = Nodes /\ \A n \in Nodes \ {Writer} : mem'[n] = mem[n]
  BY ONLY <1>2, <1>3, <1>4
<1>10. \A n \in Nodes \ ({Writer} \cup pushed') : n \notin pushed /\ mem'[n] = mem[n]
  BY ONLY <1>2, <1>9
<1>11. Extends(log[Writer], file[Writer], log'[Writer], file'[Writer])
  BY ONLY <1>1, <1>2, <1>6, <1>7, Zenon
<1>12. Turns(pending', writes')
  BY ONLY <1>2, <1>3, Zenon DEF Turns
<1>13. Quieter(reg, reg')
  BY <1>2, SameRegs
<1>14. Selects(reg', log')
  <2>1. Len(w) <= Len(v) /\ AList(v) /\ \A i \in 1 .. Len(w) : v[i] = w[i]
    <3>1. v = w \/ v = Append(w, c)
      BY <1>1
    <3>2. CASE v = w
      BY ONLY <1>4, <3>2 DEF AList
    <3>3. CASE v = Append(w, c)
      <4>1. AList(v) /\ Len(v) = Len(w) + 1 /\ \A i \in 1 .. Len(w) : v[i] = w[i]
        BY ONLY <1>4, <3>3, ListAppend
      <4> QED
        BY ONLY <1>4, <4>1 DEF AList
    <3> QED
      BY ONLY <3>1, <3>2, <3>3
  <2> SUFFICES ASSUME NEW o \in Origins, reg[o].step = "syncing"
               PROVE  Selection(reg[o].copy, log'[reg[o].at])
    BY <1>2 DEF Selects
  <2>2. Selection(reg[o].copy, log[reg[o].at]) /\ reg[o].at \in Nodes
    BY DEF Files, Selects, IInv, Shapes, RegOK
  <2>3. CASE reg[o].at = Writer
    <3>1. Selection(reg[o].copy, w)
      BY ONLY <1>1, <2>2, <2>3
    <3>2. Selection(reg[o].copy, v)
      BY ONLY <1>4, <2>1, <3>1, SelectionGrows
    <3> QED
      BY ONLY <1>7, <2>3, <3>2
  <2>4. CASE reg[o].at # Writer
    BY ONLY <1>7, <2>2, <2>4
  <2> QED
    BY ONLY <2>3, <2>4
<1>15. Rows(lines', file') /\ (Sound => Whole(lines'[Writer], file'[Writer]))
  BY <1>2 DEF Files, Sound
<1> QED
  BY <1>8, <1>9, <1>10, <1>11, <1>12, <1>13, <1>14, <1>15, KeysMove

LEMMA WorkerKeys ==
    ASSUME IInv, Files, NEW n \in Nodes, aof_worker(n)
    PROVE  Kept
<1>1. /\ mem' = mem /\ log' = log /\ reg' = reg /\ pushed' = pushed
      /\ pending' = pending /\ writes' = writes
      /\ file[n] < Len(log[n]) /\ file' = [file EXCEPT ![n] = @ + 1]
  BY DEF aof_worker
<1>2. /\ DOMAIN mem = Nodes /\ Logs(log) /\ DOMAIN file = Nodes /\ Rows(lines, file)
      /\ Selects(reg, log)
  BY DEF Files, IInv, Shapes, LogsOK
<1>3. PICK h, ls, after : h = file[n] /\ ls = lines[n] /\ after = lines'[n]
  OBVIOUS
<1>4. h \in Nat /\ Ordered(ls, h) /\ DOMAIN lines = Nodes
  BY <1>2, <1>3 DEF Rows, IInv, Shapes, LogsOK
<1>5. file'[n] = h + 1 /\ \A m \in Nodes \ {n} : file'[m] = file[m]
  BY ONLY <1>1, <1>2, <1>3, n \in Nodes
<1>6. \/ /\ lines' = lines /\ damaged' = TRUE
      \/ \E text : /\ lines' = [lines EXCEPT ![n] = AppendBytes(ls, h + 1, text, FALSE)]
                   /\ damaged' = TRUE
      \/ lines' = [lines EXCEPT ![n] = AppendBytes(ls, h + 1, "entry", TRUE)]
  BY <1>3, <1>5 DEF aof_worker
<1>7. DOMAIN lines' = Nodes /\ \A m \in Nodes \ {n} : lines'[m] = lines[m]
  BY <1>4, <1>6
<1>8. Ordered(after, h + 1) /\ (~damaged' => after = AppendBytes(ls, h + 1, "entry", TRUE))
  <2>1. CASE lines' = lines /\ damaged' = TRUE
    <3>1. after = ls
      BY <1>3, <2>1
    <3>2. \A x \in 1 .. h : x \in 1 .. h + 1
      BY ONLY <1>4
    <3>3. Ordered(ls, h + 1)
      BY ONLY <1>4, <3>2 DEF Ordered
    <3> QED
      BY ONLY <2>1, <3>1, <3>3
  <2>2. ASSUME NEW text, lines' = [lines EXCEPT ![n] = AppendBytes(ls, h + 1, text, FALSE)],
               damaged' = TRUE
        PROVE  Ordered(after, h + 1)
    <3>1. after = AppendBytes(ls, h + 1, text, FALSE)
      BY <1>3, <1>4, <2>2
    <3> QED
      BY ONLY <1>4, <3>1, BytesOrdered
  <2>3. CASE lines' = [lines EXCEPT ![n] = AppendBytes(ls, h + 1, "entry", TRUE)]
    <3>1. after = AppendBytes(ls, h + 1, "entry", TRUE)
      BY <1>3, <1>4, <2>3
    <3>2. Ordered(after, h + 1)
      BY ONLY <1>4, <3>1, BytesOrdered
    <3> QED
      BY ONLY <3>1, <3>2
  <2> QED
    BY <1>6, <2>1, <2>2, <2>3
<1>9. Rows(lines', file')
  BY ONLY <1>2, <1>3, <1>5, <1>7, <1>8, n \in Nodes DEF Rows
<1>10. PICK w, k, l : w = log[Writer] /\ k = file[Writer] /\ l = file'[Writer]
  OBVIOUS
<1>11. Writer \in Nodes /\ AList(w) /\ k \in 0 .. Len(w) /\ (n = Writer => k < Len(w))
  BY <1>1, <1>10, WriterLog
<1>12. l = IF n = Writer THEN k + 1 ELSE k
  BY ONLY <1>3, <1>5, <1>10, <1>11, n \in Nodes
<1>13. l \in 0 .. Len(w) /\ k <= l
  BY ONLY <1>11, <1>12 DEF AList
<1>14. Extends(w, k, w, l)
  BY ONLY <1>11, <1>13 DEF Extends
<1>15. Extends(log[Writer], file[Writer], log'[Writer], file'[Writer])
  BY <1>1, <1>10, <1>14
<1>16. ASSUME Sound, ~damaged' PROVE Whole(lines'[Writer], file'[Writer])
  <2>1. Whole(lines[Writer], k)
    BY <1>10, <1>16 DEF Sound
  <2>2. CASE n = Writer
    <3>1. Whole(ls, h)
      BY ONLY <1>3, <1>10, <2>1, <2>2
    <3>2. after = AppendBytes(ls, h + 1, "entry", TRUE)
      BY <1>8, <1>16
    <3>3. Whole(after, h + 1)
      BY ONLY <1>4, <3>1, <3>2, BytesWhole
    <3> QED
      BY ONLY <1>3, <1>5, <2>2, <3>3
  <2>3. CASE n # Writer
    <3>1. lines'[Writer] = lines[Writer] /\ file'[Writer] = k
      BY ONLY <1>5, <1>7, <1>10, <1>11, <2>3
    <3> QED
      BY ONLY <2>1, <3>1
  <2> QED
    BY <2>2, <2>3
<1>17. \A m \in Nodes \ ({Writer} \cup pushed') : m \notin pushed /\ mem'[m] = mem[m]
  BY <1>1
<1>18. Quieter(reg, reg') /\ Turns(pending', writes')
  BY <1>1, SameRegs, TurnsStay
<1> QED
  BY <1>1, <1>2, <1>9, <1>15, <1>16, <1>17, <1>18, KeysMove

LEMMA AskWriteKeys ==
    ASSUME IInv, Files, AskWrite \/ UNCHANGED vars
    PROVE  Kept
<1>1. mem' = mem /\ log' = log /\ file' = file /\ lines' = lines /\ reg' = reg /\ pushed' = pushed
  BY DEF AskWrite, vars, data, hist
<1>2. Turns(pending, writes)
  BY DEF Files
<1>3. CASE AskWrite
  <2>1. writes < Len(Script) /\ writes' = writes + 1
    BY <1>3 DEF AskWrite
  <2>2. PICK N : N = Len(Script)
    OBVIOUS
  <2>3. N \in Nat
    <3>1. PICK T : T = ToSet(Script)
      OBVIOUS
    <3>2. Script \in Seq(T)
      BY <3>1, ReplicationAssumption
    <3> QED
      BY ONLY <2>2, <3>2
  <2>4. writes \in Nat
    BY ONLY <1>2, Zenon DEF Turns
  <2>5. writes' \in Nat /\ writes' \in 1 .. N
    BY ONLY <2>1, <2>2, <2>3, <2>4
  <2>6. Turns(pending', writes')
    BY ONLY <2>2, <2>5, Zenon DEF Turns
  <2> QED
    BY <1>1, <2>6, SameRegs, KeysIdle
<1>4. CASE UNCHANGED vars
  <2>1. pending' = pending /\ writes' = writes
    BY <1>4 DEF vars, hist
  <2> QED
    BY <1>1, <2>1, SameRegs, TurnsStay, KeysIdle
<1> QED
  BY <1>3, <1>4

LEMMA InitKInv == Init => KInv
<1> SUFFICES ASSUME Init PROVE Files /\ Sound
  BY DEF KInv
<1>1. /\ mem = [n \in Nodes |-> EmptyStore] /\ log = [n \in Nodes |-> <<>>]
      /\ file = [n \in Nodes |-> 0] /\ reg = [o \in Origins |-> NoReg]
      /\ lines = [n \in Nodes |-> <<>>] /\ ~pending /\ writes = 0
  BY DEF Init
<1>2. Writer \in Nodes
  BY ReplicationAssumption
<1>3. PICK e : e = <<>>
  OBVIOUS
<1>4. AList(e) /\ Len(e) = 0 /\ 0 \in 0 .. Len(e)
  BY ONLY <1>3, EmptyList
<1>5. OfLog(e) /\ Ordered(e, 0) /\ Whole(e, 0)
  BY ONLY <1>4 DEF OfLog, Ordered, Whole
<1>6. /\ log[Writer] = e /\ file[Writer] = 0 /\ lines[Writer] = e
      /\ DOMAIN mem = Nodes /\ DOMAIN lines = Nodes
      /\ \A n \in Nodes : log[n] = <<>> /\ mem[n] = EmptyStore /\ lines[n] = e /\ file[n] = 0
  BY ONLY <1>1, <1>2, <1>3
<1>7. Logs(log) /\ Rows(lines, file)
  BY ONLY <1>5, <1>6 DEF Logs, Rows
<1>8. Copies(reg, e, 0) /\ Selects(reg, log)
  <2>1. NoReg.step = "none"
    BY DEF NoReg
  <2> QED
    BY ONLY <1>1, <2>1 DEF Copies, Selects
<1>9. Follows(EmptyStore, reg, e, 0)
  BY ONLY <1>4, <1>8, EmptyFollows
<1>10. Turns(pending, writes)
  BY ONLY <1>1, Zenon DEF Turns
<1>11. Files
  BY <1>6, <1>7, <1>8, <1>10 DEF Files
<1>12. Sound
  BY <1>5, <1>6, <1>8, <1>9 DEF Sound
<1> QED
  BY <1>11, <1>12

LEMMA NextKept ==
    ASSUME IInv, Files, [Next]_vars
    PROVE  Kept
<1>1. ASSUME NEW n \in Nodes,
             \/ Boot(n) \/ BootStep(n) \/ StartStep(n) \/ BeatStep(n)
             \/ Crash(n) \/ aof_worker(n) \/ CallLost(n)
      PROVE  Kept
  <2>1. CASE Crash(n)
    <3>1. End(n, reg) /\ RegOK(reg) /\ Quieter(reg, reg)
      BY <2>1 DEF Crash, IInv, Shapes, Quieter
    <3> QED
      BY <3>1, EndKeys
  <2> QED
    BY <1>1, <2>1, BootKeys, MainKeys, StartKeys, BeatKeys, WorkerKeys
<1>2. ASSUME NEW o \in Registrars, AskRegister(o) PROVE Kept
  BY <1>2, AskKeys
<1>3. ASSUME NEW o \in Origins, RegStep(o) PROVE Kept
  BY <1>3, RegIdleKeys, CopyKeys, SyncKeys DEF RegStep
<1>4. ASSUME NEW m \in Nodes, AckStep(m) PROVE Kept
  BY <1>4, BeatKeys, RegIdleKeys DEF AckStep
<1>5. ASSUME NEW fr \in stray, LandStray(fr) PROVE Kept
  BY <1>5, StrayKeys
<1>6. CASE AskWrite \/ UNCHANGED vars
  BY <1>6, AskWriteKeys
<1>7. CASE Write
  BY <1>7, WriteKeys
<1> QED
  BY <1>1, <1>2, <1>3, <1>4, <1>5, <1>6, <1>7 DEF Next

\* What was lost stays lost.
LEMMA DamageStays ==
    ASSUME [Next]_vars, damaged
    PROVE  damaged'
<1>1. ASSUME NEW n \in Nodes, NEW r, End(n, r) PROVE damaged'
  BY <1>1 DEF End, WorkerEnds
<1>2. ASSUME NEW n \in Nodes, BootStep(n) \/ Crash(n) PROVE damaged'
  <2>1. (\E r : End(n, r)) \/ damaged' = damaged
    BY <1>2 DEF BootStep, MainLocks, LeaderMain, register_master, MasterUnheard, MasterAnswers,
                Crash, hist
  <2> QED
    BY <1>1, <2>1
<1>3. ASSUME NEW n \in Nodes, \/ Boot(n) \/ StartStep(n) \/ BeatStep(n)
                              \/ aof_worker(n) \/ CallLost(n)
      PROVE  damaged'
  BY <1>3 DEF Boot, StartStep, StartLocks, TakeEvent, PushEvent, StartEnds, BeatStep, Tick,
              heartbeat_follower, BeatBreaks, CountMiss, aof_worker, CallLost, hist
<1>4. ASSUME NEW o \in Origins, RegStep(o) PROVE damaged'
  BY <1>4 DEF RegStep, register_follower, RegisterBreaks, ListFollower, TakeCopy, CopyFails,
              sync_follower, SyncFails, hist
<1>5. ASSUME \/ \E o \in Registrars : AskRegister(o)
             \/ \E m \in Nodes : AckStep(m)
             \/ \E fr \in stray : LandStray(fr)
             \/ AskWrite \/ Write \/ UNCHANGED vars
      PROVE  damaged'
  BY <1>5 DEF AskRegister, AckStep, AckBeat, AckRegister, LandStray, AskWrite, Write, hist, vars
<1> QED
  BY <1>2, <1>3, <1>4, <1>5 DEF Next

LEMMA NextKInv == IInv /\ KInv /\ [Next]_vars => KInv'
<1> SUFFICES ASSUME IInv, KInv, [Next]_vars PROVE KInv'
  OBVIOUS
<1>1. Kept
  BY NextKept DEF KInv
<1>2. ~damaged' => ~damaged
  BY DamageStays
<1> QED
  BY <1>1, <1>2 DEF KInv, Kept

\* What a leader copies to a follower is a selection from its log, whatever
\* crashes, whichever connections fail and whatever the worker loses: the lines
\* of a file have places in the log that increase, and no load changes their
\* order.  And until an entry is lost, a node that clients do not write to and
\* that was sent no event has the keys of a prefix of the writer's log:
\* get_aof_copy then gives the whole file, a registration keeps the lock of the
\* HaManager until its copy has arrived, and apply_aof over the keys of a part
\* of the copy makes them those of the copy.
THEOREM PrefixesFollow == Spec => []FollowersHoldAPrefix
<1>1. Init => IInv /\ KInv
  BY InitIInv, InitKInv
<1>2. IInv /\ KInv /\ [Next]_vars => (IInv /\ KInv)'
  BY NextIInv, NextKInv
<1>3. IInv /\ KInv => FollowersHoldAPrefix
  <2> SUFFICES ASSUME IInv, KInv PROVE FollowersHoldAPrefix
    OBVIOUS
  <2>1. \A o \in Origins : reg[o].step = "syncing" => Selection(reg[o].copy, log[reg[o].at])
    BY DEF KInv, Files, Selects
  <2>2. ASSUME ~damaged, NEW f \in Nodes \ ({Writer} \cup pushed)
        PROVE  \E i \in 0 .. Len(log[Writer]) : mem[f].kv = Replay(Prefix(Writer, i)).kv
    <3>1. PICK w, k : w = log[Writer] /\ k = file[Writer]
      OBVIOUS
    <3>2. AList(w) /\ k \in 0 .. Len(w)
      BY <3>1, WriterLog
    <3>3. PICK i \in 0 .. k : mem[f].kv = Replay(SubSeq(w, 1, i)).kv
      BY <2>2, <3>1 DEF KInv, Sound, Follows
    <3>4. i \in 0 .. Len(w)
      BY ONLY <3>2, i \in 0 .. k DEF AList
    <3> QED
      BY <3>1, <3>3, <3>4 DEF Prefix
  <2> QED
    BY <2>1, <2>2 DEF FollowersHoldAPrefix
<1> QED
  BY <1>1, <1>2, <1>3, PTL DEF Spec
=============================================================================
