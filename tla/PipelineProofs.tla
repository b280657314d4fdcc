--------------------------- MODULE PipelineProofs ---------------------------
(***************************************************************************)
(* Proofs about Pipeline, for every number of pipelines, every set of      *)
(* programs and every size of the channel.                                 *)
(***************************************************************************)
EXTENDS Pipeline, ProofLemmas, FiniteSetTheorems, SequenceTheorems, TLAPS

\* Ids are handed out in order, so start() never reuses a live one.
IdsFresh == \A j \in Jobs : j >= next_id => stage[j] = "none"

\* The database's write lock has one owner.
OneRunning == \A j, k \in Jobs : stage[j] = "running" /\ stage[k] = "running" => j = k

IInv == /\ TypeOK
        /\ JobsAtOnePlace
        /\ LocksExclude
        /\ IdsFresh
        /\ OneRunning
-----------------------------------------------------------------------------
(* Sequences that list a set *)

LEMMA ListsAppend ==
    ASSUME NEW T, NEW s \in Seq(T), NEW S, Lists(s, S), NEW j \in T, j \notin S
    PROVE  /\ Append(s, j) \in Seq(T)
           /\ Lists(Append(s, j), S \cup {j})
<1> DEFINE t == Append(s, j)
<1>1. /\ t \in Seq(T) /\ Len(t) = Len(s) + 1
      /\ t[Len(s) + 1] = j
      /\ \A i \in 1 .. Len(s) : t[i] = s[i]
  OBVIOUS
<1>2. DOMAIN t = 1 .. Len(s) + 1 /\ DOMAIN s = 1 .. Len(s) /\ Len(s) \in Nat
  BY <1>1
<1>3. \A i \in DOMAIN s : s[i] # j
  BY DEF Lists
<1>4. \A i, k \in DOMAIN t : t[i] = t[k] => i = k
  BY <1>1, <1>2, <1>3 DEF Lists
<1>5. S \cup {j} = {t[i] : i \in DOMAIN t}
  BY <1>1, <1>2 DEF Lists
<1> QED
  BY <1>1, <1>4, <1>5 DEF Lists

LEMMA ListsTail ==
    ASSUME NEW T, NEW s \in Seq(T), NEW S, Lists(s, S), s # <<>>
    PROVE  /\ Tail(s) \in Seq(T)
           /\ Head(s) \in S /\ Head(s) \in T
           /\ Lists(Tail(s), S \ {Head(s)})
<1> DEFINE t == Tail(s)
<1>1. /\ t \in Seq(T) /\ Len(t) = Len(s) - 1
      /\ Len(s) \in Nat /\ Len(s) >= 1
      /\ \A i \in 1 .. Len(t) : t[i] = s[i + 1]
      /\ Head(s) = s[1]
  OBVIOUS
<1>2. DOMAIN t = 1 .. Len(s) - 1 /\ DOMAIN s = 1 .. Len(s)
  BY <1>1
<1>3. Head(s) \in S /\ Head(s) \in T
  BY <1>1, <1>2 DEF Lists
<1>4. \A i, k \in DOMAIN t : t[i] = t[k] => i = k
  <2> SUFFICES ASSUME NEW i \in DOMAIN t, NEW k \in DOMAIN t, t[i] = t[k]
               PROVE  i = k
    OBVIOUS
  <2>1. i + 1 \in DOMAIN s /\ k + 1 \in DOMAIN s /\ s[i + 1] = s[k + 1]
    BY <1>1, <1>2
  <2> QED
    BY <2>1, <1>2 DEF Lists
<1>5. S \ {Head(s)} = {t[i] : i \in DOMAIN t}
  <2>1. ASSUME NEW i \in DOMAIN t PROVE t[i] \in S \ {Head(s)}
    <3>1. i + 1 \in DOMAIN s /\ 1 \in DOMAIN s /\ i + 1 # 1 /\ t[i] = s[i + 1]
      BY <1>1, <1>2
    <3> QED
      BY <3>1, <1>1 DEF Lists
  <2>2. ASSUME NEW x \in S \ {Head(s)} PROVE \E i \in DOMAIN t : t[i] = x
    <3>1. PICK k \in DOMAIN s : s[k] = x
      BY DEF Lists
    <3>2. k # 1 /\ k - 1 \in DOMAIN t /\ t[k - 1] = s[k]
      BY <3>1, <1>1, <1>2
    <3> QED
      BY <3>1, <3>2
  <2> QED
    BY <2>1, <2>2
<1> QED
  BY <1>1, <1>3, <1>4, <1>5 DEF Lists

LEMMA InsertAtFacts ==
    ASSUME NEW T, NEW s \in Seq(T), NEW j \in T, NEW p \in 1 .. Len(s) + 1
    PROVE  /\ InsertAt(s, p, j) \in Seq(T)
           /\ DOMAIN InsertAt(s, p, j) = 1 .. Len(s) + 1
           /\ \A i \in 1 .. Len(s) + 1 :
                InsertAt(s, p, j)[i] = IF i < p THEN s[i] ELSE IF i = p THEN j ELSE s[i - 1]
<1> DEFINE a == SubSeq(s, 1, p - 1)
           b == SubSeq(s, p, Len(s))
           ab == a \o <<j>>
           t == ab \o b
<1>0. Len(s) \in Nat /\ p \in Nat /\ p >= 1 /\ p <= Len(s) + 1
  OBVIOUS
<1>1. a \in Seq(T) /\ Len(a) = p - 1 /\ \A i \in 1 .. p - 1 : a[i] = s[i]
  BY <1>0
<1>2. b \in Seq(T) /\ Len(b) = Len(s) - p + 1 /\ \A i \in 1 .. Len(b) : b[i] = s[p + i - 1]
  BY <1>0
<1>3. ab \in Seq(T) /\ Len(ab) = p /\ (\A i \in 1 .. p - 1 : ab[i] = s[i]) /\ ab[p] = j
  BY <1>0, <1>1
<1> HIDE DEF ab, b
<1>4. t \in Seq(T) /\ Len(t) = Len(s) + 1
  BY <1>0, <1>2, <1>3, ConcatProperties
<1>5. /\ \A i \in 1 .. p : t[i] = ab[i]
      /\ \A i \in p + 1 .. Len(s) + 1 : t[i] = b[i - p]
  BY <1>0, <1>2, <1>3, ConcatProperties
<1>6. \A i \in p + 1 .. Len(s) + 1 : i - p \in 1 .. Len(b) /\ b[i - p] = s[i - 1]
  BY <1>0, <1>2
<1>7. InsertAt(s, p, j) = t
  BY DEF InsertAt, ab, b
<1> HIDE DEF t
<1>8. ASSUME NEW i \in 1 .. Len(s) + 1
      PROVE  t[i] = IF i < p THEN s[i] ELSE IF i = p THEN j ELSE s[i - 1]
  BY <1>0, <1>3, <1>5, <1>6
<1>9. DOMAIN t = 1 .. Len(s) + 1
  BY <1>4
<1> QED
  BY <1>4, <1>7, <1>8, <1>9

LEMMA RemoveAtFacts ==
    ASSUME NEW T, NEW s \in Seq(T), NEW p \in DOMAIN s
    PROVE  /\ RemoveAt(s, p) \in Seq(T)
           /\ DOMAIN RemoveAt(s, p) = 1 .. Len(s) - 1
           /\ \A i \in 1 .. Len(s) - 1 :
                RemoveAt(s, p)[i] = IF i < p THEN s[i] ELSE s[i + 1]
<1> DEFINE a == SubSeq(s, 1, p - 1)
           b == SubSeq(s, p + 1, Len(s))
           t == a \o b
<1>0. Len(s) \in Nat /\ p \in Nat /\ p >= 1 /\ p <= Len(s)
  OBVIOUS
<1>1. a \in Seq(T) /\ Len(a) = p - 1 /\ \A i \in 1 .. p - 1 : a[i] = s[i]
  BY <1>0
<1>2. b \in Seq(T) /\ Len(b) = Len(s) - p /\ \A i \in 1 .. Len(b) : b[i] = s[p + i]
  BY <1>0
<1> HIDE DEF a, b
<1>3. t \in Seq(T) /\ Len(t) = Len(s) - 1
  BY <1>0, <1>1, <1>2, ConcatProperties
<1>4. /\ \A i \in 1 .. p - 1 : t[i] = a[i]
      /\ \A i \in p .. Len(s) - 1 : t[i] = b[i - (p - 1)]
  BY <1>0, <1>1, <1>2, ConcatProperties
<1>5. \A i \in p .. Len(s) - 1 : i - (p - 1) \in 1 .. Len(b) /\ b[i - (p - 1)] = s[i + 1]
  BY <1>0, <1>2
<1>6. RemoveAt(s, p) = t
  BY DEF RemoveAt, a, b
<1> HIDE DEF t
<1>7. ASSUME NEW i \in 1 .. Len(s) - 1
      PROVE  t[i] = IF i < p THEN s[i] ELSE s[i + 1]
  <2>1. CASE i < p
    <3>1. i \in 1 .. p - 1
      BY <2>1, <1>0
    <3> QED
      BY <2>1, <3>1, <1>1, <1>4
  <2>2. CASE ~(i < p)
    <3>1. i \in p .. Len(s) - 1
      BY <2>2, <1>0
    <3> QED
      BY <2>2, <3>1, <1>4, <1>5
  <2> QED
    BY <2>1, <2>2
<1>8. DOMAIN t = 1 .. Len(s) - 1
  BY <1>3
<1> QED
  BY <1>3, <1>6, <1>7, <1>8

LEMMA ListsInsert ==
    ASSUME NEW T, NEW s \in Seq(T), NEW S, Lists(s, S), NEW j \in T, j \notin S,
           NEW p \in 1 .. Len(s) + 1
    PROVE  /\ InsertAt(s, p, j) \in Seq(T)
           /\ Lists(InsertAt(s, p, j), S \cup {j})
<1> DEFINE t == InsertAt(s, p, j)
<1>1. /\ t \in Seq(T) /\ DOMAIN t = 1 .. Len(s) + 1
      /\ \A i \in 1 .. Len(s) + 1 :
           t[i] = IF i < p THEN s[i] ELSE IF i = p THEN j ELSE s[i - 1]
  BY InsertAtFacts
<1> HIDE DEF t
<1>2. Len(s) \in Nat /\ DOMAIN s = 1 .. Len(s) /\ p \in Nat /\ p >= 1 /\ p <= Len(s) + 1
  OBVIOUS
<1>3. \A i \in DOMAIN s : s[i] # j
  BY DEF Lists
<1>4. \A i \in DOMAIN t : \/ i = p /\ t[i] = j
                          \/ i < p /\ i \in DOMAIN s /\ t[i] = s[i]
                          \/ i > p /\ i - 1 \in DOMAIN s /\ t[i] = s[i - 1]
  BY <1>1, <1>2
<1>5. \A i, k \in DOMAIN t : t[i] = t[k] => i = k
  <2> SUFFICES ASSUME NEW i \in DOMAIN t, NEW k \in DOMAIN t, t[i] = t[k]
               PROVE  i = k
    OBVIOUS
  <2>1. \A m, n \in DOMAIN s : s[m] = s[n] => m = n
    BY DEF Lists
  <2>2. i \in Nat /\ k \in Nat
    BY <1>1
  <2> QED
    BY <1>2, <1>3, <1>4, <2>1, <2>2
<1>6. S \cup {j} = {t[i] : i \in DOMAIN t}
  <2>1. ASSUME NEW i \in DOMAIN t PROVE t[i] \in S \cup {j}
    BY <1>4 DEF Lists
  <2>2. ASSUME NEW x \in S PROVE \E i \in DOMAIN t : t[i] = x
    <3>1. PICK k \in DOMAIN s : s[k] = x
      BY DEF Lists
    <3>2. CASE k < p
      BY <3>1, <3>2, <1>1, <1>2
    <3>3. CASE ~(k < p)
      <4>1. k + 1 \in DOMAIN t /\ t[k + 1] = s[k]
        BY <3>3, <1>1, <1>2
      <4> QED
        BY <4>1, <3>1
    <3> QED
      BY <3>2, <3>3
  <2>3. p \in DOMAIN t /\ t[p] = j
    BY <1>1, <1>2
  <2> QED
    BY <2>1, <2>2, <2>3
<1> QED
  BY <1>1, <1>5, <1>6 DEF Lists, t

LEMMA ListsRemove ==
    ASSUME NEW T, NEW s \in Seq(T), NEW S, Lists(s, S), NEW p \in DOMAIN s
    PROVE  /\ RemoveAt(s, p) \in Seq(T)
           /\ s[p] \in S /\ s[p] \in T
           /\ Lists(RemoveAt(s, p), S \ {s[p]})
<1> DEFINE t == RemoveAt(s, p)
<1>1. /\ t \in Seq(T) /\ DOMAIN t = 1 .. Len(s) - 1
      /\ \A i \in 1 .. Len(s) - 1 : t[i] = IF i < p THEN s[i] ELSE s[i + 1]
  BY RemoveAtFacts
<1> HIDE DEF t
<1>2. Len(s) \in Nat /\ DOMAIN s = 1 .. Len(s) /\ p \in Nat /\ p >= 1 /\ p <= Len(s)
  OBVIOUS
<1>3. s[p] \in S /\ s[p] \in T
  BY <1>2 DEF Lists
<1>4. \A i \in DOMAIN t : \/ i < p /\ i \in DOMAIN s /\ t[i] = s[i]
                          \/ i >= p /\ i + 1 \in DOMAIN s /\ t[i] = s[i + 1]
  BY <1>1, <1>2
<1>5. \A m, n \in DOMAIN s : s[m] = s[n] => m = n
  BY DEF Lists
<1>6. \A i, k \in DOMAIN t : t[i] = t[k] => i = k
  <2> SUFFICES ASSUME NEW i \in DOMAIN t, NEW k \in DOMAIN t, t[i] = t[k]
               PROVE  i = k
    OBVIOUS
  <2>1. i \in Nat /\ k \in Nat
    BY <1>1
  <2> QED
    BY <1>2, <1>4, <1>5, <2>1
<1>7. S \ {s[p]} = {t[i] : i \in DOMAIN t}
  <2>1. ASSUME NEW i \in DOMAIN t PROVE t[i] \in S \ {s[p]}
    <3>1. PICK m \in DOMAIN s : m # p /\ t[i] = s[m]
      <4>1. i \in Nat
        BY <1>1
      <4> QED
        BY <1>2, <1>4, <4>1
    <3> QED
      BY <3>1, <1>5 DEF Lists
  <2>2. ASSUME NEW x \in S \ {s[p]} PROVE \E i \in DOMAIN t : t[i] = x
    <3>1. PICK k \in DOMAIN s : s[k] = x
      BY DEF Lists
    <3>2. CASE k < p
      BY <3>1, <3>2, <1>1, <1>2
    <3>3. CASE ~(k < p)
      <4>1. k - 1 \in DOMAIN t /\ t[k - 1] = s[k]
        BY <3>1, <3>3, <1>1, <1>2
      <4> QED
        BY <4>1, <3>1
    <3> QED
      BY <3>2, <3>3
  <2> QED
    BY <2>1, <2>2
<1> QED
  BY <1>1, <1>3, <1>6, <1>7 DEF Lists, t
-----------------------------------------------------------------------------
(* What a change of stage leaves alone *)

Listed == {"sent", "queued", "waiting"}

LEMMA GotoFacts ==
    ASSUME TypeOK, NEW j \in Jobs, NEW b \in Stages, Goto(j, b)
    PROVE  /\ stage' \in [Jobs -> Stages]
           /\ stage'[j] = b
           /\ \A k \in Jobs \ {j} : stage'[k] = stage[k]
  BY DEF TypeOK, Goto

LEMMA PlacesKept ==
    ASSUME JobsAtOnePlace, UNCHANGED <<channel, queue, waiters>>,
           \A k \in Jobs : \A st \in Listed : stage'[k] = st <=> stage[k] = st
    PROVE  JobsAtOnePlace'
<1>1. /\ {k \in Jobs : stage'[k] = "sent"} = {k \in Jobs : stage[k] = "sent"}
      /\ {k \in Jobs : stage'[k] = "queued"} = {k \in Jobs : stage[k] = "queued"}
      /\ {k \in Jobs : stage'[k] = "waiting"} = {k \in Jobs : stage[k] = "waiting"}
  BY DEF Listed
<1> QED
  BY <1>1 DEF JobsAtOnePlace, AtStage, Lists

LEMMA LocksKept ==
    ASSUME LocksExclude, holders' = holders,
           \A k \in Jobs : stage'[k] \in Holding <=> stage[k] \in Holding,
           \A k \in Jobs : stage[k] \in Holding => commands'[k] = commands[k]
    PROVE  LocksExclude'
<1> SUFFICES ASSUME NEW r \in Resource
             PROVE  LET using == {j \in Jobs : stage[j] \in Holding /\ r \in Resources(j)}
                    IN  (/\ \A j, k \in using : j = k
                         /\ holders[r] = IF using = {} THEN 0 ELSE 1)'
  BY DEF LocksExclude
<1>1. {j \in Jobs : stage'[j] \in Holding /\ r \in Resources(j)'}
        = {j \in Jobs : stage[j] \in Holding /\ r \in Resources(j)}
  BY DEF Resources
<1> QED
  BY <1>1 DEF LocksExclude

\* Most steps move one job between stages no sequence stands for, and take
\* and release nothing.
LEMMA QuietMove ==
    ASSUME IInv, NEW j \in Jobs, NEW b \in Stages, Goto(j, b),
           stage[j] \notin Listed, b \notin Listed,
           stage[j] \in Holding <=> b \in Holding,
           stage[j] # "none", b # "running",
           UNCHANGED <<channel, queue, waiters, holders, next_id>>,
           \A k \in Jobs : stage[k] \in Holding => commands'[k] = commands[k]
    PROVE  JobsAtOnePlace' /\ LocksExclude' /\ IdsFresh' /\ OneRunning'
<1>1. /\ stage'[j] = b
      /\ \A k \in Jobs \ {j} : stage'[k] = stage[k]
  BY GotoFacts DEF IInv
<1>2. JobsAtOnePlace'
  BY <1>1, PlacesKept DEF IInv
<1>3. LocksExclude'
  BY <1>1, LocksKept DEF IInv
<1>4. IdsFresh'
  BY <1>1 DEF IInv, IdsFresh
<1>5. OneRunning'
  BY <1>1 DEF IInv, OneRunning
<1> QED
  BY <1>2, <1>3, <1>4, <1>5
-----------------------------------------------------------------------------
(* The inductive invariant *)

LEMMA InitIInv == Init => IInv
<1> SUFFICES ASSUME Init PROVE IInv
  OBVIOUS
<1>1. TypeOK
  <2>1. next_id \in 0 .. MaxPipelines /\ direct \in 0 .. MaxDirect
    BY PipelineAssumption DEF Init
  <2>2. DOMAIN commands = Jobs /\ \A j \in Jobs : commands[j] \in Programs[j]
    BY PipelineAssumption DEF Init, Jobs
  <2>3. /\ stage \in [Jobs -> Stages]
        /\ holders \in [Resource -> Nat]
        /\ progress \in [Jobs -> Nat]
        /\ reply \in [Jobs -> {"none", "ok", "exec_error", "send_error"}]
    BY DEF Init, Stages
  <2>4. channel \in Seq(Jobs) /\ queue \in Seq(Jobs) /\ waiters \in Seq(Jobs)
    BY DEF Init
  <2> QED
    BY <2>1, <2>2, <2>3, <2>4 DEF Init, TypeOK
<1>2. JobsAtOnePlace
  <2>1. \A st \in Listed : AtStage(st) = {}
    BY DEF Init, AtStage, Listed
  <2>2. Lists(<<>>, {})
    BY DEF Lists
  <2> QED
    BY <2>1, <2>2 DEF Init, JobsAtOnePlace, Listed
<1>3. LocksExclude
  BY DEF Init, LocksExclude, Holding
<1>4. IdsFresh /\ OneRunning
  BY DEF Init, IdsFresh, OneRunning
<1> QED
  BY <1>1, <1>2, <1>3, <1>4 DEF IInv

LEMMA StartStep == IInv /\ Start => IInv'
<1> SUFFICES ASSUME IInv, Start PROVE IInv'
  OBVIOUS
<1> USE DEF IInv
<1>1. next_id \in Jobs /\ next_id \in Nat /\ MaxPipelines \in Nat
  BY PipelineAssumption DEF Start, TypeOK, Jobs
<1>2. stage[next_id] = "none"
  BY <1>1 DEF IdsFresh, Jobs
<1>3. /\ stage' \in [Jobs -> Stages]
      /\ stage'[next_id] = "open"
      /\ \A k \in Jobs \ {next_id} : stage'[k] = stage[k]
  BY <1>1 DEF Start, Goto, TypeOK, Stages
<1>4. TypeOK'
  BY <1>1, <1>3 DEF Start, TypeOK, locks, effect
<1>5. JobsAtOnePlace'
  BY <1>2, <1>3, PlacesKept DEF Start, locks, Listed
<1>6. LocksExclude'
  BY <1>2, <1>3, LocksKept DEF Start, locks, Holding
<1>7. IdsFresh'
  BY <1>1, <1>3 DEF IdsFresh, Start, Jobs
<1>8. OneRunning'
  BY <1>3 DEF OneRunning
<1> QED
  BY <1>4, <1>5, <1>6, <1>7, <1>8

LEMMA ClientStepKeeps == ASSUME NEW j \in Jobs PROVE IInv /\ ClientStep(j) => IInv'
<1> SUFFICES ASSUME IInv, ClientStep(j) PROVE IInv'
  OBVIOUS
<1> USE DEF IInv
<1>1. CASE Get(j) \/ DropHandle(j) \/ Take(j)
  <2>1. PICK b \in {"open", "held", "ending"} : Goto(j, b)
    BY <1>1 DEF Get, DropHandle, Take
  <2>2. stage[j] \in {"open", "held"}
    BY <1>1 DEF Get, DropHandle, Take
  <2>3. UNCHANGED <<next_id, commands, channel, dispatcher, queue, holders, permit,
                    waiters, progress, reply, direct>>
    BY <1>1 DEF Get, DropHandle, Take, client, locks, effect
  <2>4. TypeOK'
    BY <2>1, <2>3, GotoFacts DEF TypeOK, Stages
  <2>5. JobsAtOnePlace' /\ LocksExclude' /\ IdsFresh' /\ OneRunning'
    BY <2>1, <2>2, <2>3, QuietMove DEF Listed, Holding, Stages
  <2> QED
    BY <2>4, <2>5
<1>2. CASE LosePipeline(j)
  <2>1. /\ Goto(j, "lost") /\ stage[j] \in {"open", "held"}
        /\ commands' = [commands EXCEPT ![j] = <<>>]
        /\ UNCHANGED <<next_id, channel, dispatcher, queue, holders, permit,
                       waiters, progress, reply, direct>>
    BY <1>2 DEF LosePipeline, locks, effect
  <2>2. TypeOK'
    BY <2>1, GotoFacts, PipelineAssumption DEF TypeOK, Stages, Jobs
  <2>3. \A k \in Jobs : stage[k] \in Holding => commands'[k] = commands[k]
    BY <2>1 DEF TypeOK, Holding
  <2>4. JobsAtOnePlace' /\ LocksExclude' /\ IdsFresh' /\ OneRunning'
    BY <2>1, <2>3, QuietMove DEF Listed, Holding, Stages
  <2> QED
    BY <2>2, <2>4
<1>3. CASE End(j)
  <2>1. /\ Goto(j, "sent") /\ stage[j] = "ending"
        /\ channel' = Append(channel, j)
        /\ UNCHANGED <<next_id, commands, dispatcher, queue, holders, permit,
                       waiters, progress, reply, direct>>
    BY <1>3 DEF End, client, locks, effect
  <2>2. /\ stage' \in [Jobs -> Stages] /\ stage'[j] = "sent"
        /\ \A k \in Jobs \ {j} : stage'[k] = stage[k]
    BY <2>1, GotoFacts DEF Stages
  <2>3. channel \in Seq(Jobs)
    BY DEF TypeOK
  <2>4. channel' \in Seq(Jobs) /\ Lists(channel', AtStage("sent") \cup {j})
    BY <2>1, <2>3, ListsAppend DEF JobsAtOnePlace, AtStage
  <2>5. TypeOK'
    BY <2>1, <2>2, <2>4 DEF TypeOK
  <2>6. /\ {k \in Jobs : stage'[k] = "sent"} = AtStage("sent") \cup {j}
        /\ {k \in Jobs : stage'[k] = "queued"} = AtStage("queued")
        /\ {k \in Jobs : stage'[k] = "waiting"} = AtStage("waiting")
    BY <2>1, <2>2 DEF AtStage
  <2>7. JobsAtOnePlace'
    BY <2>1, <2>4, <2>6 DEF JobsAtOnePlace, AtStage, Lists
  <2>8. LocksExclude'
    BY <2>1, <2>2, LocksKept DEF Holding
  <2>9. IdsFresh' /\ OneRunning'
    BY <2>1, <2>2 DEF IdsFresh, OneRunning
  <2> QED
    BY <2>5, <2>7, <2>8, <2>9
<1>4. ASSUME NEW c \in PipelineCommand, AddCommand(j, c) PROVE IInv'
  <2>1. /\ stage[j] = "held" /\ Append(commands[j], c) \in Programs[j]
        /\ commands' = [commands EXCEPT ![j] = Append(commands[j], c)]
        /\ UNCHANGED <<next_id, stage, channel, dispatcher, queue, holders, permit,
                       waiters, progress, reply, direct>>
    BY <1>4 DEF AddCommand, locks, effect
  <2>2. TypeOK'
    BY <2>1 DEF TypeOK
  <2>3. JobsAtOnePlace'
    BY <2>1, PlacesKept
  <2>4. \A k \in Jobs : stage[k] \in Holding => commands'[k] = commands[k]
    BY <2>1 DEF TypeOK, Holding
  <2>5. LocksExclude'
    BY <2>1, <2>4, LocksKept
  <2>6. IdsFresh' /\ OneRunning'
    BY <2>1 DEF IdsFresh, OneRunning
  <2> QED
    BY <2>2, <2>3, <2>5, <2>6
<1> QED
  BY <1>1, <1>2, <1>3, <1>4 DEF ClientStep

LEMMA TaskStepKeeps == ASSUME NEW j \in Jobs PROVE IInv /\ TaskStep(j) => IInv'
<1> SUFFICES ASSUME IInv, TaskStep(j) PROVE IInv'
  OBVIOUS
<1> USE DEF IInv
<1>1. CASE Acquire(j)
  <2>1. /\ Goto(j, "locked") /\ stage[j] = "checking" /\ CanAcquire(j)
        /\ holders' = [r \in Resource |-> IF r \in Resources(j) THEN holders[r] + 1
                                          ELSE holders[r]]
        /\ UNCHANGED <<next_id, commands, channel, dispatcher, queue, permit,
                       waiters, progress, reply, direct>>
    BY <1>1 DEF Acquire, client, effect
  <2>2. /\ stage' \in [Jobs -> Stages] /\ stage'[j] = "locked"
        /\ \A k \in Jobs \ {j} : stage'[k] = stage[k]
    BY <2>1, GotoFacts DEF Stages
  <2>3. TypeOK'
    <3>1. holders' \in [Resource -> Nat]
      BY <2>1 DEF TypeOK
    <3> QED
      BY <2>1, <2>2, <3>1 DEF TypeOK
  <2>4. JobsAtOnePlace'
    BY <2>1, <2>2, PlacesKept DEF Listed
  <2>5. LocksExclude'
    <3> SUFFICES ASSUME NEW r \in Resource
                 PROVE  LET using == {k \in Jobs : stage[k] \in Holding /\ r \in Resources(k)}
                        IN  (/\ \A k, m \in using : k = m
                             /\ holders[r] = IF using = {} THEN 0 ELSE 1)'
      BY DEF LocksExclude
    <3> DEFINE old == {k \in Jobs : stage[k] \in Holding /\ r \in Resources(k)}
               new == {k \in Jobs : stage'[k] \in Holding /\ r \in Resources(k)'}
    <3>1. \A k \in Jobs : Resources(k)' = Resources(k)
      BY <2>1 DEF Resources
    <3>2. /\ \A k, m \in old : k = m
          /\ holders[r] = IF old = {} THEN 0 ELSE 1
      BY DEF LocksExclude
    <3>3. CASE r \in Resources(j)
      <4>1. old = {}
        BY <2>1, <3>2, <3>3 DEF CanAcquire
      <4>2. new = {j}
        BY <2>1, <2>2, <3>1, <3>3, <4>1 DEF Holding
      <4>3. holders'[r] = 1
        BY <2>1, <3>2, <3>3, <4>1
      <4> QED
        BY <4>2, <4>3
    <3>4. CASE r \notin Resources(j)
      <4>1. new = old
        BY <2>1, <2>2, <3>1, <3>4
      <4>2. holders'[r] = holders[r]
        BY <2>1, <3>4
      <4> QED
        BY <3>2, <4>1, <4>2
    <3> QED
      BY <3>3, <3>4
  <2>6. IdsFresh' /\ OneRunning'
    BY <2>1, <2>2 DEF IdsFresh, OneRunning
  <2> QED
    BY <2>3, <2>4, <2>5, <2>6
<1>2. CASE Refuse(j)
  <2>1. /\ Goto(j, "refused") /\ stage[j] = "checking"
        /\ UNCHANGED <<next_id, commands, channel, dispatcher, queue, holders, permit,
                       waiters, progress, reply, direct>>
    BY <1>2 DEF Refuse, client, locks, effect
  <2>2. TypeOK'
    BY <2>1, GotoFacts DEF TypeOK, Stages
  <2>3. JobsAtOnePlace' /\ LocksExclude' /\ IdsFresh' /\ OneRunning'
    BY <2>1, QuietMove DEF Listed, Holding, Stages
  <2> QED
    BY <2>2, <2>3
<1>3. CASE AwaitNotified(j)
  <2>1. /\ stage[j] = "refused" /\ permit' = FALSE
        /\ UNCHANGED <<next_id, commands, channel, dispatcher, queue, holders,
                       progress, reply, direct>>
    BY <1>3 DEF AwaitNotified, client, effect
  <2>2. CASE permit
    <3>1. Goto(j, "checking") /\ waiters' = waiters
      BY <1>3, <2>2 DEF AwaitNotified
    <3>2. TypeOK'
      BY <2>1, <3>1, GotoFacts DEF TypeOK, Stages
    <3>3. JobsAtOnePlace' /\ LocksExclude' /\ IdsFresh' /\ OneRunning'
      BY <2>1, <3>1, QuietMove DEF Listed, Holding, Stages
    <3> QED
      BY <3>2, <3>3
  <2>3. CASE ~permit
    <3>1. Goto(j, "waiting") /\ waiters' = Append(waiters, j)
      BY <1>3, <2>3 DEF AwaitNotified
    <3>2. /\ stage' \in [Jobs -> Stages] /\ stage'[j] = "waiting"
          /\ \A k \in Jobs \ {j} : stage'[k] = stage[k]
      BY <3>1, GotoFacts DEF Stages
    <3>3. waiters' \in Seq(Jobs) /\ Lists(waiters', AtStage("waiting") \cup {j})
      <4>1. waiters \in Seq(Jobs) /\ j \notin AtStage("waiting")
        BY <2>1 DEF TypeOK, AtStage
      <4> QED
        BY <3>1, <4>1, ListsAppend DEF JobsAtOnePlace
    <3>4. TypeOK'
      BY <2>1, <3>2, <3>3 DEF TypeOK
    <3>5. /\ {k \in Jobs : stage'[k] = "sent"} = AtStage("sent")
          /\ {k \in Jobs : stage'[k] = "queued"} = AtStage("queued")
          /\ {k \in Jobs : stage'[k] = "waiting"} = AtStage("waiting") \cup {j}
      BY <2>1, <3>2 DEF AtStage
    <3>6. JobsAtOnePlace'
      BY <2>1, <3>3, <3>5 DEF JobsAtOnePlace, AtStage, Lists
    <3>7. LocksExclude'
      BY <2>1, <3>2, LocksKept DEF Holding
    <3>8. IdsFresh' /\ OneRunning'
      BY <2>1, <3>2 DEF IdsFresh, OneRunning
    <3> QED
      BY <3>4, <3>6, <3>7, <3>8
  <2> QED
    BY <2>2, <2>3
<1>4. CASE TakeDb(j)
  <2>1. /\ Goto(j, "running") /\ stage[j] = "locked" /\ DbFree
        /\ UNCHANGED <<next_id, commands, channel, dispatcher, queue, holders, permit,
                       waiters, progress, reply, direct>>
    BY <1>4 DEF TakeDb, client, locks, effect
  <2>2. /\ stage' \in [Jobs -> Stages] /\ stage'[j] = "running"
        /\ \A k \in Jobs \ {j} : stage'[k] = stage[k]
    BY <2>1, GotoFacts DEF Stages
  <2>3. TypeOK'
    BY <2>1, <2>2 DEF TypeOK
  <2>4. JobsAtOnePlace'
    BY <2>1, <2>2, PlacesKept DEF Listed
  <2>5. LocksExclude'
    BY <2>1, <2>2, LocksKept DEF Holding
  <2>6. IdsFresh' /\ OneRunning'
    BY <2>1, <2>2 DEF IdsFresh, OneRunning, DbFree
  <2> QED
    BY <2>3, <2>4, <2>5, <2>6
<1>5. CASE RunCommand(j)
  <2>1. /\ progress' = [progress EXCEPT ![j] = progress[j] + 1]
        /\ UNCHANGED <<next_id, stage, commands, channel, dispatcher, queue, holders,
                       permit, waiters, reply, direct>>
    BY <1>5 DEF RunCommand, client, locks
  <2>2. TypeOK'
    BY <2>1 DEF TypeOK
  <2>3. JobsAtOnePlace' /\ LocksExclude'
    BY <2>1, PlacesKept, LocksKept
  <2>4. IdsFresh' /\ OneRunning'
    BY <2>1 DEF IdsFresh, OneRunning
  <2> QED
    BY <2>2, <2>3, <2>4
<1>6. CASE JobEnds(j) \/ JobPanics(j)
  <2>1. PICK b \in {"executed", "dead"}, a \in {"ok", "exec_error", "send_error"} :
            Goto(j, b) /\ reply' = [reply EXCEPT ![j] = a]
    BY <1>6 DEF JobEnds, JobPanics
  <2>2. /\ stage[j] = "running"
        /\ UNCHANGED <<next_id, commands, channel, dispatcher, queue, holders, permit,
                       waiters, progress, direct>>
    BY <1>6 DEF JobEnds, JobPanics, client, locks
  <2>3. TypeOK'
    BY <2>1, <2>2, GotoFacts DEF TypeOK, Stages
  <2>4. JobsAtOnePlace' /\ LocksExclude' /\ IdsFresh' /\ OneRunning'
    BY <2>1, <2>2, QuietMove DEF Listed, Holding, Stages
  <2> QED
    BY <2>3, <2>4
<1>7. CASE ReleaseLocks(j)
  <2>1. /\ Goto(j, "released") /\ stage[j] = "executed"
        /\ holders' = [r \in Resource |-> IF r \in Resources(j) /\ holders[r] > 0
                                          THEN holders[r] - 1 ELSE holders[r]]
        /\ UNCHANGED <<next_id, commands, channel, dispatcher, queue, permit,
                       waiters, progress, reply, direct>>
    BY <1>7 DEF ReleaseLocks, client, effect
  <2>2. /\ stage' \in [Jobs -> Stages] /\ stage'[j] = "released"
        /\ \A k \in Jobs \ {j} : stage'[k] = stage[k]
    BY <2>1, GotoFacts DEF Stages
  <2>3. TypeOK'
    <3>1. holders' \in [Resource -> Nat]
      BY <2>1 DEF TypeOK
    <3> QED
      BY <2>1, <2>2, <3>1 DEF TypeOK
  <2>4. JobsAtOnePlace'
    BY <2>1, <2>2, PlacesKept DEF Listed
  <2>5. LocksExclude'
    <3> SUFFICES ASSUME NEW r \in Resource
                 PROVE  LET using == {k \in Jobs : stage[k] \in Holding /\ r \in Resources(k)}
                        IN  (/\ \A k, m \in using : k = m
                             /\ holders[r] = IF using = {} THEN 0 ELSE 1)'
      BY DEF LocksExclude
    <3> DEFINE old == {k \in Jobs : stage[k] \in Holding /\ r \in Resources(k)}
               new == {k \in Jobs : stage'[k] \in Holding /\ r \in Resources(k)'}
    <3>1. \A k \in Jobs : Resources(k)' = Resources(k)
      BY <2>1 DEF Resources
    <3>2. /\ \A k, m \in old : k = m
          /\ holders[r] = IF old = {} THEN 0 ELSE 1
      BY DEF LocksExclude
    <3>3. CASE r \in Resources(j)
      <4>1. j \in old
        BY <2>1, <3>3 DEF Holding
      <4>2. holders[r] = 1 /\ old = {j}
        BY <3>2, <4>1
      <4>3. new = {}
        BY <2>2, <3>1, <4>2 DEF Holding
      <4>4. holders'[r] = 0
        BY <2>1, <3>3, <4>2
      <4> QED
        BY <4>3, <4>4
    <3>4. CASE r \notin Resources(j)
      <4>1. new = old
        BY <2>1, <2>2, <3>1, <3>4
      <4>2. holders'[r] = holders[r]
        BY <2>1, <3>4
      <4> QED
        BY <3>2, <4>1, <4>2
    <3> QED
      BY <3>3, <3>4
  <2>6. IdsFresh' /\ OneRunning'
    BY <2>1, <2>2 DEF IdsFresh, OneRunning
  <2> QED
    BY <2>3, <2>4, <2>5, <2>6
<1>8. CASE NotifyAndReply(j)
  <2>1. /\ stage[j] = "released" /\ waiters' = <<>>
        /\ stage' = [k \in Jobs |-> IF k = j THEN "finished"
                                    ELSE IF stage[k] = "waiting" THEN "checking"
                                    ELSE stage[k]]
        /\ commands' = [commands EXCEPT ![j] = <<>>]
        /\ progress' = [progress EXCEPT ![j] = 0]
        /\ UNCHANGED <<next_id, channel, dispatcher, queue, holders, permit, reply, direct>>
    BY <1>8 DEF NotifyAndReply
  <2>2. TypeOK'
    <3>1. stage' \in [Jobs -> Stages]
      BY <2>1 DEF TypeOK, Stages
    <3>2. DOMAIN commands' = Jobs /\ \A k \in Jobs : commands'[k] \in Programs[k]
      BY <2>1, PipelineAssumption DEF TypeOK, Jobs
    <3>3. waiters' \in Seq(Jobs)
      BY <2>1
    <3> QED
      BY <2>1, <3>1, <3>2, <3>3 DEF TypeOK
  <2>3. JobsAtOnePlace'
    <3>1. /\ {k \in Jobs : stage'[k] = "sent"} = AtStage("sent")
          /\ {k \in Jobs : stage'[k] = "queued"} = AtStage("queued")
          /\ {k \in Jobs : stage'[k] = "waiting"} = {}
      BY <2>1 DEF AtStage
    <3>2. Lists(<<>>, {})
      BY DEF Lists
    <3> QED
      BY <2>1, <3>1, <3>2 DEF JobsAtOnePlace, AtStage, Lists
  <2>4. \A k \in Jobs : stage'[k] \in Holding <=> stage[k] \in Holding
    BY <2>1 DEF Holding
  <2>5. \A k \in Jobs : stage[k] \in Holding => commands'[k] = commands[k]
    BY <2>1 DEF Holding, TypeOK
  <2>6. LocksExclude'
    BY <2>1, <2>4, <2>5, LocksKept
  <2>7. IdsFresh' /\ OneRunning'
    BY <2>1 DEF IdsFresh, OneRunning
  <2> QED
    BY <2>2, <2>3, <2>6, <2>7
<1> QED
  BY <1>1, <1>2, <1>3, <1>4, <1>5, <1>6, <1>7, <1>8 DEF TaskStep

LEMMA PartitionPointInQueue ==
    ASSUME TypeOK, NEW n PROVE PartitionPoint(n) + 1 \in 1 .. Len(queue) + 1
<1> DEFINE below == {i \in DOMAIN queue : OpCount(queue[i]) <= n}
<1>1. Len(queue) \in Nat /\ DOMAIN queue = 1 .. Len(queue)
  BY DEF TypeOK
<1>2. IsFiniteSet(1 .. Len(queue)) /\ Cardinality(1 .. Len(queue)) = Len(queue)
  <2>1. 1 \in Int /\ Len(queue) \in Int
    BY <1>1
  <2>2. /\ IsFiniteSet(1 .. Len(queue))
        /\ Cardinality(1 .. Len(queue)) = IF 1 > Len(queue) THEN 0 ELSE Len(queue) - 1 + 1
    BY <2>1, FS_Interval, Zenon
  <2> QED
    BY <1>1, <2>2
<1>3. below \subseteq 1 .. Len(queue)
  BY <1>1
<1>4. IsFiniteSet(below) /\ Cardinality(below) <= Len(queue)
  BY <1>2, <1>3, FS_Subset
<1>5. Cardinality(below) \in Nat
  BY <1>4, FS_CardinalityType
<1>6. PartitionPoint(n) = Cardinality(below)
  BY DEF PartitionPoint
<1> HIDE DEF below
<1> QED
  BY <1>1, <1>4, <1>5, <1>6

LEMMA ReceiveStep == IInv /\ Receive => IInv'
<1> SUFFICES ASSUME IInv, Receive PROVE IInv'
  OBVIOUS
<1> USE DEF IInv
<1> DEFINE j == Head(channel)
           w == Head(waiters)
<1>1. /\ channel # <<>> /\ channel' = Tail(channel) /\ Enqueue(j) /\ dispatcher' = "drain"
      /\ UNCHANGED <<next_id, commands, holders, progress, reply, direct>>
  BY DEF Receive, client, effect
<1>2. /\ channel \in Seq(Jobs) /\ queue \in Seq(Jobs) /\ waiters \in Seq(Jobs)
      /\ Lists(channel, AtStage("sent"))
      /\ Lists(queue, AtStage("queued"))
      /\ Lists(waiters, AtStage("waiting"))
  BY DEF TypeOK, JobsAtOnePlace
<1>3. /\ channel' \in Seq(Jobs) /\ j \in AtStage("sent")
      /\ Lists(channel', AtStage("sent") \ {j})
  BY <1>1, <1>2, ListsTail
<1>4. j \in Jobs /\ stage[j] = "sent"
  BY <1>3 DEF AtStage
<1>5. queue' \in Seq(Jobs) /\ Lists(queue', AtStage("queued") \cup {j})
  <2>1. queue' = InsertAt(queue, PartitionPoint(OpCount(j)) + 1, j)
    BY <1>1 DEF Enqueue
  <2>2. PartitionPoint(OpCount(j)) + 1 \in 1 .. Len(queue) + 1
    BY PartitionPointInQueue
  <2>3. j \notin AtStage("queued")
    BY <1>4 DEF AtStage
  <2> QED
    BY <1>2, <1>4, <2>1, <2>2, <2>3, ListsInsert
<1> HIDE DEF j
<1>6. CASE waiters = <<>>
  <2>1. permit' = TRUE /\ waiters' = waiters /\ stage' = [stage EXCEPT ![j] = "queued"]
    BY <1>1, <1>6 DEF Enqueue
  <2>2. /\ stage' \in [Jobs -> Stages] /\ stage'[j] = "queued"
        /\ \A k \in Jobs \ {j} : stage'[k] = stage[k]
    BY <1>4, <2>1 DEF TypeOK, Stages
  <2>3. TypeOK'
    BY <1>1, <1>3, <1>5, <2>1, <2>2 DEF TypeOK
  <2>4. /\ {k \in Jobs : stage'[k] = "sent"} = AtStage("sent") \ {j}
        /\ {k \in Jobs : stage'[k] = "queued"} = AtStage("queued") \cup {j}
        /\ {k \in Jobs : stage'[k] = "waiting"} = AtStage("waiting")
    BY <1>4, <2>2 DEF AtStage
  <2>5. JobsAtOnePlace'
    BY <1>2, <1>3, <1>5, <2>1, <2>4 DEF JobsAtOnePlace, AtStage, Lists
  <2>6. LocksExclude'
    BY <1>1, <1>4, <2>2, LocksKept DEF Holding
  <2>7. IdsFresh' /\ OneRunning'
    BY <1>1, <1>4, <2>2 DEF IdsFresh, OneRunning
  <2> QED
    BY <2>3, <2>5, <2>6, <2>7
<1>7. CASE waiters # <<>>
  <2>1. /\ permit' = permit /\ waiters' = Tail(waiters)
        /\ stage' = [stage EXCEPT ![j] = "queued", ![w] = "checking"]
    BY <1>1, <1>7 DEF Enqueue
  <2>2. /\ waiters' \in Seq(Jobs) /\ w \in AtStage("waiting")
        /\ Lists(waiters', AtStage("waiting") \ {w})
    BY <1>2, <1>7, <2>1, ListsTail
  <2> HIDE DEF w
  <2>3. w \in Jobs /\ stage[w] = "waiting" /\ w # j
    BY <1>4, <2>2 DEF AtStage
  <2>4. /\ stage' \in [Jobs -> Stages] /\ stage'[j] = "queued" /\ stage'[w] = "checking"
        /\ \A k \in Jobs \ {j, w} : stage'[k] = stage[k]
    BY <1>4, <2>1, <2>3 DEF TypeOK, Stages
  <2>5. TypeOK'
    BY <1>1, <1>3, <1>5, <2>1, <2>2, <2>4 DEF TypeOK
  <2>6. /\ {k \in Jobs : stage'[k] = "sent"} = AtStage("sent") \ {j}
        /\ {k \in Jobs : stage'[k] = "queued"} = AtStage("queued") \cup {j}
        /\ {k \in Jobs : stage'[k] = "waiting"} = AtStage("waiting") \ {w}
    BY <1>4, <2>3, <2>4 DEF AtStage
  <2>7. JobsAtOnePlace'
    BY <1>3, <1>5, <2>2, <2>6 DEF JobsAtOnePlace, AtStage, Lists
  <2>8. LocksExclude'
    BY <1>1, <1>4, <2>3, <2>4, LocksKept DEF Holding
  <2>9. IdsFresh' /\ OneRunning'
    BY <1>1, <1>4, <2>3, <2>4 DEF IdsFresh, OneRunning
  <2> QED
    BY <2>5, <2>7, <2>8, <2>9
<1> QED
  BY <1>6, <1>7

LEMMA PopStep == IInv /\ PopRunnable => IInv'
<1> SUFFICES ASSUME IInv, PopRunnable PROVE IInv'
  OBVIOUS
<1> USE DEF IInv
<1>1. PICK i \in DOMAIN queue : queue' = RemoveAt(queue, i) /\ Goto(queue[i], "checking")
  BY DEF PopRunnable
<1>2. /\ dispatcher' = "drain"
      /\ UNCHANGED <<next_id, commands, channel, holders, permit, waiters,
                     progress, reply, direct>>
  BY DEF PopRunnable, client, locks, effect
<1> DEFINE j == queue[i]
<1>3. /\ queue' \in Seq(Jobs) /\ j \in AtStage("queued")
      /\ Lists(queue', AtStage("queued") \ {j})
  BY <1>1, ListsRemove DEF TypeOK, JobsAtOnePlace
<1>4. j \in Jobs /\ stage[j] = "queued"
  BY <1>3 DEF AtStage
<1>5. /\ stage' \in [Jobs -> Stages] /\ stage'[j] = "checking"
      /\ \A k \in Jobs \ {j} : stage'[k] = stage[k]
  BY <1>1, <1>4, GotoFacts DEF Stages
<1> HIDE DEF j
<1>6. TypeOK'
  BY <1>2, <1>3, <1>5 DEF TypeOK
<1>7. /\ {k \in Jobs : stage'[k] = "sent"} = AtStage("sent")
      /\ {k \in Jobs : stage'[k] = "queued"} = AtStage("queued") \ {j}
      /\ {k \in Jobs : stage'[k] = "waiting"} = AtStage("waiting")
  BY <1>4, <1>5 DEF AtStage
<1>8. JobsAtOnePlace'
  BY <1>2, <1>3, <1>7 DEF JobsAtOnePlace, AtStage, Lists
<1>9. LocksExclude'
  BY <1>2, <1>4, <1>5, LocksKept DEF Holding
<1>10. IdsFresh' /\ OneRunning'
  BY <1>2, <1>4, <1>5 DEF IdsFresh, OneRunning
<1> QED
  BY <1>6, <1>8, <1>9, <1>10

LEMMA OtherStepsKeep ==
    IInv /\ (DrainEnds \/ NothingRunnable \/ DirectCommand \/ UNCHANGED vars) => IInv'
<1> SUFFICES ASSUME IInv, DrainEnds \/ NothingRunnable \/ DirectCommand \/ UNCHANGED vars
             PROVE  IInv'
  OBVIOUS
<1> USE DEF IInv
<1>1. UNCHANGED <<next_id, stage, commands, channel, queue, holders, permit, waiters,
                  progress, reply>>
  BY DEF DrainEnds, NothingRunnable, DirectCommand, vars, client, locks, effect
<1>2. dispatcher' \in {"recv", "drain", "pop"} /\ direct' \in 0 .. MaxDirect
  BY PipelineAssumption
     DEF DrainEnds, NothingRunnable, DirectCommand, vars, effect, TypeOK
<1>3. TypeOK'
  BY <1>1, <1>2 DEF TypeOK
<1>4. JobsAtOnePlace' /\ LocksExclude'
  BY <1>1, PlacesKept, LocksKept
<1>5. IdsFresh' /\ OneRunning'
  BY <1>1 DEF IdsFresh, OneRunning
<1> QED
  BY <1>3, <1>4, <1>5

LEMMA NextIInv == IInv /\ [Next]_vars => IInv'
<1> SUFFICES ASSUME IInv, [Next]_vars PROVE IInv'
  OBVIOUS
<1>1. CASE Start
  BY <1>1, StartStep
<1>2. CASE DirectCommand \/ UNCHANGED vars
  BY <1>2, OtherStepsKeep
<1>3. CASE Dispatch
  BY <1>3, ReceiveStep, PopStep, OtherStepsKeep DEF Dispatch
<1>4. ASSUME NEW j \in Jobs, ClientStep(j) \/ TaskStep(j) PROVE IInv'
  BY <1>4, ClientStepKeeps, TaskStepKeeps
<1> QED
  BY <1>1, <1>2, <1>3, <1>4 DEF Next

\* The invariant of the proofs holds in every reachable state.
THEOREM PipelineInvariant == Spec => []IInv
  BY InitIInv, NextIInv, PTL DEF Spec

\* Every variable of the pipeline keeps its type.
THEOREM PipelineTypeCorrect == Spec => []TypeOK
<1>1. IInv => TypeOK
  BY DEF IInv
<1> QED
  BY <1>1, PipelineInvariant, PTL

\* Jobs that try_pop_runnable let go together never hold one store together,
\* and the counters of LockState are exact, whatever tasks panic.
THEOREM Exclusion == Spec => []LocksExclude
<1>1. IInv => LocksExclude
  BY DEF IInv
<1> QED
  BY <1>1, PipelineInvariant, PTL

\* No hand-over between channel, queue and Notify loses or doubles a job.
THEOREM NoJobLost == Spec => []JobsAtOnePlace
<1>1. IInv => JobsAtOnePlace
  BY DEF IInv
<1> QED
  BY <1>1, PipelineInvariant, PTL

\* The commands of a job run without another command between them, and the
\* result of the job says whether all of them ran.
THEOREM Serial == Spec => JobsAreSerial
<1> DEFINE Whole(j) == /\ stage[j] = "running" /\ progress[j] > 0
                          => /\ direct' = direct
                             /\ \A k \in Jobs \ {j} : progress'[k] <= progress[k]
           Told(j) == reply'[j] # reply[j] => (reply'[j] = "ok" <=> progress[j] = OpCount(j))
<1>1. ASSUME IInv, [Next]_vars, NEW j \in Jobs PROVE Whole(j) /\ Told(j)
  <2> USE <1>1
  <2>0. progress \in [Jobs -> Nat] /\ commands[j] \in Seq(PipelineCommand)
    BY PipelineAssumption DEF IInv, TypeOK, Jobs
  <2>1. CASE DirectCommand
    BY <2>0, <2>1 DEF DirectCommand, DbFree
  <2>2. CASE UNCHANGED vars \/ Start \/ Dispatch
    <3>1. UNCHANGED <<progress, reply, direct>>
      BY <2>2 DEF vars, effect, Start, Dispatch, Receive, DrainEnds, PopRunnable, NothingRunnable
    <3> QED
      BY <2>0, <3>1
  <2>3. ASSUME NEW m \in Jobs, ClientStep(m) PROVE Whole(j) /\ Told(j)
    <3>1. UNCHANGED <<progress, reply, direct>>
      BY <2>3 DEF ClientStep, Get, DropHandle, Take, LosePipeline, End, AddCommand, effect
    <3> QED
      BY <2>0, <3>1
  <2>4. ASSUME NEW m \in Jobs, TaskStep(m) PROVE Whole(j) /\ Told(j)
    <3>1. CASE Acquire(m) \/ Refuse(m) \/ AwaitNotified(m) \/ TakeDb(m) \/ ReleaseLocks(m)
      <4>1. UNCHANGED <<progress, reply, direct>>
        BY <3>1 DEF Acquire, Refuse, AwaitNotified, TakeDb, ReleaseLocks, effect
      <4> QED
        BY <2>0, <4>1
    <3>2. CASE RunCommand(m)
      <4>1. /\ stage[m] = "running" /\ progress' = [progress EXCEPT ![m] = progress[m] + 1]
            /\ UNCHANGED <<reply, direct>>
        BY <3>2 DEF RunCommand
      <4>2. stage[j] = "running" => j = m
        BY <4>1 DEF IInv, OneRunning
      <4> QED
        BY <2>0, <4>1, <4>2
    <3>3. CASE JobEnds(m)
      <4>1. UNCHANGED <<progress, direct>>
        BY <3>3 DEF JobEnds
      <4>2. Told(j)
        BY <2>0, <3>3 DEF JobEnds, IInv, TypeOK, OpCount
      <4> QED
        BY <2>0, <4>1, <4>2
    <3>4. CASE JobPanics(m)
      <4>1. UNCHANGED <<progress, direct>>
        BY <3>4 DEF JobPanics
      <4>2. Told(j)
        BY <2>0, <3>4 DEF JobPanics, IInv, TypeOK, OpCount
      <4> QED
        BY <2>0, <4>1, <4>2
    <3>5. CASE NotifyAndReply(m)
      <4>1. progress' = [progress EXCEPT ![m] = 0] /\ UNCHANGED <<reply, direct>>
        BY <3>5 DEF NotifyAndReply
      <4> QED
        BY <2>0, <4>1
    <3> QED
      BY <2>4, <3>1, <3>2, <3>3, <3>4, <3>5 DEF TaskStep
  <2> QED
    BY <2>1, <2>2, <2>3, <2>4 DEF Next
<1>2. IInv /\ [Next]_vars =>
        [\A j \in Jobs :
          /\ stage[j] = "running" /\ progress[j] > 0
             => /\ direct' = direct
                /\ \A k \in Jobs \ {j} : progress'[k] <= progress[k]
          /\ reply'[j] # reply[j] => (reply'[j] = "ok" <=> progress[j] = OpCount(j))]_vars
  BY <1>1
<1> QED
  BY <1>2, PipelineInvariant, PTL DEF Spec, JobsAreSerial
-----------------------------------------------------------------------------
(* The order of the queue *)

QueueSorted == \A i, k \in DOMAIN queue : i < k => OpCount(queue[i]) <= OpCount(queue[k])

\* In a sorted queue the jobs that are no larger than n are a prefix, and
\* partition_point is its length.
LEMMA PartitionPointSplits ==
    ASSUME TypeOK, QueueSorted, NEW n \in Nat
    PROVE  /\ PartitionPoint(n) \in 0 .. Len(queue)
           /\ \A i \in DOMAIN queue : OpCount(queue[i]) <= n <=> i <= PartitionPoint(n)
<1> DEFINE L == Len(queue)
           Small(i) == OpCount(queue[i]) <= n
           Rest == {i \in 1 .. L + 1 : i <= L => ~Small(i)}
<1>1. L \in Nat /\ DOMAIN queue = 1 .. L
  BY DEF TypeOK
<1>2. \A i \in 1 .. L : OpCount(queue[i]) \in Nat
  <2> SUFFICES ASSUME NEW i \in 1 .. L PROVE OpCount(queue[i]) \in Nat
    OBVIOUS
  <2>1. queue[i] \in Jobs
    BY <1>1 DEF TypeOK
  <2>2. commands[queue[i]] \in Seq(PipelineCommand)
    BY <2>1, PipelineAssumption DEF TypeOK, Jobs
  <2> QED
    BY <2>2 DEF OpCount
<1>3. \A i, k \in 1 .. L : i < k /\ Small(k) => Small(i)
  <2> SUFFICES ASSUME NEW i \in 1 .. L, NEW k \in 1 .. L, i < k, Small(k) PROVE Small(i)
    OBVIOUS
  <2>1. OpCount(queue[i]) <= OpCount(queue[k])
    BY <1>1 DEF QueueSorted
  <2> QED
    BY <1>2, <2>1
<1> HIDE DEF Small
<1>4. L + 1 \in Rest /\ Rest \in SUBSET Nat
  BY <1>1
<1>5. \E m \in Rest : \A i \in Rest : m <= i
  BY <1>4, LeastNatural
<1>6. PICK m \in Rest : \A i \in Rest : m <= i
  BY <1>5
<1>7. m \in 1 .. L + 1
  OBVIOUS
<1>8. \A i \in 1 .. L : Small(i) <=> i <= m - 1
  <2> SUFFICES ASSUME NEW i \in 1 .. L PROVE Small(i) <=> i <= m - 1
    OBVIOUS
  <2>1. ASSUME i <= m - 1 PROVE Small(i)
    BY <1>1, <1>6, <1>7, <2>1
  <2>2. ASSUME Small(i), ~(i <= m - 1) PROVE FALSE
    <3>1. m \in 1 .. L /\ ~Small(m) /\ (m = i \/ m < i)
      BY <1>1, <1>7, <2>2
    <3> QED
      BY <1>3, <2>2, <3>1
  <2> QED
    BY <2>1, <2>2
<1>9. {i \in DOMAIN queue : OpCount(queue[i]) <= n} = 1 .. m - 1
  BY <1>1, <1>7, <1>8 DEF Small
<1>10. Cardinality(1 .. m - 1) = m - 1
  <2>1. 1 \in Int /\ m - 1 \in Int
    BY <1>1, <1>7
  <2>2. Cardinality(1 .. m - 1) = IF 1 > m - 1 THEN 0 ELSE m - 1 - 1 + 1
    BY <2>1, FS_Interval, Zenon
  <2> QED
    BY <1>1, <1>7, <2>2
<1>11. PartitionPoint(n) = m - 1
  BY <1>9, <1>10 DEF PartitionPoint
<1> QED
  BY <1>1, <1>7, <1>8, <1>11 DEF Small

\* Programs change only while they are built, or when their job is over.
LEMMA QueuedProgramsStay ==
    ASSUME IInv, [Next]_vars, NEW j \in Jobs, stage[j] \in {"sent", "queued"}
    PROVE  commands'[j] = commands[j]
<1>1. \/ commands' = commands
      \/ \E k \in Jobs : /\ stage[k] \in {"open", "held", "released"}
                         /\ \E p : commands' = [commands EXCEPT ![k] = p]
  BY DEF Next, vars, client, Start, DirectCommand, Dispatch, Receive, DrainEnds, PopRunnable,
         NothingRunnable, ClientStep, Get, DropHandle, Take, LosePipeline, End, AddCommand,
         TaskStep, Acquire, Refuse, AwaitNotified, TakeDb, RunCommand, JobEnds, JobPanics,
         ReleaseLocks, NotifyAndReply
<1> QED
  BY <1>1 DEF IInv, TypeOK

\* Only the dispatcher touches the queue.
LEMMA QueueSteps == ASSUME [Next]_vars PROVE Receive \/ PopRunnable \/ queue' = queue
  BY DEF Next, vars, Start, DirectCommand, Dispatch, DrainEnds,
         NothingRunnable, ClientStep, Get, DropHandle, Take, LosePipeline, End, AddCommand,
         TaskStep, Acquire, Refuse, AwaitNotified, TakeDb, RunCommand, JobEnds, JobPanics,
         ReleaseLocks, NotifyAndReply

\* enqueue and try_pop_runnable keep the queue sorted by size.
LEMMA SortedStep == IInv /\ QueueSorted /\ [Next]_vars => QueueSorted'
<1> SUFFICES ASSUME IInv, QueueSorted, [Next]_vars PROVE QueueSorted'
  OBVIOUS
<1> DEFINE L == Len(queue)
<1>1. /\ queue \in Seq(Jobs) /\ L \in Nat /\ DOMAIN queue = 1 .. L
      /\ \A i \in 1 .. L : queue[i] \in Jobs /\ stage[queue[i]] = "queued"
  BY DEF IInv, TypeOK, JobsAtOnePlace, Lists, AtStage
<1>2. \A i \in 1 .. L : commands'[queue[i]] = commands[queue[i]]
  BY <1>1, QueuedProgramsStay
<1>3. \A j \in Jobs : OpCount(j) \in Nat
  <2>1. \A j \in Jobs : commands[j] \in Seq(PipelineCommand)
    BY PipelineAssumption DEF IInv, TypeOK, Jobs
  <2> QED
    BY <2>1 DEF OpCount
<1>4. CASE queue' = queue
  BY <1>1, <1>2, <1>4 DEF QueueSorted, OpCount
<1>5. CASE PopRunnable
  <2>1. PICK p \in DOMAIN queue : queue' = RemoveAt(queue, p)
    BY <1>5 DEF PopRunnable
  <2>2. /\ DOMAIN queue' = 1 .. L - 1
        /\ \A i \in 1 .. L - 1 : queue'[i] = IF i < p THEN queue[i] ELSE queue[i + 1]
    BY <1>1, <2>1, RemoveAtFacts
  <2> SUFFICES ASSUME NEW i \in 1 .. L - 1, NEW k \in 1 .. L - 1, i < k
               PROVE  Len(commands'[queue'[i]]) <= Len(commands'[queue'[k]])
    BY <2>2 DEF QueueSorted, OpCount
  <2>3. PICK a \in 1 .. L, b \in 1 .. L : a < b /\ queue'[i] = queue[a] /\ queue'[k] = queue[b]
    <3>1. /\ i \in 1 .. L /\ i + 1 \in 1 .. L /\ k \in 1 .. L /\ k + 1 \in 1 .. L
          /\ i < k + 1 /\ i + 1 < k + 1 /\ p \in 1 .. L
      BY <1>1
    <3>2. CASE i < p /\ k < p
      BY <2>2, <3>1, <3>2
    <3>3. CASE i < p /\ ~(k < p)
      BY <2>2, <3>1, <3>3
    <3>4. CASE ~(i < p)
      <4>1. ~(k < p)
        BY <3>1, <3>4
      <4> QED
        BY <2>2, <3>1, <3>4, <4>1
    <3> QED
      BY <3>2, <3>3, <3>4
  <2> QED
    BY <1>1, <1>2, <2>3 DEF QueueSorted, OpCount
<1>6. CASE Receive
  <2> DEFINE j == Head(channel)
             q == PartitionPoint(OpCount(j))
  <2>1. j \in Jobs /\ stage[j] = "sent" /\ queue' = InsertAt(queue, q + 1, j)
    <3>1. channel # <<>> /\ channel \in Seq(Jobs) /\ Lists(channel, AtStage("sent"))
      BY <1>6 DEF Receive, IInv, TypeOK, JobsAtOnePlace
    <3>2. j \in AtStage("sent")
      BY <3>1, ListsTail
    <3> QED
      BY <1>6, <3>2 DEF AtStage, Receive, Enqueue
  <2> HIDE DEF j
  <2>2. commands'[j] = commands[j] /\ OpCount(j) \in Nat
    BY <1>3, <2>1, QueuedProgramsStay
  <2>3. /\ q \in 0 .. L
        /\ \A i \in 1 .. L : OpCount(queue[i]) <= OpCount(j) <=> i <= q
    BY <1>1, <2>2, PartitionPointSplits DEF IInv
  <2> HIDE DEF q
  <2>4. q + 1 \in 1 .. L + 1
    BY <1>1, <2>3
  <2>5. /\ DOMAIN queue' = 1 .. L + 1
        /\ \A i \in 1 .. L + 1 :
             queue'[i] = IF i < q + 1 THEN queue[i] ELSE IF i = q + 1 THEN j ELSE queue[i - 1]
    <3>1. PICK p \in 1 .. Len(queue) + 1 : p = q + 1
      BY <2>4
    <3>2. queue' = InsertAt(queue, p, j)
      BY <2>1, <3>1
    <3>3. queue \in Seq(Jobs) /\ j \in Jobs
      BY <1>1, <2>1
    <3>4. /\ DOMAIN InsertAt(queue, p, j) = 1 .. Len(queue) + 1
          /\ \A i \in 1 .. Len(queue) + 1 : InsertAt(queue, p, j)[i] =
               IF i < p THEN queue[i] ELSE IF i = p THEN j ELSE queue[i - 1]
      BY ONLY <3>3, p \in 1 .. Len(queue) + 1, InsertAtFacts
    <3> QED
      BY <3>1, <3>2, <3>4
  <2> SUFFICES ASSUME NEW i \in 1 .. L + 1, NEW k \in 1 .. L + 1, i < k
               PROVE  Len(commands'[queue'[i]]) <= Len(commands'[queue'[k]])
    BY <2>5 DEF QueueSorted, OpCount
  <2>6. \A m \in 1 .. L : OpCount(queue[m]) \in Nat
    BY <1>1, <1>3
  <2>7. CASE i = q + 1
    <3>1. k - 1 \in 1 .. L /\ ~(k - 1 <= q) /\ ~(k < q + 1) /\ k # q + 1
      BY <1>1, <2>3, <2>7
    <3>2. queue'[i] = j /\ queue'[k] = queue[k - 1]
      BY <2>5, <2>7, <3>1
    <3>3. OpCount(j) <= OpCount(queue[k - 1])
      BY <2>2, <2>3, <2>6, <3>1
    <3> QED
      BY <1>2, <2>2, <3>1, <3>2, <3>3 DEF OpCount
  <2>8. CASE k = q + 1
    <3>1. i \in 1 .. L /\ i <= q /\ i < q + 1
      BY <1>1, <2>3, <2>8
    <3>2. queue'[i] = queue[i] /\ queue'[k] = j
      BY <2>5, <2>8, <3>1
    <3> QED
      BY <1>2, <2>2, <2>3, <3>1, <3>2 DEF OpCount
  <2>9. CASE i # q + 1 /\ k # q + 1
    <3>1. PICK a \in 1 .. L, b \in 1 .. L : a < b /\ queue'[i] = queue[a] /\ queue'[k] = queue[b]
      <4>1. q \in Int /\ i \in Int /\ k \in Int /\ 1 <= i /\ k <= L + 1
        BY <1>1, <2>3
      <4>2. CASE k < q + 1
        <5>1. i \in 1 .. L /\ k \in 1 .. L /\ i < q + 1
          BY <1>1, <2>3, <4>1, <4>2
        <5> QED
          BY <2>5, <4>2, <5>1
      <4>3. CASE i < q + 1 /\ ~(k < q + 1)
        <5>1. i \in 1 .. L /\ k - 1 \in 1 .. L /\ i < k - 1
          BY <1>1, <2>3, <2>9, <4>1, <4>3
        <5> QED
          BY <2>5, <2>9, <4>3, <5>1
      <4>4. CASE ~(i < q + 1)
        <5>1. i - 1 \in 1 .. L /\ k - 1 \in 1 .. L /\ i - 1 < k - 1 /\ ~(k < q + 1)
          BY <1>1, <2>3, <2>9, <4>1, <4>4
        <5> QED
          BY <2>5, <2>9, <4>4, <5>1
      <4> QED
        BY <4>2, <4>3, <4>4
    <3> QED
      BY <1>1, <1>2, <3>1 DEF QueueSorted, OpCount
  <2> QED
    BY <2>7, <2>8, <2>9
<1> QED
  BY <1>4, <1>5, <1>6, QueueSteps

\* "smaller batches go first": try_pop_runnable takes no job out of the queue
\* while a smaller one waits there that needs no store beyond its own.
THEOREM SmallFirst == Spec => SmallJobsFirst
<1> DEFINE Stays(i) == \E m \in DOMAIN queue' : queue'[m] = queue[i]
           Waits(i, k) == /\ Resources(queue[k]) \subseteq Resources(queue[i])
                          /\ OpCount(queue[k]) < OpCount(queue[i])
<1>1. ASSUME IInv, QueueSorted, [Next]_vars, NEW i \in DOMAIN queue, NEW k \in DOMAIN queue,
             Waits(i, k)
      PROVE  Stays(i)
  <2> USE <1>1
  <2>0. /\ queue \in Seq(Jobs) /\ Len(queue) \in Nat /\ DOMAIN queue = 1 .. Len(queue)
        /\ Lists(queue, AtStage("queued"))
    BY DEF IInv, TypeOK, JobsAtOnePlace
  <2>1. CASE queue' = queue
    BY <2>1
  <2>2. CASE Receive
    <3> DEFINE j == Head(channel)
    <3>1. channel # <<>> /\ channel \in Seq(Jobs) /\ Lists(channel, AtStage("sent"))
      BY <2>2 DEF Receive, IInv, TypeOK, JobsAtOnePlace
    <3>2. j \in AtStage("sent")
      BY <3>1, ListsTail
    <3>3. j \in Jobs /\ j \notin AtStage("queued")
      BY <3>2 DEF AtStage
    <3>4. queue' = InsertAt(queue, PartitionPoint(OpCount(j)) + 1, j)
      BY <2>2 DEF Receive, Enqueue
    <3>5. PartitionPoint(OpCount(j)) + 1 \in 1 .. Len(queue) + 1
      BY PartitionPointInQueue DEF IInv
    <3>6. Lists(queue', AtStage("queued") \cup {j})
      BY <2>0, <3>3, <3>4, <3>5, ListsInsert
    <3>7. queue[i] \in AtStage("queued")
      BY <2>0 DEF Lists
    <3> QED
      BY <3>6, <3>7 DEF Lists
  <2>3. CASE PopRunnable
    <3>1. PICK p \in DOMAIN queue :
              /\ CanAcquire(queue[p]) /\ \A m \in 1 .. p - 1 : ~CanAcquire(queue[m])
              /\ queue' = RemoveAt(queue, p)
      BY <2>3 DEF PopRunnable
    <3>2. p # i
      <4> SUFFICES ASSUME p = i PROVE FALSE
        OBVIOUS
      <4>1. CanAcquire(queue[k])
        BY <3>1 DEF CanAcquire
      <4>2. OpCount(queue[i]) \in Nat /\ OpCount(queue[k]) \in Nat
        <5>1. queue[i] \in Jobs /\ queue[k] \in Jobs
          BY <2>0
        <5>2. /\ commands[queue[i]] \in Seq(PipelineCommand)
              /\ commands[queue[k]] \in Seq(PipelineCommand)
          BY <5>1, PipelineAssumption DEF IInv, TypeOK, Jobs
        <5> QED
          BY <5>2 DEF OpCount
      <4>3. ~(i < k) /\ i # k
        BY <4>2 DEF QueueSorted
      <4>4. k \in 1 .. p - 1
        BY <2>0, <4>3
      <4> QED
        BY <3>1, <4>1, <4>4
    <3>3. Lists(queue', AtStage("queued") \ {queue[p]})
      BY <2>0, <3>1, ListsRemove
    <3>4. queue[i] \in AtStage("queued") /\ queue[i] # queue[p]
      BY <2>0, <3>2 DEF Lists
    <3> QED
      BY <3>3, <3>4 DEF Lists
  <2> QED
    BY <2>1, <2>2, <2>3, QueueSteps
<1>2. IInv /\ QueueSorted /\ [Next]_vars =>
        [\A i, k \in DOMAIN queue :
          /\ Resources(queue[k]) \subseteq Resources(queue[i])
          /\ OpCount(queue[k]) < OpCount(queue[i])
          => \E m \in DOMAIN queue' : queue'[m] = queue[i]]_vars
  BY <1>1
<1>3. Init => QueueSorted
  BY DEF Init, QueueSorted
<1> QED
  BY <1>2, <1>3, SortedStep, PipelineInvariant, PTL DEF Spec, SmallJobsFirst
=============================================================================
