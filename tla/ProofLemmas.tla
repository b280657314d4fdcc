---------------------------- MODULE ProofLemmas ----------------------------
(***************************************************************************)
(* Facts about numbers and sequences that the proofs of several components *)
(* use.  The library states induction for operators, which the provers     *)
(* cannot instantiate; here it is stated for sets.                         *)
(***************************************************************************)
EXTENDS Integers, SequencesExt, Parts, FiniteSetTheorems, WellFoundedInduction, TLAPS

\* A set of natural numbers that is not empty has a least element.
LEMMA LeastNatural ==
    ASSUME NEW S \in SUBSET Nat, S # {}
    PROVE  \E m \in S : \A n \in S : m <= n
<1> DEFINE R == {ss \in Nat \X Nat : ss[1] < ss[2]}
<1>1. IsWellFoundedOn(R, Nat)
  BY NatLessThanWellFounded DEF OpToRel
<1> HIDE DEF R
<1>2. \E m \in S : \A n \in S : ~(<<n, m>> \in R)
  BY <1>1, WFMin, Zenon
<1>3. PICK m \in S : \A n \in S : ~(<<n, m>> \in R)
  BY <1>2
<1>4. \A n \in S : ~(n < m)
  BY <1>3 DEF R
<1>5. m \in Nat /\ \A n \in S : n \in Nat
  OBVIOUS
<1> QED
  BY <1>4, <1>5

\* Induction up to N, for the set of the numbers that have the property.
LEMMA IntervalInduction ==
    ASSUME NEW N \in Nat, NEW Good, 0 \in Good,
           \A n \in 1 .. N : n - 1 \in Good => n \in Good
    PROVE  \A n \in 0 .. N : n \in Good
<1> DEFINE Bad == {n \in 0 .. N : n \notin Good}
<1> SUFFICES ASSUME Bad # {} PROVE FALSE
  OBVIOUS
<1>1. Bad \in SUBSET Nat
  OBVIOUS
<1>2. \E m \in Bad : \A n \in Bad : m <= n
  BY <1>1, LeastNatural
<1>3. PICK m \in Bad : \A n \in Bad : m <= n
  BY <1>2
<1>4. m \in 0 .. N /\ m # 0 /\ m \notin Good
  BY <1>3
<1>5. m \in 1 .. N /\ m - 1 \in 0 .. N /\ ~(m <= m - 1)
  BY <1>4
<1>6. m - 1 \in Good
  BY <1>3, <1>5
<1> QED
  BY <1>4, <1>5, <1>6
-----------------------------------------------------------------------------
(* Sequences that hold every element once *)

LEMMA InjectiveAppend ==
    ASSUME NEW T, NEW s \in Seq(T), IsInjective(s), NEW x \in T, x \notin ToSet(s)
    PROVE  /\ Append(s, x) \in Seq(T) /\ Len(Append(s, x)) = Len(s) + 1
           /\ IsInjective(Append(s, x)) /\ ToSet(Append(s, x)) = ToSet(s) \cup {x}
           /\ s # <<>> => Head(Append(s, x)) = Head(s)
<1> DEFINE t == Append(s, x)
<1>1. /\ t \in Seq(T) /\ Len(t) = Len(s) + 1
      /\ t[Len(s) + 1] = x
      /\ \A i \in 1 .. Len(s) : t[i] = s[i]
  OBVIOUS
<1>2. DOMAIN t = 1 .. Len(s) + 1 /\ DOMAIN s = 1 .. Len(s) /\ Len(s) \in Nat
  BY <1>1
<1>3. \A i \in DOMAIN s : s[i] # x
  BY DEF ToSet
<1>4. IsInjective(t)
  BY <1>1, <1>2, <1>3 DEF IsInjective
<1>5. ToSet(t) = ToSet(s) \cup {x}
  BY <1>1, <1>2 DEF ToSet
<1>6. s # <<>> => Head(t) = Head(s)
  BY <1>1, <1>2
<1> QED
  BY <1>1, <1>4, <1>5, <1>6

LEMMA InjectiveTail ==
    ASSUME NEW T, NEW s \in Seq(T), IsInjective(s), s # <<>>
    PROVE  /\ Tail(s) \in Seq(T) /\ Len(Tail(s)) = Len(s) - 1
           /\ Head(s) \in ToSet(s) /\ Head(s) \in T
           /\ IsInjective(Tail(s)) /\ ToSet(Tail(s)) = ToSet(s) \ {Head(s)}
<1> DEFINE t == Tail(s)
<1>1. /\ t \in Seq(T) /\ Len(t) = Len(s) - 1
      /\ Len(s) \in Nat /\ Len(s) >= 1
      /\ \A i \in 1 .. Len(t) : t[i] = s[i + 1]
      /\ Head(s) = s[1]
  OBVIOUS
<1>2. DOMAIN t = 1 .. Len(s) - 1 /\ DOMAIN s = 1 .. Len(s)
  BY <1>1
<1>3. Head(s) \in ToSet(s) /\ Head(s) \in T
  BY <1>1, <1>2 DEF ToSet
<1>4. IsInjective(t)
  <2> SUFFICES ASSUME NEW i \in DOMAIN t, NEW k \in DOMAIN t, t[i] = t[k]
               PROVE  i = k
    BY DEF IsInjective
  <2>1. i + 1 \in DOMAIN s /\ k + 1 \in DOMAIN s /\ s[i + 1] = s[k + 1]
    BY <1>1, <1>2
  <2>2. i + 1 = k + 1
    BY <2>1 DEF IsInjective
  <2> QED
    BY <2>2, <1>2, <1>1
<1>5. ASSUME NEW i \in DOMAIN t PROVE t[i] \in ToSet(s) \ {Head(s)}
  <2>1. i + 1 \in DOMAIN s /\ 1 \in DOMAIN s /\ i + 1 # 1 /\ t[i] = s[i + 1]
    BY <1>1, <1>2
  <2> QED
    BY <2>1, <1>1 DEF ToSet, IsInjective
<1>6. ASSUME NEW x \in ToSet(s) \ {Head(s)} PROVE \E i \in DOMAIN t : t[i] = x
  <2>1. PICK k \in DOMAIN s : s[k] = x
    BY DEF ToSet
  <2>2. k # 1 /\ k - 1 \in DOMAIN t /\ t[k - 1] = s[k]
    BY <2>1, <1>1, <1>2
  <2> QED
    BY <2>1, <2>2
<1> QED
  BY <1>1, <1>3, <1>4, <1>5, <1>6 DEF ToSet

\* Such a sequence is as long as its set of elements is large.
LEMMA InjectiveCount ==
    ASSUME NEW T, NEW s \in Seq(T), IsInjective(s)
    PROVE  IsFiniteSet(ToSet(s)) /\ Cardinality(ToSet(s)) = Len(s)
<1>1. Len(s) \in Nat /\ DOMAIN s = 1 .. Len(s)
  OBVIOUS
<1>2. s \in [1 .. Len(s) -> ToSet(s)]
  BY <1>1 DEF ToSet
<1>3. \A x \in ToSet(s) : \E i \in 1 .. Len(s) : s[i] = x
  BY <1>1 DEF ToSet
<1>4. s \in Bijection(1 .. Len(s), ToSet(s))
  BY <1>1, <1>2, <1>3 DEF Bijection, Injection, Surjection, IsInjective
<1>5. ExistsBijection(1 .. Len(s), ToSet(s))
  BY <1>4 DEF ExistsBijection
<1> QED
  BY <1>1, <1>5, FS_CountingElements, FS_NatBijection

LEMMA InjectiveConcat ==
    ASSUME NEW T, NEW s \in Seq(T), NEW t \in Seq(T), IsInjective(s), IsInjective(t),
           ToSet(s) \cap ToSet(t) = {}
    PROVE  /\ s \o t \in Seq(T) /\ Len(s \o t) = Len(s) + Len(t)
           /\ IsInjective(s \o t) /\ ToSet(s \o t) = ToSet(s) \cup ToSet(t)
<1> DEFINE u == s \o t
           m == Len(s)
           n == Len(t)
<1>1. /\ u \in Seq(T) /\ Len(u) = m + n /\ m \in Nat /\ n \in Nat
      /\ \A i \in 1 .. m + n : u[i] = IF i <= m THEN s[i] ELSE t[i - m]
  OBVIOUS
<1>2. DOMAIN u = 1 .. m + n /\ DOMAIN s = 1 .. m /\ DOMAIN t = 1 .. n
  BY <1>1
<1> HIDE DEF u, m, n
<1>3. \A i \in 1 .. m, k \in 1 .. n : s[i] # t[k]
  BY <1>2 DEF ToSet
<1>4. IsInjective(u)
  <2> SUFFICES ASSUME NEW i \in 1 .. m + n, NEW k \in 1 .. m + n, u[i] = u[k] PROVE i = k
    BY <1>2 DEF IsInjective
  <2>1. CASE i <= m /\ k <= m
    BY <1>1, <1>2, <2>1 DEF IsInjective
  <2>2. CASE ~(i <= m) /\ ~(k <= m)
    <3>1. i - m \in 1 .. n /\ k - m \in 1 .. n /\ t[i - m] = t[k - m]
      BY <1>1, <2>2
    <3>2. i - m = k - m
      BY <1>2, <3>1 DEF IsInjective
    <3> QED
      BY <1>1, <3>2
  <2>3. CASE i <= m /\ ~(k <= m)
    <3>1. i \in 1 .. m /\ k - m \in 1 .. n /\ s[i] = t[k - m]
      BY <1>1, <2>3
    <3> QED
      BY <1>3, <3>1
  <2>4. CASE ~(i <= m) /\ k <= m
    <3>1. k \in 1 .. m /\ i - m \in 1 .. n /\ s[k] = t[i - m]
      BY <1>1, <2>4
    <3> QED
      BY <1>3, <3>1
  <2> QED
    BY <2>1, <2>2, <2>3, <2>4
<1>5. ToSet(u) = ToSet(s) \cup ToSet(t)
  <2>1. ASSUME NEW i \in 1 .. m + n PROVE u[i] \in ToSet(s) \cup ToSet(t)
    <3>1. CASE i <= m
      <4>1. i \in 1 .. m /\ u[i] = s[i]
        BY <1>1, <3>1
      <4> QED
        BY <1>2, <4>1 DEF ToSet
    <3>2. CASE ~(i <= m)
      <4>1. i - m \in 1 .. n /\ u[i] = t[i - m]
        BY <1>1, <3>2
      <4> QED
        BY <1>2, <4>1 DEF ToSet
    <3> QED
      BY <3>1, <3>2
  <2>2. ASSUME NEW i \in 1 .. m PROVE s[i] \in ToSet(u)
    <3>1. i \in 1 .. m + n /\ u[i] = s[i]
      BY <1>1
    <3> QED
      BY <1>2, <3>1 DEF ToSet
  <2>3. ASSUME NEW i \in 1 .. n PROVE t[i] \in ToSet(u)
    <3>1. i + m \in 1 .. m + n /\ ~(i + m <= m) /\ i + m - m = i
      BY <1>1
    <3>2. u[i + m] = t[i]
      BY <1>1, <3>1
    <3> QED
      BY <1>2, <3>1, <3>2 DEF ToSet
  <2> QED
    BY <1>2, <2>1, <2>2, <2>3 DEF ToSet
<1> QED
  BY <1>1, <1>4, <1>5 DEF u, m, n

LEMMA InjectiveSubSeq ==
    ASSUME NEW T, NEW s \in Seq(T), IsInjective(s),
           NEW a \in 1 .. Len(s) + 1, NEW b \in 0 .. Len(s), a <= b + 1
    PROVE  /\ SubSeq(s, a, b) \in Seq(T) /\ Len(SubSeq(s, a, b)) = b - a + 1
           /\ \A i \in 1 .. b - a + 1 : SubSeq(s, a, b)[i] = s[a + i - 1]
           /\ IsInjective(SubSeq(s, a, b))
           /\ ToSet(SubSeq(s, a, b)) = {s[i] : i \in a .. b}
<1> DEFINE u == SubSeq(s, a, b)
<1>1. Len(s) \in Nat /\ DOMAIN s = 1 .. Len(s)
  OBVIOUS
<1>2. /\ u \in Seq(T) /\ Len(u) = b - a + 1
      /\ \A i \in 1 .. b - a + 1 : u[i] = s[a + i - 1]
  BY <1>1
<1>3. DOMAIN u = 1 .. b - a + 1
  BY <1>1, <1>2
<1> HIDE DEF u
<1>4. IsInjective(u)
  <2> SUFFICES ASSUME NEW i \in 1 .. b - a + 1, NEW k \in 1 .. b - a + 1, u[i] = u[k] PROVE i = k
    BY <1>3 DEF IsInjective
  <2>1. a + i - 1 \in 1 .. Len(s) /\ a + k - 1 \in 1 .. Len(s) /\ s[a + i - 1] = s[a + k - 1]
    BY <1>1, <1>2
  <2>2. a + i - 1 = a + k - 1
    BY <1>1, <2>1 DEF IsInjective
  <2> QED
    BY <1>1, <2>2
<1>5. ASSUME NEW i \in 1 .. b - a + 1 PROVE \E k \in a .. b : u[i] = s[k]
  BY <1>1, <1>2
<1>6. ASSUME NEW k \in a .. b PROVE \E i \in 1 .. b - a + 1 : u[i] = s[k]
  <2>1. PICK i : i = k - a + 1
    OBVIOUS
  <2>2. i \in 1 .. b - a + 1 /\ a + i - 1 = k
    BY <1>1, <2>1
  <2> QED
    BY <1>2, <2>2
<1>7. ToSet(u) = {s[i] : i \in a .. b}
  <2>1. PICK n : n = b - a + 1
    OBVIOUS
  <2>2. ToSet(u) = {u[i] : i \in 1 .. n}
    BY <1>3, <2>1 DEF ToSet
  <2>3. /\ \A i \in 1 .. n : \E k \in a .. b : u[i] = s[k]
        /\ \A k \in a .. b : \E i \in 1 .. n : u[i] = s[k]
    BY <1>5, <1>6, <2>1
  <2>4. PICK I, K : I = 1 .. n /\ K = a .. b
    OBVIOUS
  <2>5. /\ \A i \in I : \E k \in K : u[i] = s[k]
        /\ \A k \in K : \E i \in I : u[i] = s[k]
    BY <2>3, <2>4
  <2>6. {u[i] : i \in I} = {s[i] : i \in K}
    BY ONLY <2>5
  <2> QED
    BY <2>2, <2>4, <2>6
<1> QED
  BY <1>2, <1>4, <1>7 DEF u

\* drain(a..b) of s: the run it takes out and the rest.
IsDrain(s, a, b, run, rest) ==
    /\ a \in 0 .. Len(s) /\ b \in a .. Len(s) /\ run = SubSeq(s, a + 1, b)
    /\ rest = SubSeq(s, 1, a) \o SubSeq(s, b + 1, Len(s))

LEMMA InjectiveDrain ==
    ASSUME NEW T, NEW s \in Seq(T), IsInjective(s),
           NEW a, NEW b, NEW run, NEW rest, IsDrain(s, a, b, run, rest)
    PROVE  /\ run \in Seq(T) /\ IsInjective(run) /\ rest \in Seq(T) /\ IsInjective(rest)
           /\ ToSet(run) \cap ToSet(rest) = {} /\ ToSet(run) \cup ToSet(rest) = ToSet(s)
<1> SUFFICES ASSUME a \in 0 .. Len(s), b \in a .. Len(s), run = SubSeq(s, a + 1, b),
                    rest = SubSeq(s, 1, a) \o SubSeq(s, b + 1, Len(s))
             PROVE  /\ run \in Seq(T) /\ IsInjective(run) /\ rest \in Seq(T) /\ IsInjective(rest)
                    /\ ToSet(run) \cap ToSet(rest) = {} /\ ToSet(run) \cup ToSet(rest) = ToSet(s)
  BY DEF IsDrain
<1> DEFINE x == SubSeq(s, 1, a)
           y == SubSeq(s, b + 1, Len(s))
           n == Len(s)
<1>1. n \in Nat /\ DOMAIN s = 1 .. n
  OBVIOUS
<1>2. run \in Seq(T) /\ IsInjective(run) /\ ToSet(run) = {s[i] : i \in a + 1 .. b}
  <2>1. PICK p \in 1 .. Len(s) + 1 : p = a + 1
    BY <1>1
  <2>2. PICK q \in 0 .. Len(s) : q = b
    BY <1>1
  <2>3. p <= q + 1
    BY <1>1, <2>1, <2>2
  <2>4. /\ SubSeq(s, p, q) \in Seq(T) /\ IsInjective(SubSeq(s, p, q))
        /\ ToSet(SubSeq(s, p, q)) = {s[i] : i \in p .. q}
    BY <2>3, InjectiveSubSeq
  <2> QED
    BY <2>1, <2>2, <2>4
<1>3. x \in Seq(T) /\ IsInjective(x) /\ ToSet(x) = {s[i] : i \in 1 .. a}
  <2>1. 1 \in 1 .. n + 1 /\ a \in 0 .. n /\ 1 <= a + 1
    BY <1>1
  <2> QED
    BY <2>1, InjectiveSubSeq
<1>4. y \in Seq(T) /\ IsInjective(y) /\ ToSet(y) = {s[i] : i \in b + 1 .. n}
  <2>1. PICK p : p = b + 1 /\ p \in 1 .. n + 1 /\ p <= n + 1
    BY <1>1
  <2>2. n \in 0 .. n
    BY <1>1
  <2>3. y = SubSeq(s, p, n)
    BY <2>1
  <2> HIDE DEF y
  <2> QED
    BY <2>1, <2>2, <2>3, InjectiveSubSeq
<1> HIDE DEF x, y
<1>5. \A i, k \in 1 .. n : s[i] = s[k] => i = k
  BY <1>1 DEF IsInjective
<1>6. ToSet(x) \cap ToSet(y) = {}
  BY <1>1, <1>3, <1>4, <1>5
<1>7. /\ rest \in Seq(T) /\ IsInjective(rest)
      /\ ToSet(rest) = ToSet(x) \cup ToSet(y)
  <2>1. rest = x \o y
    BY DEF x, y
  <2>2. PICK u \in Seq(T), v \in Seq(T) : u = x /\ v = y
    BY <1>3, <1>4
  <2>3. IsInjective(u) /\ IsInjective(v) /\ ToSet(u) \cap ToSet(v) = {}
    BY <1>3, <1>4, <1>6, <2>2
  <2>4. /\ u \o v \in Seq(T) /\ IsInjective(u \o v)
        /\ ToSet(u \o v) = ToSet(u) \cup ToSet(v)
    BY <2>3, InjectiveConcat
  <2> QED
    BY <2>1, <2>2, <2>4
<1>8. ToSet(run) \cap ToSet(rest) = {}
  BY <1>1, <1>2, <1>3, <1>4, <1>5, <1>7
<1>9. ToSet(s) = {s[i] : i \in 1 .. n}
  BY <1>1 DEF ToSet
<1>10. ToSet(run) \cup ToSet(rest) = ToSet(s)
  <2>1. \A i : i \in 1 .. n <=> i \in a + 1 .. b \/ i \in 1 .. a \/ i \in b + 1 .. n
    BY <1>1
  <2>2. PICK I, J, K, L : I = 1 .. n /\ J = a + 1 .. b /\ K = 1 .. a /\ L = b + 1 .. n
    OBVIOUS
  <2>3. \A i : i \in I <=> i \in J \/ i \in K \/ i \in L
    BY <2>1, <2>2
  <2>4. {s[i] : i \in J} \cup ({s[i] : i \in K} \cup {s[i] : i \in L}) = {s[i] : i \in I}
    BY ONLY <2>3
  <2> QED
    BY <1>2, <1>3, <1>4, <1>7, <1>9, <2>2, <2>4
<1> QED
  BY <1>2, <1>7, <1>8, <1>10
LEMMA DrainElements ==
    ASSUME NEW T, NEW s \in Seq(T),
           NEW a, NEW b, NEW run, NEW rest, IsDrain(s, a, b, run, rest)
    PROVE  /\ run \in Seq(T) /\ Len(run) = b - a
           /\ \A i \in 1 .. b - a : run[i] = s[a + i]
           /\ rest \in Seq(T) /\ Len(rest) = Len(s) - (b - a)
           /\ \A i \in 1 .. Len(rest) : rest[i] = IF i <= a THEN s[i] ELSE s[i + (b - a)]
<1> SUFFICES ASSUME a \in 0 .. Len(s), b \in a .. Len(s), run = SubSeq(s, a + 1, b),
                    rest = SubSeq(s, 1, a) \o SubSeq(s, b + 1, Len(s))
             PROVE  /\ run \in Seq(T) /\ Len(run) = b - a
                    /\ \A i \in 1 .. b - a : run[i] = s[a + i]
                    /\ rest \in Seq(T) /\ Len(rest) = Len(s) - (b - a)
                    /\ \A i \in 1 .. Len(rest) : rest[i] = IF i <= a THEN s[i] ELSE s[i + (b - a)]
  BY DEF IsDrain
<1> DEFINE x == SubSeq(s, 1, a)
           y == SubSeq(s, b + 1, Len(s))
           n == Len(s)
<1>1. n \in Nat
  OBVIOUS
<1>2. run \in Seq(T) /\ Len(run) = b - a /\ \A i \in 1 .. b - a : run[i] = s[a + i]
  BY <1>1
<1>3. x \in Seq(T) /\ Len(x) = a /\ \A i \in 1 .. a : x[i] = s[i]
  BY <1>1
<1>4. y \in Seq(T) /\ Len(y) = n - b /\ \A i \in 1 .. n - b : y[i] = s[b + i]
  BY <1>1
<1>5. rest = x \o y
  OBVIOUS
<1> HIDE DEF x, y, n
<1>6. /\ rest \in Seq(T) /\ Len(rest) = a + (n - b)
      /\ \A i \in 1 .. a + (n - b) : rest[i] = IF i <= a THEN x[i] ELSE y[i - a]
  <2>1. x \in Seq(T) /\ y \in Seq(T)
    BY <1>3, <1>4
  <2>2. /\ x \o y \in Seq(T) /\ Len(x \o y) = Len(x) + Len(y)
        /\ \A i \in 1 .. Len(x) + Len(y) : (x \o y)[i] = IF i <= Len(x) THEN x[i] ELSE y[i - Len(x)]
    BY ONLY <2>1
  <2> QED
    BY ONLY <1>3, <1>4, <1>5, <2>2, Zenon
<1>7. a \in Int /\ b \in Int /\ n \in Int /\ Len(rest) = n - (b - a)
  BY <1>1, <1>6 DEF n
<1>8. ASSUME NEW i \in 1 .. Len(rest)
      PROVE  rest[i] = IF i <= a THEN s[i] ELSE s[i + (b - a)]
  <2>1. CASE i <= a
    BY <1>3, <1>6, <2>1
  <2>2. CASE ~(i <= a)
    <3>1. PICK j : j = i - a
      OBVIOUS
    <3>2. j \in 1 .. n - b /\ b + j = i + (b - a)
      <4>1. PICK r : r = Len(rest)
        OBVIOUS
      <4>2. i \in 1 .. r
        BY <4>1, Zenon
      <4> QED
        BY ONLY <1>7, <2>2, <3>1, <4>1, <4>2
    <3>4. rest[i] = y[j]
      <4>1. i \in 1 .. a + (n - b)
        BY <1>6, Zenon
      <4>2. rest[i] = y[i - a]
        BY ONLY <1>6, <2>2, <4>1, Zenon
      <4> QED
        BY ONLY <3>1, <4>2, Zenon
    <3>3. y[j] = s[b + j]
      BY <1>4, <3>2
    <3> QED
      BY <2>2, <3>2, <3>3, <3>4
  <2> QED
    BY <2>1, <2>2
<1> QED
  BY <1>2, <1>6, <1>7, <1>8 DEF n

-----------------------------------------------------------------------------
(* Loops *)

\* N rounds over states in V, D[i] what round i does, and g[i] the state after it.
Rounds(V, N) == [1 .. N -> [V -> V]]
Loops(V, N, c, D, g) ==
    g \in [0 .. N -> V] /\ g[0] = c /\ \A i \in 1 .. N : g[i] = D[i][g[i - 1]]

LEMMA FiniteRecursion ==
    ASSUME NEW V, NEW N \in Nat, NEW c \in V, NEW D \in Rounds(V, N)
    PROVE  \E g : Loops(V, N, c, D, g)
<1> SUFFICES ASSUME D \in [1 .. N -> [V -> V]]
             PROVE  \E g \in [0 .. N -> V] : g[0] = c /\ \A i \in 1 .. N : g[i] = D[i][g[i - 1]]
  BY DEF Rounds, Loops
<1> DEFINE P(n) == \E g \in [0 .. n -> V] : g[0] = c /\ \A i \in 1 .. n : g[i] = D[i][g[i - 1]]
           Good == {n \in 0 .. N : P(n)}
<1>1. 0 \in Good
  <2>1. PICK g : g = [i \in 0 .. 0 |-> c]
    OBVIOUS
  <2>2. g \in [0 .. 0 -> V] /\ g[0] = c /\ \A i \in 1 .. 0 : g[i] = D[i][g[i - 1]]
    BY <2>1
  <2> QED
    BY <2>2
<1>2. ASSUME NEW n \in 1 .. N, n - 1 \in Good PROVE n \in Good
  <2>1. PICK g \in [0 .. n - 1 -> V] :
          g[0] = c /\ \A i \in 1 .. n - 1 : g[i] = D[i][g[i - 1]]
    BY <1>2
  <2>2. PICK v : v = D[n][g[n - 1]]
    OBVIOUS
  <2>3. v \in V
    BY <2>1, <2>2
  <2>4. PICK h : h = [i \in 0 .. n |-> IF i = n THEN v ELSE g[i]]
    OBVIOUS
  <2>5. h \in [0 .. n -> V]
    BY <2>1, <2>3, <2>4
  <2>6. h[0] = c
    BY <2>1, <2>4
  <2>7. \A i \in 1 .. n : h[i] = D[i][h[i - 1]]
    <3> SUFFICES ASSUME NEW i \in 1 .. n PROVE h[i] = D[i][h[i - 1]]
      OBVIOUS
    <3>1. i - 1 \in 0 .. n /\ i - 1 # n /\ i \in 0 .. n
      OBVIOUS
    <3>2. h[i - 1] = g[i - 1]
      BY <2>4, <3>1
    <3>3. CASE i = n
      BY <2>2, <2>4, <3>1, <3>2, <3>3
    <3>4. CASE i # n
      BY <2>1, <2>4, <3>1, <3>2, <3>4
    <3> QED
      BY <3>3, <3>4
  <2>8. n \in 0 .. N /\ P(n)
    BY ONLY <2>5, <2>6, <2>7, n \in 1 .. N, N \in Nat
  <2> QED
    BY ONLY <2>8
<1>3. \A n \in 1 .. N : n - 1 \in Good => n \in Good
  BY <1>2
<1> HIDE DEF Good
<1>4. \A n \in 0 .. N : n \in Good
  BY ONLY <1>1, <1>3, N \in Nat, IntervalInduction
<1> QED
  BY <1>4 DEF Good
-----------------------------------------------------------------------------
(* Sequences of anything *)

AList(s) == Len(s) \in Nat /\ s = [i \in 1 .. Len(s) |-> s[i]]

LEMMA SeqIsAList == ASSUME NEW T, NEW s \in Seq(T) PROVE AList(s)
  BY DEF AList

LEMMA ListIsASeq == ASSUME NEW s, AList(s) PROVE \E T : s \in Seq(T)
<1>1. PICK T : T = {s[i] : i \in 1 .. Len(s)}
  OBVIOUS
<1>2. s \in [1 .. Len(s) -> T]
  BY <1>1 DEF AList
<1>3. s \in Seq(T)
  BY <1>2 DEF AList
<1> QED
  BY <1>3

LEMMA ListAppend ==
    ASSUME NEW s, AList(s), NEW e
    PROVE  /\ AList(Append(s, e)) /\ Len(Append(s, e)) = Len(s) + 1
           /\ Append(s, e)[Len(s) + 1] = e
           /\ \A i \in 1 .. Len(s) : Append(s, e)[i] = s[i]
<1>1. PICK T : s \in Seq(T)
  BY ListIsASeq
<1>2. PICK U : U = T \cup {e}
  OBVIOUS
<1>3. s \in Seq(U) /\ e \in U
  BY <1>1, <1>2
<1>4. PICK t : t = Append(s, e)
  OBVIOUS
<1>5. t \in Seq(U) /\ Len(t) = Len(s) + 1 /\ t[Len(s) + 1] = e
      /\ \A i \in 1 .. Len(s) : t[i] = s[i]
  BY ONLY <1>3, <1>4
<1>6. AList(t)
  BY ONLY <1>5, SeqIsAList
<1> QED
  BY ONLY <1>4, <1>5, <1>6, Zenon

LEMMA ListTail ==
    ASSUME NEW s, AList(s), s # <<>>
    PROVE  /\ Len(s) \in Nat \ {0} /\ AList(Tail(s)) /\ Len(Tail(s)) = Len(s) - 1
           /\ Head(s) = s[1] /\ \A i \in 1 .. Len(s) - 1 : Tail(s)[i] = s[i + 1]
<1>1. PICK T : s \in Seq(T)
  BY ListIsASeq
<1>2. Tail(s) \in Seq(T) /\ Len(s) \in Nat \ {0} /\ Len(Tail(s)) = Len(s) - 1
      /\ Head(s) = s[1] /\ \A i \in 1 .. Len(s) - 1 : Tail(s)[i] = s[i + 1]
  BY ONLY <1>1, s # <<>>
<1> QED
  BY <1>2, SeqIsAList

LEMMA SameList ==
    ASSUME NEW s, NEW t, AList(s), AList(t), Len(s) = Len(t),
           \A i \in 1 .. Len(s) : s[i] = t[i]
    PROVE  s = t
  BY DEF AList

\* A list that is not empty is its front and its last element.
LEMMA ListFront ==
    ASSUME NEW s, AList(s), s # <<>>
    PROVE  /\ Len(s) \in Nat \ {0} /\ AList(Front(s)) /\ Len(Front(s)) = Len(s) - 1
           /\ Last(s) = s[Len(s)] /\ \A i \in 1 .. Len(s) - 1 : Front(s)[i] = s[i]
           /\ s = Append(Front(s), Last(s))
<1>1. PICK T : s \in Seq(T)
  BY ListIsASeq
<1>2. Len(s) \in Nat \ {0}
  BY <1>1
<1>3. Front(s) \in Seq(T) /\ Len(Front(s)) = Len(s) - 1 /\ Last(s) = s[Len(s)]
      /\ \A i \in 1 .. Len(s) - 1 : Front(s)[i] = s[i]
  <2>1. PICK n, f : n = Len(s) - 1 /\ f = SubSeq(s, 1, n)
    OBVIOUS
  <2>2. n \in 0 .. Len(s)
    BY <1>2, <2>1
  <2>3. PICK a : a = 1
    OBVIOUS
  <2>4. /\ SubSeq(s, a, n) \in Seq(T) /\ Len(SubSeq(s, a, n)) = n - a + 1
        /\ \A i \in 1 .. n - a + 1 : SubSeq(s, a, n)[i] = s[a + i - 1]
    <3>1. a \in 1 .. Len(s) + 1 /\ a <= n + 1
      BY ONLY <1>2, <2>2, <2>3
    <3> QED
      BY ONLY <1>1, <1>2, <2>2, <3>1
  <2>5. f \in Seq(T) /\ Len(f) = n /\ \A i \in 1 .. n : f[i] = s[i]
    BY ONLY <1>2, <2>1, <2>2, <2>3, <2>4
  <2> QED
    BY <2>1, <2>5 DEF Front, Last
<1>4. PICK f, l : f = Front(s) /\ l = Last(s)
  OBVIOUS
<1>5. l \in T
  BY <1>1, <1>2, <1>3, <1>4
<1>6. AList(s) /\ AList(f)
  BY <1>3, <1>4, SeqIsAList
<1>7. PICK t : t = Append(f, l)
  OBVIOUS
<1>8. /\ AList(t) /\ Len(t) = Len(f) + 1 /\ t[Len(f) + 1] = l
      /\ \A i \in 1 .. Len(f) : t[i] = f[i]
  BY ONLY <1>6, <1>7, ListAppend, Zenon
<1>9. Len(s) = Len(t) /\ \A i \in 1 .. Len(s) : s[i] = t[i]
  BY ONLY <1>2, <1>3, <1>4, <1>8
<1>10. s = t
  BY ONLY <1>6, <1>8, <1>9, SameList
<1> QED
  BY <1>2, <1>3, <1>4, <1>6, <1>7, <1>10

LEMMA EmptyList ==
    /\ AList(<<>>) /\ Len(<<>>) = 0
    /\ \A s : AList(s) /\ Len(s) = 0 => s = <<>>
<1>1. <<>> \in Seq({}) /\ Len(<<>>) = 0
  OBVIOUS
<1>2. AList(<<>>)
  BY <1>1, SeqIsAList
<1> QED
  BY <1>1, <1>2, SameList
-----------------------------------------------------------------------------
(* The loop that picks entries *)

TakesPart(s, chosen, taken) ==
    /\ Part(s, chosen) = taken[Len(s)] /\ taken[0] = <<>>
    /\ \A n \in 1 .. Len(s) :
          taken[n] = IF n \in chosen THEN Append(taken[n - 1], s[n]) ELSE taken[n - 1]
    /\ taken \in [0 .. Len(s) -> Seq({s[i] : i \in chosen \cap 1 .. Len(s)})]

LEMMA PartLoop ==
    ASSUME NEW s, AList(s), NEW chosen
    PROVE  \E taken : TakesPart(s, chosen, taken)
<1>1. PICK N \in Nat : N = Len(s)
  BY DEF AList
<1>2. PICK V, X : X = {s[i] : i \in chosen \cap 1 .. N} /\ V = Seq(X)
  OBVIOUS
<1> DEFINE Round(i, x) == IF i \in chosen THEN Append(x, s[i]) ELSE x
           Body(g) == [i \in 0 .. N |-> IF i = 0 THEN <<>> ELSE Round(i, g[i - 1])]
<1>3. ASSUME NEW i \in 1 .. N, NEW x \in V PROVE Round(i, x) \in V
  <2>1. i \in chosen => s[i] \in X
    BY <1>2
  <2> QED
    BY <1>2, <2>1
<1>4. PICK c : c = <<>>
  OBVIOUS
<1>5. c \in V
  BY <1>2, <1>4
<1> HIDE DEF Round
<1>6. PICK D : D = [i \in 1 .. N |-> [x \in V |-> Round(i, x)]]
  OBVIOUS
<1>7. D \in Rounds(V, N)
  BY <1>3, <1>6 DEF Rounds
<1>8. PICK g : Loops(V, N, c, D, g)
  BY ONLY <1>5, <1>7, N \in Nat, FiniteRecursion, Zenon
<1>9. g \in [0 .. N -> V] /\ g[0] = c /\ \A i \in 1 .. N : g[i] = D[i][g[i - 1]]
  BY <1>8 DEF Loops
<1>10. \A i \in 1 .. N : i - 1 \in 0 .. N /\ g[i] = Round(i, g[i - 1])
  BY <1>6, <1>9
<1>11. g = Body(g)
  BY <1>4, <1>9, <1>10
<1>12. PICK taken : taken = CHOOSE f : f = Body(f)
  OBVIOUS
<1>13. taken = Body(taken)
  BY <1>11, <1>12
<1>14. taken[0] = <<>> /\ \A i \in 1 .. N : taken[i] = Round(i, taken[i - 1])
  BY <1>13
<1>15. \A n \in 0 .. N : taken[n] = g[n]
  <2> DEFINE Good == {n \in 0 .. N : taken[n] = g[n]}
  <2>1. 0 \in Good
    BY <1>4, <1>9, <1>14
  <2>2. \A n \in 1 .. N : n - 1 \in Good => n \in Good
    BY <1>10, <1>14
  <2> HIDE DEF Good
  <2>3. \A n \in 0 .. N : n \in Good
    BY <2>1, <2>2, IntervalInduction
  <2> QED
    BY <2>3 DEF Good
<1>16. taken \in [0 .. N -> V]
  <2>1. taken = [i \in 0 .. N |-> taken[i]]
    BY <1>13
  <2>2. \A i \in 0 .. N : taken[i] \in V
    BY <1>9, <1>15
  <2> QED
    BY ONLY <2>1, <2>2
<1>17. Part(s, chosen) = taken[N]
  BY <1>1, <1>12 DEF Part, Round
<1>18. \A n \in 1 .. N :
          taken[n] = IF n \in chosen THEN Append(taken[n - 1], s[n]) ELSE taken[n - 1]
  BY <1>14 DEF Round
<1>19. TakesPart(s, chosen, taken)
  BY ONLY <1>1, <1>2, <1>14, <1>16, <1>17, <1>18 DEF TakesPart
<1> QED
  BY <1>19

\* A part is a list of chosen elements.
ChosenFrom(s, chosen, p) ==
    AList(p) /\ \A i \in 1 .. Len(p) : \E n \in 1 .. Len(s) : n \in chosen /\ p[i] = s[n]

LEMMA PartElements ==
    ASSUME NEW s, AList(s), NEW chosen
    PROVE  ChosenFrom(s, chosen, Part(s, chosen))
<1>1. PICK taken : TakesPart(s, chosen, taken)
  BY PartLoop
<1>2. PICK X, p : X = {s[i] : i \in chosen \cap 1 .. Len(s)} /\ p = Part(s, chosen)
  OBVIOUS
<1>3. p \in Seq(X)
  BY <1>1, <1>2 DEF TakesPart, AList
<1>4. AList(p)
  BY <1>3, SeqIsAList
<1>5. \A i \in 1 .. Len(p) : p[i] \in X
  BY ONLY <1>3
<1>6. ChosenFrom(s, chosen, p)
  BY ONLY <1>2, <1>4, <1>5 DEF ChosenFrom
<1> QED
  BY ONLY <1>2, <1>6, Zenon

\* One more element is taken or not, and changes nothing before it.
LEMMA PartAppend ==
    ASSUME NEW s, AList(s), NEW e, NEW chosen, NEW more,
           \A i \in 1 .. Len(s) : i \in chosen <=> i \in more
    PROVE  Part(Append(s, e), more) =
              IF Len(s) + 1 \in more THEN Append(Part(s, chosen), e) ELSE Part(s, chosen)
<1>1. PICK t : t = Append(s, e)
  OBVIOUS
<1>2. PICK N \in Nat : N = Len(s)
  BY DEF AList
<1>3. AList(t) /\ Len(t) = N + 1 /\ t[N + 1] = e /\ \A i \in 1 .. N : t[i] = s[i]
  BY ONLY <1>1, <1>2, AList(s), ListAppend
<1>4. PICK f : TakesPart(s, chosen, f)
  BY PartLoop
<1>5. PICK g : TakesPart(t, more, g)
  BY <1>3, PartLoop
<1>6. \A n \in 0 .. N : f[n] = g[n]
  <2> DEFINE Good == {n \in 0 .. N : f[n] = g[n]}
  <2>1. 0 \in Good
    BY <1>4, <1>5 DEF TakesPart
  <2>2. \A n \in 1 .. N : n - 1 \in Good => n \in Good
    <3> SUFFICES ASSUME NEW n \in 1 .. N, n - 1 \in Good PROVE n \in Good
      OBVIOUS
    <3>1. f[n] = IF n \in chosen THEN Append(f[n - 1], s[n]) ELSE f[n - 1]
      BY <1>2, <1>4 DEF TakesPart
    <3>2. g[n] = IF n \in more THEN Append(g[n - 1], t[n]) ELSE g[n - 1]
      BY <1>3, <1>5 DEF TakesPart
    <3>3. t[n] = s[n] /\ (n \in chosen <=> n \in more)
      BY <1>2, <1>3
    <3> QED
      BY <3>1, <3>2, <3>3
  <2> HIDE DEF Good
  <2>3. \A n \in 0 .. N : n \in Good
    BY <2>1, <2>2, IntervalInduction
  <2> QED
    BY <2>3 DEF Good
<1>7. Part(s, chosen) = f[N] /\ Part(t, more) = g[N + 1]
  BY <1>2, <1>3, <1>4, <1>5 DEF TakesPart
<1>8. g[N + 1] = IF N + 1 \in more THEN Append(g[N], e) ELSE g[N]
  BY <1>3, <1>5 DEF TakesPart
<1> QED
  BY <1>1, <1>2, <1>6, <1>7, <1>8

LEMMA PartEmpty == ASSUME NEW chosen PROVE Part(<<>>, chosen) = <<>>
<1>1. PICK f : TakesPart(<<>>, chosen, f)
  BY EmptyList, PartLoop
<1> QED
  BY <1>1, EmptyList DEF TakesPart
-----------------------------------------------------------------------------
(* One sequence behind the other *)

Joined(x, y, z) ==
    /\ AList(z) /\ Len(z) = Len(x) + Len(y)
    /\ \A i \in 1 .. Len(x) : z[i] = x[i]
    /\ \A i \in 1 .. Len(y) : z[Len(x) + i] = y[i]

Longer(s, e, t) ==
    /\ AList(t) /\ Len(t) = Len(s) + 1 /\ t[Len(s) + 1] = e
    /\ \A i \in 1 .. Len(s) : t[i] = s[i]

LEMMA ListLonger == ASSUME NEW s, AList(s), NEW e PROVE Longer(s, e, Append(s, e))
<1>1. PICK t : t = Append(s, e)
  OBVIOUS
<1>2. /\ AList(t) /\ Len(t) = Len(s) + 1 /\ t[Len(s) + 1] = e
      /\ \A i \in 1 .. Len(s) : t[i] = s[i]
  BY ONLY <1>1, AList(s), ListAppend, Zenon
<1>3. Longer(s, e, t)
  BY ONLY <1>2, Zenon DEF Longer
<1> QED
  BY ONLY <1>1, <1>3, Zenon

LEMMA ListConcat ==
    ASSUME NEW x, AList(x), NEW y, AList(y)
    PROVE  Joined(x, y, x \o y)
<1>1. PICK T : x \in Seq(T)
  BY ListIsASeq
<1>2. PICK U : y \in Seq(U)
  BY ListIsASeq
<1>3. PICK V : V = T \cup U
  OBVIOUS
<1>4. x \in Seq(V) /\ y \in Seq(V)
  BY ONLY <1>1, <1>2, <1>3
<1>5. PICK z : z = x \o y
  OBVIOUS
<1>6. /\ z \in Seq(V) /\ Len(z) = Len(x) + Len(y)
      /\ \A i \in 1 .. Len(x) : z[i] = x[i]
      /\ \A i \in 1 .. Len(y) : z[Len(x) + i] = y[i]
  BY ONLY <1>4, <1>5
<1>7. AList(z)
  BY ONLY <1>6, SeqIsAList
<1>8. Joined(x, y, z)
  BY ONLY <1>6, <1>7, Zenon DEF Joined
<1> QED
  BY ONLY <1>5, <1>8, Zenon

LEMMA ConcatEmpty ==
    ASSUME NEW x, AList(x)
    PROVE  x \o <<>> = x
<1>1. PICK z : z = x \o <<>>
  OBVIOUS
<1>2. PICK N \in Nat : N = Len(x)
  BY DEF AList
<1>3. AList(z) /\ Len(z) = Len(x) + Len(<<>>) /\ \A i \in 1 .. Len(x) : z[i] = x[i]
  <2>1. Joined(x, <<>>, z)
    BY ONLY <1>1, AList(x), EmptyList, ListConcat, Zenon
  <2> QED
    BY ONLY <2>1 DEF Joined
<1>4. Len(z) = Len(x)
  BY ONLY <1>2, <1>3, EmptyList
<1> QED
  BY ONLY <1>1, <1>3, <1>4, AList(x), SameList

\* An element behind the second is the last of all.
LEMMA ConcatLast ==
    ASSUME NEW x, AList(x), NEW y, AList(y), NEW e
    PROVE  y \o <<e>> = Append(y, e) /\ x \o Append(y, e) = Append(x \o y, e)
<1>1. PICK M \in Nat, N \in Nat : M = Len(x) /\ N = Len(y)
  BY DEF AList
<1>2. PICK o, a, b, z : o = <<e>> /\ a = y \o o /\ b = Append(y, e) /\ z = x \o y
  OBVIOUS
<1>3. PICK p, q : p = x \o b /\ q = Append(z, e)
  OBVIOUS
<1>4. AList(o) /\ Len(o) = 1 /\ o[1] = e
  <2>1. o \in Seq({e}) /\ Len(o) = 1 /\ o[1] = e
    BY ONLY <1>2
  <2> QED
    BY ONLY <2>1, SeqIsAList
<1>5. /\ AList(a) /\ Len(a) = Len(y) + Len(o)
      /\ \A i \in 1 .. Len(y) : a[i] = y[i]
      /\ \A i \in 1 .. Len(o) : a[Len(y) + i] = o[i]
  <2>1. Joined(y, o, a)
    BY ONLY <1>2, <1>4, AList(y), ListConcat, Zenon
  <2> QED
    BY ONLY <2>1, Zenon DEF Joined
<1>6. AList(b) /\ Len(b) = Len(y) + 1 /\ b[Len(y) + 1] = e /\ \A i \in 1 .. Len(y) : b[i] = y[i]
  <2>1. Longer(y, e, b)
    BY ONLY <1>2, AList(y), ListLonger, Zenon
  <2> QED
    BY ONLY <2>1, Zenon DEF Longer
<1>7. a = b
  <2>1. Len(a) = N + 1 /\ a[N + 1] = e /\ \A i \in 1 .. N : a[i] = y[i]
    BY ONLY <1>1, <1>4, <1>5
  <2>2. Len(a) = Len(b) /\ \A i \in 1 .. Len(a) : a[i] = b[i]
    BY ONLY <1>1, <1>6, <2>1
  <2> QED
    BY ONLY <1>5, <1>6, <2>2, SameList
<1>8. /\ AList(z) /\ Len(z) = Len(x) + Len(y)
      /\ \A i \in 1 .. Len(x) : z[i] = x[i]
      /\ \A i \in 1 .. Len(y) : z[Len(x) + i] = y[i]
  <2>1. Joined(x, y, z)
    BY ONLY <1>2, AList(x), AList(y), ListConcat, Zenon
  <2> QED
    BY ONLY <2>1, Zenon DEF Joined
<1>9. AList(q) /\ Len(q) = Len(z) + 1 /\ q[Len(z) + 1] = e /\ \A i \in 1 .. Len(z) : q[i] = z[i]
  <2>1. Longer(z, e, q)
    BY ONLY <1>3, <1>8, ListLonger, Zenon
  <2> QED
    BY ONLY <2>1, Zenon DEF Longer
<1>10. /\ AList(p) /\ Len(p) = Len(x) + Len(b)
       /\ \A i \in 1 .. Len(x) : p[i] = x[i]
       /\ \A i \in 1 .. Len(b) : p[Len(x) + i] = b[i]
  <2>1. Joined(x, b, p)
    BY ONLY <1>3, <1>6, AList(x), ListConcat, Zenon
  <2> QED
    BY ONLY <2>1, Zenon DEF Joined
<1>11. Len(p) = M + N + 1 /\ Len(q) = M + N + 1
  BY ONLY <1>1, <1>6, <1>8, <1>9, <1>10
<1>12. \A i \in 1 .. Len(p) : p[i] = q[i]
  <2> SUFFICES \A i \in 1 .. M + N + 1 : p[i] = q[i]
    BY <1>11
  <2> TAKE i \in 1 .. M + N + 1
  <2>1. CASE i \in 1 .. M
    BY ONLY <1>1, <1>8, <1>9, <1>10, <2>1
  <2>2. CASE i \in M + 1 .. M + N
    <3>1. PICK j \in 1 .. N : i = M + j
      <4>1. i - M \in 1 .. N /\ i = M + (i - M)
        BY ONLY <1>1, <2>2
      <4> QED
        BY ONLY <4>1
    <3>2. p[M + j] = y[j]
      BY ONLY <1>1, <1>6, <1>10
    <3>3. q[M + j] = y[j]
      BY ONLY <1>1, <1>8, <1>9
    <3> QED
      BY ONLY <3>1, <3>2, <3>3
  <2>3. CASE i = M + N + 1
    <3>1. p[M + (N + 1)] = e
      BY ONLY <1>1, <1>6, <1>10
    <3>2. q[M + N + 1] = e
      BY ONLY <1>1, <1>8, <1>9
    <3> QED
      BY ONLY <1>1, <2>3, <3>1, <3>2
  <2> QED
    BY ONLY <1>1, <2>1, <2>2, <2>3
<1>13. p = q
  BY ONLY <1>9, <1>10, <1>11, <1>12, SameList
<1> QED
  BY ONLY <1>2, <1>3, <1>7, <1>13, Zenon

\* The first element of the second may as well be the last of the first.
LEMMA ConcatMove ==
    ASSUME NEW x, AList(x), NEW y, AList(y), y # <<>>
    PROVE  Append(x, Head(y)) \o Tail(y) = x \o y
<1>1. PICK M \in Nat, N \in Nat \ {0} : M = Len(x) /\ N = Len(y)
  BY ListTail DEF AList
<1>2. PICK e, t : e = Head(y) /\ t = Tail(y)
  OBVIOUS
<1>3. PICK b : b = Append(x, e)
  OBVIOUS
<1>4. PICK p, q : p = b \o t /\ q = x \o y
  OBVIOUS
<1>5. AList(t) /\ Len(t) = Len(y) - 1 /\ e = y[1] /\ \A i \in 1 .. Len(y) - 1 : t[i] = y[i + 1]
  BY ONLY <1>2, AList(y), y # <<>>, ListTail, Zenon
<1>6. AList(b) /\ Len(b) = Len(x) + 1 /\ b[Len(x) + 1] = e /\ \A i \in 1 .. Len(x) : b[i] = x[i]
  <2>1. Longer(x, e, b)
    BY ONLY <1>3, AList(x), ListLonger, Zenon
  <2> QED
    BY ONLY <2>1, Zenon DEF Longer
<1>7. /\ AList(p) /\ Len(p) = Len(b) + Len(t)
      /\ \A i \in 1 .. Len(b) : p[i] = b[i]
      /\ \A i \in 1 .. Len(t) : p[Len(b) + i] = t[i]
  <2>1. Joined(b, t, p)
    BY ONLY <1>4, <1>5, <1>6, ListConcat, Zenon
  <2> QED
    BY ONLY <2>1, Zenon DEF Joined
<1>8. /\ AList(q) /\ Len(q) = Len(x) + Len(y)
      /\ \A i \in 1 .. Len(x) : q[i] = x[i]
      /\ \A i \in 1 .. Len(y) : q[Len(x) + i] = y[i]
  <2>1. Joined(x, y, q)
    BY ONLY <1>4, AList(x), AList(y), ListConcat, Zenon
  <2> QED
    BY ONLY <2>1, Zenon DEF Joined
<1>9. Len(p) = M + N /\ Len(q) = M + N
  BY ONLY <1>1, <1>5, <1>6, <1>7, <1>8
<1>10. \A i \in 1 .. Len(p) : p[i] = q[i]
  <2> SUFFICES \A i \in 1 .. M + N : p[i] = q[i]
    BY <1>9
  <2> TAKE i \in 1 .. M + N
  <2>1. CASE i \in 1 .. M
    BY ONLY <1>1, <1>6, <1>7, <1>8, <2>1
  <2>2. CASE i = M + 1
    <3>1. p[M + 1] = e
      BY ONLY <1>1, <1>6, <1>7
    <3>2. q[M + 1] = e
      BY ONLY <1>1, <1>5, <1>8
    <3> QED
      BY ONLY <2>2, <3>1, <3>2
  <2>3. CASE i \in M + 2 .. M + N
    <3>1. PICK j \in 1 .. N - 1 : i = M + 1 + j
      <4>1. i - M - 1 \in 1 .. N - 1 /\ i = M + 1 + (i - M - 1)
        BY ONLY <1>1, <2>3
      <4> QED
        BY ONLY <4>1
    <3>2. p[M + 1 + j] = y[j + 1]
      BY ONLY <1>1, <1>5, <1>6, <1>7
    <3>3. q[M + (j + 1)] = y[j + 1]
      BY ONLY <1>1, <1>8
    <3>4. M + (j + 1) = M + 1 + j
      BY ONLY <1>1
    <3> QED
      BY ONLY <3>1, <3>2, <3>3, <3>4
  <2> QED
    BY ONLY <1>1, <2>1, <2>2, <2>3
<1>11. p = q
  BY ONLY <1>7, <1>8, <1>9, <1>10, SameList
<1> QED
  BY ONLY <1>2, <1>3, <1>4, <1>11, Zenon
-----------------------------------------------------------------------------
(* The elements of a part *)

\* What the loop has after n rounds.
PartOf(T, s, chosen, n, p) ==
    /\ p \in Seq(T) /\ ToSet(p) = {s[i] : i \in chosen \cap 1 .. n}
    /\ IsInjective(s) => IsInjective(p)
    /\ n > 0 /\ 1 \in chosen => p # <<>> /\ Head(p) = s[1]

LEMMA PartSet ==
    ASSUME NEW T, NEW s \in Seq(T), NEW chosen
    PROVE  PartOf(T, s, chosen, Len(s), Part(s, chosen))
<1>1. PICK N \in Nat : N = Len(s)
  OBVIOUS
<1>2. PICK taken : TakesPart(s, chosen, taken)
  BY SeqIsAList, PartLoop
<1>3. taken[0] = <<>> /\ Part(s, chosen) = taken[N]
      /\ \A n \in 1 .. N :
            taken[n] = IF n \in chosen THEN Append(taken[n - 1], s[n]) ELSE taken[n - 1]
  BY <1>1, <1>2 DEF TakesPart
<1> DEFINE Good == {n \in 0 .. N : PartOf(T, s, chosen, n, taken[n])}
<1>4. 0 \in Good
  <2>1. PICK p : p = <<>>
    OBVIOUS
  <2>2. p \in Seq(T) /\ ToSet(p) = {} /\ IsInjective(p)
    BY <2>1 DEF ToSet, IsInjective
  <2>3. {s[i] : i \in chosen \cap 1 .. 0} = {}
    OBVIOUS
  <2>4. PartOf(T, s, chosen, 0, p)
    BY ONLY <2>2, <2>3 DEF PartOf
  <2> QED
    BY <1>1, <1>3, <2>1, <2>4
<1>5. \A n \in 1 .. N : n - 1 \in Good => n \in Good
  <2> SUFFICES ASSUME NEW n \in 1 .. N, n - 1 \in Good PROVE n \in Good
    OBVIOUS
  <2>1. PICK p, q, x : p = taken[n - 1] /\ q = taken[n] /\ x = s[n]
    OBVIOUS
  <2>2. /\ p \in Seq(T) /\ ToSet(p) = {s[i] : i \in chosen \cap 1 .. n - 1}
        /\ IsInjective(s) => IsInjective(p)
        /\ n - 1 > 0 /\ 1 \in chosen => p # <<>> /\ Head(p) = s[1]
    BY <2>1 DEF PartOf
  <2>3. x \in T /\ q = IF n \in chosen THEN Append(p, x) ELSE p
    BY <1>1, <1>3, <2>1
  <2>4. CASE n \in chosen
    <3>1. q = Append(p, x)
      BY <2>3, <2>4
    <3>2. q \in Seq(T) /\ Len(q) = Len(p) + 1 /\ q[Len(p) + 1] = x /\ Len(p) \in Nat
          /\ \A i \in 1 .. Len(p) : q[i] = p[i]
      BY ONLY <2>2, <2>3, <3>1
    <3>3. ToSet(q) = ToSet(p) \cup {x}
      <4>1. DOMAIN q = 1 .. Len(p) + 1 /\ DOMAIN p = 1 .. Len(p)
        BY ONLY <2>2, <3>2
      <4> QED
        BY ONLY <3>2, <4>1 DEF ToSet
    <3>4. {s[i] : i \in chosen \cap 1 .. n} = {s[i] : i \in chosen \cap 1 .. n - 1} \cup {x}
      BY ONLY <2>1, <2>4, n \in 1 .. N, N \in Nat
    <3>5. IsInjective(s) => IsInjective(q)
      <4> SUFFICES ASSUME IsInjective(s) PROVE IsInjective(q)
        OBVIOUS
      <4>1. x \notin ToSet(p)
        <5>1. \A i \in 1 .. n - 1 : s[i] # s[n]
          BY <1>1 DEF IsInjective
        <5> QED
          BY ONLY <2>1, <2>2, <5>1
      <4> QED
        BY <2>2, <2>3, <3>1, <4>1, InjectiveAppend
    <3>6. 1 \in chosen => q # <<>> /\ Head(q) = s[1]
      <4>1. q # <<>> /\ Head(q) = q[1]
        BY ONLY <3>2
      <4>2. CASE n = 1
        <5>1. Len(p) = 0
          <6>1. ToSet(p) = {}
            BY ONLY <2>2, <4>2
          <6> QED
            BY ONLY <2>2, <6>1 DEF ToSet
        <5> QED
          BY ONLY <2>1, <3>2, <4>1, <4>2, <5>1
      <4>3. CASE n # 1
        <5>1. n - 1 > 0
          BY ONLY <4>3, n \in 1 .. N, N \in Nat
        <5>2. 1 \in chosen => Head(p) = s[1] /\ Len(p) > 0
          BY ONLY <2>2, <5>1
        <5>3. Len(p) > 0 => Head(p) = p[1] /\ q[1] = p[1]
          BY ONLY <2>2, <3>2
        <5> QED
          BY ONLY <4>1, <5>2, <5>3
      <4> QED
        BY <4>2, <4>3
    <3>7. PartOf(T, s, chosen, n, q)
      BY ONLY <2>2, <3>2, <3>3, <3>4, <3>5, <3>6 DEF PartOf
    <3> QED
      BY <2>1, <3>7
  <2>5. CASE n \notin chosen
    <3>1. q = p
      BY <2>3, <2>5
    <3>2. chosen \cap 1 .. n = chosen \cap 1 .. n - 1
      BY ONLY <2>5, n \in 1 .. N, N \in Nat
    <3>3. 1 \in chosen => n - 1 > 0
      BY ONLY <2>5, n \in 1 .. N, N \in Nat
    <3>4. PartOf(T, s, chosen, n, q)
      BY ONLY <2>2, <3>1, <3>2, <3>3 DEF PartOf
    <3> QED
      BY <2>1, <3>4
  <2> QED
    BY <2>4, <2>5
<1> HIDE DEF Good
<1>6. \A n \in 0 .. N : n \in Good
  BY <1>4, <1>5, IntervalInduction
<1>7. N \in Good
  BY <1>6
<1> QED
  BY <1>1, <1>3, <1>7 DEF Good
-----------------------------------------------------------------------------
(* Which element of a part is which of the whole *)

\* Up to n the part has count[n] elements; its i-th is the h[i]-th of the whole.
Counted(s, chosen, count, h) ==
    /\ count[0] = 0 /\ \A n \in 0 .. Len(s) : count[n] \in Nat
    /\ \A n \in 1 .. Len(s) :
          /\ n \in chosen => count[n] = count[n - 1] + 1 /\ h[count[n]] = n
          /\ n \notin chosen => count[n] = count[n - 1]

Picks(s, h, k) == [i \in 1 .. k |-> s[h[i]]]

LEMMA PicksIs ==
    ASSUME NEW s, NEW h, NEW k \in Nat
    PROVE  /\ AList(Picks(s, h, k)) /\ Len(Picks(s, h, k)) = k
           /\ \A i \in 1 .. k : Picks(s, h, k)[i] = s[h[i]]
<1>1. PICK u : u = Picks(s, h, k)
  OBVIOUS
<1>2. u = [i \in 1 .. k |-> s[h[i]]]
  BY ONLY <1>1 DEF Picks
<1>3. Len(u) = k /\ u = [i \in 1 .. k |-> u[i]] /\ \A i \in 1 .. k : u[i] = s[h[i]]
  BY ONLY <1>2, k \in Nat
<1>4. AList(u)
  BY ONLY <1>3, k \in Nat DEF AList
<1> QED
  BY ONLY <1>1, <1>3, <1>4

LEMMA PartPicks ==
    ASSUME NEW s, AList(s), NEW chosen, NEW count, NEW h, Counted(s, chosen, count, h)
    PROVE  Part(s, chosen) = Picks(s, h, count[Len(s)])
<1>1. PICK N \in Nat : N = Len(s)
  BY DEF AList
<1>2. PICK taken : TakesPart(s, chosen, taken)
  BY PartLoop
<1>3. /\ taken[0] = <<>> /\ Part(s, chosen) = taken[N]
      /\ \A n \in 1 .. N :
            taken[n] = IF n \in chosen THEN Append(taken[n - 1], s[n]) ELSE taken[n - 1]
  BY <1>1, <1>2 DEF TakesPart
<1>4. /\ count[0] = 0 /\ \A n \in 0 .. N : count[n] \in Nat
      /\ \A n \in 1 .. N : n \in chosen => count[n] = count[n - 1] + 1 /\ h[count[n]] = n
      /\ \A n \in 1 .. N : n \notin chosen => count[n] = count[n - 1]
  BY <1>1 DEF Counted
<1> DEFINE Good == {n \in 0 .. N : taken[n] = Picks(s, h, count[n])}
<1>5. 0 \in Good
  <2>1. PICK k, u : k = 0 /\ k \in Nat /\ u = Picks(s, h, k)
    OBVIOUS
  <2>2. AList(u) /\ Len(u) = 0
    BY ONLY <2>1, PicksIs
  <2>3. u = <<>>
    BY ONLY <2>2, EmptyList
  <2>4. taken[0] = Picks(s, h, count[0])
    BY ONLY <1>3, <1>4, <2>1, <2>3
  <2> QED
    BY <2>4
<1>6. ASSUME NEW n \in 1 .. N, n - 1 \in Good PROVE n \in Good
  <2>1. PICK k, t, p : k = count[n - 1] /\ t = taken[n - 1] /\ p = Picks(s, h, count[n])
    OBVIOUS
  <2>2. n - 1 \in 0 .. N /\ n \in 0 .. N
    BY ONLY n \in 1 .. N, N \in Nat
  <2>3. k \in Nat /\ count[n] \in Nat /\ t = Picks(s, h, k)
    BY ONLY <1>4, <1>6, <2>1, <2>2
  <2>4. CASE n \in chosen
    <3>1. taken[n] = Append(t, s[n]) /\ count[n] = k + 1 /\ h[k + 1] = n
      BY ONLY <1>3, <1>4, <2>1, <2>4, n \in 1 .. N
    <3>2. AList(t) /\ Len(t) = k /\ \A i \in 1 .. k : t[i] = s[h[i]]
      BY ONLY <2>3, PicksIs
    <3>3. PICK a : a = Append(t, s[n])
      OBVIOUS
    <3>4. Longer(t, s[n], a)
      BY ONLY <3>2, <3>3, ListLonger, Zenon
    <3>5. AList(a) /\ Len(a) = k + 1 /\ a[k + 1] = s[n] /\ \A i \in 1 .. k : a[i] = t[i]
      BY ONLY <3>2, <3>4 DEF Longer
    <3>6. p = Picks(s, h, k + 1) /\ k + 1 \in Nat
      BY ONLY <2>1, <2>3, <3>1
    <3>7. AList(p) /\ Len(p) = k + 1 /\ \A i \in 1 .. k + 1 : p[i] = s[h[i]]
      BY ONLY <3>6, PicksIs
    <3>8. ASSUME NEW i \in 1 .. k + 1 PROVE a[i] = p[i]
      <4>1. CASE i = k + 1
        BY ONLY <3>1, <3>5, <3>7, <4>1, i \in 1 .. k + 1
      <4>2. CASE i \in 1 .. k
        BY ONLY <3>2, <3>5, <3>7, <4>2, i \in 1 .. k + 1
      <4> QED
        BY ONLY <2>3, <4>1, <4>2, i \in 1 .. k + 1
    <3>9. a = p
      BY ONLY <3>5, <3>7, <3>8, SameList
    <3> QED
      BY ONLY <2>1, <2>2, <3>1, <3>3, <3>9
  <2>5. CASE n \notin chosen
    <3>1. taken[n] = t /\ count[n] = k
      BY ONLY <1>3, <1>4, <2>1, <2>5, n \in 1 .. N
    <3> QED
      BY ONLY <2>2, <2>3, <3>1
  <2> QED
    BY ONLY <2>4, <2>5
<1>7. \A n \in 1 .. N : n - 1 \in Good => n \in Good
  BY ONLY <1>6
<1> HIDE DEF Good
<1>8. \A n \in 0 .. N : n \in Good
  BY ONLY <1>5, <1>7, N \in Nat, IntervalInduction
<1>9. N \in Good
  BY ONLY <1>8, N \in Nat
<1> QED
  BY <1>1, <1>3, <1>9 DEF Good

\* The first m elements.
LEMMA PartFirst ==
    ASSUME NEW s, AList(s), NEW m \in 0 .. Len(s), NEW chosen,
           \A n \in 1 .. Len(s) : n \in chosen <=> n <= m
    PROVE  /\ AList(Part(s, chosen)) /\ Len(Part(s, chosen)) = m
           /\ \A i \in 1 .. m : Part(s, chosen)[i] = s[i]
<1>1. PICK N \in Nat : N = Len(s)
  BY DEF AList
<1>2. PICK count, h : /\ count = [n \in 0 .. N |-> IF n <= m THEN n ELSE m]
                      /\ h = [i \in 1 .. N |-> i]
  OBVIOUS
<1>3. \A n \in 0 .. N : count[n] = IF n <= m THEN n ELSE m
  BY ONLY <1>2
<1>4. m \in 0 .. N
  BY ONLY <1>1, m \in 0 .. Len(s)
<1>5. count[0] = 0 /\ \A n \in 0 .. N : count[n] \in Nat
  BY ONLY <1>3, <1>4, N \in Nat
<1>6. ASSUME NEW n \in 1 .. N
      PROVE  /\ n \in chosen => count[n] = count[n - 1] + 1 /\ h[count[n]] = n
             /\ n \notin chosen => count[n] = count[n - 1]
  <2>1. n \in chosen <=> n <= m
    BY <1>1
  <2>2. n \in 0 .. N /\ n - 1 \in 0 .. N /\ h[n] = n
    BY ONLY <1>2, n \in 1 .. N, N \in Nat
  <2>3. count[n] = (IF n <= m THEN n ELSE m) /\ count[n - 1] = IF n - 1 <= m THEN n - 1 ELSE m
    BY ONLY <1>3, <2>2
  <2> QED
    BY ONLY <1>4, <2>1, <2>2, <2>3, n \in 1 .. N, N \in Nat
<1>7. Counted(s, chosen, count, h)
  BY ONLY <1>1, <1>5, <1>6 DEF Counted
<1>8. count[Len(s)] = m /\ m \in Nat
  BY ONLY <1>1, <1>3, <1>4, N \in Nat
<1>9. PICK p : p = Part(s, chosen) /\ p = Picks(s, h, m)
  BY ONLY <1>7, <1>8, AList(s), PartPicks
<1>10. AList(p) /\ Len(p) = m /\ \A i \in 1 .. m : p[i] = s[h[i]]
  BY ONLY <1>8, <1>9, PicksIs
<1>11. \A i \in 1 .. m : h[i] = i
  BY ONLY <1>2, <1>4, N \in Nat
<1> QED
  BY ONLY <1>9, <1>10, <1>11

\* The m-th alone.
LEMMA PartOne ==
    ASSUME NEW s, AList(s), NEW m \in 1 .. Len(s), NEW chosen,
           \A n \in 1 .. Len(s) : n \in chosen <=> n = m
    PROVE  Part(s, chosen) = <<s[m]>>
<1>1. PICK N \in Nat : N = Len(s)
  BY DEF AList
<1>2. PICK count, h : /\ count = [n \in 0 .. N |-> IF n < m THEN 0 ELSE 1]
                      /\ h = [i \in 1 .. 1 |-> m]
  OBVIOUS
<1>3. m \in 1 .. N /\ \A n \in 0 .. N : count[n] = IF n < m THEN 0 ELSE 1
  BY ONLY <1>1, <1>2, m \in 1 .. Len(s)
<1>4. count[0] = 0 /\ (\A n \in 0 .. N : count[n] \in Nat) /\ h[1] = m
  BY ONLY <1>2, <1>3, N \in Nat
<1>5. ASSUME NEW n \in 1 .. N
      PROVE  /\ n \in chosen => count[n] = count[n - 1] + 1 /\ h[count[n]] = n
             /\ n \notin chosen => count[n] = count[n - 1]
  <2>1. n \in chosen <=> n = m
    BY <1>1
  <2>2. n \in 0 .. N /\ n - 1 \in 0 .. N
    BY ONLY n \in 1 .. N, N \in Nat
  <2>3. count[n] = (IF n < m THEN 0 ELSE 1) /\ count[n - 1] = IF n - 1 < m THEN 0 ELSE 1
    BY ONLY <1>3, <2>2
  <2> QED
    BY ONLY <1>3, <1>4, <2>1, <2>3, n \in 1 .. N, N \in Nat
<1>6. Counted(s, chosen, count, h)
  BY ONLY <1>1, <1>4, <1>5 DEF Counted
<1>7. count[Len(s)] = 1
  BY ONLY <1>1, <1>3, N \in Nat
<1>8. PICK k, p : k = 1 /\ p = Part(s, chosen) /\ p = Picks(s, h, k)
  BY ONLY <1>6, <1>7, AList(s), PartPicks
<1>9. AList(p) /\ Len(p) = 1 /\ \A i \in 1 .. 1 : p[i] = s[h[i]]
  <2>1. k \in Nat
    BY ONLY <1>8
  <2>2. p = Picks(s, h, k)
    BY ONLY <1>8
  <2>3. AList(p) /\ Len(p) = k /\ \A i \in 1 .. k : p[i] = s[h[i]]
    BY ONLY <2>1, <2>2, PicksIs
  <2> QED
    BY ONLY <1>8, <2>3
<1>10. PICK o : o = <<s[m]>> /\ AList(o) /\ Len(o) = 1 /\ o[1] = s[m]
  <2>1. PICK o : o = <<s[m]>>
    OBVIOUS
  <2>2. o \in Seq({s[m]}) /\ Len(o) = 1 /\ o[1] = s[m]
    BY ONLY <2>1
  <2> QED
    BY ONLY <2>1, <2>2, SeqIsAList
<1>11. \A i \in 1 .. 1 : p[i] = o[i]
  BY ONLY <1>4, <1>9, <1>10
<1>12. p = o
  BY ONLY <1>9, <1>10, <1>11, SameList
<1> QED
  BY ONLY <1>8, <1>10, <1>12
=============================================================================
