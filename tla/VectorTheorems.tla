--------------------------- MODULE VectorTheorems ---------------------------
(***************************************************************************)
(* Facts about vectors, extrema of finite sets of numbers and recursion     *)
(* over an interval, which the proofs about the engine rest on.             *)
(***************************************************************************)
EXTENDS Vectors, FiniteSetsExt, TLAPS, SequenceTheorems, FiniteSetTheorems,
        WellFoundedInduction

\* A nonempty set of naturals has a least element.
LEMMA LeastNat ==
  ASSUME NEW T \in SUBSET Nat, T # {}
  PROVE  \E m \in T : \A k \in T : m <= k
<1> DEFINE R == {ss \in Nat \X Nat : ss[1] < ss[2]}
<1>1. IsWellFoundedOn(R, Nat)
  BY NatLessThanWellFounded DEF OpToRel
<1>2. PICK m \in T : \A y \in T : ~(<<y, m>> \in R)
  <2> HIDE DEF R
  <2> QED BY <1>1, WFMin
<1>3. ASSUME NEW k \in T, k < m PROVE FALSE
  <2>1. k \in Nat /\ m \in Nat
    OBVIOUS
  <2>2. <<k, m>> \in R
    BY <1>3, <2>1
  <2> QED BY <2>2, <1>2
<1>4. \A k \in T : k \in Nat /\ m \in Nat
  OBVIOUS
<1> QED
  <2> HIDE DEF R
  <2> QED BY <1>3, <1>4

\* Induction over the positions 0..N, for a set of positions.
LEMMA IntervalInduction ==
  ASSUME NEW N \in Nat, NEW P, 0 \in P,
         \A n \in 1..N : n - 1 \in P => n \in P
  PROVE  \A n \in 0..N : n \in P
<1> DEFINE Bad == {n \in 0..N : n \notin P}
<1>1. SUFFICES ASSUME Bad # {} PROVE FALSE
  OBVIOUS
<1>2. PICK m \in Bad : \A k \in Bad : m <= k
  <2>1. Bad \in SUBSET Nat
    OBVIOUS
  <2> HIDE DEF Bad
  <2> QED BY <1>1, <2>1, LeastNat
<1>3. m \in 1..N
  OBVIOUS
<1>4. m - 1 \in 0..N /\ m - 1 \notin Bad
  <2>1. m - 1 \in 0..N /\ ~(m <= m - 1)
    BY <1>3
  <2> HIDE DEF Bad
  <2> QED BY <1>2, <2>1
<1> QED BY <1>3, <1>4

\* f is the recursion over 0..N that starts at init and goes on with step.
IsRecursion(f, N, init, step) ==
  \A n \in 0..N : f[n] = IF n = 0 THEN init ELSE step[n][f[n - 1]]

\* A recursion over 0..N whose steps stay in S exists.
LEMMA RecursionExists ==
  ASSUME NEW N \in Nat, NEW S, NEW init \in S, NEW step \in [1..N -> [S -> S]]
  PROVE  \E f \in [0..N -> S] : IsRecursion(f, N, init, step)
<1> DEFINE Rec(f, k) == \A n \in 0..k : f[n] = IF n = 0 THEN init ELSE step[n][f[n - 1]]
           P == {k \in 0..N : \E f \in [0..k -> S] : Rec(f, k)}
<1>1. 0 \in P
  <2> DEFINE z == [n \in 0..0 |-> init]
  <2>1. z \in [0..0 -> S] /\ Rec(z, 0)
    OBVIOUS
  <2>2. \E f \in [0..0 -> S] : Rec(f, 0)
    <3> HIDE DEF z, Rec
    <3> QED BY <2>1
  <2> QED BY <2>2
<1>2. ASSUME NEW k \in 1..N, k - 1 \in P PROVE k \in P
  <2>1. PICK f \in [0..(k - 1) -> S] : Rec(f, k - 1)
    BY <1>2
  <2> DEFINE g == [n \in 0..k |-> IF n = k THEN step[k][f[k - 1]] ELSE f[n]]
  <2>2. k \in Nat /\ k - 1 \in 0..(k - 1) /\ \A n \in 0..k : n # k => n \in 0..(k - 1)
    OBVIOUS
  <2>3. step[k][f[k - 1]] \in S
    BY <2>2
  <2>4. g \in [0..k -> S]
    BY <2>2, <2>3
  <2>5. ASSUME NEW n \in 0..k
        PROVE  g[n] = IF n = 0 THEN init ELSE step[n][g[n - 1]]
    <3>1. CASE n = k
      <4>1. n # 0 /\ n - 1 \in 0..k /\ n - 1 # k
        BY <3>1
      <4>2. g[n] = step[k][f[k - 1]] /\ g[n - 1] = f[n - 1]
        BY <3>1, <4>1
      <4> HIDE DEF g
      <4> QED BY <3>1, <4>1, <4>2
    <3>2. CASE n # k
      <4>1. n \in 0..(k - 1) /\ (n # 0 => n - 1 \in 0..k /\ n - 1 # k)
        BY <3>2
      <4>2. g[n] = f[n] /\ (n # 0 => g[n - 1] = f[n - 1])
        BY <3>2, <4>1
      <4>3. f[n] = IF n = 0 THEN init ELSE step[n][f[n - 1]]
        BY <2>1, <4>1
      <4> HIDE DEF g
      <4> QED BY <4>2, <4>3
    <3> QED BY <3>1, <3>2
  <2>6. Rec(g, k)
    BY <2>5
  <2>7. \E h \in [0..k -> S] : Rec(h, k)
    <3> HIDE DEF g, Rec
    <3> QED BY <2>4, <2>6
  <2>8. k \in 0..N
    OBVIOUS
  <2> HIDE DEF Rec, g
  <2> QED BY <2>7, <2>8
<1>3. N \in P
  <2>1. \A n \in 1..N : n - 1 \in P => n \in P
    BY <1>2
  <2> HIDE DEF P
  <2>2. \A n \in 0..N : n \in P
    BY <1>1, <2>1, IntervalInduction
  <2> QED BY <2>2
<1> QED BY <1>3 DEF IsRecursion

-----------------------------------------------------------------------------
(* Vectors.                                                                 *)

\* A sequence from its length and its elements.
LEMMA SeqIntro ==
  ASSUME NEW S, NEW n \in Nat, NEW s \in [1..n -> S]
  PROVE  s \in Seq(S) /\ Len(s) = n /\ DOMAIN s = 1..n
<1>1. s \in Seq(S)
  BY SeqDef
<1> QED BY <1>1, LenProperties

\* Vector(s) is s.
LEMMA VectorIs ==
  ASSUME NEW S, NEW s \in Seq(S)
  PROVE  Vector(s) = s
BY ConcatEmptySeq DEF Vector

\* The recursion of SumSeq, unfolded: its partial sums.
LEMMA SumSeqSteps ==
  ASSUME NEW s \in Seq(Nat)
  PROVE  \E u \in [0..Len(s) -> Nat] :
           /\ u[0] = 0 /\ SumSeq(s) = u[Len(s)]
           /\ \A n \in 1..Len(s) : u[n] = u[n - 1] + s[n]
<1> DEFINE N == Len(s)
           Sums(f) == f = [n \in 0..N |-> IF n = 0 THEN 0 ELSE f[n - 1] + s[n]]
           upTo == CHOOSE f : Sums(f)
           step == [n \in 1..N |-> [t \in Nat |-> t + s[n]]]
<1>1. N \in Nat /\ \A n \in 1..N : s[n] \in Nat
  BY LenProperties, ElementOfSeq
<1>2. \E f : Sums(f)
  <2>1. step \in [1..N -> [Nat -> Nat]]
    BY <1>1
  <2>2. PICK f \in [0..N -> Nat] : IsRecursion(f, N, 0, step)
    <3> HIDE DEF step, N
    <3> QED BY <1>1, <2>1, RecursionExists
  <2>3. ASSUME NEW n \in 0..N, n # 0 PROVE step[n][f[n - 1]] = f[n - 1] + s[n]
    <3>1. n \in 1..N /\ n - 1 \in 0..N /\ f[n - 1] \in Nat
      BY <1>1, <2>3, SMTT(30)
    <3> HIDE DEF N
    <3> QED BY <3>1
  <2>4. Sums(f)
    <3> HIDE DEF step, N
    <3> QED BY <2>2, <2>3 DEF IsRecursion
  <2> HIDE DEF Sums
  <2> QED BY <2>4
<1>3. Sums(upTo)
  <2> HIDE DEF Sums
  <2> QED BY <1>2
<1>4. SumSeq(s) = upTo[N]
  BY DEF SumSeq
<1> HIDE DEF upTo
<1>5. upTo[0] = 0 /\ \A n \in 1..N : upTo[n] = upTo[n - 1] + s[n]
  <2>1. \A n \in 0..N : upTo[n] = IF n = 0 THEN 0 ELSE upTo[n - 1] + s[n]
    BY <1>3
  <2>2. 0 \in 0..N /\ \A n \in 1..N : n \in 0..N /\ n # 0
    BY <1>1
  <2> HIDE DEF Sums, N
  <2> QED BY <2>1, <2>2
<1>6. \A n \in 0..N : upTo[n] \in Nat
  <2> DEFINE P == {n \in 0..N : upTo[n] \in Nat}
  <2>1. 0 \in P
    BY <1>1, <1>5
  <2>2. ASSUME NEW n \in 1..N, n - 1 \in P PROVE n \in P
    <3>1. n \in 0..N /\ upTo[n - 1] \in Nat /\ s[n] \in Nat
      BY <1>1, <2>2
    <3> QED BY <1>5, <3>1
  <2>3. \A n \in 1..N : n - 1 \in P => n \in P
    BY <2>2
  <2> HIDE DEF P
  <2>4. \A n \in 0..N : n \in P
    BY <1>1, <2>1, <2>3, IntervalInduction
  <2> QED BY <2>4 DEF P
<1>7. upTo \in [0..N -> Nat]
  BY <1>3, <1>6
<1> HIDE DEF Sums
<1> QED BY <1>4, <1>5, <1>7

\* A sum of naturals is one.
LEMMA SumSeqType ==
  ASSUME NEW s \in Seq(Nat)
  PROVE  SumSeq(s) \in Nat
<1>1. Len(s) \in Nat
  BY LenProperties
<1> QED BY <1>1, SumSeqSteps

\* No element is larger than the sum.
LEMMA SumSeqBounds ==
  ASSUME NEW s \in Seq(Nat), NEW k \in 1..Len(s)
  PROVE  s[k] <= SumSeq(s)
<1>1. PICK u \in [0..Len(s) -> Nat] :
        /\ u[0] = 0 /\ SumSeq(s) = u[Len(s)]
        /\ \A n \in 1..Len(s) : u[n] = u[n - 1] + s[n]
  BY SumSeqSteps
<1> DEFINE N == Len(s)
           P == {n \in 0..N : n >= k => u[n] >= s[k]}
<1>2. N \in Nat /\ \A n \in 1..N : s[n] \in Nat
  BY LenProperties, ElementOfSeq
<1> HIDE DEF N
<1>3. 0 \in P
  BY <1>2
<1>4. ASSUME NEW n \in 1..N, n - 1 \in P PROVE n \in P
  <2>1. n \in 0..N /\ n - 1 \in 0..N /\ u[n - 1] \in Nat /\ s[n] \in Nat
    <3>1. n \in 0..N /\ n - 1 \in 0..N
      BY <1>2
    <3> QED BY <1>1, <1>2, <3>1 DEF N
  <2>2. u[n] = u[n - 1] + s[n]
    BY <1>1 DEF N
  <2>3. CASE n = k
    BY <2>1, <2>2, <2>3
  <2>4. CASE n # k
    <3>1. n >= k => u[n - 1] >= s[k]
      BY <1>4, <2>1, <2>4
    <3>2. s[k] \in Nat
      BY <1>2 DEF N
    <3> QED BY <2>1, <2>2, <3>1, <3>2
  <2> QED BY <2>3, <2>4
<1>5. \A n \in 1..N : n - 1 \in P => n \in P
  BY <1>4
<1>6. N \in P
  <2> HIDE DEF P
  <2>1. \A n \in 0..N : n \in P
    BY <1>2, <1>3, <1>5, IntervalInduction
  <2> QED BY <1>2, <2>1
<1> QED BY <1>1, <1>2, <1>6 DEF N

\* u[n] is what the loop of Erase has kept after n elements.
IsErasure(u, s, gone) ==
  /\ u[0] = <<>> /\ Erase(s, gone) = u[Len(s)]
  /\ \A n \in 1..Len(s) :
       u[n] = IF n \in gone THEN u[n - 1] ELSE Append(u[n - 1], s[n])

\* The recursion of Erase, unfolded.
LEMMA EraseSteps ==
  ASSUME NEW T, NEW s \in Seq(T), NEW gone, NEW S,
         \A n \in 1..Len(s) : n \notin gone => s[n] \in S
  PROVE  \E u \in [0..Len(s) -> Seq(S)] : IsErasure(u, s, gone)
<1> DEFINE N == Len(s)
           Next(t, n) == IF n \in gone THEN t ELSE Append(t, s[n])
           Loop(f) == f = [n \in 0..N |-> IF n = 0 THEN <<>>
                             ELSE IF n \in gone THEN f[n - 1]
                             ELSE Append(f[n - 1], s[n])]
           upTo == CHOOSE f : Loop(f)
           step == [n \in 1..N |-> [t \in Seq(S) |-> Next(t, n)]]
<1>1. N \in Nat /\ <<>> \in Seq(S)
  BY LenProperties, EmptySeq
<1>2. ASSUME NEW n \in 1..N, NEW t \in Seq(S) PROVE Next(t, n) \in Seq(S)
  BY AppendProperties
<1>3. \E f : Loop(f)
  <2>1. step \in [1..N -> [Seq(S) -> Seq(S)]]
    <3> HIDE DEF Next, N
    <3> QED BY <1>2
  <2>2. PICK f \in [0..N -> Seq(S)] : IsRecursion(f, N, <<>>, step)
    <3> HIDE DEF step, N
    <3> QED BY <1>1, <2>1, RecursionExists
  <2>3. ASSUME NEW n \in 0..N, n # 0 PROVE step[n][f[n - 1]] = Next(f[n - 1], n)
    <3>1. n \in 1..N /\ n - 1 \in 0..N /\ f[n - 1] \in Seq(S)
      BY <1>1, <2>3
    <3> HIDE DEF N, Next
    <3> QED BY <3>1
  <2>4. f = [n \in 0..N |-> IF n = 0 THEN <<>> ELSE Next(f[n - 1], n)]
    <3> HIDE DEF step, N, Next
    <3> QED BY <2>2, <2>3 DEF IsRecursion
  <2>5. Loop(f)
    BY <2>4
  <2> HIDE DEF Loop
  <2> QED BY <2>5
<1>4. Loop(upTo)
  <2> HIDE DEF Loop
  <2> QED BY <1>3
<1>5. Erase(s, gone) = upTo[N]
  BY DEF Erase
<1> HIDE DEF upTo
<1>6. upTo[0] = <<>> /\ \A n \in 1..N : upTo[n] = Next(upTo[n - 1], n)
  <2>1. \A n \in 0..N : upTo[n] = IF n = 0 THEN <<>> ELSE Next(upTo[n - 1], n)
    BY <1>4
  <2>2. 0 \in 0..N /\ \A n \in 1..N : n \in 0..N /\ n # 0
    BY <1>1
  <2> HIDE DEF Loop, N, Next
  <2> QED BY <2>1, <2>2
<1>7. \A n \in 0..N : upTo[n] \in Seq(S)
  <2> DEFINE P == {n \in 0..N : upTo[n] \in Seq(S)}
  <2>1. 0 \in P
    <3>1. upTo[0] \in Seq(S)
      BY <1>1, <1>6, Zenon
    <3> QED BY <1>1, <3>1
  <2>2. ASSUME NEW n \in 1..N, n - 1 \in P PROVE n \in P
    <3>1. n \in 0..N /\ upTo[n - 1] \in Seq(S)
      BY <1>1, <2>2
    <3> HIDE DEF Next, N
    <3> QED BY <1>2, <1>6, <3>1
  <2>3. \A n \in 1..N : n - 1 \in P => n \in P
    BY <2>2
  <2> HIDE DEF P
  <2>4. \A n \in 0..N : n \in P
    BY <1>1, <2>1, <2>3, IntervalInduction
  <2> QED BY <2>4 DEF P
<1>8. upTo \in [0..N -> Seq(S)]
  BY <1>4, <1>7
<1> HIDE DEF Loop
<1> QED BY <1>5, <1>6, <1>8 DEF IsErasure

\* What Erase leaves is made of elements that were not erased.
LEMMA EraseType ==
  ASSUME NEW T, NEW s \in Seq(T), NEW gone, NEW S,
         \A n \in 1..Len(s) : n \notin gone => s[n] \in S
  PROVE  Erase(s, gone) \in Seq(S)
<1>1. Len(s) \in Nat
  BY LenProperties
<1>2. PICK u \in [0..Len(s) -> Seq(S)] : IsErasure(u, s, gone)
  BY EraseSteps
<1> QED BY <1>1, <1>2 DEF IsErasure

\* Erase keeps the elements that are not erased, in their order: place[k] is where
\* the k-th element that is left was.
LEMMA EraseIs ==
  ASSUME NEW T, NEW s \in Seq(T), NEW gone
  PROVE  LET r == Erase(s, gone)
         IN  \E place \in [1..Len(r) -> 1..Len(s)] :
               /\ \A k \in 1..Len(r) : place[k] \notin gone /\ r[k] = s[place[k]]
               /\ \A j, k \in 1..Len(r) : j < k => place[j] < place[k]
               /\ \A n \in 1..Len(s) :
                    n \notin gone => \E k \in 1..Len(r) : place[k] = n
<1> DEFINE N == Len(s)
<1>1. N \in Nat /\ \A n \in 1..N : s[n] \in T
  BY LenProperties, ElementOfSeq
<1>2. PICK u \in [0..N -> Seq(T)] : IsErasure(u, s, gone)
  <2>1. \A n \in 1..Len(s) : n \notin gone => s[n] \in T
    BY <1>1
  <2> QED BY <2>1, EraseSteps
<1>3. /\ u[0] = <<>> /\ Erase(s, gone) = u[N]
      /\ \A n \in 1..N :
           u[n] = IF n \in gone THEN u[n - 1] ELSE Append(u[n - 1], s[n])
  BY <1>2 DEF IsErasure
<1> HIDE DEF N
<1> DEFINE Places(n, p) ==
             /\ p \in [1..Len(u[n]) -> 1..n]
             /\ \A k \in 1..Len(u[n]) : p[k] \notin gone /\ u[n][k] = s[p[k]]
             /\ \A j, k \in 1..Len(u[n]) : j < k => p[j] < p[k]
             /\ \A i \in 1..n : i \notin gone => \E k \in 1..Len(u[n]) : p[k] = i
           P == {n \in 0..N : \E p : Places(n, p)}
<1>4. 0 \in P
  <2>1. Len(u[0]) = 0
    BY <1>2, <1>3, EmptySeq
  <2>2. 1..0 = {}
    OBVIOUS
  <2>3. Places(0, [k \in {} |-> k])
    BY <2>1, <2>2
  <2>4. \E p : Places(0, p)
    <3> HIDE DEF Places
    <3> QED BY <2>3
  <2> HIDE DEF Places
  <2> QED BY <1>1, <2>4
<1>5. ASSUME NEW n \in 1..N, n - 1 \in P PROVE n \in P
  <2>1. PICK p : Places(n - 1, p)
    BY <1>5
  <2>2. n \in 0..N /\ n \in Nat /\ n - 1 \in 0..N /\ 1..(n - 1) \subseteq 1..n
        /\ \A i \in 1..n : i # n => i \in 1..(n - 1)
    BY <1>1
  <2>3. u[n - 1] \in Seq(T) /\ s[n] \in T
    BY <1>1, <1>2, <1>3, <2>2
  <2> DEFINE L == Len(u[n - 1])
  <2>4. L \in Nat
    BY <2>3, LenProperties
  <2>5. CASE n \in gone
    <3>1. u[n] = u[n - 1]
      BY <1>2, <1>3, <2>5
    <3>2. Places(n, p)
      <4>1. p \in [1..L -> 1..n]
        <5>1. p \in [1..L -> 1..(n - 1)]
          BY <2>1
        <5> HIDE DEF L, Places
        <5> QED BY <2>2, <5>1
      <4>2. \A i \in 1..n : i \notin gone => i \in 1..(n - 1)
        BY <2>2, <2>5
      <4> QED BY <2>1, <3>1, <4>1, <4>2
    <3> HIDE DEF Places
    <3> QED BY <2>2, <3>2
  <2>6. CASE n \notin gone
    <3>1. u[n] = Append(u[n - 1], s[n])
      BY <1>2, <1>3, <2>6
    <3>2. Len(u[n]) = L + 1 /\ u[n][L + 1] = s[n]
          /\ \A k \in 1..L : u[n][k] = u[n - 1][k]
      BY <2>3, <3>1, AppendProperties
    <3> DEFINE q == [k \in 1..(L + 1) |-> IF k = L + 1 THEN n ELSE p[k]]
    <3>3. /\ p \in [1..L -> 1..(n - 1)]
          /\ \A k \in 1..L : p[k] \notin gone /\ u[n - 1][k] = s[p[k]]
          /\ \A j, k \in 1..L : j < k => p[j] < p[k]
          /\ \A i \in 1..(n - 1) : i \notin gone => \E k \in 1..L : p[k] = i
      BY <2>1
    <3> HIDE DEF L, Places
    <3>4. /\ L + 1 \in 1..(L + 1)
          /\ \A k \in 1..(L + 1) : k # L + 1 => k \in 1..L
          /\ \A k \in 1..L : k \in 1..(L + 1) /\ k # L + 1 /\ k < L + 1
      BY <2>4
    <3>5. q[L + 1] = n /\ \A k \in 1..L : q[k] = p[k]
      BY <3>4
    <3>6. q \in [1..(L + 1) -> 1..n]
      BY <2>2, <3>3, <3>4
    <3> HIDE DEF q
    <3>7. \A k \in 1..(L + 1) : q[k] \notin gone /\ u[n][k] = s[q[k]]
      BY <2>6, <3>2, <3>3, <3>4, <3>5
    <3>8. \A j, k \in 1..(L + 1) : j < k => q[j] < q[k]
      <4>1. ASSUME NEW j \in 1..(L + 1), NEW k \in 1..(L + 1), j < k
            PROVE  q[j] < q[k]
        <5>1. j \in 1..L
          BY <2>4, <4>1
        <5>2. CASE k = L + 1
          <6>1. q[j] = p[j] /\ p[j] \in 1..(n - 1) /\ q[k] = n
            BY <3>3, <3>5, <5>1, <5>2
          <6> QED BY <2>2, <6>1
        <5>3. CASE k # L + 1
          BY <3>3, <3>4, <3>5, <4>1, <5>1, <5>3
        <5> QED BY <5>2, <5>3
      <4> QED BY <4>1
    <3>9. \A i \in 1..n : i \notin gone => \E k \in 1..(L + 1) : q[k] = i
      BY <2>2, <3>3, <3>4, <3>5
    <3>10. Places(n, q)
      BY <3>2, <3>6, <3>7, <3>8, <3>9 DEF Places
    <3> QED BY <2>2, <3>10
  <2> QED BY <2>5, <2>6
<1>6. \A n \in 1..N : n - 1 \in P => n \in P
  BY <1>5
<1>7. N \in P
  <2> HIDE DEF P
  <2>1. \A n \in 0..N : n \in P
    BY <1>1, <1>4, <1>6, IntervalInduction
  <2> QED BY <1>1, <2>1
<1>8. PICK p : Places(N, p)
  BY <1>7
<1> DEFINE r == Erase(s, gone)
<1>9. /\ p \in [1..Len(r) -> 1..N]
      /\ \A k \in 1..Len(r) : p[k] \notin gone /\ r[k] = s[p[k]]
      /\ \A j, k \in 1..Len(r) : j < k => p[j] < p[k]
      /\ \A n \in 1..N : n \notin gone => \E k \in 1..Len(r) : p[k] = n
  <2>1. r = u[N]
    BY <1>2, <1>3
  <2> HIDE DEF r
  <2> QED BY <1>8, <2>1
<1> HIDE DEF Places, P, r
<1> QED BY <1>9 DEF N, r

-----------------------------------------------------------------------------
(* Sets of positions.                                                       *)

\* The positions up to m are m.
LEMMA PositionsUpTo ==
  ASSUME NEW m \in Nat
  PROVE  IsFiniteSet(1..m) /\ Cardinality(1..m) = m
<1>1. 1 \in Int /\ m \in Int /\ (1 > m => m = 0) /\ m - 1 + 1 = m
  OBVIOUS
<1> QED BY <1>1, FS_Interval

-----------------------------------------------------------------------------
(* Extrema.                                                                 *)

\* std::max and std::min of two numbers.
LEMMA MaxOfTwo ==
  ASSUME NEW a \in Int, NEW b \in Int
  PROVE  Max({a, b}) = IF a >= b THEN a ELSE b
<1> DEFINE m == IF a >= b THEN a ELSE b
<1>1. m \in {a, b} /\ \A y \in {a, b} : m >= y
  OBVIOUS
<1>2. \A x \in {a, b} : (\A y \in {a, b} : x >= y) => x = m
  OBVIOUS
<1> HIDE DEF m
<1> QED BY <1>1, <1>2 DEF Max

\* See MaxOfTwo.
LEMMA MinOfTwo ==
  ASSUME NEW a \in Int, NEW b \in Int
  PROVE  Min({a, b}) = IF a <= b THEN a ELSE b
<1> DEFINE m == IF a <= b THEN a ELSE b
<1>1. m \in {a, b} /\ \A y \in {a, b} : m <= y
  OBVIOUS
<1>2. \A x \in {a, b} : (\A y \in {a, b} : x <= y) => x = m
  OBVIOUS
<1> HIDE DEF m
<1> QED BY <1>1, <1>2 DEF Min

\* A nonempty set of naturals has its least element.
LEMMA MinOfNats ==
  ASSUME NEW T \in SUBSET Nat, T # {}
  PROVE  Min(T) \in T /\ \A k \in T : Min(T) <= k
BY LeastNat DEF Min

\* A nonempty set of naturals below a bound has a greatest element.
LEMMA MaxOfBounded ==
  ASSUME NEW T \in SUBSET Nat, T # {}, NEW N \in Nat, \A k \in T : k <= N
  PROVE  Max(T) \in T /\ \A k \in T : k <= Max(T)
<1> DEFINE D == {N - k : k \in T}
<1>1. D \in SUBSET Nat /\ D # {}
  <2>1. \A k \in T : N - k \in Nat
    OBVIOUS
  <2>2. PICK k \in T : N - k \in D
    OBVIOUS
  <2> QED BY <2>1, <2>2
<1>2. PICK d \in D : \A e \in D : d <= e
  <2> HIDE DEF D
  <2> QED BY <1>1, LeastNat
<1>3. PICK m \in T : d = N - m
  OBVIOUS
<1>4. \A k \in T : m >= k
  BY <1>2, <1>3
<1> QED BY <1>3, <1>4 DEF Max

\* A finite set of naturals has a bound.
LEMMA FiniteIsBounded ==
  ASSUME NEW T \in SUBSET Nat, IsFiniteSet(T)
  PROVE  \E N \in Nat : \A k \in T : k <= N
<1> DEFINE Bounded(A) == \E N \in Nat : \A k \in A : k <= N
           Odd == {n \in Nat : \E A \in SUBSET Nat :
                      IsFiniteSet(A) /\ Cardinality(A) = n /\ ~Bounded(A)}
<1>1. SUFFICES ASSUME Odd # {} PROVE FALSE
  <2>1. Cardinality(T) \in Nat
    BY FS_CardinalityType
  <2> QED BY <2>1
<1>2. PICK n \in Odd : \A k \in Odd : n <= k
  <2>1. Odd \in SUBSET Nat
    OBVIOUS
  <2> HIDE DEF Odd
  <2> QED BY <1>1, <2>1, LeastNat
<1>3. PICK A \in SUBSET Nat : IsFiniteSet(A) /\ Cardinality(A) = n /\ ~Bounded(A)
  OBVIOUS
<1>4. PICK a \in A : TRUE
  <2>1. Bounded({})
    OBVIOUS
  <2>2. A # {}
    BY <1>3, <2>1
  <2> QED BY <2>2
<1>5. /\ IsFiniteSet(A \ {a})
      /\ Cardinality(A \ {a}) = n - 1
      /\ n - 1 \in Nat
  <2> HIDE DEF Odd, Bounded
  <2>1. /\ IsFiniteSet(A \ {a})
        /\ Cardinality(A \ {a}) = Cardinality(A) - 1
    BY <1>3, FS_RemoveElement
  <2>2. Cardinality(A \ {a}) \in Nat
    BY <2>1, FS_CardinalityType
  <2> QED BY <1>3, <2>1, <2>2
<1>6. n - 1 \notin Odd
  <2>1. ~(n <= n - 1)
    BY <1>5
  <2> HIDE DEF Odd
  <2> QED BY <1>2, <2>1
<1>7. Bounded(A \ {a})
  BY <1>5, <1>6
<1>8. PICK N \in Nat : \A k \in A \ {a} : k <= N
  BY <1>7
<1>9. N + a \in Nat /\ \A k \in A : k <= N + a
  BY <1>4, <1>8
<1> QED BY <1>3, <1>9

\* A function on a finite set with values in the naturals is bounded.
LEMMA FunctionIsBounded ==
  ASSUME NEW D, IsFiniteSet(D), NEW f \in [D -> Nat]
  PROVE  \E N \in Nat : \A d \in D : f[d] <= N
<1> DEFINE T == {f[d] : d \in D}
<1>1. f \in Surjection(D, T)
  BY DEF Surjection
<1>2. IsFiniteSet(T)
  BY <1>1, FS_Surjection
<1>3. T \in SUBSET Nat
  OBVIOUS
<1>4. PICK N \in Nat : \A k \in T : k <= N
  <2> HIDE DEF T
  <2> QED BY <1>2, <1>3, FiniteIsBounded
<1> QED BY <1>4

-----------------------------------------------------------------------------

\* A set of positions with no gap below any of them is the first so many.
LEMMA InitialPositions ==
  ASSUME NEW N \in Nat, NEW S \in SUBSET (1..N),
         \A i \in S : \A j \in 1..i : j \in S
  PROVE  Cardinality(S) \in 0..N /\ S = 1..Cardinality(S)
<1>1. CASE S = {}
  BY <1>1, FS_EmptySet
<1>2. CASE S # {}
  <2> DEFINE m == Max(S)
  <2>1. S \in SUBSET Nat /\ \A i \in S : i <= N
    OBVIOUS
  <2>2. m \in S /\ \A i \in S : i <= m
    BY <1>2, <2>1, MaxOfBounded
  <2> HIDE DEF m
  <2>3. m \in 1..N /\ \A i \in S : i \in 1..m
    BY <2>1, <2>2
  <2>4. \A i \in 1..m : i \in S
    BY <2>2
  <2>5. S = 1..m
    BY <2>3, <2>4
  <2>6. m \in Nat /\ m \in 0..N
    BY <2>3
  <2> QED BY <2>5, <2>6, PositionsUpTo
<1> QED BY <1>1, <1>2

-----------------------------------------------------------------------------
(* Sums.                                                                    *)

\* u[n] is the sum of the first n elements.
IsSums(u, s, N) ==
  /\ u \in [0..N -> Nat] /\ u[0] = 0 /\ SumSeq(s) = u[N]
  /\ \A n \in 1..N : u[n] = u[n - 1] + s[n]

\* The partial sums, named.
LEMMA SumsExist ==
  ASSUME NEW N \in Nat, NEW s \in [1..N -> Nat]
  PROVE  \E u : IsSums(u, s, N)
<1>1. s \in Seq(Nat) /\ Len(s) = N
  BY SeqIntro
<1>2. PICK u \in [0..Len(s) -> Nat] :
        /\ u[0] = 0 /\ SumSeq(s) = u[Len(s)]
        /\ \A n \in 1..Len(s) : u[n] = u[n - 1] + s[n]
  BY <1>1, SumSeqSteps
<1>3. IsSums(u, s, N)
  BY <1>1, <1>2 DEF IsSums
<1> QED BY <1>3

\* The sum of the sums.
LEMMA SumSeqAdd ==
  ASSUME NEW N \in Nat, NEW s \in [1..N -> Nat], NEW t \in [1..N -> Nat],
         NEW r \in [1..N -> Nat], \A n \in 1..N : r[n] = s[n] + t[n]
  PROVE  SumSeq(r) = SumSeq(s) + SumSeq(t)
<1>2. PICK u \in [0..N -> Nat] : /\ u[0] = 0 /\ SumSeq(s) = u[N]
                                 /\ \A n \in 1..N : u[n] = u[n - 1] + s[n]
  BY SumsExist DEF IsSums
<1>3. PICK v \in [0..N -> Nat] : /\ v[0] = 0 /\ SumSeq(t) = v[N]
                                 /\ \A n \in 1..N : v[n] = v[n - 1] + t[n]
  BY SumsExist DEF IsSums
<1>4. PICK w \in [0..N -> Nat] : /\ w[0] = 0 /\ SumSeq(r) = w[N]
                                 /\ \A n \in 1..N : w[n] = w[n - 1] + r[n]
  BY SumsExist DEF IsSums
<1> DEFINE P == {n \in 0..N : w[n] = u[n] + v[n]}
<1>5. 0 \in P
  BY <1>2, <1>3, <1>4
<1>6. ASSUME NEW n \in 1..N, n - 1 \in P PROVE n \in P
  <2>1. n \in 0..N /\ n - 1 \in 0..N
    OBVIOUS
  <2>2. /\ u[n - 1] \in Nat /\ v[n - 1] \in Nat /\ s[n] \in Nat /\ t[n] \in Nat
        /\ w[n - 1] = u[n - 1] + v[n - 1]
    BY <1>6, <2>1
  <2>3. u[n] = u[n - 1] + s[n] /\ v[n] = v[n - 1] + t[n] /\ w[n] = w[n - 1] + r[n]
    BY <1>2, <1>3, <1>4
  <2> QED BY <2>1, <2>2, <2>3
<1>7. N \in P
  <2>1. \A n \in 1..N : n - 1 \in P => n \in P
    BY <1>6
  <2> HIDE DEF P
  <2>2. \A n \in 0..N : n \in P
    BY <1>5, <2>1, IntervalInduction
  <2> QED BY <2>2
<1> QED BY <1>2, <1>3, <1>4, <1>7

\* Nothing adds up to nothing.
LEMMA SumSeqZero ==
  ASSUME NEW N \in Nat, NEW s \in [1..N -> Nat], \A n \in 1..N : s[n] = 0
  PROVE  SumSeq(s) = 0
<1>1. SumSeq(s) = SumSeq(s) + SumSeq(s)
  BY SumSeqAdd
<1>2. SumSeq(s) \in Nat
  BY SeqIntro, SumSeqType
<1> QED BY <1>1, <1>2

\* What is larger in every place has a larger sum.
LEMMA SumSeqMono ==
  ASSUME NEW N \in Nat, NEW s \in [1..N -> Nat], NEW t \in [1..N -> Nat],
         \A n \in 1..N : s[n] <= t[n]
  PROVE  SumSeq(s) <= SumSeq(t)
<1> DEFINE d == [n \in 1..N |-> t[n] - s[n]]
<1>1. d \in [1..N -> Nat] /\ \A n \in 1..N : t[n] = s[n] + d[n]
  <2>1. \A n \in 1..N : s[n] \in Nat /\ t[n] \in Nat /\ t[n] - s[n] \in Nat
    OBVIOUS
  <2> QED BY <2>1, SMTT(30)
<1> HIDE DEF d
<1>2. SumSeq(t) = SumSeq(s) + SumSeq(d)
  BY <1>1, SumSeqAdd
<1>3. SumSeq(s) \in Nat /\ SumSeq(d) \in Nat
  BY <1>1, SeqIntro, SumSeqType
<1> QED BY <1>2, <1>3

\* One place more adds one more number.
LEMMA SumSeqAppend ==
  ASSUME NEW N \in Nat, NEW s \in [1..N -> Nat], NEW r \in [1..N + 1 -> Nat],
         \A n \in 1..N : r[n] = s[n]
  PROVE  SumSeq(r) = SumSeq(s) + r[N + 1]
<1>3. PICK u \in [0..N -> Nat] : /\ u[0] = 0 /\ SumSeq(s) = u[N]
                                 /\ \A n \in 1..N : u[n] = u[n - 1] + s[n]
  BY SumsExist DEF IsSums
<1>4. PICK w \in [0..N + 1 -> Nat] : /\ w[0] = 0 /\ SumSeq(r) = w[N + 1]
                                     /\ \A n \in 1..N + 1 : w[n] = w[n - 1] + r[n]
  <2>1. N + 1 \in Nat
    OBVIOUS
  <2> DEFINE M == N + 1
  <2> HIDE DEF M
  <2>2. \E w : IsSums(w, r, M)
    BY <2>1, SumsExist DEF M
  <2> QED BY <2>2 DEF IsSums, M
<1> DEFINE P == {n \in 0..N : w[n] = u[n]}
<1>5. 0 \in P
  BY <1>3, <1>4
<1>6. ASSUME NEW n \in 1..N, n - 1 \in P PROVE n \in P
  <2>1. n \in 0..N /\ n \in 1..N + 1
    OBVIOUS
  <2>2. w[n - 1] = u[n - 1] /\ r[n] = s[n]
    BY <1>6
  <2>3. u[n] = u[n - 1] + s[n] /\ w[n] = w[n - 1] + r[n]
    BY <1>3, <1>4, <2>1
  <2> QED BY <2>1, <2>2, <2>3
<1>7. N \in P
  <2>1. \A n \in 1..N : n - 1 \in P => n \in P
    BY <1>6
  <2> HIDE DEF P
  <2>2. \A n \in 0..N : n \in P
    BY <1>5, <2>1, IntervalInduction
  <2> QED BY <2>2
<1>8. N + 1 \in 1..N + 1 /\ (N + 1) - 1 = N
  OBVIOUS
<1>9. w[N + 1] = w[N] + r[N + 1]
  BY <1>4, <1>8
<1> QED BY <1>3, <1>4, <1>7, <1>9

\* A single number.
LEMMA SumSeqSingle ==
  ASSUME NEW N \in Nat, NEW s \in [1..N -> Nat], NEW k \in 1..N,
         \A n \in 1..N : n # k => s[n] = 0
  PROVE  SumSeq(s) = s[k]
<1>2. PICK u \in [0..N -> Nat] : /\ u[0] = 0 /\ SumSeq(s) = u[N]
                                 /\ \A n \in 1..N : u[n] = u[n - 1] + s[n]
  BY SumsExist DEF IsSums
<1> DEFINE P == {n \in 0..N : u[n] = IF n < k THEN 0 ELSE s[k]}
<1>3. 0 \in P
  BY <1>2
<1>4. ASSUME NEW n \in 1..N, n - 1 \in P PROVE n \in P
  <2>1. n \in 0..N /\ u[n] = u[n - 1] + s[n] /\ s[n] \in Nat /\ s[k] \in Nat
    BY <1>2
  <2>2. u[n - 1] = IF n - 1 < k THEN 0 ELSE s[k]
    BY <1>4
  <2>3. CASE n = k
    BY <2>1, <2>2, <2>3
  <2>4. CASE n # k
    <3>1. s[n] = 0 /\ (n - 1 < k <=> n < k)
      BY <2>4
    <3> QED BY <2>1, <2>2, <3>1
  <2> QED BY <2>3, <2>4
<1>5. N \in P
  <2>1. \A n \in 1..N : n - 1 \in P => n \in P
    BY <1>4
  <2> HIDE DEF P
  <2>2. \A n \in 0..N : n \in P
    BY <1>3, <2>1, IntervalInduction
  <2> QED BY <2>2
<1> QED BY <1>2, <1>5

\* The same number in some of the places.
LEMMA SumSeqSame ==
  ASSUME NEW N \in Nat, NEW W \in SUBSET (1..N), NEW q \in Nat, NEW s \in [1..N -> Nat],
         \A n \in 1..N : s[n] = IF n \in W THEN q ELSE 0
  PROVE  /\ IsFiniteSet(W) /\ Cardinality(W) \in Nat
         /\ SumSeq(s) = q * Cardinality(W)
<1>1. PICK u : IsSums(u, s, N)
  BY SumsExist
<1> DEFINE Upto(n) == W \cap (1..n)
           P == {n \in 0..N : u[n] = q * Cardinality(Upto(n))}
<1>2. ASSUME NEW n \in 0..N
      PROVE  IsFiniteSet(Upto(n)) /\ Cardinality(Upto(n)) \in Nat /\ u[n] \in Nat
  <2>1. IsFiniteSet(1..n) /\ Upto(n) \in SUBSET (1..n)
    BY PositionsUpTo
  <2>2. IsFiniteSet(Upto(n))
    BY <2>1, FS_Subset
  <2> QED BY <1>1, <2>2, FS_CardinalityType DEF IsSums
<1>3. 0 \in P
  <2>1. Upto(0) = {}
    OBVIOUS
  <2>2. Cardinality(Upto(0)) = 0
    BY <2>1, FS_EmptySet
  <2>3. q * 0 = 0 /\ 0 \in 0..N
    OBVIOUS
  <2> HIDE DEF Upto
  <2> QED BY <1>1, <2>2, <2>3 DEF IsSums
<1>4. ASSUME NEW n \in 1..N, n - 1 \in P PROVE n \in P
  <2>1. n \in 0..N /\ n - 1 \in 0..N /\ u[n] = u[n - 1] + s[n]
        /\ u[n - 1] = q * Cardinality(Upto(n - 1))
    BY <1>1, <1>4 DEF IsSums
  <2>2. CASE n \in W
    <3>1. Upto(n) = Upto(n - 1) \cup {n} /\ n \notin Upto(n - 1)
      BY <2>2
    <3>2. Cardinality(Upto(n)) = Cardinality(Upto(n - 1)) + 1
      <4> HIDE DEF Upto
      <4> QED BY <1>2, <2>1, <3>1, FS_AddElement
    <3> DEFINE c == Cardinality(Upto(n - 1))
    <3>3. c \in Nat
      BY <1>2, <2>1
    <3>4. s[n] = q
      BY <2>2
    <3> HIDE DEF Upto, c
    <3>5. q * (c + 1) = q * c + q
      BY <3>3
    <3>6. u[n] = q * c + q /\ Cardinality(Upto(n)) = c + 1
      BY <2>1, <3>2, <3>4 DEF c
    <3> QED BY <2>1, <3>5, <3>6
  <2>3. CASE n \notin W
    <3>1. Upto(n) = Upto(n - 1)
      BY <2>3
    <3>2. s[n] = 0 /\ u[n - 1] \in Nat
      BY <1>2, <2>1, <2>3
    <3> HIDE DEF Upto
    <3> QED BY <2>1, <3>1, <3>2
  <2> QED BY <2>2, <2>3
<1>5. N \in P
  <2>1. \A n \in 1..N : n - 1 \in P => n \in P
    BY <1>4
  <2> HIDE DEF P
  <2>2. \A n \in 0..N : n \in P
    BY <1>3, <2>1, IntervalInduction
  <2> QED BY <2>2
<1>6. Upto(N) = W /\ N \in 0..N
  <2>1. N \in 0..N
    OBVIOUS
  <2>2. \A x \in W : x \in 1..N
    OBVIOUS
  <2> QED BY <2>1, <2>2
<1> HIDE DEF Upto
<1> QED BY <1>1, <1>2, <1>5, <1>6 DEF IsSums

\* A table of numbers adds up to the same by rows and by columns.
LEMMA SumExchange ==
  ASSUME NEW N \in Nat, NEW M \in Nat,
         NEW G \in [1..N -> [1..M -> Nat]], NEW C \in [1..M -> [1..N -> Nat]],
         \A k \in 1..M : \A i \in 1..N : C[k][i] = G[i][k],
         NEW row \in [1..N -> Nat], \A i \in 1..N : row[i] = SumSeq(G[i]),
         NEW col \in [1..M -> Nat], \A k \in 1..M : col[k] = SumSeq(C[k])
  PROVE  SumSeq(row) = SumSeq(col)
<1> DEFINE U == [i \in 1..N |-> CHOOSE u : IsSums(u, G[i], M)]
           Upto(m) == [i \in 1..N |-> U[i][m]]
           Place(m) == C[m]
<1>1. \A i \in 1..N : G[i] \in [1..M -> Nat]
  OBVIOUS
<1>2. ASSUME NEW i \in 1..N PROVE IsSums(U[i], G[i], M)
  <2>1. \E u : IsSums(u, G[i], M)
    BY <1>1, SumsExist
  <2>2. U[i] = CHOOSE u : IsSums(u, G[i], M)
    OBVIOUS
  <2> HIDE DEF U
  <2> QED BY <2>1, <2>2
<1>3. PICK w : IsSums(w, col, M)
  BY SumsExist
<1> HIDE DEF U
<1>4. /\ \A m \in 0..M : Upto(m) \in [1..N -> Nat]
      /\ \A m \in 1..M : Place(m) \in [1..N -> Nat]
      /\ \A m \in 1..M : \A i \in 1..N : Upto(m)[i] = Upto(m - 1)[i] + Place(m)[i]
      /\ \A i \in 1..N : Upto(0)[i] = 0
  <2>1. \A i \in 1..N : U[i] \in [0..M -> Nat] /\ U[i][0] = 0
    BY <1>2 DEF IsSums
  <2>2. \A i \in 1..N : \A m \in 1..M : U[i][m] = U[i][m - 1] + G[i][m]
    BY <1>2 DEF IsSums
  <2>3. \A i \in 1..N : \A m \in 1..M : G[i][m] \in Nat
    BY <1>1
  <2>4. \A m \in 0..M : Upto(m) \in [1..N -> Nat]
    BY <2>1
  <2>5. \A m \in 1..M : Place(m) \in [1..N -> Nat]
    BY <2>3
  <2>6. \A i \in 1..N : Upto(0)[i] = 0
    BY <2>1
  <2>7. ASSUME NEW m \in 1..M, NEW i \in 1..N
        PROVE  Upto(m)[i] = Upto(m - 1)[i] + Place(m)[i]
    <3>1. U[i][m] = U[i][m - 1] + G[i][m]
      BY <2>2
    <3>2. Place(m)[i] = G[i][m]
      OBVIOUS
    <3>3. Upto(m)[i] = U[i][m] /\ Upto(m - 1)[i] = U[i][m - 1]
      OBVIOUS
    <3> HIDE DEF Upto, Place
    <3> QED BY <3>1, <3>2, <3>3
  <2> HIDE DEF Upto, Place
  <2> QED BY <2>4, <2>5, <2>6, <2>7
<1> DEFINE P == {m \in 0..M : SumSeq(Upto(m)) = w[m]}
<1> HIDE DEF Upto
<1>5. 0 \in P
  <2>1. 0 \in 0..M
    OBVIOUS
  <2>2. Upto(0) \in [1..N -> Nat] /\ \A i \in 1..N : Upto(0)[i] = 0
    BY <1>4, <2>1
  <2>3. SumSeq(Upto(0)) = 0
    BY <2>2, SumSeqZero
  <2> QED BY <1>3, <2>1, <2>3 DEF IsSums
<1>6. ASSUME NEW m \in 1..M, m - 1 \in P PROVE m \in P
  <2>1. m \in 0..M /\ m - 1 \in 0..M
    OBVIOUS
  <2>2. col[m] = SumSeq(Place(m))
    OBVIOUS
  <2> HIDE DEF Place
  <2>3. SumSeq(Upto(m)) = SumSeq(Upto(m - 1)) + SumSeq(Place(m))
    <3>1. /\ Upto(m) \in [1..N -> Nat] /\ Upto(m - 1) \in [1..N -> Nat]
          /\ Place(m) \in [1..N -> Nat]
          /\ \A i \in 1..N : Upto(m)[i] = Upto(m - 1)[i] + Place(m)[i]
      BY <1>4, <2>1
    <3> QED BY <3>1, SumSeqAdd
  <2>4. w[m] = w[m - 1] + col[m]
    BY <1>3 DEF IsSums
  <2> QED BY <1>6, <2>1, <2>2, <2>3, <2>4
<1>7. M \in P
  <2>1. \A m \in 1..M : m - 1 \in P => m \in P
    BY <1>6
  <2> HIDE DEF P
  <2>2. \A m \in 0..M : m \in P
    BY <1>5, <2>1, IntervalInduction
  <2> QED BY <2>2
<1>8. Upto(M) = row
  <2>1. \A i \in 1..N : U[i][M] = row[i]
    BY <1>2 DEF IsSums
  <2> QED BY <2>1 DEF Upto
<1> QED BY <1>3, <1>7, <1>8 DEF IsSums

\* u adds up every subset of S, in the order CHOOSE takes the elements.
ChosenSums(u, f, S) ==
  /\ u \in [SUBSET S -> Nat] /\ SumFunctionOnSet(f, S) = u[S]
  /\ \A T \in SUBSET S : u[T] = IF T = {} THEN 0
                                ELSE LET x == CHOOSE x \in T : TRUE
                                     IN  f[x] + u[T \ {x}]

\* The recursion of SumFunctionOnSet, unfolded.
LEMMA SetSumChooses ==
  ASSUME NEW D, NEW S \in SUBSET D, IsFiniteSet(S), NEW f \in [D -> Nat]
  PROVE  \E u : ChosenSums(u, f, S)
<1> DEFINE c(T) == CHOOSE x \in T : TRUE
           State == [SUBSET S -> Nat]
           Pass(h) == [T \in SUBSET S |-> IF T = {} THEN 0 ELSE f[c(T)] + h[T \ {c(T)}]]
           Sums(h) == h = Pass(h)
           iter == CHOOSE h : Sums(h)
           N == Cardinality(S) + 1
           zero == [T \in SUBSET S |-> 0]
           step == [n \in 1..N |-> [h \in State |-> Pass(h)]]
<1>1. /\ Cardinality(S) \in Nat /\ N \in Nat
      /\ \A T \in SUBSET S : IsFiniteSet(T) /\ Cardinality(T) \in 0..Cardinality(S)
  <2>1. Cardinality(S) \in Nat
    BY FS_CardinalityType
  <2>2. ASSUME NEW T \in SUBSET S
        PROVE  IsFiniteSet(T) /\ Cardinality(T) \in 0..Cardinality(S)
    <3>1. IsFiniteSet(T) /\ Cardinality(T) <= Cardinality(S)
      BY FS_Subset
    <3>2. Cardinality(T) \in Nat
      BY <3>1, FS_CardinalityType
    <3> QED BY <2>1, <3>1, <3>2
  <2> QED BY <2>1, <2>2
<1>2. ASSUME NEW T \in SUBSET S, T # {}
      PROVE  /\ c(T) \in T /\ T \ {c(T)} \in SUBSET S /\ f[c(T)] \in Nat
             /\ Cardinality(T \ {c(T)}) = Cardinality(T) - 1
  <2>1. c(T) \in T
    BY <1>2
  <2> HIDE DEF c
  <2> QED BY <1>1, <2>1, FS_RemoveElement
<1> HIDE DEF c, N
<1>3. \A h \in State : Pass(h) \in State
  <2> SUFFICES ASSUME NEW h \in State, NEW T \in SUBSET S, T # {}
               PROVE  f[c(T)] + h[T \ {c(T)}] \in Nat
    OBVIOUS
  <2>1. f[c(T)] \in Nat /\ T \ {c(T)} \in SUBSET S
    BY <1>2
  <2> QED BY <2>1
<1>4. PICK F \in [0..N -> State] : IsRecursion(F, N, zero, step)
  <2>1. zero \in State /\ step \in [1..N -> [State -> State]]
    BY <1>3
  <2> HIDE DEF State, zero, step
  <2> QED BY <1>1, <2>1, RecursionExists
<1>5. F[0] = zero /\ \A n \in 1..N : F[n - 1] \in State /\ F[n] = Pass(F[n - 1])
  <2>1. F[0] = zero
    <3>1. 0 \in 0..N
      BY <1>1
    <3> HIDE DEF zero, step, State
    <3> QED BY <1>4, <3>1 DEF IsRecursion
  <2>2. ASSUME NEW n \in 1..N PROVE F[n - 1] \in State /\ F[n] = Pass(F[n - 1])
    <3>1. n \in 0..N /\ n # 0 /\ n - 1 \in 0..N
      BY <1>1
    <3>2. F[n - 1] \in State
      BY <3>1
    <3>3. F[n] = step[n][F[n - 1]]
      BY <1>4, <3>1 DEF IsRecursion
    <3> HIDE DEF Pass, State
    <3> QED BY <3>2, <3>3
  <2> QED BY <2>1, <2>2
<1>6. ASSUME NEW n \in 1..N, NEW T \in SUBSET S
      PROVE  F[n][T] = IF T = {} THEN 0 ELSE f[c(T)] + F[n - 1][T \ {c(T)}]
  BY <1>5, ZenonT(60)
<1> DEFINE Settled(n) == \A T \in SUBSET S : Cardinality(T) <= n => F[n + 1][T] = F[n][T]
           P == {n \in 0..Cardinality(S) : Settled(n)}
<1> HIDE DEF State, Pass, Sums, iter, zero, step
<1>7. 0 \in P
  <2>1. ASSUME NEW T \in SUBSET S, Cardinality(T) <= 0 PROVE F[0 + 1][T] = F[0][T]
    <3>1. T = {}
      <4>1. Cardinality(T) = 0
        BY <1>1, <2>1
      <4> QED BY <1>1, <4>1, FS_EmptySet
    <3>2. 0 + 1 = 1 /\ 1 \in 1..N
      BY <1>1 DEF N
    <3>3. F[1][T] = 0
      BY <1>6, <3>1, <3>2
    <3>4. F[0][T] = 0
      BY <1>5 DEF zero
    <3> QED BY <3>2, <3>3, <3>4
  <2> QED BY <1>1, <2>1
<1>8. ASSUME NEW n \in 1..Cardinality(S), n - 1 \in P PROVE n \in P
  <2>1. /\ n \in 0..Cardinality(S) /\ n \in 1..N /\ n + 1 \in 1..N
        /\ (n + 1) - 1 = n /\ (n - 1) + 1 = n
    BY <1>1 DEF N
  <2>2. ASSUME NEW T \in SUBSET S, Cardinality(T) <= n PROVE F[n + 1][T] = F[n][T]
    <3>1. F[n + 1][T] = IF T = {} THEN 0 ELSE f[c(T)] + F[n][T \ {c(T)}]
      <4>1. F[n + 1][T] = IF T = {} THEN 0 ELSE f[c(T)] + F[(n + 1) - 1][T \ {c(T)}]
        BY <1>6, <2>1
      <4> QED BY <2>1, <4>1
    <3>2. F[n][T] = IF T = {} THEN 0 ELSE f[c(T)] + F[n - 1][T \ {c(T)}]
      BY <1>6, <2>1
    <3>3. T # {} => F[n][T \ {c(T)}] = F[n - 1][T \ {c(T)}]
      <4> SUFFICES ASSUME T # {} PROVE F[n][T \ {c(T)}] = F[n - 1][T \ {c(T)}]
        OBVIOUS
      <4>1. T \ {c(T)} \in SUBSET S /\ Cardinality(T \ {c(T)}) = Cardinality(T) - 1
        BY <1>2
      <4>2. Cardinality(T) \in Nat
        BY <1>1
      <4>3. Cardinality(T \ {c(T)}) <= n - 1
        BY <2>2, <4>1, <4>2
      <4>4. Settled(n - 1)
        BY <1>8
      <4>5. F[(n - 1) + 1][T \ {c(T)}] = F[n - 1][T \ {c(T)}]
        BY <4>1, <4>3, <4>4
      <4> QED BY <2>1, <4>5
    <3> QED BY <3>1, <3>2, <3>3
  <2> QED BY <2>1, <2>2
<1>9. Settled(Cardinality(S))
  <2>1. \A n \in 1..Cardinality(S) : n - 1 \in P => n \in P
    BY <1>8
  <2> HIDE DEF P, Settled
  <2>2. \A n \in 0..Cardinality(S) : n \in P
    BY <1>1, <1>7, <2>1, IntervalInduction
  <2>3. Cardinality(S) \in P
    BY <1>1, <2>2
  <2> QED BY <2>3 DEF P
<1> DEFINE h == F[N]
<1>10. h \in State /\ \A T \in SUBSET S : h[T] = IF T = {} THEN 0
                                                ELSE f[c(T)] + h[T \ {c(T)}]
  <2>1. N \in 1..N /\ N - 1 = Cardinality(S) /\ N \in 0..N
    BY <1>1 DEF N
  <2>2. ASSUME NEW T \in SUBSET S
        PROVE  h[T] = IF T = {} THEN 0 ELSE f[c(T)] + h[T \ {c(T)}]
    <3>1. h[T] = IF T = {} THEN 0 ELSE f[c(T)] + F[Cardinality(S)][T \ {c(T)}]
      BY <1>6, <2>1
    <3>2. T # {} => h[T \ {c(T)}] = F[Cardinality(S)][T \ {c(T)}]
      <4> SUFFICES ASSUME T # {} PROVE h[T \ {c(T)}] = F[Cardinality(S)][T \ {c(T)}]
        OBVIOUS
      <4>1. T \ {c(T)} \in SUBSET S /\ Cardinality(T \ {c(T)}) <= Cardinality(S)
        BY <1>1, <1>2
      <4> QED BY <1>9, <4>1 DEF N
    <3> QED BY <3>1, <3>2
  <2>3. h \in State
    BY <2>1
  <2> QED BY <2>2, <2>3
<1>11. Sums(h)
  <2> HIDE DEF h
  <2> QED BY <1>10 DEF Sums, Pass, State
<1>12. Sums(iter)
  <2>1. \E g : Sums(g)
    BY <1>11
  <2> QED BY <2>1 DEF iter
<1>13. SumFunctionOnSet(f, S) = iter[S]
  BY DEF SumFunctionOnSet, FoldFunctionOnSet, MapThenFoldSet, iter, Sums, Pass, c
<1>14. iter \in State /\ \A T \in SUBSET S : iter[T] = IF T = {} THEN 0
                                                   ELSE f[c(T)] + iter[T \ {c(T)}]
  <2>1. \A T \in SUBSET S : iter[T] = IF T = {} THEN 0 ELSE f[c(T)] + iter[T \ {c(T)}]
    BY <1>12 DEF Sums, Pass
  <2>2. iter = [T \in SUBSET S |-> iter[T]]
    BY <1>12 DEF Sums, Pass
  <2>3. iter[{}] = 0
    BY <2>1
  <2> DEFINE Q == {n \in 0..Cardinality(S) : \A T \in SUBSET S :
                     Cardinality(T) <= n => iter[T] \in Nat}
  <2>4. 0 \in Q
    <3>1. ASSUME NEW T \in SUBSET S, Cardinality(T) <= 0 PROVE iter[T] \in Nat
      <4>1. Cardinality(T) = 0
        BY <1>1, <3>1
      <4>2. T = {}
        BY <1>1, <4>1, FS_EmptySet
      <4> QED BY <2>3, <4>2
    <3> QED BY <1>1, <3>1
  <2>5. ASSUME NEW n \in 1..Cardinality(S), n - 1 \in Q PROVE n \in Q
    <3>1. ASSUME NEW T \in SUBSET S, Cardinality(T) <= n PROVE iter[T] \in Nat
      <4>1. CASE T = {}
        BY <2>3, <4>1
      <4>2. CASE T # {}
        <5>1. /\ T \ {c(T)} \in SUBSET S /\ f[c(T)] \in Nat
              /\ Cardinality(T \ {c(T)}) = Cardinality(T) - 1
          BY <1>2, <4>2
        <5>2. Cardinality(T) \in Nat
          BY <1>1
        <5>3. Cardinality(T \ {c(T)}) <= n - 1
          BY <3>1, <5>1, <5>2
        <5>4. iter[T \ {c(T)}] \in Nat
          BY <2>5, <5>1, <5>3
        <5>5. iter[T] = f[c(T)] + iter[T \ {c(T)}]
          BY <2>1, <4>2
        <5> QED BY <5>1, <5>4, <5>5
      <4> QED BY <4>1, <4>2
    <3> QED BY <3>1
  <2>6. Cardinality(S) \in Q
    <3>1. \A n \in 1..Cardinality(S) : n - 1 \in Q => n \in Q
      BY <2>5
    <3> HIDE DEF Q
    <3>2. \A n \in 0..Cardinality(S) : n \in Q
      BY <1>1, <2>4, <3>1, IntervalInduction
    <3> QED BY <1>1, <3>2
  <2>7. \A T \in SUBSET S : iter[T] \in Nat
    BY <1>1, <2>6
  <2> QED BY <2>1, <2>2, <2>7 DEF State
<1> HIDE DEF iter
<1>15. ChosenSums(iter, f, S)
  BY <1>13, <1>14 DEF State, c, ChosenSums
<1> QED BY <1>15

\* And whatever element is taken first.
FreeSums(u, f, S) ==
  /\ u \in [SUBSET S -> Nat] /\ SumFunctionOnSet(f, S) = u[S] /\ u[{}] = 0
  /\ \A T \in SUBSET S : \A x \in T : u[T] = f[x] + u[T \ {x}]

\* See FreeSums.
LEMMA SetSumTakes ==
  ASSUME NEW D, NEW S \in SUBSET D, IsFiniteSet(S), NEW f \in [D -> Nat]
  PROVE  \E u : FreeSums(u, f, S)
<1>1. PICK u : ChosenSums(u, f, S)
  BY SetSumChooses
<1> DEFINE c(T) == CHOOSE x \in T : TRUE
           N == Cardinality(S)
           AnyOrder(T) == \A x \in T : u[T] = f[x] + u[T \ {x}]
           P == {n \in 0..N : \A T \in SUBSET S : Cardinality(T) <= n => AnyOrder(T)}
<1>2. /\ N \in Nat
      /\ \A T \in SUBSET S : IsFiniteSet(T) /\ Cardinality(T) \in 0..N
  <2>1. N \in Nat
    BY FS_CardinalityType
  <2>2. ASSUME NEW T \in SUBSET S PROVE IsFiniteSet(T) /\ Cardinality(T) \in 0..N
    <3>1. IsFiniteSet(T) /\ Cardinality(T) <= N
      BY FS_Subset
    <3>2. Cardinality(T) \in Nat
      BY <3>1, FS_CardinalityType
    <3> QED BY <2>1, <3>1, <3>2
  <2> QED BY <2>1, <2>2
<1>3. u \in [SUBSET S -> Nat] /\ SumFunctionOnSet(f, S) = u[S]
  BY <1>1 DEF ChosenSums
<1>4. \A T \in SUBSET S : \A x \in T :
        /\ T \ {x} \in SUBSET S /\ f[x] \in Nat /\ u[T \ {x}] \in Nat
        /\ Cardinality(T \ {x}) = Cardinality(T) - 1
  <2> SUFFICES ASSUME NEW T \in SUBSET S, NEW x \in T
               PROVE  /\ T \ {x} \in SUBSET S /\ f[x] \in Nat /\ u[T \ {x}] \in Nat
                      /\ Cardinality(T \ {x}) = Cardinality(T) - 1
    OBVIOUS
  <2>1. Cardinality(T \ {x}) = Cardinality(T) - 1
    BY <1>2, FS_RemoveElement
  <2>2. T \ {x} \in SUBSET S /\ f[x] \in Nat
    OBVIOUS
  <2> QED BY <1>3, <2>1, <2>2
<1>5. \A T \in SUBSET S : T # {} => c(T) \in T /\ u[T] = f[c(T)] + u[T \ {c(T)}]
  BY <1>1 DEF ChosenSums
<1>6. u[{}] = 0
  BY <1>1 DEF ChosenSums
<1> HIDE DEF c, N
<1>7. 0 \in P
  <2>1. ASSUME NEW T \in SUBSET S, Cardinality(T) <= 0 PROVE AnyOrder(T)
    <3>1. Cardinality(T) = 0
      BY <1>2, <2>1
    <3>2. T = {}
      BY <1>2, <3>1, FS_EmptySet
    <3> QED BY <3>2
  <2> HIDE DEF AnyOrder
  <2> QED BY <1>2, <2>1
<1>8. ASSUME NEW n \in 1..N, n - 1 \in P PROVE n \in P
  <2>1. ASSUME NEW T \in SUBSET S, Cardinality(T) <= n, NEW x \in T
        PROVE  u[T] = f[x] + u[T \ {x}]
    <3> DEFINE y == c(T)
    <3>1. y \in T /\ u[T] = f[y] + u[T \ {y}]
      BY <1>5
    <3> HIDE DEF y
    <3>2. CASE x = y
      BY <3>1, <3>2
    <3>3. CASE x # y
      <4>1. /\ T \ {x} \in SUBSET S /\ T \ {y} \in SUBSET S
            /\ Cardinality(T \ {x}) <= n - 1 /\ Cardinality(T \ {y}) <= n - 1
        <5>1. Cardinality(T) \in Nat
          BY <1>2
        <5> QED BY <1>4, <2>1, <3>1, <5>1
      <4>2. AnyOrder(T \ {x}) /\ AnyOrder(T \ {y})
        <5> HIDE DEF AnyOrder
        <5> QED BY <1>8, <4>1
      <4>3. u[T \ {y}] = f[x] + u[(T \ {y}) \ {x}]
        BY <3>3, <4>2
      <4>4. u[T \ {x}] = f[y] + u[(T \ {x}) \ {y}]
        BY <3>1, <3>3, <4>2
      <4> DEFINE rest == u[(T \ {x}) \ {y}]
      <4>5. u[(T \ {y}) \ {x}] = rest
        <5>1. (T \ {x}) \ {y} = (T \ {y}) \ {x}
          OBVIOUS
        <5> QED BY <5>1
      <4>6. rest \in Nat /\ f[x] \in Nat /\ f[y] \in Nat
        BY <1>4, <3>1, <3>3, <4>1
      <4>7. u[T \ {x}] = f[y] + rest
        BY <4>4
      <4> HIDE DEF rest
      <4> QED BY <3>1, <4>3, <4>5, <4>6, <4>7
    <3> QED BY <3>2, <3>3
  <2>2. n \in 0..N
    BY <1>2
  <2> QED BY <2>1, <2>2
<1>9. N \in P
  <2>1. \A n \in 1..N : n - 1 \in P => n \in P
    BY <1>8
  <2> HIDE DEF P
  <2>2. \A n \in 0..N : n \in P
    BY <1>2, <1>7, <2>1, IntervalInduction
  <2> QED BY <1>2, <2>2
<1>10. \A T \in SUBSET S : AnyOrder(T)
  <2> HIDE DEF AnyOrder
  <2>1. \A T \in SUBSET S : Cardinality(T) <= N
    BY <1>2
  <2> QED BY <1>9, <2>1
<1>11. FreeSums(u, f, S)
  BY <1>6, <1>10, <1>3 DEF FreeSums
<1> QED BY <1>11

\* The vector v has f at each element of S, in the one place key gives it, and nothing
\* in the other places.
Lists(key, v, N, f, S) ==
  /\ v \in [1..N -> Nat]
  /\ \A i, j \in 1..N : key[i] = key[j] => i = j
  /\ \A x \in S : \E i \in 1..N : key[i] = x
  /\ \A i \in 1..N : v[i] = IF key[i] \in S THEN f[key[i]] ELSE 0

\* It adds up to the same as the set.
LEMMA SetSumIsSeqSum ==
  ASSUME NEW D, NEW S \in SUBSET D, IsFiniteSet(S), NEW f \in [D -> Nat],
         NEW N \in Nat, NEW key, NEW v, Lists(key, v, N, f, S)
  PROVE  SumFunctionOnSet(f, S) = SumSeq(v)
<1> v \in [1..N -> Nat]
  BY DEF Lists
<1> /\ \A i, j \in 1..N : key[i] = key[j] => i = j
    /\ \A x \in S : \E i \in 1..N : key[i] = x
    /\ \A i \in 1..N : v[i] = IF key[i] \in S THEN f[key[i]] ELSE 0
  BY DEF Lists
<1>1. PICK u : FreeSums(u, f, S)
  BY SetSumTakes
<1>2. PICK w : IsSums(w, v, N)
  BY SumsExist
<1> DEFINE UpTo(n) == {x \in S : \E i \in 1..n : key[i] = x}
           P == {n \in 0..N : w[n] = u[UpTo(n)]}
<1>3. 0 \in P
  <2>1. UpTo(0) = {}
    OBVIOUS
  <2> HIDE DEF UpTo
  <2>2. w[0] = 0 /\ u[{}] = 0 /\ 0 \in 0..N
    BY <1>1, <1>2 DEF IsSums, FreeSums
  <2> QED BY <2>1, <2>2
<1>4. ASSUME NEW n \in 1..N, n - 1 \in P PROVE n \in P
  <2>1. n \in 0..N /\ n - 1 \in 0..N /\ 1..n = (1..n - 1) \cup {n} /\ n \notin 1..n - 1
        /\ (1..n - 1) \subseteq 1..N
    OBVIOUS
  <2>2. w[n] = w[n - 1] + v[n] /\ w[n - 1] = u[UpTo(n - 1)] /\ w[n - 1] \in Nat
    BY <1>2, <1>4, <2>1 DEF IsSums
  <2>3. CASE key[n] \in S
    <3>1. key[n] \in UpTo(n) /\ UpTo(n) \ {key[n]} = UpTo(n - 1) /\ UpTo(n) \in SUBSET S
      BY <2>1, <2>3
    <3>2. u[UpTo(n)] = f[key[n]] + u[UpTo(n - 1)]
      <4> HIDE DEF UpTo
      <4>1. \A T \in SUBSET S : \A x \in T : u[T] = f[x] + u[T \ {x}]
        BY <1>1 DEF FreeSums
      <4>2. u[UpTo(n)] = f[key[n]] + u[UpTo(n) \ {key[n]}]
        BY <3>1, <4>1
      <4> QED BY <3>1, <4>2
    <3>3. v[n] = f[key[n]] /\ v[n] \in Nat
      BY <2>3
    <3> HIDE DEF UpTo
    <3> QED BY <2>1, <2>2, <3>2, <3>3
  <2>4. CASE key[n] \notin S
    <3>1. UpTo(n) = UpTo(n - 1)
      BY <2>1, <2>4
    <3>2. v[n] = 0
      BY <2>4
    <3> HIDE DEF UpTo
    <3> QED BY <2>1, <2>2, <3>1, <3>2
  <2> QED BY <2>3, <2>4
<1>5. N \in P
  <2>1. \A n \in 1..N : n - 1 \in P => n \in P
    BY <1>4
  <2> HIDE DEF P
  <2>2. \A n \in 0..N : n \in P
    BY <1>3, <2>1, IntervalInduction
  <2> QED BY <2>2
<1>6. UpTo(N) = S
  OBVIOUS
<1> HIDE DEF UpTo
<1> QED BY <1>1, <1>2, <1>5, <1>6 DEF IsSums, FreeSums

=============================================================================
