--------------------------- MODULE TableWireProofs ---------------------------
(***************************************************************************)
(* Theorems about what the client reads of a table and of a hand result, for *)
(* any players, blinds, buy-ins and bets.  First what a row written field by  *)
(* field is read back as, then rows behind one another and lists of them,     *)
(* then the messages.  A message has room for 1023 fields; the last part      *)
(* shows that the tables the engine can reach fit into it when there are at   *)
(* most 14 seats, with three streets of side pots and everybody in each.      *)
(***************************************************************************)
EXTENDS TableWire, HoldemTurnProofs

\* Three vectors behind one another.
LEMMA ConcatAssociates ==
  ASSUME NEW S
  PROVE  \A s, t, u \in Seq(S) : (s \o t) \o u = s \o (t \o u)
BY ConcatAssociative

\* The elements of two vectors behind one another.
LEMMA ConcatIs ==
  ASSUME NEW S, NEW s \in Seq(S), NEW t \in Seq(S)
  PROVE  /\ Len(s) \in Nat /\ Len(t) \in Nat
         /\ s \o t \in Seq(S) /\ Len(s \o t) = Len(s) + Len(t)
         /\ \A k \in 1..Len(s) : k \in 1..Len(s) + Len(t) /\ (s \o t)[k] = s[k]
         /\ \A k \in 1..Len(t) :
              Len(s) + k \in 1..Len(s) + Len(t) /\ (s \o t)[Len(s) + k] = t[k]
         /\ \A k \in 1..Len(s) + Len(t) :
              k \in 1..Len(s) \/ \E i \in 1..Len(t) : k = Len(s) + i
<1> DEFINE M == Len(s)
           N == Len(t)
           r == s \o t
<1>1. M \in Nat /\ N \in Nat
  BY LenProperties
<1>2. /\ r \in Seq(S) /\ Len(r) = M + N
      /\ \A k \in 1..M + N : r[k] = IF k <= M THEN s[k] ELSE t[k - M]
  BY ConcatProperties
<1> HIDE DEF r, M, N
<1>3. ASSUME NEW k \in 1..M PROVE k \in 1..M + N /\ r[k] = s[k]
  <2>1. k \in 1..M + N /\ k <= M
    BY <1>1
  <2> QED BY <1>2, <2>1
<1>4. ASSUME NEW k \in 1..N PROVE M + k \in 1..M + N /\ r[M + k] = t[k]
  <2>1. M + k \in 1..M + N /\ ~(M + k <= M) /\ (M + k) - M = k
    BY <1>1
  <2> QED BY <1>2, <2>1
<1>5. ASSUME NEW k \in 1..M + N PROVE k \in 1..M \/ \E i \in 1..N : k = M + i
  <2>1. CASE k <= M
    BY <1>1, <2>1
  <2>2. CASE ~(k <= M)
    <3>1. k - M \in 1..N /\ k = M + (k - M)
      BY <1>1, <2>2
    <3> QED BY <3>1
  <2> QED BY <2>1, <2>2
<1> QED BY <1>1, <1>2, <1>3, <1>4, <1>5 DEF r, M, N

\* The sum of two vectors behind one another.
LEMMA SumSeqConcat ==
  ASSUME NEW s \in Seq(Nat), NEW t \in Seq(Nat)
  PROVE  SumSeq(s \o t) = SumSeq(s) + SumSeq(t)
<1> DEFINE M == Len(s)
           N == Len(t)
           r == s \o t
<1>1. /\ M \in Nat /\ N \in Nat /\ r \in Seq(Nat) /\ Len(r) = M + N
      /\ \A n \in 1..M + N : r[n] = IF n <= M THEN s[n] ELSE t[n - M]
  BY LenProperties, ConcatProperties
<1>2. /\ \A n \in 1..M : s[n] \in Nat
      /\ \A n \in 1..N : t[n] \in Nat
  BY ElementOfSeq
<1>3. PICK u \in [0..M -> Nat] :
        /\ u[0] = 0 /\ SumSeq(s) = u[M]
        /\ \A n \in 1..M : u[n] = u[n - 1] + s[n]
  BY SumSeqSteps
<1>4. PICK v \in [0..N -> Nat] :
        /\ v[0] = 0 /\ SumSeq(t) = v[N]
        /\ \A n \in 1..N : v[n] = v[n - 1] + t[n]
  BY SumSeqSteps
<1>5. PICK w \in [0..M + N -> Nat] :
        /\ w[0] = 0 /\ SumSeq(r) = w[M + N]
        /\ \A n \in 1..M + N : w[n] = w[n - 1] + r[n]
  <2> DEFINE K == Len(r)
  <2>1. \E w \in [0..K -> Nat] :
          /\ w[0] = 0 /\ SumSeq(r) = w[K]
          /\ \A n \in 1..K : w[n] = w[n - 1] + r[n]
    <3> HIDE DEF r, M, N
    <3> QED BY <1>1, SumSeqSteps
  <2>2. K = M + N
    BY <1>1
  <2> HIDE DEF K, M, N, r
  <2> QED BY <2>1, <2>2
<1> HIDE DEF M, N, r
<1> DEFINE P == {n \in 0..M : w[n] = u[n]}
<1>6. \A n \in 0..M : n \in P
  <2>1. 0 \in P
    BY <1>1, <1>3, <1>5
  <2>2. ASSUME NEW n \in 1..M, n - 1 \in P PROVE n \in P
    <3>1. n \in 1..M + N /\ n \in 0..M /\ r[n] = s[n]
      <4> HIDE DEF P
      <4>1. M \in Nat /\ N \in Nat
        BY <1>1
      <4>2. n \in 1..M + N /\ n \in 0..M /\ n <= M
        BY <4>1
      <4> QED BY <1>1, <4>2
    <3>2. w[n] = w[n - 1] + s[n] /\ u[n] = u[n - 1] + s[n] /\ w[n - 1] = u[n - 1]
      BY <1>3, <1>5, <2>2, <3>1
    <3> QED BY <3>1, <3>2
  <2> HIDE DEF P
  <2> QED BY <1>1, <2>1, <2>2, IntervalInduction
<1> DEFINE Q == {n \in 0..N : w[M + n] = u[M] + v[n]}
<1>7. \A n \in 0..N : n \in Q
  <2>1. 0 \in Q
    <3>1. M \in 0..M /\ M + 0 = M /\ u[M] \in Nat
      BY <1>1
    <3> QED BY <1>1, <1>4, <1>6, <3>1
  <2>2. ASSUME NEW n \in 1..N, n - 1 \in Q PROVE n \in Q
    <3>1. /\ M + n \in 1..M + N /\ n \in 0..N /\ n - 1 \in 0..N /\ M \in 0..M
          /\ ~(M + n <= M) /\ (M + n) - M = n /\ (M + n) - 1 = M + (n - 1)
      BY <1>1
    <3>2. r[M + n] = t[n]
      BY <1>1, <3>1
    <3>3. w[M + n] = w[M + (n - 1)] + t[n]
      BY <1>5, <3>1, <3>2
    <3>4. v[n] = v[n - 1] + t[n] /\ w[M + (n - 1)] = u[M] + v[n - 1]
      BY <1>4, <2>2
    <3>5. u[M] \in Nat /\ v[n - 1] \in Nat /\ t[n] \in Nat
      BY <1>2, <3>1
    <3>6. w[M + n] = u[M] + v[n]
      BY <3>3, <3>4, <3>5
    <3> QED BY <3>1, <3>6
  <2> HIDE DEF Q
  <2> QED BY <1>1, <2>1, <2>2, IntervalInduction
<1>8. N \in 0..N
  BY <1>1
<1>9. w[M + N] = u[M] + v[N]
  BY <1>7, <1>8
<1> QED BY <1>3, <1>4, <1>5, <1>9 DEF M, N, r

-----------------------------------------------------------------------------
(* Vectors behind one another.                                              *)

\* What is left of the vectors of q behind one another when some have been read: the
\* n-th is in front of what is left after it.
IsRest(w, q, T) ==
  /\ w \in [0..Len(q) -> T]
  /\ w[Len(q)] = <<>> /\ \A n \in 1..Len(q) : w[n - 1] = q[n] \o w[n]

\* FlattenSeq puts them behind one another.
LEMMA FlattenRest ==
  ASSUME NEW S, NEW q \in Seq(Seq(S))
  PROVE  \E w : IsRest(w, q, Seq(S)) /\ FlattenSeq(q) = w[0]
<1> DEFINE N == Len(q)
           T == Seq(S)
<1>1. /\ N \in Nat /\ <<>> \in T
      /\ \A n \in 1..N : q[n] \in T
  BY LenProperties, ElementOfSeq, EmptySeq
<1>2. \A s, t \in T : s \o t \in T
  BY ConcatProperties
<1>3. \A s, t, u \in T : (s \o t) \o u = s \o (t \o u)
  BY ConcatAssociative
<1>4. \A s \in T : s \o <<>> = s /\ <<>> \o s = s
  BY ConcatEmptySeq
<1> HIDE DEF T
\* The rests, from the last.
<1> DEFINE back == [n \in 1..N |-> [t \in T |-> q[N + 1 - n] \o t]]
<1>5. PICK r \in [0..N -> T] : IsRecursion(r, N, <<>>, back)
  <2>1. ASSUME NEW n \in 1..N, NEW t \in T PROVE q[N + 1 - n] \o t \in T
    <3>1. N + 1 - n \in 1..N
      BY <1>1
    <3> QED BY <1>1, <1>2, <3>1
  <2>2. back \in [1..N -> [T -> T]]
    BY <2>1
  <2> HIDE DEF back, N
  <2> QED BY <1>1, <2>2, RecursionExists
<1> DEFINE w == [n \in 0..N |-> r[N - n]]
<1>6. \A n \in 0..N : N - n \in 0..N /\ w[n] = r[N - n] /\ w[n] \in T
  <2>1. \A n \in 0..N : N - n \in 0..N
    BY <1>1
  <2> HIDE DEF N
  <2> QED BY <2>1
<1>7. w \in [0..N -> T]
  BY <1>6
<1>8. w[N] = <<>>
  <2>1. N \in 0..N /\ N - N = 0 /\ 0 \in 0..N
    BY <1>1
  <2> HIDE DEF back, N, w
  <2> QED BY <1>5, <1>6, <2>1 DEF IsRecursion
<1>9. ASSUME NEW n \in 1..N PROVE w[n - 1] = q[n] \o w[n]
  <2> DEFINE m == N + 1 - n
  <2>1. /\ m \in 1..N /\ m \in 0..N /\ m # 0 /\ N + 1 - m = n
        /\ n \in 0..N /\ n - 1 \in 0..N /\ N - (n - 1) = m /\ N - n = m - 1
    BY <1>1
  <2> HIDE DEF m
  <2>2. r[m] = back[m][r[m - 1]]
    BY <1>5, <2>1 DEF IsRecursion
  <2>3. r[m - 1] \in T
    BY <1>6, <2>1
  <2>4. back[m][r[m - 1]] = q[N + 1 - m] \o r[m - 1]
    BY <2>1, <2>3
  <2> HIDE DEF back, w, N
  <2> QED BY <1>6, <2>1, <2>2, <2>4
<1> HIDE DEF w
<1>10. FlattenSeq(q) = w[0]
  <2>1. CASE N = 0
    BY <1>1, <1>8, <2>1, EmptySeq DEF FlattenSeq
  <2>2. CASE N # 0
    <3> DEFINE Loop(f) == f = [i \in 1..N |-> IF i = 1 THEN q[i] ELSE f[i - 1] \o q[i]]
               flatten == CHOOSE f : Loop(f)
               on == [n \in 1..N |-> [t \in T |-> t \o q[n]]]
    <3>1. PICK u \in [0..N -> T] : IsRecursion(u, N, <<>>, on)
      <4>1. on \in [1..N -> [T -> T]]
        BY <1>1, <1>2
      <4> HIDE DEF on, N
      <4> QED BY <1>1, <4>1, RecursionExists
    <3>2. /\ u[0] = <<>>
          /\ \A n \in 1..N : u[n] = u[n - 1] \o q[n]
      <4>1. \A n \in 1..N : n \in 0..N /\ n # 0 /\ n - 1 \in 0..N
        BY <1>1
      <4>2. 0 \in 0..N
        BY <1>1
      <4>3. \A n \in 1..N : on[n][u[n - 1]] = u[n - 1] \o q[n]
        <5> HIDE DEF N
        <5> QED BY <4>1
      <4> HIDE DEF on, N
      <4> QED BY <3>1, <4>1, <4>2, <4>3 DEF IsRecursion
    <3>3. \E f : Loop(f)
      <4> DEFINE v == [i \in 1..N |-> u[i]]
      <4>1. ASSUME NEW i \in 1..N PROVE v[i] = IF i = 1 THEN q[i] ELSE v[i - 1] \o q[i]
        <5>1. v[i] = u[i - 1] \o q[i] /\ q[i] \in T
          BY <1>1, <3>2
        <5>2. CASE i = 1
          <6>0. i - 1 = 0
            BY <5>2
          <6>1. v[i] = <<>> \o q[i]
            <7> HIDE DEF v
            <7> QED BY <3>2, <5>1, <6>0, Zenon
          <6> HIDE DEF v
          <6> QED BY <1>4, <5>1, <5>2, <6>1, Zenon
        <5>3. CASE i # 1
          <6>1. i - 1 \in 1..N
            BY <5>3, <1>1
          <6>2. v[i - 1] = u[i - 1]
            BY <6>1
          <6> HIDE DEF v
          <6> QED BY <5>1, <5>3, <6>2
        <5> QED BY <5>2, <5>3
      <4>2. Loop(v)
        BY <4>1
      <4> HIDE DEF Loop
      <4> QED BY <4>2
    <3>4. Loop(flatten)
      <4> HIDE DEF Loop
      <4> QED BY <3>3
    <3>5. FlattenSeq(q) = flatten[N]
      BY <2>2 DEF FlattenSeq
    <3> HIDE DEF flatten
    <3>6. \A i \in 1..N : flatten[i] = IF i = 1 THEN q[i] ELSE flatten[i - 1] \o q[i]
      BY <3>4
    <3> HIDE DEF Loop, N, on
    <3> DEFINE P == {n \in 0..N : u[n] \o w[n] = w[0] /\ (n > 0 => flatten[n] = u[n])}
    <3>7. 0 \in P
      <4>1. 0 \in 0..N
        BY <1>1
      <4>2. u[0] \o w[0] = w[0]
        BY <1>4, <1>6, <3>2, <4>1, Zenon
      <4> QED BY <4>1, <4>2
    <3>8. ASSUME NEW n \in 1..N, n - 1 \in P PROVE n \in P
      <4>1. n \in 0..N /\ n - 1 \in 0..N /\ n # 0
        BY <1>1
      <4>2. q[n] \in T /\ u[n - 1] \in T /\ w[n] \in T
        BY <1>1, <1>6, <3>1, <4>1
      <4>3. u[n] \o w[n] = u[n - 1] \o (q[n] \o w[n])
        <5>1. u[n] = u[n - 1] \o q[n]
          BY <3>2
        <5>2. (u[n - 1] \o q[n]) \o w[n] = u[n - 1] \o (q[n] \o w[n])
          BY <1>3, <4>2, Zenon
        <5> QED BY <5>1, <5>2, Zenon
      <4>4. u[n] \o w[n] = w[0]
        BY <1>9, <3>8, <4>3
      <4>5. flatten[n] = u[n]
        <5>1. CASE n = 1
          <6>0. n - 1 = 0
            BY <5>1
          <6>1. u[n] = <<>> \o q[n]
            BY <3>2, <6>0, Zenon
          <6>2. flatten[n] = q[n]
            BY <3>6, <5>1
          <6> QED BY <1>4, <4>2, <6>1, <6>2, Zenon
        <5>2. CASE n # 1
          <6>1. n - 1 > 0
            BY <5>2
          <6>2. flatten[n - 1] = u[n - 1]
            BY <3>8, <6>1
          <6> QED BY <3>2, <3>6, <5>2, <6>2
        <5> QED BY <5>1, <5>2
      <4> QED BY <4>1, <4>4, <4>5
    <3>9. \A n \in 0..N : n \in P
      <4> HIDE DEF P
      <4> QED BY <1>1, <3>7, <3>8, IntervalInduction
    <3>10. N \in 0..N /\ N > 0
      BY <1>1, <2>2
    <3>11. u[N] \o w[N] = w[0] /\ flatten[N] = u[N] /\ u[N] \in T
      BY <3>1, <3>9, <3>10
    <3> QED BY <1>4, <1>8, <3>5, <3>11
  <2> QED BY <2>1, <2>2
<1>11. IsRest(w, q, T)
  BY <1>7, <1>8, <1>9 DEF IsRest
<1> QED BY <1>10, <1>11 DEF T

\* What is written into a field and read from it.  No field is wider than four bytes.
Value == Int \cup Players
Pair  == (0..4) \X Value
Field == [width : Nat, value : Value]

\* The fields a row is written as.
FieldsOf(row) == [k \in DOMAIN row |-> [width |-> row[k][1], value |-> row[k][2]]]

\* Each pair of a row becomes a field.
LEMMA FieldsOfIs ==
  ASSUME NEW row \in Seq(Pair)
  PROVE  /\ FieldsOf(row) \in Seq(Field) /\ Len(FieldsOf(row)) = Len(row)
         /\ \A k \in 1..Len(row) :
              FieldsOf(row)[k] = [width |-> row[k][1], value |-> row[k][2]]
<1> DEFINE N == Len(row)
           f == [k \in 1..N |-> [width |-> row[k][1], value |-> row[k][2]]]
<1>1. N \in Nat /\ DOMAIN row = 1..N /\ \A k \in 1..N : row[k] \in Pair
  BY LenProperties, ElementOfSeq
<1>2. \A k \in 1..N : row[k][1] \in Nat /\ row[k][2] \in Value
  <2> HIDE DEF N
  <2> QED BY <1>1 DEF Pair
<1>3. FieldsOf(row) = f
  BY <1>1 DEF FieldsOf
<1>4. f \in [1..N -> Field]
  <2> HIDE DEF N
  <2> QED BY <1>2 DEF Field
<1>5. f \in Seq(Field) /\ Len(f) = N
  <2> HIDE DEF f, N
  <2> QED BY <1>1, <1>4, SeqIntro
<1> QED BY <1>3, <1>5

\* Rows behind one another become fields behind one another.
LEMMA FieldsOfConcat ==
  ASSUME NEW a \in Seq(Pair), NEW b \in Seq(Pair)
  PROVE  FieldsOf(a \o b) = FieldsOf(a) \o FieldsOf(b)
<1> DEFINE M == Len(a)
           N == Len(b)
           c == a \o b
           p == FieldsOf(a)
           q == FieldsOf(b)
           r == p \o q
           l == FieldsOf(c)
<1>1. /\ M \in Nat /\ N \in Nat /\ c \in Seq(Pair) /\ Len(c) = M + N
      /\ \A k \in 1..M : k \in 1..M + N /\ c[k] = a[k]
      /\ \A k \in 1..N : M + k \in 1..M + N /\ c[M + k] = b[k]
      /\ \A k \in 1..M + N : k \in 1..M \/ \E i \in 1..N : k = M + i
  BY ConcatIs
<1>2. /\ p \in Seq(Field) /\ Len(p) = M
      /\ \A k \in 1..M : p[k] = [width |-> a[k][1], value |-> a[k][2]]
  BY FieldsOfIs
<1>3. /\ q \in Seq(Field) /\ Len(q) = N
      /\ \A k \in 1..N : q[k] = [width |-> b[k][1], value |-> b[k][2]]
  BY FieldsOfIs
<1> HIDE DEF M, N, c, p, q
<1>4. /\ l \in Seq(Field) /\ Len(l) = Len(c)
      /\ \A k \in 1..Len(c) : l[k] = [width |-> c[k][1], value |-> c[k][2]]
  BY <1>1, FieldsOfIs
<1>5. /\ r \in Seq(Field) /\ Len(r) = M + N
      /\ \A k \in 1..M : r[k] = p[k]
      /\ \A k \in 1..N : r[M + k] = q[k]
  <2>1. /\ r \in Seq(Field) /\ Len(r) = Len(p) + Len(q)
        /\ \A k \in 1..Len(p) : r[k] = p[k]
        /\ \A k \in 1..Len(q) : r[Len(p) + k] = q[k]
    <3>1. p \in Seq(Field) /\ q \in Seq(Field)
      BY <1>2, <1>3
    <3> QED BY <3>1, ConcatIs
  <2>2. Len(p) = M /\ Len(q) = N
    BY <1>2, <1>3
  <2> HIDE DEF r
  <2> QED BY <2>1, <2>2
<1> HIDE DEF l, r
<1>6. ASSUME NEW k \in 1..M + N PROVE l[k] = r[k]
  <2>0. l[k] = [width |-> c[k][1], value |-> c[k][2]]
    BY <1>1, <1>4
  <2>1. CASE k \in 1..M
    <3>1. c[k] = a[k] /\ r[k] = [width |-> a[k][1], value |-> a[k][2]]
      BY <1>1, <1>2, <1>5, <2>1
    <3> QED BY <2>0, <3>1
  <2>2. CASE \E i \in 1..N : k = M + i
    <3>1. PICK i \in 1..N : k = M + i
      BY <2>2
    <3>2. c[k] = b[i] /\ r[k] = [width |-> b[i][1], value |-> b[i][2]]
      BY <1>1, <1>3, <1>5, <3>1
    <3> QED BY <2>0, <3>2
  <2> QED BY <1>1, <2>1, <2>2
<1>7. l = r
  BY <1>1, <1>4, <1>5, <1>6, SeqEqual
<1> QED BY <1>7 DEF l, r, c, p, q

\* The bytes of fields behind one another.
LEMMA BytesConcat ==
  ASSUME NEW f \in Seq(Field), NEW g \in Seq(Field)
  PROVE  /\ Bytes(f) \in Nat /\ Bytes(g) \in Nat
         /\ Bytes(f \o g) = Bytes(f) + Bytes(g)
<1> DEFINE M == Len(f)
           N == Len(g)
           c == f \o g
           W(q) == [k \in DOMAIN q |-> q[k].width]
<1>1. ASSUME NEW q \in Seq(Field)
      PROVE  /\ W(q) \in Seq(Nat) /\ Len(W(q)) = Len(q)
             /\ \A k \in 1..Len(q) : W(q)[k] = q[k].width
  <2> DEFINE n == Len(q)
             v == [k \in 1..n |-> q[k].width]
  <2>1. n \in Nat /\ DOMAIN q = 1..n /\ \A k \in 1..n : q[k] \in Field
    BY LenProperties, ElementOfSeq
  <2>2. v \in [1..n -> Nat]
    <3> HIDE DEF n
    <3> QED BY <2>1 DEF Field
  <2>3. v \in Seq(Nat) /\ Len(v) = n
    <3> HIDE DEF v, n
    <3> QED BY <2>1, <2>2, SeqIntro
  <2>4. W(q) = v
    BY <2>1
  <2> QED BY <2>3, <2>4
<1>2. /\ M \in Nat /\ N \in Nat
      /\ c \in Seq(Field) /\ Len(c) = M + N
      /\ \A k \in 1..M + N : c[k] = IF k <= M THEN f[k] ELSE g[k - M]
  BY LenProperties, ConcatProperties
<1>3. /\ W(f) \in Seq(Nat) /\ Len(W(f)) = M
      /\ \A k \in 1..M : W(f)[k] = f[k].width
  <2> HIDE DEF W
  <2> QED BY <1>1
<1>4. /\ W(g) \in Seq(Nat) /\ Len(W(g)) = N
      /\ \A k \in 1..N : W(g)[k] = g[k].width
  <2> HIDE DEF W
  <2> QED BY <1>1
<1>5. /\ W(c) \in Seq(Nat) /\ Len(W(c)) = M + N
      /\ \A k \in 1..M + N : W(c)[k] = c[k].width
  <2> HIDE DEF W, c
  <2> QED BY <1>1, <1>2
<1>6. Bytes(f) = SumSeq(W(f)) /\ Bytes(g) = SumSeq(W(g)) /\ Bytes(c) = SumSeq(W(c))
  BY DEF Bytes
<1> HIDE DEF W, c, M, N
<1> DEFINE d == W(f) \o W(g)
<1>7. /\ d \in Seq(Nat) /\ Len(d) = M + N
      /\ \A k \in 1..M + N : d[k] = IF k <= M THEN W(f)[k] ELSE W(g)[k - M]
  BY <1>3, <1>4, ConcatProperties
<1>8. ASSUME NEW k \in 1..M + N PROVE d[k] = W(c)[k]
  <2> HIDE DEF d
  <2>1. CASE k <= M
    <3>1. k \in 1..M
      BY <1>2, <2>1
    <3> QED BY <1>2, <1>3, <1>5, <1>7, <2>1, <3>1
  <2>2. CASE ~(k <= M)
    <3>1. k - M \in 1..N
      BY <1>2, <2>2
    <3> QED BY <1>2, <1>4, <1>5, <1>7, <2>2, <3>1
  <2> QED BY <2>1, <2>2
<1>9. d = W(c)
  <2> HIDE DEF d
  <2> QED BY <1>5, <1>7, <1>8, SeqEqual
<1>10. SumSeq(d) = SumSeq(W(f)) + SumSeq(W(g))
  BY <1>3, <1>4, SumSeqConcat
<1>11. SumSeq(W(f)) \in Nat /\ SumSeq(W(g)) \in Nat
  BY <1>3, <1>4, SumSeqType
<1> QED BY <1>6, <1>9, <1>10, <1>11 DEF c

\* A row that fits is written at once.
LEMMA WriteRowIs ==
  ASSUME NEW row \in Seq(Pair), 4 + Bytes(FieldsOf(row)) <= NET_PACK_MAX_LEN
  PROVE  WriteRow(<<>>, row) = FieldsOf(row)
<1> DEFINE f == FieldsOf(row)
<1>1. f \in Seq(Field)
  BY FieldsOfIs
<1>2. Vector(f) = f /\ <<>> \o f = f
  <2> HIDE DEF f
  <2> QED BY <1>1, VectorIs, ConcatEmptySeq
<1>3. Bytes(<<>>) = 0
  <2>1. [k \in DOMAIN <<>> |-> <<>>[k].width] = <<>>
    OBVIOUS
  <2>2. SumSeq(<<>>) = 0
    <3>1. <<>> \in Seq(Nat) /\ Len(<<>>) = 0
      BY EmptySeq
    <3> QED BY <3>1, SumSeqSteps
  <2> QED BY <2>1, <2>2 DEF Bytes
<1>4. Bytes(f) \in Nat
  BY <1>1, BytesConcat
<1>5. Fits(<<>>, Bytes(f))
  BY <1>3, <1>4 DEF Fits
<1> QED BY <1>2, <1>5 DEF WriteRow, FieldsOf

\* Scalars come back in their order when they are read with the widths they were
\* written with.
LEMMA ReadRowIs ==
  ASSUME NEW row \in Seq(Pair), NEW rest \in Seq(Field), NEW widths \in Seq(Nat),
         Len(widths) = Len(row), \A k \in 1..Len(row) : row[k][1] = widths[k]
  PROVE  ReadRow(FieldsOf(row) \o rest, widths)
           = [values |-> [k \in 1..Len(row) |-> row[k][2]], rest |-> rest]
<1> DEFINE n == Len(row)
           f == FieldsOf(row)
           fields == f \o rest
<1>1. /\ n \in Nat /\ Len(widths) = n /\ f \in Seq(Field) /\ Len(f) = n
      /\ \A k \in 1..n : f[k] = [width |-> row[k][1], value |-> row[k][2]]
  BY LenProperties, FieldsOfIs
<1> HIDE DEF f
<1>2. /\ fields \in Seq(Field) /\ Len(fields) = n + Len(rest) /\ Len(rest) \in Nat
      /\ \A k \in 1..n : fields[k] = f[k]
      /\ \A k \in 1..Len(rest) : n + k \in 1..n + Len(rest) /\ fields[n + k] = rest[k]
  <2>1. /\ fields \in Seq(Field) /\ Len(fields) = Len(f) + Len(rest) /\ Len(rest) \in Nat
        /\ \A k \in 1..Len(f) : fields[k] = f[k]
        /\ \A k \in 1..Len(rest) :
             Len(f) + k \in 1..Len(f) + Len(rest) /\ fields[Len(f) + k] = rest[k]
    <3>1. f \in Seq(Field)
      BY <1>1
    <3> QED BY <3>1, ConcatIs
  <2>2. Len(f) = n
    BY <1>1
  <2> HIDE DEF fields, n
  <2> QED BY <2>1, <2>2
<1>4. Len(fields) >= n
  BY <1>1, <1>2
<1>5. \A k \in 1..n : fields[k].width = widths[k] /\ fields[k].value = row[k][2]
  <2> SUFFICES ASSUME NEW k \in 1..n
               PROVE  fields[k].width = widths[k] /\ fields[k].value = row[k][2]
    OBVIOUS
  <2>1. fields[k] = [width |-> row[k][1], value |-> row[k][2]]
    <3> HIDE DEF fields, n
    <3> QED BY <1>1, <1>2
  <2> HIDE DEF fields
  <2> QED BY <2>1
<1>6. SubSeq(fields, n + 1, Len(fields)) = rest
  <2> DEFINE tail == SubSeq(fields, n + 1, Len(fields))
  <2>1. \A i \in n + 1 .. Len(fields) : fields[i] \in Field
    <3> HIDE DEF fields, n
    <3>1. \A i \in n + 1 .. Len(fields) : i \in 1..Len(fields)
      BY <1>1
    <3> QED BY <1>2, <3>1, ElementOfSeq
  <2>2. /\ tail \in Seq(Field)
        /\ Len(tail) = IF n + 1 <= Len(fields) THEN Len(fields) - (n + 1) + 1 ELSE 0
        /\ \A i \in 1..Len(fields) - (n + 1) + 1 : tail[i] = fields[(n + 1) + i - 1]
    <3> HIDE DEF fields, n
    <3>1. n + 1 \in Int /\ Len(fields) \in Int
      BY <1>1, <1>2
    <3> QED BY <2>1, <3>1, SubSeqProperties
  <2> HIDE DEF tail, fields, f, n
  <2>3. Len(tail) = Len(rest)
    BY <1>1, <1>2, <2>2
  <2>4. ASSUME NEW i \in 1..Len(rest) PROVE tail[i] = rest[i]
    <3>1. i \in 1..Len(fields) - (n + 1) + 1 /\ (n + 1) + i - 1 = n + i
      BY <1>1, <1>2
    <3> QED BY <1>2, <2>2, <3>1
  <2> QED BY <2>2, <2>3, <2>4, SeqEqual DEF tail
<1> HIDE DEF fields, f
<1>7. ReadRow(fields, widths) = [values |-> [k \in 1..n |-> fields[k].value], rest |-> rest]
  BY <1>1, <1>4, <1>5, <1>6 DEF ReadRow
<1> QED BY <1>5, <1>7 DEF fields, f

\* So does one.
LEMMA ReadIs ==
  ASSUME NEW width \in Nat, NEW value \in Value, NEW rest \in Seq(Field)
  PROVE  Read(FieldsOf(<<<<width, value>>>>) \o rest, width) = [value |-> value, rest |-> rest]
<1> DEFINE f == <<[width |-> width, value |-> value]>>
           fields == f \o rest
<1>1. FieldsOf(<<<<width, value>>>>) = f
  BY DEF FieldsOf
<1>2. f \in Seq(Field) /\ Len(f) = 1 /\ f[1] = [width |-> width, value |-> value]
  BY DEF Field
<1>3. /\ fields \in Seq(Field) /\ Len(fields) = 1 + Len(rest) /\ Len(rest) \in Nat
      /\ \A k \in 1..1 : fields[k] = f[k]
      /\ \A k \in 1..Len(rest) : fields[1 + k] = rest[k]
  <2> HIDE DEF f
  <2>1. /\ fields \in Seq(Field) /\ Len(fields) = Len(f) + Len(rest) /\ Len(rest) \in Nat
        /\ \A k \in 1..Len(f) : fields[k] = f[k]
        /\ \A k \in 1..Len(rest) : fields[Len(f) + k] = rest[k]
    <3>1. f \in Seq(Field)
      BY <1>2
    <3> QED BY <3>1, ConcatIs
  <2>2. Len(f) = 1
    BY <1>2
  <2> HIDE DEF fields
  <2> QED BY <2>1, <2>2
<1>4. fields # <<>> /\ Head(fields) = [width |-> width, value |-> value]
  <2>1. fields[1] = f[1]
    <3> HIDE DEF f, fields
    <3> QED BY <1>3
  <2> HIDE DEF f, fields
  <2>2. Len(fields) # 0
    BY <1>3
  <2> QED BY <1>2, <1>3, <2>1, <2>2, EmptySeq
<1>5. Tail(fields) = rest
  <2> HIDE DEF f, fields
  <2>1. /\ Tail(fields) \in Seq(Field) /\ Len(Tail(fields)) = Len(rest)
        /\ \A i \in 1..Len(Tail(fields)) : Tail(fields)[i] = fields[i + 1]
    BY <1>3, <1>4, HeadTailProperties
  <2>2. ASSUME NEW i \in 1..Len(rest) PROVE Tail(fields)[i] = rest[i]
    <3>1. i + 1 = 1 + i
      BY <1>3
    <3> QED BY <1>3, <2>1, <3>1
  <2> QED BY <2>1, <2>2, SeqEqual
<1> HIDE DEF fields
<1>6. Read(fields, width) = [value |-> value, rest |-> rest]
  <2>1. Head(fields).width = width /\ Head(fields).value = value
    BY <1>4
  <2> QED BY <1>4, <1>5, <2>1, Zenon DEF Read
<1> QED BY <1>1, <1>6 DEF fields

\* Three lists of fields behind one another.
LEMMA FieldsAssociate ==
  \A s, t, u \in Seq(Field) : (s \o t) \o u = s \o (t \o u)
BY ConcatAssociates

-----------------------------------------------------------------------------
(* Lists.                                                                   *)

\* W[n] is what has been taken after n items of a list whose rows are rows and whose
\* items are v: each row is in front when its item is read.
IsReading(W, rows, v, rest) ==
  LET N == Len(rows)
  IN  /\ W = [n \in 0..N |-> W[n]]
      /\ W[0] = [values |-> <<>>, rest |-> FieldsOf(FlattenSeq(rows)) \o rest]
      /\ \A n \in 1..N : \E left \in Seq(Field) :
           /\ W[n - 1].rest = FieldsOf(rows[n]) \o left
           /\ W[n] = Taking(W[n - 1], [value |-> v[n], rest |-> left])
      /\ W[N] = [values |-> v, rest |-> rest]

\* The rows of a list are in front of one another.
LEMMA ReadingExists ==
  ASSUME NEW rows \in Seq(Seq(Pair)), NEW V, NEW v \in Seq(V), Len(v) = Len(rows),
         NEW rest \in Seq(Field)
  PROVE  \E W : IsReading(W, rows, v, rest)
<1> DEFINE N == Len(rows)
<1>1. /\ N \in Nat /\ Len(v) = N
      /\ \A n \in 1..N : rows[n] \in Seq(Pair)
      /\ \A n \in 1..N : v[n] \in V
  BY LenProperties, ElementOfSeq
<1>2. PICK w : IsRest(w, rows, Seq(Pair)) /\ FlattenSeq(rows) = w[0]
  BY FlattenRest
<1>3. /\ \A n \in 0..N : w[n] \in Seq(Pair)
      /\ w[N] = <<>> /\ \A n \in 1..N : w[n - 1] = rows[n] \o w[n]
  BY <1>2 DEF IsRest
<1> DEFINE some(n) == SubSeq(v, 1, n)
           left(n) == FieldsOf(w[n]) \o rest
           W == [n \in 0..N |-> [values |-> some(n), rest |-> left(n)]]
<1>4. \A n \in 0..N : FieldsOf(w[n]) \in Seq(Field) /\ left(n) \in Seq(Field)
  <2> SUFFICES ASSUME NEW n \in 0..N
               PROVE  FieldsOf(w[n]) \in Seq(Field) /\ left(n) \in Seq(Field)
    OBVIOUS
  <2>1. w[n] \in Seq(Pair)
    BY <1>3
  <2>2. FieldsOf(w[n]) \in Seq(Field)
    BY <2>1, FieldsOfIs
  <2> QED BY <2>2, ConcatProperties
<1>5. \A n \in 1..N : left(n - 1) = FieldsOf(rows[n]) \o left(n)
  <2> SUFFICES ASSUME NEW n \in 1..N
               PROVE  left(n - 1) = FieldsOf(rows[n]) \o left(n)
    OBVIOUS
  <2>1. n \in 0..N /\ rows[n] \in Seq(Pair)
    BY <1>1
  <2>2. w[n] \in Seq(Pair) /\ FieldsOf(w[n]) \in Seq(Field) /\ w[n - 1] = rows[n] \o w[n]
    BY <1>3, <1>4, <2>1
  <2>3. FieldsOf(rows[n] \o w[n]) = FieldsOf(rows[n]) \o FieldsOf(w[n])
    BY <2>1, <2>2, FieldsOfConcat
  <2>4. FieldsOf(rows[n]) \in Seq(Field)
    BY <2>1, FieldsOfIs
  <2>5. (FieldsOf(rows[n]) \o FieldsOf(w[n])) \o rest
          = FieldsOf(rows[n]) \o (FieldsOf(w[n]) \o rest)
    BY <2>2, <2>4, FieldsAssociate, Zenon
  <2> QED BY <2>2, <2>3, <2>5, Zenon
<1>6. \A n \in 1..N : some(n) = Append(some(n - 1), v[n])
  <2> SUFFICES ASSUME NEW n \in 1..N PROVE some(n) = Append(some(n - 1), v[n])
    OBVIOUS
  <2>1. 1 \in 1..Len(v) /\ n \in 1..Len(v) /\ v[n] \in V
    BY <1>1
  <2>2. SubSeq(v, 1, n) = SubSeq(v, 1, n - 1) \o <<v[n]>>
    BY <2>1, SubSeqRecursiveSecond
  <2>3. SubSeq(v, 1, n - 1) \in Seq(V)
    <3>1. \A i \in 1..n - 1 : v[i] \in V
      BY <1>1
    <3> QED BY <3>1, SubSeqProperties
  <2>4. Append(SubSeq(v, 1, n - 1), v[n]) = SubSeq(v, 1, n - 1) \o <<v[n]>>
    BY <2>1, <2>3, AppendIsConcat
  <2> QED BY <2>2, <2>4
<1>7. some(0) = <<>> /\ some(N) = v
  <2>1. some(0) = <<>>
    BY SubSeqEmpty
  <2>2. SubSeq(v, 1, Len(v)) = v
    BY SubSeqFull
  <2> QED BY <1>1, <2>1, <2>2
<1>8. FieldsOf(<<>>) = <<>>
  BY DEF FieldsOf
<1>9. left(0) = FieldsOf(FlattenSeq(rows)) \o rest /\ left(N) = rest
  <2>1. left(N) = <<>> \o rest
    BY <1>3, <1>8
  <2>2. <<>> \o rest = rest
    BY ConcatEmptySeq
  <2> QED BY <1>2, <2>1, <2>2
<1> HIDE DEF some, left
<1>10. \A n \in 0..N : W[n] = [values |-> some(n), rest |-> left(n)]
  OBVIOUS
<1>11. W = [n \in 0..N |-> W[n]]
  BY <1>10
<1> HIDE DEF W
<1>12. 0 \in 0..N /\ N \in 0..N
  BY <1>1
<1>13. ASSUME NEW n \in 1..N
       PROVE  /\ W[n - 1].rest = FieldsOf(rows[n]) \o left(n)
              /\ W[n] = Taking(W[n - 1], [value |-> v[n], rest |-> left(n)])
              /\ left(n) \in Seq(Field)
  <2>1. n \in 0..N /\ n - 1 \in 0..N
    BY <1>1
  <2>2. /\ W[n - 1] = [values |-> some(n - 1), rest |-> left(n - 1)]
        /\ W[n] = [values |-> some(n), rest |-> left(n)]
    BY <1>10, <2>1
  <2> DEFINE before == W[n - 1]
  <2>0. before.values = some(n - 1) /\ before.rest = left(n - 1)
    BY <2>2
  <2>3. left(n) \in Seq(Field) /\ W[n - 1].rest = FieldsOf(rows[n]) \o left(n)
    BY <1>4, <1>5, <2>1, <2>0, Zenon
  <2>4. W[n] = [values |-> Append(W[n - 1].values, v[n]), rest |-> left(n)]
    BY <1>6, <2>0, <2>2, Zenon
  <2> QED BY <2>3, <2>4 DEF Taking
<1>14. /\ W[0] = [values |-> <<>>, rest |-> FieldsOf(FlattenSeq(rows)) \o rest]
       /\ W[N] = [values |-> v, rest |-> rest]
  BY <1>7, <1>9, <1>10, <1>12
<1>15. IsReading(W, rows, v, rest)
  BY <1>11, <1>13, <1>14 DEF IsReading
<1> QED BY <1>15

\* A loop that does on the way what W does ends where W ends.
LEMMA SameReading ==
  ASSUME NEW N \in Nat, NEW f, NEW W, f[0] = W[0],
         \A n \in 1..N : f[n - 1] = W[n - 1] => f[n] = W[n]
  PROVE  f[N] = W[N]
<1> DEFINE P == {n \in 0..N : f[n] = W[n]}
<1>1. 0 \in P
  OBVIOUS
<1>2. \A n \in 1..N : n - 1 \in P => n \in P
  OBVIOUS
<1>3. \A n \in 0..N : n \in P
  <2> HIDE DEF P
  <2> QED BY <1>1, <1>2, IntervalInduction
<1> QED BY <1>3

\* A count of less than 256 is kept by the byte it is sent in.
LEMMA SmallCount ==
  ASSUME NEW m \in Nat, m < 256
  PROVE  m % 256 = m
OBVIOUS

\* The size of a list and what follows it.
LEMMA CountIs ==
  ASSUME NEW rows \in Seq(Seq(Pair)), Len(rows) < 256, NEW rest \in Seq(Field)
  PROVE  LET row == <<<<1, Len(rows) % 256>>>> \o FlattenSeq(rows)
         IN  /\ row \in Seq(Pair) /\ FlattenSeq(rows) \in Seq(Pair)
             /\ Read(FieldsOf(row) \o rest, 1)
                  = [value |-> Len(rows), rest |-> FieldsOf(FlattenSeq(rows)) \o rest]
<1> DEFINE N == Len(rows)
           one == <<<<1, N>>>>
           flat == FlattenSeq(rows)
<1>1. N \in Nat /\ N % 256 = N
  <2>1. N \in Nat /\ N < 256
    BY LenProperties
  <2>2. \A m \in Nat : m < 256 => m % 256 = m
    BY SmallCount
  <2> HIDE DEF N
  <2> QED BY <2>1, <2>2
<1>2. flat \in Seq(Pair)
  <2>1. PICK w : IsRest(w, rows, Seq(Pair)) /\ FlattenSeq(rows) = w[0]
    BY FlattenRest
  <2>2. 0 \in 0..Len(rows)
    BY <1>1
  <2> QED BY <2>1, <2>2 DEF IsRest
<1> HIDE DEF N, flat
<1>3. one \in Seq(Pair)
  BY <1>1 DEF Pair, Value
<1>4. /\ FieldsOf(one) \in Seq(Field) /\ FieldsOf(flat) \in Seq(Field)
      /\ FieldsOf(flat) \o rest \in Seq(Field)
  <2> HIDE DEF one
  <2>1. FieldsOf(one) \in Seq(Field) /\ FieldsOf(flat) \in Seq(Field)
    BY <1>2, <1>3, FieldsOfIs
  <2> QED BY <2>1, ConcatProperties
<1>5. FieldsOf(one \o flat) \o rest = FieldsOf(one) \o (FieldsOf(flat) \o rest)
  <2> HIDE DEF one
  <2>1. FieldsOf(one \o flat) = FieldsOf(one) \o FieldsOf(flat)
    BY <1>2, <1>3, FieldsOfConcat
  <2>2. (FieldsOf(one) \o FieldsOf(flat)) \o rest = FieldsOf(one) \o (FieldsOf(flat) \o rest)
    BY <1>4, ConcatAssociative
  <2> QED BY <2>1, <2>2
<1>6. Read(FieldsOf(one) \o (FieldsOf(flat) \o rest), 1)
        = [value |-> N, rest |-> FieldsOf(flat) \o rest]
  <2>1. 1 \in Nat /\ N \in Value
    BY <1>1 DEF Value
  <2> QED BY <1>4, <2>1, ReadIs
<1>7. one \o flat \in Seq(Pair)
  <2> HIDE DEF one
  <2> QED BY <1>2, <1>3, ConcatProperties
<1>8. <<<<1, Len(rows) % 256>>>> = one
  BY <1>1 DEF N
<1> HIDE DEF one
<1> QED BY <1>2, <1>5, <1>6, <1>7, <1>8 DEF N, flat

-----------------------------------------------------------------------------
(* What is read is what was written.                                        *)

Card == [rank : Value, suit : Value]

\* A card.
LEMMA ReadCardIs ==
  ASSUME NEW card \in Card, NEW rest \in Seq(Field)
  PROVE  /\ CardRow(card) \in Seq(Pair)
         /\ ReadCard(FieldsOf(CardRow(card)) \o rest) = [value |-> card, rest |-> rest]
<1> DEFINE row == CardRow(card)
           fields == FieldsOf(row) \o rest
           values == [k \in 1..Len(row) |-> row[k][2]]
<1>1. card.rank \in Value /\ card.suit \in Value
  BY DEF Card
<1>2. /\ row \in Seq(Pair) /\ Len(row) = 2
      /\ row[1] = <<1, card.rank>> /\ row[2] = <<1, card.suit>>
  BY <1>1 DEF CardRow, Pair
<1>3. ReadRow(fields, <<1, 1>>) = [values |-> values, rest |-> rest]
  <2>1. <<1, 1>> \in Seq(Nat) /\ Len(<<1, 1>>) = Len(row)
    BY <1>2
  <2>2. \A k \in 1..Len(row) : row[k][1] = <<1, 1>>[k]
    <3> HIDE DEF row
    <3>1. \A k \in 1..Len(row) : k = 1 \/ k = 2
      BY <1>2
    <3> QED BY <1>2, <3>1
  <2> HIDE DEF row
  <2> QED BY <1>2, <2>1, <2>2, ReadRowIs
<1>4. values[1] = card.rank /\ values[2] = card.suit
  <2> HIDE DEF row
  <2>1. 1 \in 1..Len(row) /\ 2 \in 1..Len(row)
    BY <1>2
  <2> QED BY <1>2, <2>1
<1> HIDE DEF row, fields, values
<1>5. ReadCard(fields) = [value |-> [rank |-> card.rank, suit |-> card.suit], rest |-> rest]
  BY <1>3, <1>4 DEF ReadCard
<1>6. card = [rank |-> card.rank, suit |-> card.suit]
  BY DEF Card
<1> QED BY <1>2, <1>5, <1>6 DEF row, fields

\* A list as it is written, from the rows of its items.
Listed(rows) == <<<<1, Len(rows) % 256>>>> \o FlattenSeq(rows)

\* A reader that takes the items of v from their rows goes through a list as W does.
ListReading(W, rows, v, rest) ==
  LET N     == Len(rows)
      count == Read(FieldsOf(Listed(rows)) \o rest, 1)
  IN  /\ count.value = N /\ W = [n \in 0..N |-> W[n]]
      /\ W[0] = [values |-> <<>>, rest |-> count.rest]
      /\ \A n \in 1..N : \E left \in Seq(Field) :
           /\ W[n - 1].rest = FieldsOf(rows[n]) \o left
           /\ W[n] = Taking(W[n - 1], [value |-> v[n], rest |-> left])
      /\ W[N] = [values |-> v, rest |-> rest]

\* There is such a W for any items.
LEMMA ListReadingExists ==
  ASSUME NEW rows \in Seq(Seq(Pair)), Len(rows) < 256, NEW V, NEW v \in Seq(V),
         Len(v) = Len(rows), NEW rest \in Seq(Field)
  PROVE  \E W : ListReading(W, rows, v, rest)
<1> DEFINE flat == FieldsOf(FlattenSeq(rows)) \o rest
           count == Read(FieldsOf(Listed(rows)) \o rest, 1)
<1>1. count = [value |-> Len(rows), rest |-> flat]
  BY CountIs DEF Listed
<1> HIDE DEF flat, count
<1>2. count.value = Len(rows) /\ count.rest = flat
  BY <1>1
<1>3. PICK W : IsReading(W, rows, v, rest)
  BY ReadingExists
<1>4. ListReading(W, rows, v, rest)
  BY <1>2, <1>3 DEF ListReading, IsReading, flat, count
<1> QED BY <1>4

\* A list of cards.
LEMMA CardsRead ==
  ASSUME NEW rows \in Seq(Seq(Pair)), Len(rows) < 256, NEW V, NEW v \in Seq(V),
         Len(v) = Len(rows), NEW rest \in Seq(Field),
         \A n \in 1..Len(rows) : \A left \in Seq(Field) :
           ReadCard(FieldsOf(rows[n]) \o left) = [value |-> v[n], rest |-> left]
  PROVE  ReadList(FieldsOf(Listed(rows)) \o rest, ReadCard) = [values |-> v, rest |-> rest]
<1> DEFINE fields == FieldsOf(Listed(rows)) \o rest
           count == Read(fields, 1)
           init == [values |-> <<>>, rest |-> count.rest]
           Loop(f) == f = [k \in 0..count.value |->
                             IF k = 0 THEN init
                             ELSE Taking(f[k - 1], ReadCard(f[k - 1].rest))]
           upTo == CHOOSE f : Loop(f)
           N == Len(rows)
<1>1. ReadList(fields, ReadCard) = upTo[count.value]
  <2> HIDE DEF fields
  <2> QED BY DEF ReadList
<1>2. PICK W : ListReading(W, rows, v, rest)
  BY ListReadingExists
<1> HIDE DEF init, count
<1>3. /\ count.value = N /\ N \in Nat /\ W = [n \in 0..N |-> W[n]] /\ W[0] = init
      /\ W[N] = [values |-> v, rest |-> rest]
  BY <1>2, LenProperties DEF ListReading, init, count
<1>4. \A n \in 1..N : W[n] = Taking(W[n - 1], ReadCard(W[n - 1].rest))
  <2> SUFFICES ASSUME NEW n \in 1..N PROVE W[n] = Taking(W[n - 1], ReadCard(W[n - 1].rest))
    OBVIOUS
  <2>1. PICK left \in Seq(Field) :
          /\ W[n - 1].rest = FieldsOf(rows[n]) \o left
          /\ W[n] = Taking(W[n - 1], [value |-> v[n], rest |-> left])
    BY <1>2 DEF ListReading
  <2>2. ReadCard(W[n - 1].rest) = [value |-> v[n], rest |-> left]
    BY <2>1
  <2> QED BY <2>1, <2>2
<1>5. Loop(upTo)
  <2>1. Loop(W)
    <3>1. \A k \in 0..N : k # 0 => k \in 1..N
      BY <1>3
    <3> HIDE DEF N
    <3>2. \A k \in 0..N : W[k] = IF k = 0 THEN init ELSE Taking(W[k - 1], ReadCard(W[k - 1].rest))
      BY <1>3, <1>4, <3>1
    <3> QED BY <1>3, <3>2
  <2> HIDE DEF Loop
  <2> QED BY <2>1
<1> HIDE DEF upTo
<1>6. \A k \in 0..N : upTo[k] = IF k = 0 THEN init
                                ELSE Taking(upTo[k - 1], ReadCard(upTo[k - 1].rest))
  <2> HIDE DEF N
  <2> QED BY <1>3, <1>5
<1>7. /\ upTo[0] = W[0]
      /\ \A n \in 1..N : upTo[n - 1] = W[n - 1] => upTo[n] = W[n]
  <2>1. 0 \in 0..N /\ \A n \in 1..N : n \in 0..N /\ n # 0
    BY <1>3
  <2> HIDE DEF N, Loop
  <2> QED BY <1>3, <1>4, <1>6, <2>1, ZenonT(60)
<1> HIDE DEF Loop, fields
<1>8. upTo[N] = W[N]
  <2> HIDE DEF N
  <2> QED BY <1>3, <1>7, SameReading, ZenonT(60)
<1> QED BY <1>1, <1>3, <1>8 DEF fields

\* A list of names.
LEMMA IdsRead ==
  ASSUME NEW rows \in Seq(Seq(Pair)), Len(rows) < 256, NEW V, NEW v \in Seq(V),
         Len(v) = Len(rows), NEW rest \in Seq(Field),
         \A n \in 1..Len(rows) : \A left \in Seq(Field) :
           Read(FieldsOf(rows[n]) \o left, 4) = [value |-> v[n], rest |-> left]
  PROVE  ReadList(FieldsOf(Listed(rows)) \o rest, LAMBDA f : Read(f, 4)) = [values |-> v, rest |-> rest]
<1> DEFINE fields == FieldsOf(Listed(rows)) \o rest
           count == Read(fields, 1)
           init == [values |-> <<>>, rest |-> count.rest]
           Loop(f) == f = [k \in 0..count.value |->
                             IF k = 0 THEN init
                             ELSE Taking(f[k - 1], Read(f[k - 1].rest, 4))]
           upTo == CHOOSE f : Loop(f)
           N == Len(rows)
<1>1. ReadList(fields, LAMBDA f : Read(f, 4)) = upTo[count.value]
  <2> HIDE DEF fields
  <2> QED BY DEF ReadList
<1>2. PICK W : ListReading(W, rows, v, rest)
  BY ListReadingExists
<1> HIDE DEF init, count
<1>3. /\ count.value = N /\ N \in Nat /\ W = [n \in 0..N |-> W[n]] /\ W[0] = init
      /\ W[N] = [values |-> v, rest |-> rest]
  BY <1>2, LenProperties DEF ListReading, init, count
<1>4. \A n \in 1..N : W[n] = Taking(W[n - 1], Read(W[n - 1].rest, 4))
  <2> SUFFICES ASSUME NEW n \in 1..N PROVE W[n] = Taking(W[n - 1], Read(W[n - 1].rest, 4))
    OBVIOUS
  <2>1. PICK left \in Seq(Field) :
          /\ W[n - 1].rest = FieldsOf(rows[n]) \o left
          /\ W[n] = Taking(W[n - 1], [value |-> v[n], rest |-> left])
    BY <1>2 DEF ListReading
  <2>2. Read(W[n - 1].rest, 4) = [value |-> v[n], rest |-> left]
    BY <2>1
  <2> QED BY <2>1, <2>2
<1>5. Loop(upTo)
  <2>1. Loop(W)
    <3>1. \A k \in 0..N : k # 0 => k \in 1..N
      BY <1>3
    <3> HIDE DEF N
    <3>2. \A k \in 0..N : W[k] = IF k = 0 THEN init ELSE Taking(W[k - 1], Read(W[k - 1].rest, 4))
      BY <1>3, <1>4, <3>1
    <3> QED BY <1>3, <3>2
  <2> HIDE DEF Loop
  <2> QED BY <2>1
<1> HIDE DEF upTo
<1>6. \A k \in 0..N : upTo[k] = IF k = 0 THEN init
                                ELSE Taking(upTo[k - 1], Read(upTo[k - 1].rest, 4))
  <2> HIDE DEF N
  <2> QED BY <1>3, <1>5
<1>7. /\ upTo[0] = W[0]
      /\ \A n \in 1..N : upTo[n - 1] = W[n - 1] => upTo[n] = W[n]
  <2>1. 0 \in 0..N /\ \A n \in 1..N : n \in 0..N /\ n # 0
    BY <1>3
  <2> HIDE DEF N, Loop
  <2> QED BY <1>3, <1>4, <1>6, <2>1, ZenonT(60)
<1> HIDE DEF Loop, fields
<1>8. upTo[N] = W[N]
  <2> HIDE DEF N
  <2> QED BY <1>3, <1>7, SameReading, ZenonT(60)
<1> QED BY <1>1, <1>3, <1>8 DEF fields

\* The entries as ReadResult reads them.
EntriesFrom(fields, showdown) == ReadList(fields, LAMBDA f : ReadEntry(f, showdown))

\* A list of entries.
LEMMA EntriesRead ==
  ASSUME NEW rows \in Seq(Seq(Pair)), Len(rows) < 256, NEW V, NEW v \in Seq(V),
         Len(v) = Len(rows), NEW rest \in Seq(Field), NEW showdown,
         \A n \in 1..Len(rows) : \A left \in Seq(Field) :
           ReadEntry(FieldsOf(rows[n]) \o left, showdown) = [value |-> v[n], rest |-> left]
  PROVE  EntriesFrom(FieldsOf(Listed(rows)) \o rest, showdown) = [values |-> v, rest |-> rest]
<1> DEFINE fields == FieldsOf(Listed(rows)) \o rest
           count == Read(fields, 1)
           init == [values |-> <<>>, rest |-> count.rest]
           Loop(f) == f = [k \in 0..count.value |->
                             IF k = 0 THEN init
                             ELSE Taking(f[k - 1], ReadEntry(f[k - 1].rest, showdown))]
           upTo == CHOOSE f : Loop(f)
           N == Len(rows)
<1>1. EntriesFrom(fields, showdown) = upTo[count.value]
  <2> HIDE DEF fields
  <2> QED BY DEF EntriesFrom, ReadList
<1>2. PICK W : ListReading(W, rows, v, rest)
  BY ListReadingExists
<1> HIDE DEF init, count
<1>3. /\ count.value = N /\ N \in Nat /\ W = [n \in 0..N |-> W[n]] /\ W[0] = init
      /\ W[N] = [values |-> v, rest |-> rest]
  BY <1>2, LenProperties DEF ListReading, init, count
<1>4. \A n \in 1..N : W[n] = Taking(W[n - 1], ReadEntry(W[n - 1].rest, showdown))
  <2> SUFFICES ASSUME NEW n \in 1..N PROVE W[n] = Taking(W[n - 1], ReadEntry(W[n - 1].rest, showdown))
    OBVIOUS
  <2>1. PICK left \in Seq(Field) :
          /\ W[n - 1].rest = FieldsOf(rows[n]) \o left
          /\ W[n] = Taking(W[n - 1], [value |-> v[n], rest |-> left])
    BY <1>2 DEF ListReading
  <2>2. ReadEntry(W[n - 1].rest, showdown) = [value |-> v[n], rest |-> left]
    BY <2>1
  <2> QED BY <2>1, <2>2
<1>5. Loop(upTo)
  <2>1. Loop(W)
    <3>1. \A k \in 0..N : k # 0 => k \in 1..N
      BY <1>3
    <3> HIDE DEF N
    <3>2. \A k \in 0..N : W[k] = IF k = 0 THEN init ELSE Taking(W[k - 1], ReadEntry(W[k - 1].rest, showdown))
      BY <1>3, <1>4, <3>1
    <3> QED BY <1>3, <3>2
  <2> HIDE DEF Loop
  <2> QED BY <2>1
<1> HIDE DEF upTo
<1>6. \A k \in 0..N : upTo[k] = IF k = 0 THEN init
                                ELSE Taking(upTo[k - 1], ReadEntry(upTo[k - 1].rest, showdown))
  <2> HIDE DEF N
  <2> QED BY <1>3, <1>5
<1>7. /\ upTo[0] = W[0]
      /\ \A n \in 1..N : upTo[n - 1] = W[n - 1] => upTo[n] = W[n]
  <2>1. 0 \in 0..N /\ \A n \in 1..N : n \in 0..N /\ n # 0
    BY <1>3
  <2> HIDE DEF N, Loop
  <2> QED BY <1>3, <1>4, <1>6, <2>1, ZenonT(60)
<1> HIDE DEF Loop, fields
<1>8. upTo[N] = W[N]
  <2> HIDE DEF N
  <2> QED BY <1>3, <1>7, SameReading, ZenonT(60)
<1> QED BY <1>1, <1>3, <1>8 DEF fields

\* A list of pots.
LEMMA PotsRead ==
  ASSUME NEW rows \in Seq(Seq(Pair)), Len(rows) < 256, NEW V, NEW v \in Seq(V),
         Len(v) = Len(rows), NEW rest \in Seq(Field),
         \A n \in 1..Len(rows) : \A left \in Seq(Field) :
           ReadPot(FieldsOf(rows[n]) \o left) = [value |-> v[n], rest |-> left]
  PROVE  ReadList(FieldsOf(Listed(rows)) \o rest, ReadPot) = [values |-> v, rest |-> rest]
<1> DEFINE fields == FieldsOf(Listed(rows)) \o rest
           count == Read(fields, 1)
           init == [values |-> <<>>, rest |-> count.rest]
           Loop(f) == f = [k \in 0..count.value |->
                             IF k = 0 THEN init
                             ELSE Taking(f[k - 1], ReadPot(f[k - 1].rest))]
           upTo == CHOOSE f : Loop(f)
           N == Len(rows)
<1>1. ReadList(fields, ReadPot) = upTo[count.value]
  <2> HIDE DEF fields
  <2> QED BY DEF ReadList
<1>2. PICK W : ListReading(W, rows, v, rest)
  BY ListReadingExists
<1> HIDE DEF init, count
<1>3. /\ count.value = N /\ N \in Nat /\ W = [n \in 0..N |-> W[n]] /\ W[0] = init
      /\ W[N] = [values |-> v, rest |-> rest]
  BY <1>2, LenProperties DEF ListReading, init, count
<1>4. \A n \in 1..N : W[n] = Taking(W[n - 1], ReadPot(W[n - 1].rest))
  <2> SUFFICES ASSUME NEW n \in 1..N PROVE W[n] = Taking(W[n - 1], ReadPot(W[n - 1].rest))
    OBVIOUS
  <2>1. PICK left \in Seq(Field) :
          /\ W[n - 1].rest = FieldsOf(rows[n]) \o left
          /\ W[n] = Taking(W[n - 1], [value |-> v[n], rest |-> left])
    BY <1>2 DEF ListReading
  <2>2. ReadPot(W[n - 1].rest) = [value |-> v[n], rest |-> left]
    BY <2>1
  <2> QED BY <2>1, <2>2
<1>5. Loop(upTo)
  <2>1. Loop(W)
    <3>1. \A k \in 0..N : k # 0 => k \in 1..N
      BY <1>3
    <3> HIDE DEF N
    <3>2. \A k \in 0..N : W[k] = IF k = 0 THEN init ELSE Taking(W[k - 1], ReadPot(W[k - 1].rest))
      BY <1>3, <1>4, <3>1
    <3> QED BY <1>3, <3>2
  <2> HIDE DEF Loop
  <2> QED BY <2>1
<1> HIDE DEF upTo
<1>6. \A k \in 0..N : upTo[k] = IF k = 0 THEN init
                                ELSE Taking(upTo[k - 1], ReadPot(upTo[k - 1].rest))
  <2> HIDE DEF N
  <2> QED BY <1>3, <1>5
<1>7. /\ upTo[0] = W[0]
      /\ \A n \in 1..N : upTo[n - 1] = W[n - 1] => upTo[n] = W[n]
  <2>1. 0 \in 0..N /\ \A n \in 1..N : n \in 0..N /\ n # 0
    BY <1>3
  <2> HIDE DEF N, Loop
  <2> QED BY <1>3, <1>4, <1>6, <2>1, ZenonT(60)
<1> HIDE DEF Loop, fields
<1>8. upTo[N] = W[N]
  <2> HIDE DEF N
  <2> QED BY <1>3, <1>7, SameReading, ZenonT(60)
<1> QED BY <1>1, <1>3, <1>8 DEF fields

\* A list of seats.
LEMMA SeatsRead ==
  ASSUME NEW rows \in Seq(Seq(Pair)), Len(rows) < 256, NEW V, NEW v \in Seq(V),
         Len(v) = Len(rows), NEW rest \in Seq(Field),
         \A n \in 1..Len(rows) : \A left \in Seq(Field) :
           ReadSeat(FieldsOf(rows[n]) \o left) = [value |-> v[n], rest |-> left]
  PROVE  ReadList(FieldsOf(Listed(rows)) \o rest, ReadSeat) = [values |-> v, rest |-> rest]
<1> DEFINE fields == FieldsOf(Listed(rows)) \o rest
           count == Read(fields, 1)
           init == [values |-> <<>>, rest |-> count.rest]
           Loop(f) == f = [k \in 0..count.value |->
                             IF k = 0 THEN init
                             ELSE Taking(f[k - 1], ReadSeat(f[k - 1].rest))]
           upTo == CHOOSE f : Loop(f)
           N == Len(rows)
<1>1. ReadList(fields, ReadSeat) = upTo[count.value]
  <2> HIDE DEF fields
  <2> QED BY DEF ReadList
<1>2. PICK W : ListReading(W, rows, v, rest)
  BY ListReadingExists
<1> HIDE DEF init, count
<1>3. /\ count.value = N /\ N \in Nat /\ W = [n \in 0..N |-> W[n]] /\ W[0] = init
      /\ W[N] = [values |-> v, rest |-> rest]
  BY <1>2, LenProperties DEF ListReading, init, count
<1>4. \A n \in 1..N : W[n] = Taking(W[n - 1], ReadSeat(W[n - 1].rest))
  <2> SUFFICES ASSUME NEW n \in 1..N PROVE W[n] = Taking(W[n - 1], ReadSeat(W[n - 1].rest))
    OBVIOUS
  <2>1. PICK left \in Seq(Field) :
          /\ W[n - 1].rest = FieldsOf(rows[n]) \o left
          /\ W[n] = Taking(W[n - 1], [value |-> v[n], rest |-> left])
    BY <1>2 DEF ListReading
  <2>2. ReadSeat(W[n - 1].rest) = [value |-> v[n], rest |-> left]
    BY <2>1
  <2> QED BY <2>1, <2>2
<1>5. Loop(upTo)
  <2>1. Loop(W)
    <3>1. \A k \in 0..N : k # 0 => k \in 1..N
      BY <1>3
    <3> HIDE DEF N
    <3>2. \A k \in 0..N : W[k] = IF k = 0 THEN init ELSE Taking(W[k - 1], ReadSeat(W[k - 1].rest))
      BY <1>3, <1>4, <3>1
    <3> QED BY <1>3, <3>2
  <2> HIDE DEF Loop
  <2> QED BY <2>1
<1> HIDE DEF upTo
<1>6. \A k \in 0..N : upTo[k] = IF k = 0 THEN init
                                ELSE Taking(upTo[k - 1], ReadSeat(upTo[k - 1].rest))
  <2> HIDE DEF N
  <2> QED BY <1>3, <1>5
<1>7. /\ upTo[0] = W[0]
      /\ \A n \in 1..N : upTo[n - 1] = W[n - 1] => upTo[n] = W[n]
  <2>1. 0 \in 0..N /\ \A n \in 1..N : n \in 0..N /\ n # 0
    BY <1>3
  <2> HIDE DEF N, Loop
  <2> QED BY <1>3, <1>4, <1>6, <2>1, ZenonT(60)
<1> HIDE DEF Loop, fields
<1>8. upTo[N] = W[N]
  <2> HIDE DEF N
  <2> QED BY <1>3, <1>7, SameReading, ZenonT(60)
<1> QED BY <1>1, <1>3, <1>8 DEF fields

\* A set written out as a sequence.
LEMMA SetToSeqIs ==
  ASSUME NEW V, NEW S \in SUBSET V, IsFiniteSet(S)
  PROVE  LET q == SetToSeq(S)
         IN  /\ q \in Seq(V) /\ Len(q) = Cardinality(S) /\ Cardinality(S) \in Nat
             /\ ToSet(q) = S /\ \A k \in 1..Len(q) : q[k] \in S
<1> DEFINE n == Cardinality(S)
           q == SetToSeq(S)
<1>1. n \in Nat /\ ExistsBijection(1..n, S)
  BY FS_CardinalityType
<1>2. \E f \in [1..n -> S] : IsInjective(f)
  <2>1. PICK f : f \in Bijection(1..n, S)
    BY <1>1 DEF ExistsBijection
  <2> QED BY <2>1 DEF Bijection, Injection, IsInjective
<1>3. q \in [1..n -> S] /\ IsInjective(q)
  BY <1>2 DEF SetToSeq
<1> HIDE DEF n, q
<1>4. q \in Surjection(1..n, S)
  <2>1. q \in Injection(1..n, S)
    BY <1>3 DEF Injection
  <2>2. Cardinality(1..n) = Cardinality(S)
    BY <1>1, PositionsUpTo DEF n
  <2> QED BY <2>1, <2>2, FS_Injection
<1>5. q \in Seq(V) /\ Len(q) = n /\ DOMAIN q = 1..n
  <2>1. q \in [1..n -> V]
    BY <1>3
  <2> QED BY <1>1, <2>1, SeqIntro
<1>6. ToSet(q) = S
  <2>1. \A x \in S : \E k \in 1..n : q[k] = x
    BY <1>4 DEF Surjection
  <2> QED BY <1>3, <1>5, <2>1 DEF ToSet
<1>7. \A k \in 1..n : q[k] \in S
  BY <1>3
<1> QED BY <1>1, <1>5, <1>6, <1>7 DEF n, q

\* The rows of n items are a list of rows.
LEMMA RowsAre ==
  ASSUME NEW n \in Nat, NEW rows, rows = [k \in 1..n |-> rows[k]],
         \A k \in 1..n : rows[k] \in Seq(Pair)
  PROVE  rows \in Seq(Seq(Pair)) /\ Len(rows) = n
<1>1. rows \in [1..n -> Seq(Pair)]
  OBVIOUS
<1> QED BY <1>1, SeqIntro

\* Rows behind one another have no more fields than they would if all were as long as
\* the longest.
LEMMA RowsLength ==
  ASSUME NEW rows \in Seq(Seq(Pair)), NEW c \in Nat,
         \A n \in 1..Len(rows) : Len(rows[n]) <= c
  PROVE  /\ Listed(rows) \in Seq(Pair)
         /\ Len(rows) < 256 => Len(Listed(rows)) <= 1 + Len(rows) * c
         /\ Len(Listed(rows)) \in Nat
<1> DEFINE N == Len(rows)
           flat == FlattenSeq(rows)
           one == <<<<1, Len(rows) % 256>>>>
<1>1. N \in Nat /\ \A n \in 1..N : rows[n] \in Seq(Pair) /\ Len(rows[n]) \in Nat
  BY LenProperties, ElementOfSeq
<1>2. PICK w : IsRest(w, rows, Seq(Pair)) /\ flat = w[0]
  BY FlattenRest
<1>3. /\ \A n \in 0..N : w[n] \in Seq(Pair) /\ Len(w[n]) \in Nat
      /\ w[N] = <<>> /\ \A n \in 1..N : w[n - 1] = rows[n] \o w[n]
  BY <1>2, LenProperties DEF IsRest
<1> HIDE DEF N, flat
<1> DEFINE P == {m \in 0..N : Len(w[N - m]) <= m * c}
<1>4. 0 \in P
  <2>1. N - 0 = N /\ 0 * c = 0 /\ 0 \in 0..N /\ Len(<<>>) = 0
    BY <1>1
  <2> QED BY <1>3, <2>1
<1>5. ASSUME NEW m \in 1..N, m - 1 \in P PROVE m \in P
  <2> DEFINE n == N - (m - 1)
  <2>1. /\ n \in 1..N /\ n \in 0..N /\ n - 1 = N - m /\ n - 1 \in 0..N /\ m \in 0..N
        /\ m - 1 \in Nat
    BY <1>1
  <2>2. Len(w[n]) <= (m - 1) * c
    BY <1>5
  <2> HIDE DEF n
  <2>3. Len(w[n - 1]) = Len(rows[n]) + Len(w[n])
    <3>1. rows[n] \in Seq(Pair) /\ w[n] \in Seq(Pair) /\ w[n - 1] = rows[n] \o w[n]
      BY <1>1, <1>3, <2>1
    <3> QED BY <3>1, ConcatProperties
  <2>4. Len(rows[n]) <= c /\ Len(rows[n]) \in Nat /\ Len(w[n]) \in Nat
    BY <1>1, <1>3, <2>1 DEF N
  <2>5. (m - 1) * c + c = m * c /\ (m - 1) * c \in Int /\ m * c \in Int
    BY <2>1
  <2>6. Len(w[n - 1]) <= m * c
    <3> DEFINE A == (m - 1) * c
               B == m * c
               L == Len(w[n])
    <3>1. L <= A /\ A + c = B /\ A \in Int /\ B \in Int /\ L \in Nat
      BY <2>2, <2>4, <2>5
    <3> HIDE DEF A, B, L
    <3>2. Len(rows[n]) + L <= B
      BY <2>4, <3>1
    <3> QED BY <2>3, <3>2 DEF B, L
  <2> QED BY <2>1, <2>6
<1>6. Len(flat) <= N * c /\ flat \in Seq(Pair) /\ Len(flat) \in Nat
  <2>1. \A m \in 0..N : m \in P
    <3> HIDE DEF P
    <3> QED BY <1>1, <1>4, <1>5, IntervalInduction
  <2>2. N \in 0..N /\ N - N = 0 /\ 0 \in 0..N
    BY <1>1
  <2> QED BY <1>2, <1>3, <2>1, <2>2
<1>7. one \in Seq(Pair) /\ Len(one) = 1
  <2>1. Len(rows) % 256 \in Nat
    BY <1>1 DEF N
  <2> QED BY <2>1 DEF Pair, Value
<1>8. /\ Listed(rows) \in Seq(Pair) /\ Len(Listed(rows)) = 1 + Len(flat)
  <2>1. Listed(rows) = one \o flat
    BY DEF Listed, flat
  <2> HIDE DEF one
  <2>2. /\ one \o flat \in Seq(Pair) /\ Len(one \o flat) = Len(one) + Len(flat)
    <3>1. one \in Seq(Pair) /\ flat \in Seq(Pair)
      BY <1>6, <1>7
    <3> QED BY <3>1, ConcatIs
  <2> QED BY <1>7, <2>1, <2>2
<1>9. N * c \in Int
  BY <1>1
<1> QED BY <1>6, <1>8, <1>9 DEF N

\* No row is written in more than four bytes for every field.
LEMMA RowBytes ==
  ASSUME NEW row \in Seq(Pair)
  PROVE  Bytes(FieldsOf(row)) \in Nat /\ Bytes(FieldsOf(row)) <= 4 * Len(row)
<1> DEFINE N == Len(row)
           f == FieldsOf(row)
           s == [k \in DOMAIN f |-> f[k].width]
           t == [k \in 1..N |-> 4]
<1>1. /\ N \in Nat /\ f \in Seq(Field) /\ Len(f) = N
      /\ \A k \in 1..N : f[k] = [width |-> row[k][1], value |-> row[k][2]]
  BY FieldsOfIs, LenProperties
<1>2. \A k \in 1..N : row[k][1] \in 0..4
  <2>1. \A k \in 1..N : row[k] \in Pair
    BY ElementOfSeq
  <2> HIDE DEF N
  <2> QED BY <2>1 DEF Pair
<1>3. Bytes(f) \in Nat
  BY <1>1, BytesConcat
<1> HIDE DEF f, N
<1>4. DOMAIN f = 1..N
  BY <1>1, LenProperties
<1>5. s \in [1..N -> Nat] /\ t \in [1..N -> Nat] /\ \A k \in 1..N : s[k] <= t[k]
  <2>1. \A k \in 1..N : f[k].width \in 0..4
    BY <1>1, <1>2
  <2>2. s = [k \in 1..N |-> f[k].width]
    BY <1>4
  <2> QED BY <2>1, <2>2
<1>6. \A k \in 1..N : t[k] = IF k \in 1..N THEN 4 ELSE 0
  OBVIOUS
<1>7. Bytes(f) = SumSeq(s)
  BY DEF Bytes
<1> HIDE DEF s, t
<1>8. SumSeq(s) <= SumSeq(t)
  BY <1>1, <1>5, SumSeqMono
<1>9. SumSeq(t) = 4 * Cardinality(1..N)
  <2> DEFINE W == 1..N
             q == 4
  <2>1. W \in SUBSET (1..N) /\ \A k \in 1..N : t[k] = IF k \in W THEN q ELSE 0
    BY <1>6
  <2>2. t \in [1..N -> Nat] /\ q \in Nat /\ N \in Nat
    BY <1>1, <1>5
  <2> HIDE DEF W, q
  <2>3. SumSeq(t) = q * Cardinality(W)
    BY <2>1, <2>2, SumSeqSame
  <2> QED BY <2>3 DEF W, q
<1>10. Cardinality(1..N) = N
  BY <1>1, PositionsUpTo
<1> QED BY <1>3, <1>7, <1>8, <1>9, <1>10 DEF f, N

\* What is read of the first of two rows leaves the second.
LEMMA TwoRows ==
  ASSUME NEW a \in Seq(Pair), NEW b \in Seq(Pair), NEW rest \in Seq(Field)
  PROVE  /\ a \o b \in Seq(Pair) /\ Len(a \o b) = Len(a) + Len(b)
         /\ Len(a) \in Nat /\ Len(b) \in Nat
         /\ FieldsOf(b) \o rest \in Seq(Field)
         /\ FieldsOf(a \o b) \o rest = FieldsOf(a) \o (FieldsOf(b) \o rest)
<1>1. FieldsOf(a \o b) = FieldsOf(a) \o FieldsOf(b)
  BY FieldsOfConcat
<1>2. FieldsOf(a) \in Seq(Field) /\ FieldsOf(b) \in Seq(Field)
  BY FieldsOfIs
<1>3. (FieldsOf(a) \o FieldsOf(b)) \o rest = FieldsOf(a) \o (FieldsOf(b) \o rest)
  BY <1>2, FieldsAssociate, Zenon
<1>4. FieldsOf(b) \o rest \in Seq(Field)
  BY <1>2, ConcatIs
<1>5. a \o b \in Seq(Pair) /\ Len(a \o b) = Len(a) + Len(b) /\ Len(a) \in Nat /\ Len(b) \in Nat
  BY ConcatIs
<1> QED BY <1>1, <1>3, <1>4, <1>5

\* The players a pot names.
LEMMA NamesReadBack ==
  ASSUME NEW S \in SUBSET Players, IsFiniteSet(S), NEW m \in Nat, m < 256,
         Cardinality(S) <= m, NEW rest \in Seq(Field)
  PROVE  LET row == ListRow(SetToSeq(S), LAMBDA p : <<<<4, p>>>>)
         IN  /\ row \in Seq(Pair) /\ Len(row) <= 1 + m
             /\ ReadList(FieldsOf(row) \o rest, LAMBDA f : Read(f, 4))
                  = [values |-> SetToSeq(S), rest |-> rest]
<1> DEFINE q == SetToSeq(S)
           n == Len(q)
           rows == [k \in 1..n |-> <<<<4, q[k]>>>>]
           row == ListRow(SetToSeq(S), LAMBDA p : <<<<4, p>>>>)
<1>1. /\ q \in Seq(Players) /\ n = Cardinality(S) /\ n \in Nat /\ n < 256 /\ n <= m
      /\ \A k \in 1..n : q[k] \in Players
  <2>1. /\ q \in Seq(Players) /\ Len(q) = Cardinality(S) /\ Cardinality(S) \in Nat
        /\ \A k \in 1..Len(q) : q[k] \in S
    BY SetToSeqIs
  <2> QED BY <2>1
<1>2. DOMAIN q = 1..n
  <2> HIDE DEF q
  <2> QED BY <1>1, LenProperties
<1>3. row = <<<<1, n % 256>>>> \o FlattenSeq(rows)
  BY <1>2 DEF ListRow
<1> HIDE DEF q, n, row
<1>4. \A k \in 1..n : rows[k] \in Seq(Pair) /\ Len(rows[k]) <= 1
  <2> SUFFICES ASSUME NEW k \in 1..n PROVE rows[k] \in Seq(Pair) /\ Len(rows[k]) <= 1
    OBVIOUS
  <2>1. <<4, q[k]>> \in Pair
    BY <1>1 DEF Pair, Value
  <2> QED BY <2>1
<1>5. \A k \in 1..n : rows[k] = <<<<4, q[k]>>>>
  OBVIOUS
<1>6. rows = [k \in 1..n |-> rows[k]]
  OBVIOUS
<1> HIDE DEF rows
<1>7. rows \in Seq(Seq(Pair)) /\ Len(rows) = n
  BY <1>1, <1>4, <1>6, RowsAre
<1>8. row = Listed(rows)
  BY <1>3, <1>7 DEF Listed
<1>9. row \in Seq(Pair) /\ Len(row) <= 1 + m
  <2>1. /\ Listed(rows) \in Seq(Pair) /\ Len(Listed(rows)) \in Nat
        /\ Len(Listed(rows)) <= 1 + Len(rows) * 1
    <3>1. 1 \in Nat /\ Len(rows) < 256 /\ \A k \in 1..Len(rows) : Len(rows[k]) <= 1
      BY <1>1, <1>4, <1>7
    <3> QED BY <1>7, <3>1, RowsLength
  <2> QED BY <1>1, <1>7, <1>8, <2>1
<1>10. \A k \in 1..n : \A left \in Seq(Field) :
         Read(FieldsOf(rows[k]) \o left, 4) = [value |-> q[k], rest |-> left]
  <2> SUFFICES ASSUME NEW k \in 1..n, NEW left \in Seq(Field)
               PROVE Read(FieldsOf(rows[k]) \o left, 4) = [value |-> q[k], rest |-> left]
    OBVIOUS
  <2>1. q[k] \in Value /\ 4 \in Nat
    BY <1>1 DEF Value
  <2>2. Read(FieldsOf(<<<<4, q[k]>>>>) \o left, 4) = [value |-> q[k], rest |-> left]
    BY <2>1, ReadIs
  <2> QED BY <1>5, <2>2
<1>11. ReadList(FieldsOf(Listed(rows)) \o rest, LAMBDA f : Read(f, 4))
         = [values |-> q, rest |-> rest]
  <2>1. Len(q) = Len(rows) /\ Len(rows) < 256 /\ q \in Seq(Players)
    BY <1>1, <1>7 DEF n
  <2>2. \A k \in 1..Len(rows) : \A left \in Seq(Field) :
          Read(FieldsOf(rows[k]) \o left, 4) = [value |-> q[k], rest |-> left]
    BY <1>7, <1>10
  <2> QED BY <1>7, <2>1, <2>2, IdsRead
<1> QED BY <1>8, <1>9, <1>11 DEF q, row

\* A pot.
LEMMA PotReadBack ==
  ASSUME NEW pot \in Pot, IsFiniteSet(pot.eligible), NEW m \in Nat, m < 256,
         Cardinality(pot.eligible) <= m, NEW rest \in Seq(Field)
  PROVE  /\ PotRow(pot) \in Seq(Pair) /\ Len(PotRow(pot)) <= 2 + m
         /\ ReadPot(FieldsOf(PotRow(pot)) \o rest) = [value |-> pot, rest |-> rest]
<1> DEFINE S == pot.eligible
           one == <<<<4, pot.amount>>>>
           list == ListRow(SetToSeq(S), LAMBDA p : <<<<4, p>>>>)
           fields == FieldsOf(PotRow(pot)) \o rest
           left == FieldsOf(list) \o rest
<1>1. S \in SUBSET Players /\ pot.amount \in Nat /\ pot = [amount |-> pot.amount, eligible |-> S]
  BY DEF Pot
<1>2. PotRow(pot) = one \o list
  BY DEF PotRow
<1>3. /\ list \in Seq(Pair) /\ Len(list) <= 1 + m
      /\ ReadList(left, LAMBDA f : Read(f, 4)) = [values |-> SetToSeq(S), rest |-> rest]
  BY <1>1, NamesReadBack
<1>4. ToSet(SetToSeq(S)) = S
  BY <1>1, SetToSeqIs
<1>5. one \in Seq(Pair) /\ Len(one) = 1
  BY <1>1 DEF Pair, Value
<1> HIDE DEF list, S
<1>6. /\ one \o list \in Seq(Pair) /\ Len(one \o list) = Len(one) + Len(list)
      /\ Len(list) \in Nat /\ left \in Seq(Field)
      /\ FieldsOf(one \o list) \o rest = FieldsOf(one) \o left
  <2> HIDE DEF one
  <2> QED BY <1>3, <1>5, TwoRows
<1>7. Read(FieldsOf(one) \o left, 4) = [value |-> pot.amount, rest |-> left]
  <2>1. 4 \in Nat /\ pot.amount \in Value
    BY <1>1 DEF Value
  <2> HIDE DEF left
  <2> QED BY <1>6, <2>1, ReadIs
<1>8. PotRow(pot) \in Seq(Pair) /\ Len(PotRow(pot)) <= 2 + m
  <2> HIDE DEF one
  <2> QED BY <1>2, <1>3, <1>5, <1>6
<1>9. Read(fields, 4) = [value |-> pot.amount, rest |-> left]
  <2> HIDE DEF one, left
  <2> QED BY <1>2, <1>6, <1>7
<1> HIDE DEF one, left, fields
<1> DEFINE amount == Read(fields, 4)
<1>10. amount.value = pot.amount /\ amount.rest = left
  BY <1>9
<1> HIDE DEF amount
<1> DEFINE names == ReadList(amount.rest, LAMBDA f : Read(f, 4))
<1>11. names = [values |-> SetToSeq(S), rest |-> rest]
  BY <1>3, <1>10
<1> HIDE DEF names
<1>12. names.values = SetToSeq(S) /\ names.rest = rest
  BY <1>11
<1>13. ReadPot(fields) = [value |-> [amount |-> amount.value, eligible |-> ToSet(names.values)],
                          rest |-> names.rest]
  BY DEF ReadPot, names, amount
<1>14. ReadPot(fields) = [value |-> [amount |-> pot.amount, eligible |-> S], rest |-> rest]
  BY <1>4, <1>10, <1>12, <1>13
<1> QED BY <1>1, <1>8, <1>14 DEF fields

\* The two cards of a player's hand as they are written, and as they are read.
HoleRow(p, sent) == IF sent THEN CardRow(HoleOf(p)[1]) \o CardRow(HoleOf(p)[2]) ELSE <<>>
HoleSent(p, sent) == IF sent THEN HoleOf(p) ELSE <<NoCard, NoCard>>

\* The cards are read where they were sent.
LEMMA HoleReadBack ==
  ASSUME NEW p \in Players, NEW sent \in BOOLEAN, NEW rest \in Seq(Field)
  PROVE  /\ HoleRow(p, sent) \in Seq(Pair) /\ Len(HoleRow(p, sent)) \in 0..4
         /\ ReadHole(FieldsOf(HoleRow(p, sent)) \o rest, sent)
              = [value |-> HoleSent(p, sent), rest |-> rest]
<1>1. CASE ~sent
  <2>1. HoleRow(p, sent) = <<>> /\ <<>> \in Seq(Pair) /\ Len(<<>>) = 0
    BY <1>1 DEF HoleRow
  <2>2. FieldsOf(<<>>) = <<>> /\ <<>> \o rest = rest
    BY ConcatEmptySeq DEF FieldsOf
  <2>3. ReadHole(rest, sent) = [value |-> HoleSent(p, sent), rest |-> rest]
    BY <1>1 DEF ReadHole, HoleSent
  <2>4. FieldsOf(HoleRow(p, sent)) \o rest = rest
    BY <2>1, <2>2, Zenon
  <2>5. Len(HoleRow(p, sent)) \in 0..4
    <3>1. 0 \in 0..4
      OBVIOUS
    <3> QED BY <2>1, <3>1, Zenon
  <2> QED BY <2>1, <2>3, <2>4, <2>5, Zenon
<1>2. CASE sent
  <2> DEFINE c == HoleOf(p)[1]
             d == HoleOf(p)[2]
             a == CardRow(c)
             b == CardRow(d)
             fields == FieldsOf(HoleRow(p, sent)) \o rest
             left == FieldsOf(b) \o rest
  <2>1. c \in Card /\ d \in Card /\ HoleOf(p) = <<c, d>>
    BY DEF HoleOf, Card, Value
  <2>2. Len(a) = 2 /\ Len(b) = 2 /\ HoleRow(p, sent) = a \o b
    BY <1>2 DEF CardRow, HoleRow
  <2>3. b \in Seq(Pair) /\ ReadCard(left) = [value |-> d, rest |-> rest]
    <3> HIDE DEF c, d
    <3> QED BY <2>1, ReadCardIs
  <2>4. a \in Seq(Pair)
    <3> HIDE DEF c, d
    <3> QED BY <2>1, ReadCardIs
  <2> HIDE DEF c, d, a, b
  <2>5. /\ a \o b \in Seq(Pair) /\ Len(a \o b) = 4 /\ left \in Seq(Field)
        /\ FieldsOf(a \o b) \o rest = FieldsOf(a) \o left
    <3>1. a \in Seq(Pair) /\ b \in Seq(Pair)
      BY <2>3, <2>4
    <3>2. /\ a \o b \in Seq(Pair) /\ Len(a \o b) = Len(a) + Len(b) /\ left \in Seq(Field)
          /\ FieldsOf(a \o b) \o rest = FieldsOf(a) \o left
      BY <3>1, TwoRows, Zenon
    <3> HIDE DEF left
    <3>3. Len(a \o b) = 4
      BY <2>2, <3>2
    <3> QED BY <3>2, <3>3
  <2>6. ReadCard(FieldsOf(a) \o left) = [value |-> c, rest |-> left]
    <3> HIDE DEF left
    <3> QED BY <2>1, <2>5, ReadCardIs DEF a
  <2> HIDE DEF left
  <2> DEFINE first == ReadCard(fields)
             second == ReadCard(first.rest)
  <2>7. first = [value |-> c, rest |-> left]
    BY <2>2, <2>5, <2>6
  <2> HIDE DEF fields
  <2>8. first.value = c /\ first.rest = left
    BY <2>7
  <2> HIDE DEF first
  <2>9. second = [value |-> d, rest |-> rest]
    BY <2>3, <2>8
  <2>10. second.value = d /\ second.rest = rest
    BY <2>9
  <2> HIDE DEF second
  <2>11. ReadHole(fields, sent) = [value |-> <<first.value, second.value>>, rest |-> second.rest]
    BY <1>2 DEF ReadHole, second, first
  <2>12. ReadHole(fields, sent) = [value |-> HoleSent(p, sent), rest |-> rest]
    BY <1>2, <2>1, <2>8, <2>10, <2>11 DEF HoleSent
  <2> QED BY <2>2, <2>5, <2>12 DEF fields
<1> QED BY <1>1, <1>2

\* A flag, and a flag read.
LEMMA FlagIs ==
  /\ \A b \in BOOLEAN : Flag(b) \in Value /\ ((Flag(b) # 0) = b)
BY DEF Flag, Value

\* The copy of a seat.
SeatSent(s, sent) ==
  [seatIndex |-> s.seatIndex, playerId |-> s.playerId, chips |-> s.chips,
   currentBet |-> s.currentBet, totalBetThisHand |-> s.totalBetThisHand,
   inHand |-> s.inHand, folded |-> s.folded, allIn |-> s.allIn,
   pendingLeave |-> s.pendingLeave, sittingOut |-> s.sittingOut,
   autoMode |-> s.autoMode, actedThisRound |-> FALSE, hole |-> HoleSent(s.playerId, sent)]

\* A seat.
LEMMA SeatReadBack ==
  ASSUME NEW s \in Seat, NEW sent \in BOOLEAN, NEW rest \in Seq(Field)
  PROVE  /\ SeatRow(s, sent) \in Seq(Pair) /\ Len(SeatRow(s, sent)) <= 16
         /\ ReadSeat(FieldsOf(SeatRow(s, sent)) \o rest)
              = [value |-> SeatSent(s, sent), rest |-> rest]
<1> DEFINE widths == <<4, 4, 4, 4, 4, 1, 1, 1, 1, 1, 1, 1>>
           row == <<<<4, s.seatIndex>>, <<4, s.playerId>>, <<4, s.chips>>, <<4, s.currentBet>>,
                    <<4, s.totalBetThisHand>>, <<1, Flag(s.inHand)>>, <<1, Flag(s.folded)>>,
                    <<1, Flag(s.allIn)>>, <<1, Flag(s.pendingLeave)>>,
                    <<1, Flag(s.sittingOut)>>, <<1, Flag(s.autoMode)>>, <<1, Flag(sent)>>>>
           hole == HoleRow(s.playerId, sent)
           left == FieldsOf(hole) \o rest
           fields == FieldsOf(SeatRow(s, sent)) \o rest
<1>1. /\ s.seatIndex \in Int /\ s.playerId \in Players /\ s.chips \in Int
      /\ s.currentBet \in Int /\ s.totalBetThisHand \in Int
      /\ s.inHand \in BOOLEAN /\ s.folded \in BOOLEAN /\ s.allIn \in BOOLEAN
      /\ s.pendingLeave \in BOOLEAN /\ s.sittingOut \in BOOLEAN /\ s.autoMode \in BOOLEAN
  BY TableAssumption DEF Seat
<1>2. row \in Seq(Pair) /\ Len(row) = 12
  <2>1. /\ <<4, s.seatIndex>> \in Pair /\ <<4, s.playerId>> \in Pair /\ <<4, s.chips>> \in Pair
        /\ <<4, s.currentBet>> \in Pair /\ <<4, s.totalBetThisHand>> \in Pair
    BY <1>1 DEF Pair, Value
  <2>2. \A b \in BOOLEAN : <<1, Flag(b)>> \in Pair
    BY FlagIs DEF Pair
  <2>3. /\ <<1, Flag(s.inHand)>> \in Pair /\ <<1, Flag(s.folded)>> \in Pair
        /\ <<1, Flag(s.allIn)>> \in Pair /\ <<1, Flag(s.pendingLeave)>> \in Pair
        /\ <<1, Flag(s.sittingOut)>> \in Pair /\ <<1, Flag(s.autoMode)>> \in Pair
        /\ <<1, Flag(sent)>> \in Pair
    BY <1>1, <2>2
  <2> QED BY <2>1, <2>3
<1>3. SeatRow(s, sent) = row \o hole
  BY DEF SeatRow, HoleRow
<1>4. /\ hole \in Seq(Pair) /\ Len(hole) \in 0..4
      /\ ReadHole(left, sent) = [value |-> HoleSent(s.playerId, sent), rest |-> rest]
  BY <1>1, HoleReadBack
<1>5. /\ widths \in Seq(Nat) /\ Len(widths) = 12 /\ 1..12 = DOMAIN row
      /\ \A k \in 1..12 : row[k][1] = widths[k]
  OBVIOUS
<1> DEFINE values == [k \in 1..12 |-> row[k][2]]
<1>6. /\ values[1] = s.seatIndex /\ values[2] = s.playerId /\ values[3] = s.chips
      /\ values[4] = s.currentBet /\ values[5] = s.totalBetThisHand
      /\ values[6] = Flag(s.inHand) /\ values[7] = Flag(s.folded) /\ values[8] = Flag(s.allIn)
      /\ values[9] = Flag(s.pendingLeave) /\ values[10] = Flag(s.sittingOut)
      /\ values[11] = Flag(s.autoMode) /\ values[12] = Flag(sent)
  OBVIOUS
<1> HIDE DEF row, hole
<1>7. /\ SeatRow(s, sent) \in Seq(Pair) /\ Len(SeatRow(s, sent)) <= 16
      /\ left \in Seq(Field) /\ fields = FieldsOf(row) \o left
  <2>1. row \in Seq(Pair) /\ hole \in Seq(Pair)
    BY <1>2, <1>4
  <2>2. /\ row \o hole \in Seq(Pair) /\ Len(row \o hole) = Len(row) + Len(hole)
        /\ left \in Seq(Field) /\ FieldsOf(row \o hole) \o rest = FieldsOf(row) \o left
    BY <2>1, TwoRows, Zenon
  <2> HIDE DEF left
  <2>3. Len(row \o hole) <= 16
    <3>1. Len(row) = 12 /\ Len(hole) \in 0..4 /\ Len(row \o hole) = Len(row) + Len(hole)
      BY <1>2, <1>4, <2>2, Zenon
    <3> DEFINE x == Len(hole)
    <3>2. x \in 0..4 /\ Len(row \o hole) = 12 + x
      BY <3>1
    <3> HIDE DEF x
    <3> QED BY <3>2
  <2> QED BY <1>3, <2>2, <2>3, Zenon
<1>8. ReadRow(FieldsOf(row) \o left, widths) = [values |-> values, rest |-> left]
  <2>1. Len(widths) = Len(row) /\ \A k \in 1..Len(row) : row[k][1] = widths[k]
    BY <1>2, <1>5
  <2>2. values = [k \in 1..Len(row) |-> row[k][2]]
    BY <1>2
  <2> HIDE DEF widths, left, values
  <2> QED BY <1>2, <1>5, <1>7, <2>1, <2>2, ReadRowIs
<1> HIDE DEF values, left, fields
<1> DEFINE r == ReadRow(fields, widths)
<1>9. r.values = values /\ r.rest = left
  <2> HIDE DEF widths
  <2> QED BY <1>7, <1>8
<1> DEFINE got == ReadHole(r.rest, r.values[12] # 0)
<1>10. (r.values[12] # 0) = sent
  <2> HIDE DEF r
  <2> QED BY <1>6, <1>9, FlagIs
<1>11. got = [value |-> HoleSent(s.playerId, sent), rest |-> rest]
  <2> HIDE DEF r
  <2> QED BY <1>4, <1>9, <1>10
<1>12. got.value = HoleSent(s.playerId, sent) /\ got.rest = rest
  BY <1>11
<1> DEFINE seat(v, h) ==
             [value |->
                [seatIndex |-> v[1], playerId |-> v[2], chips |-> v[3], currentBet |-> v[4],
                 totalBetThisHand |-> v[5], inHand |-> v[6] # 0, folded |-> v[7] # 0,
                 allIn |-> v[8] # 0, pendingLeave |-> v[9] # 0, sittingOut |-> v[10] # 0,
                 autoMode |-> v[11] # 0, actedThisRound |-> FALSE, hole |-> h.value],
              rest |-> h.rest]
<1>13. ReadSeat(fields) = seat(r.values, got)
  BY DEF ReadSeat
<1> HIDE DEF got, r
<1>14. /\ (r.values[6] # 0) = s.inHand /\ (r.values[7] # 0) = s.folded
       /\ (r.values[8] # 0) = s.allIn /\ (r.values[9] # 0) = s.pendingLeave
       /\ (r.values[10] # 0) = s.sittingOut /\ (r.values[11] # 0) = s.autoMode
  BY <1>1, <1>6, <1>9, FlagIs
<1>15. ReadSeat(fields) = [value |-> SeatSent(s, sent), rest |-> rest]
  BY <1>6, <1>9, <1>12, <1>13, <1>14 DEF SeatSent
<1> QED BY <1>7, <1>15 DEF fields

\* The cards of the board.
LEMMA BoardReadBack ==
  ASSUME NEW n \in Nat, n < 256, NEW rest \in Seq(Field)
  PROVE  /\ ListRow(BoardOf(n), CardRow) \in Seq(Pair)
         /\ Len(ListRow(BoardOf(n), CardRow)) \in Nat
         /\ Len(ListRow(BoardOf(n), CardRow)) <= 1 + n * 2
         /\ ReadList(FieldsOf(ListRow(BoardOf(n), CardRow)) \o rest, ReadCard)
              = [values |-> BoardOf(n), rest |-> rest]
<1> DEFINE board == BoardOf(n)
           rows == [k \in 1..n |-> CardRow(board[k])]
<1>1. /\ board = [k \in 1..n |-> board[k]] /\ DOMAIN board = 1..n
      /\ \A k \in 1..n : board[k] \in Card
  BY DEF BoardOf, Card, Value
<1>2. board \in Seq(Card) /\ Len(board) = n
  <2>1. board \in [1..n -> Card]
    <3> HIDE DEF board
    <3> QED BY <1>1
  <2> HIDE DEF board
  <2> QED BY <2>1, SeqIntro
<1>3. ListRow(board, CardRow) = <<<<1, n % 256>>>> \o FlattenSeq(rows)
  <2> HIDE DEF board
  <2> QED BY <1>1, <1>2 DEF ListRow
<1> HIDE DEF board
<1>4. rows = [k \in 1..n |-> rows[k]] /\ \A k \in 1..n : rows[k] = CardRow(board[k])
  OBVIOUS
<1> HIDE DEF rows
<1>5. ASSUME NEW k \in 1..n
      PROVE  /\ rows[k] \in Seq(Pair) /\ Len(rows[k]) <= 2
             /\ \A left \in Seq(Field) :
                  ReadCard(FieldsOf(rows[k]) \o left) = [value |-> board[k], rest |-> left]
  <2> DEFINE card == board[k]
  <2>1. card \in Card /\ rows[k] = CardRow(card)
    BY <1>1, <1>4
  <2> HIDE DEF card
  <2>2. Len(CardRow(card)) <= 2
    BY DEF CardRow
  <2>3. CardRow(card) \in Seq(Pair)
    <3>1. <<>> \in Seq(Field)
      OBVIOUS
    <3> QED BY <2>1, <3>1, ReadCardIs
  <2>4. \A left \in Seq(Field) :
          ReadCard(FieldsOf(CardRow(card)) \o left) = [value |-> card, rest |-> left]
    BY <2>1, ReadCardIs
  <2> QED BY <2>1, <2>2, <2>3, <2>4 DEF card
<1>6. rows \in Seq(Seq(Pair)) /\ Len(rows) = n
  BY <1>4, <1>5, RowsAre
<1>7. ListRow(board, CardRow) = Listed(rows)
  BY <1>3, <1>6 DEF Listed
<1>8. /\ Listed(rows) \in Seq(Pair) /\ Len(Listed(rows)) \in Nat
      /\ Len(Listed(rows)) <= 1 + Len(rows) * 2
  <2>1. 2 \in Nat /\ Len(rows) < 256 /\ \A k \in 1..Len(rows) : Len(rows[k]) <= 2
    BY <1>5, <1>6
  <2> QED BY <1>6, <2>1, RowsLength
<1>9. ReadList(FieldsOf(Listed(rows)) \o rest, ReadCard) = [values |-> board, rest |-> rest]
  <2>1. /\ Len(board) = Len(rows) /\ Len(rows) < 256
        /\ \A k \in 1..Len(rows) : \A left \in Seq(Field) :
             ReadCard(FieldsOf(rows[k]) \o left) = [value |-> board[k], rest |-> left]
    BY <1>2, <1>5, <1>6
  <2> QED BY <1>2, <1>6, <2>1, CardsRead
<1> QED BY <1>6, <1>7, <1>8, <1>9 DEF board

\* The pots, when none names more than m players.
LEMMA PotsReadBack ==
  ASSUME NEW pots \in Seq(Pot), Len(pots) < 256, NEW m \in Nat, m < 256,
         \A k \in 1..Len(pots) : /\ IsFiniteSet(pots[k].eligible)
                                 /\ Cardinality(pots[k].eligible) <= m,
         NEW rest \in Seq(Field)
  PROVE  /\ ListRow(pots, PotRow) \in Seq(Pair)
         /\ Len(ListRow(pots, PotRow)) \in Nat
         /\ Len(ListRow(pots, PotRow)) <= 1 + Len(pots) * (2 + m)
         /\ ReadList(FieldsOf(ListRow(pots, PotRow)) \o rest, ReadPot)
              = [values |-> pots, rest |-> rest]
<1> DEFINE n == Len(pots)
           rows == [k \in 1..n |-> PotRow(pots[k])]
<1>1. /\ n \in Nat /\ DOMAIN pots = 1..n /\ \A k \in 1..n : pots[k] \in Pot
  BY LenProperties, ElementOfSeq
<1>2. ListRow(pots, PotRow) = <<<<1, n % 256>>>> \o FlattenSeq(rows)
  BY <1>1 DEF ListRow
<1> HIDE DEF n
<1>4. rows = [k \in 1..n |-> rows[k]] /\ \A k \in 1..n : rows[k] = PotRow(pots[k])
  OBVIOUS
<1> HIDE DEF rows
<1>5. ASSUME NEW k \in 1..n
      PROVE  /\ rows[k] \in Seq(Pair) /\ Len(rows[k]) <= 2 + m
             /\ \A left \in Seq(Field) :
                  ReadPot(FieldsOf(rows[k]) \o left) = [value |-> pots[k], rest |-> left]
  <2> DEFINE pot == pots[k]
  <2>1. /\ pot \in Pot /\ rows[k] = PotRow(pot)
        /\ IsFiniteSet(pot.eligible) /\ Cardinality(pot.eligible) <= m
    BY <1>1, <1>4 DEF n
  <2> HIDE DEF pot
  <2>2. PotRow(pot) \in Seq(Pair) /\ Len(PotRow(pot)) <= 2 + m
    <3>1. <<>> \in Seq(Field)
      OBVIOUS
    <3> QED BY <2>1, <3>1, PotReadBack
  <2>3. \A left \in Seq(Field) :
          ReadPot(FieldsOf(PotRow(pot)) \o left) = [value |-> pot, rest |-> left]
    BY <2>1, PotReadBack
  <2> QED BY <2>1, <2>2, <2>3 DEF pot
<1>6. rows \in Seq(Seq(Pair)) /\ Len(rows) = n
  BY <1>1, <1>4, <1>5, RowsAre
<1>7. ListRow(pots, PotRow) = Listed(rows)
  BY <1>2, <1>6 DEF Listed
<1>8. /\ Listed(rows) \in Seq(Pair) /\ Len(Listed(rows)) \in Nat
      /\ Len(Listed(rows)) <= 1 + Len(rows) * (2 + m)
  <2> DEFINE c == 2 + m
  <2>1. c \in Nat /\ Len(rows) < 256 /\ \A k \in 1..Len(rows) : Len(rows[k]) <= c
    BY <1>5, <1>6 DEF n
  <2> HIDE DEF c
  <2>2. /\ Listed(rows) \in Seq(Pair) /\ Len(Listed(rows)) \in Nat
        /\ Len(Listed(rows)) <= 1 + Len(rows) * c
    BY <1>6, <2>1, RowsLength
  <2> QED BY <2>2 DEF c
<1>9. ReadList(FieldsOf(Listed(rows)) \o rest, ReadPot) = [values |-> pots, rest |-> rest]
  <2>1. /\ Len(pots) = Len(rows) /\ Len(rows) < 256
        /\ \A k \in 1..Len(rows) : \A left \in Seq(Field) :
             ReadPot(FieldsOf(rows[k]) \o left) = [value |-> pots[k], rest |-> left]
    BY <1>5, <1>6 DEF n
  <2> QED BY <1>6, <2>1, PotsRead
<1> QED BY <1>6, <1>7, <1>8, <1>9 DEF n

\* The seats as they are written, and as they arrive.
SeatRows(g, viewer) == ListRow(g.seats, LAMBDA s : SeatRow(s, ShowHole(g, s, viewer)))
SeatsSent(g, viewer) ==
  [k \in 1..Len(g.seats) |-> SeatSent(g.seats[k], ShowHole(g, g.seats[k], viewer))]

\* The seats, each with its cards or without.
LEMMA SeatsReadBack ==
  ASSUME NEW g, g.seats \in Seq(Seat), Len(g.seats) < 256, NEW viewer, NEW rest \in Seq(Field)
  PROVE  LET row == SeatRows(g, viewer)
         IN  /\ row \in Seq(Pair) /\ Len(row) \in Nat /\ Len(row) <= 1 + Len(g.seats) * 16
             /\ \A k \in DOMAIN g.seats : ShowHole(g, g.seats[k], viewer) \in BOOLEAN
             /\ ReadList(FieldsOf(row) \o rest, ReadSeat)
                  = [values |-> SeatsSent(g, viewer), rest |-> rest]
<1> DEFINE seats == g.seats
           n == Len(seats)
           shown(k) == ShowHole(g, seats[k], viewer)
           rows == [k \in 1..n |-> SeatRow(seats[k], shown(k))]
           copy == [k \in 1..n |-> SeatSent(seats[k], shown(k))]
           row == SeatRows(g, viewer)
<1>1. /\ n \in Nat /\ DOMAIN seats = 1..n /\ \A k \in 1..n : seats[k] \in Seat
  BY LenProperties, ElementOfSeq
<1>2. row = <<<<1, n % 256>>>> \o FlattenSeq(rows)
  BY <1>1 DEF ListRow, SeatRows
<1>3. \A k \in 1..n : shown(k) \in BOOLEAN
  BY <1>1 DEF ShowHole, Seat
<1> HIDE DEF n, shown
<1>4. /\ rows = [k \in 1..n |-> rows[k]]
      /\ \A k \in 1..n : rows[k] = SeatRow(seats[k], shown(k))
  OBVIOUS
<1>5. /\ copy = [k \in 1..n |-> copy[k]]
      /\ \A k \in 1..n : copy[k] = SeatSent(seats[k], shown(k))
  OBVIOUS
<1> HIDE DEF rows, copy, row
<1>6. ASSUME NEW k \in 1..n
      PROVE  /\ rows[k] \in Seq(Pair) /\ Len(rows[k]) <= 16
             /\ \A left \in Seq(Field) :
                  ReadSeat(FieldsOf(rows[k]) \o left) = [value |-> copy[k], rest |-> left]
  <2> DEFINE s == seats[k]
             sent == shown(k)
  <2>1. s \in Seat /\ sent \in BOOLEAN
    BY <1>1, <1>3
  <2>2. rows[k] = SeatRow(s, sent) /\ copy[k] = SeatSent(s, sent)
    BY <1>4, <1>5
  <2> HIDE DEF s, sent
  <2>3. SeatRow(s, sent) \in Seq(Pair) /\ Len(SeatRow(s, sent)) <= 16
    <3>1. <<>> \in Seq(Field)
      OBVIOUS
    <3> QED BY <2>1, <3>1, SeatReadBack
  <2>4. \A left \in Seq(Field) :
          ReadSeat(FieldsOf(SeatRow(s, sent)) \o left) = [value |-> SeatSent(s, sent), rest |-> left]
    BY <2>1, SeatReadBack
  <2> QED BY <2>2, <2>3, <2>4
<1>7. rows \in Seq(Seq(Pair)) /\ Len(rows) = n
  BY <1>1, <1>4, <1>6, RowsAre
<1>8. row = Listed(rows)
  BY <1>2, <1>7 DEF Listed
<1>9. /\ Listed(rows) \in Seq(Pair) /\ Len(Listed(rows)) \in Nat
      /\ Len(Listed(rows)) <= 1 + Len(rows) * 16
  <2>1. 16 \in Nat /\ Len(rows) < 256 /\ \A k \in 1..Len(rows) : Len(rows[k]) <= 16
    BY <1>6, <1>7 DEF n
  <2> QED BY <1>7, <2>1, RowsLength
<1>10. copy \in Seq({copy[k] : k \in 1..n}) /\ Len(copy) = n
  <2>1. copy \in [1..n -> {copy[k] : k \in 1..n}]
    BY <1>5
  <2> QED BY <1>1, <2>1, SeqIntro
<1>11. ReadList(FieldsOf(Listed(rows)) \o rest, ReadSeat) = [values |-> copy, rest |-> rest]
  <2>1. /\ Len(copy) = Len(rows) /\ Len(rows) < 256
        /\ \A k \in 1..Len(rows) : \A left \in Seq(Field) :
             ReadSeat(FieldsOf(rows[k]) \o left) = [value |-> copy[k], rest |-> left]
    BY <1>6, <1>7, <1>10 DEF n
  <2> QED BY <1>7, <1>10, <2>1, SeatsRead
<1>12. \A k \in DOMAIN g.seats : ShowHole(g, g.seats[k], viewer) \in BOOLEAN
  BY <1>1, <1>3 DEF shown
<1> QED BY <1>7, <1>8, <1>9, <1>11, <1>12 DEF n, copy, shown, row, SeatsSent

\* What a hand result says of a player, how it is written, and how it arrives.
Entry == [playerId : Players, folded : BOOLEAN, chipsWon : Nat]
EntryScalars(e, scores) ==
  <<<<4, e.playerId>>, <<4, HandRank(e, scores)>>, <<4, e.chipsWon>>, <<1, Flag(e.folded)>>>>
EntryRow(e, shown, scores) == EntryScalars(e, scores) \o HoleRow(e.playerId, shown)
EntrySent(e, shown, scores) ==
  [playerId |-> e.playerId, handRank |-> HandRank(e, scores),
   folded |-> e.folded, chipsWon |-> e.chipsWon, hole |-> HoleSent(e.playerId, shown)]

EntriesRow(S, shown, scores) ==
  ListRow(SetToSeq(S), LAMBDA e : EntryRow(e, shown, scores))

EntriesSent(S, shown, scores) == {EntrySent(e, shown, scores) : e \in S}

\* The hands are scored by numbers.
Scored(scores) == \A p \in Players : scores[p] \in Nat

\* A player of a result.
LEMMA EntryReadBack ==
  ASSUME NEW e \in Entry, NEW shown \in BOOLEAN, NEW rest \in Seq(Field),
         NEW scores, Scored(scores)
  PROVE  /\ EntryRow(e, shown, scores) \in Seq(Pair) /\ Len(EntryRow(e, shown, scores)) <= 8
         /\ ReadEntry(FieldsOf(EntryRow(e, shown, scores)) \o rest, shown)
              = [value |-> EntrySent(e, shown, scores), rest |-> rest]
<1> DEFINE widths == <<4, 4, 4, 1>>
           row == EntryScalars(e, scores)
           hole == HoleRow(e.playerId, shown)
           left == FieldsOf(hole) \o rest
           fields == FieldsOf(EntryRow(e, shown, scores)) \o rest
<1>1. /\ e.playerId \in Players /\ e.chipsWon \in Nat /\ e.folded \in BOOLEAN
      /\ HandRank(e, scores) \in Nat
  BY DEF Entry, HandRank, Scored
<1>2. row \in Seq(Pair) /\ Len(row) = 4
  <2>1. /\ <<4, e.playerId>> \in Pair /\ <<4, HandRank(e, scores)>> \in Pair
        /\ <<4, e.chipsWon>> \in Pair
    BY <1>1 DEF Pair, Value
  <2>2. <<1, Flag(e.folded)>> \in Pair
    BY <1>1, FlagIs DEF Pair
  <2> QED BY <2>1, <2>2 DEF EntryScalars
<1>4. /\ hole \in Seq(Pair) /\ Len(hole) \in 0..4
      /\ ReadHole(left, shown) = [value |-> HoleSent(e.playerId, shown), rest |-> rest]
  BY <1>1, HoleReadBack
<1>5. /\ widths \in Seq(Nat) /\ Len(widths) = 4 /\ 1..4 = DOMAIN row
      /\ \A k \in 1..4 : row[k][1] = widths[k]
  BY DEF EntryScalars
<1> DEFINE values == [k \in 1..4 |-> row[k][2]]
<1>6. /\ values[1] = e.playerId /\ values[2] = HandRank(e, scores)
      /\ values[3] = e.chipsWon /\ values[4] = Flag(e.folded)
  BY DEF EntryScalars
<1> HIDE DEF row, hole
<1>7. /\ EntryRow(e, shown, scores) \in Seq(Pair) /\ Len(EntryRow(e, shown, scores)) <= 8
      /\ left \in Seq(Field) /\ fields = FieldsOf(row) \o left
  <2>1. row \in Seq(Pair) /\ hole \in Seq(Pair)
    BY <1>2, <1>4
  <2>2. /\ row \o hole \in Seq(Pair) /\ Len(row \o hole) = Len(row) + Len(hole)
        /\ left \in Seq(Field) /\ FieldsOf(row \o hole) \o rest = FieldsOf(row) \o left
    BY <2>1, TwoRows, Zenon
  <2> HIDE DEF left
  <2>3. Len(row \o hole) <= 8
    <3>1. Len(row) = 4 /\ Len(hole) \in 0..4 /\ Len(row \o hole) = Len(row) + Len(hole)
      BY <1>2, <1>4, <2>2, Zenon
    <3> DEFINE x == Len(hole)
    <3>2. x \in 0..4 /\ Len(row \o hole) = 4 + x
      BY <3>1
    <3> HIDE DEF x
    <3> QED BY <3>2
  <2>4. EntryRow(e, shown, scores) = row \o hole
    BY DEF EntryRow, row, hole
  <2> QED BY <2>2, <2>3, <2>4, Zenon
<1>8. ReadRow(FieldsOf(row) \o left, widths) = [values |-> values, rest |-> left]
  <2>1. Len(widths) = Len(row) /\ \A k \in 1..Len(row) : row[k][1] = widths[k]
    BY <1>2, <1>5
  <2>2. values = [k \in 1..Len(row) |-> row[k][2]]
    BY <1>2
  <2> HIDE DEF widths, left, values
  <2> QED BY <1>2, <1>5, <1>7, <2>1, <2>2, ReadRowIs
<1> HIDE DEF values, left, fields
<1> DEFINE r == ReadRow(fields, widths)
<1>9. r.values = values /\ r.rest = left
  <2> HIDE DEF widths
  <2> QED BY <1>7, <1>8
<1> DEFINE got == ReadHole(r.rest, shown)
<1>10. got.value = HoleSent(e.playerId, shown) /\ got.rest = rest
  <2> HIDE DEF r
  <2> QED BY <1>4, <1>9
<1>11. ReadEntry(fields, shown)
         = [value |-> [playerId |-> r.values[1], handRank |-> r.values[2],
                       folded |-> r.values[4] # 0, chipsWon |-> r.values[3],
                       hole |-> got.value],
            rest |-> got.rest]
  BY DEF ReadEntry
<1> HIDE DEF got, r
<1>12. (r.values[4] # 0) = e.folded
  BY <1>1, <1>6, <1>9, FlagIs
<1>13. ReadEntry(fields, shown) = [value |-> EntrySent(e, shown, scores), rest |-> rest]
  BY <1>6, <1>9, <1>10, <1>11, <1>12 DEF EntrySent
<1> QED BY <1>7, <1>13 DEF fields

\* The players of a result.
LEMMA EntriesReadBack ==
  ASSUME NEW S \in SUBSET Entry, IsFiniteSet(S), NEW m \in Nat, m < 256,
         Cardinality(S) <= m, NEW shown \in BOOLEAN, NEW rest \in Seq(Field),
         NEW scores, Scored(scores)
  PROVE  LET row == EntriesRow(S, shown, scores)
             got == EntriesFrom(FieldsOf(row) \o rest, shown)
         IN  /\ row \in Seq(Pair) /\ Len(row) \in Nat /\ Len(row) <= 1 + m * 8
             /\ ToSet(got.values) = EntriesSent(S, shown, scores)
             /\ got.rest = rest
<1> DEFINE q == SetToSeq(S)
           n == Len(q)
           rows == [k \in 1..n |-> EntryRow(q[k], shown, scores)]
           copy == [k \in 1..n |-> EntrySent(q[k], shown, scores)]
           row == EntriesRow(S, shown, scores)
           got == EntriesFrom(FieldsOf(row) \o rest, shown)
<1>1. /\ q \in Seq(Entry) /\ n = Cardinality(S) /\ n \in Nat /\ n < 256 /\ n <= m
      /\ ToSet(q) = S /\ \A k \in 1..n : q[k] \in Entry
  <2>1. /\ q \in Seq(Entry) /\ Len(q) = Cardinality(S) /\ Cardinality(S) \in Nat
        /\ ToSet(q) = S /\ \A k \in 1..Len(q) : q[k] \in S
    BY SetToSeqIs
  <2> QED BY <2>1
<1>2. DOMAIN q = 1..n
  <2> HIDE DEF q
  <2> QED BY <1>1, LenProperties
<1>3. row = <<<<1, n % 256>>>> \o FlattenSeq(rows)
  BY <1>2 DEF EntriesRow, ListRow
<1> HIDE DEF q, n, row
<1>4. /\ rows = [k \in 1..n |-> rows[k]]
      /\ \A k \in 1..n : rows[k] = EntryRow(q[k], shown, scores)
  OBVIOUS
<1>5. /\ copy = [k \in 1..n |-> copy[k]]
      /\ \A k \in 1..n : copy[k] = EntrySent(q[k], shown, scores)
  OBVIOUS
<1> HIDE DEF rows, copy
<1>6. ASSUME NEW k \in 1..n
      PROVE  /\ rows[k] \in Seq(Pair) /\ Len(rows[k]) <= 8
             /\ \A left \in Seq(Field) :
                  ReadEntry(FieldsOf(rows[k]) \o left, shown) = [value |-> copy[k], rest |-> left]
  <2> DEFINE e == q[k]
  <2>1. e \in Entry /\ rows[k] = EntryRow(e, shown, scores) /\ copy[k] = EntrySent(e, shown, scores)
    BY <1>1, <1>4, <1>5
  <2> HIDE DEF e
  <2>2. EntryRow(e, shown, scores) \in Seq(Pair) /\ Len(EntryRow(e, shown, scores)) <= 8
    <3>1. <<>> \in Seq(Field)
      OBVIOUS
    <3> QED BY <2>1, <3>1, EntryReadBack
  <2>3. \A left \in Seq(Field) :
          ReadEntry(FieldsOf(EntryRow(e, shown, scores)) \o left, shown)
            = [value |-> EntrySent(e, shown, scores), rest |-> left]
    BY <2>1, EntryReadBack
  <2> QED BY <2>1, <2>2, <2>3
<1>7. rows \in Seq(Seq(Pair)) /\ Len(rows) = n
  BY <1>1, <1>4, <1>6, RowsAre
<1>8. row = Listed(rows)
  BY <1>3, <1>7 DEF Listed
<1>9. /\ Listed(rows) \in Seq(Pair) /\ Len(Listed(rows)) \in Nat
      /\ Len(Listed(rows)) <= 1 + m * 8
  <2>1. 8 \in Nat /\ Len(rows) < 256 /\ \A k \in 1..Len(rows) : Len(rows[k]) <= 8
    BY <1>1, <1>6, <1>7
  <2>2. /\ Listed(rows) \in Seq(Pair) /\ Len(Listed(rows)) \in Nat
        /\ Len(Listed(rows)) <= 1 + Len(rows) * 8
    BY <1>7, <2>1, RowsLength
  <2> QED BY <1>1, <1>7, <2>2
<1>10. copy \in Seq({copy[k] : k \in 1..n}) /\ Len(copy) = n /\ DOMAIN copy = 1..n
  <2>1. copy \in [1..n -> {copy[k] : k \in 1..n}]
    BY <1>5
  <2> QED BY <1>1, <1>5, <2>1, SeqIntro
<1>11. EntriesFrom(FieldsOf(Listed(rows)) \o rest, shown)
         = [values |-> copy, rest |-> rest]
  <2>1. /\ Len(copy) = Len(rows) /\ Len(rows) < 256
        /\ \A k \in 1..Len(rows) : \A left \in Seq(Field) :
             ReadEntry(FieldsOf(rows[k]) \o left, shown) = [value |-> copy[k], rest |-> left]
    BY <1>1, <1>6, <1>7, <1>10
  <2> DEFINE V == {copy[k] : k \in 1..n}
  <2>2. copy \in Seq(V)
    BY <1>10
  <2> HIDE DEF V, got
  <2> QED BY <1>7, <2>1, <2>2, EntriesRead, ZenonT(60)
<1>12. got.values = copy /\ got.rest = rest
  BY <1>8, <1>11
<1>13. ToSet(copy) = EntriesSent(S, shown, scores)
  <2>1. \A e \in S : \E k \in 1..n : e = q[k]
    BY <1>1, <1>2 DEF ToSet
  <2>2. \A k \in 1..n : q[k] \in S
    BY <1>1, <1>2 DEF ToSet
  <2> QED BY <1>5, <1>10, <2>1, <2>2 DEF ToSet, EntriesSent
<1> QED BY <1>8, <1>9, <1>12, <1>13 DEF row

\* Three rows, and four, are read one after the other.
LEMMA ThreeRows ==
  ASSUME NEW a \in Seq(Pair), NEW b \in Seq(Pair), NEW c \in Seq(Pair), NEW rest \in Seq(Field)
  PROVE  /\ (a \o b) \o c \in Seq(Pair) /\ Len((a \o b) \o c) = Len(a) + Len(b) + Len(c)
         /\ Len(a) \in Nat /\ Len(b) \in Nat /\ Len(c) \in Nat
         /\ FieldsOf(c) \o rest \in Seq(Field)
         /\ FieldsOf(b) \o (FieldsOf(c) \o rest) \in Seq(Field)
         /\ FieldsOf((a \o b) \o c) \o rest
              = FieldsOf(a) \o (FieldsOf(b) \o (FieldsOf(c) \o rest))
<1> DEFINE ab == a \o b
           left == FieldsOf(c) \o rest
<1>1. /\ ab \in Seq(Pair) /\ Len(ab) = Len(a) + Len(b) /\ Len(a) \in Nat /\ Len(b) \in Nat
  BY TwoRows
<1>2. /\ ab \o c \in Seq(Pair) /\ Len(ab \o c) = Len(ab) + Len(c) /\ Len(c) \in Nat
      /\ left \in Seq(Field) /\ FieldsOf(ab \o c) \o rest = FieldsOf(ab) \o left
  <2> HIDE DEF ab
  <2> QED BY <1>1, TwoRows
<1>3. /\ FieldsOf(b) \o left \in Seq(Field)
      /\ FieldsOf(ab) \o left = FieldsOf(a) \o (FieldsOf(b) \o left)
  <2> HIDE DEF left
  <2> QED BY <1>2, TwoRows
<1> HIDE DEF ab, left
<1>4. Len(ab \o c) = Len(a) + Len(b) + Len(c)
  BY <1>1, <1>2
<1> QED BY <1>1, <1>2, <1>3, <1>4, Zenon DEF ab, left

\* Four of them.
LEMMA FourRows ==
  ASSUME NEW a \in Seq(Pair), NEW b \in Seq(Pair), NEW c \in Seq(Pair), NEW d \in Seq(Pair),
         NEW rest \in Seq(Field)
  PROVE  /\ ((a \o b) \o c) \o d \in Seq(Pair)
         /\ Len(((a \o b) \o c) \o d) = Len(a) + Len(b) + Len(c) + Len(d)
         /\ FieldsOf(d) \o rest \in Seq(Field)
         /\ FieldsOf(c) \o (FieldsOf(d) \o rest) \in Seq(Field)
         /\ FieldsOf(b) \o (FieldsOf(c) \o (FieldsOf(d) \o rest)) \in Seq(Field)
         /\ FieldsOf(((a \o b) \o c) \o d) \o rest
              = FieldsOf(a) \o (FieldsOf(b) \o (FieldsOf(c) \o (FieldsOf(d) \o rest)))
<1> DEFINE abc == (a \o b) \o c
           left == FieldsOf(d) \o rest
<1>1. /\ abc \in Seq(Pair) /\ Len(abc) = Len(a) + Len(b) + Len(c)
      /\ Len(a) \in Nat /\ Len(b) \in Nat /\ Len(c) \in Nat
  BY ThreeRows
<1>2. /\ abc \o d \in Seq(Pair) /\ Len(abc \o d) = Len(abc) + Len(d) /\ Len(d) \in Nat
      /\ left \in Seq(Field) /\ FieldsOf(abc \o d) \o rest = FieldsOf(abc) \o left
  <2> HIDE DEF abc
  <2> QED BY <1>1, TwoRows, ZenonT(60)
<1> DEFINE ab == a \o b
           next == FieldsOf(c) \o left
<1>3. next \in Seq(Field) /\ FieldsOf(ab \o c) \o left = FieldsOf(ab) \o next
  <2>1. ab \in Seq(Pair) /\ left \in Seq(Field)
    BY <1>2, TwoRows
  <2> HIDE DEF left, ab
  <2> QED BY <2>1, TwoRows, ZenonT(60)
<1>4. FieldsOf(b) \o next \in Seq(Field) /\ FieldsOf(ab) \o next = FieldsOf(a) \o (FieldsOf(b) \o next)
  <2> HIDE DEF next
  <2> QED BY <1>3, TwoRows
<1>5. /\ FieldsOf(c) \o left \in Seq(Field)
      /\ FieldsOf(b) \o (FieldsOf(c) \o left) \in Seq(Field)
      /\ FieldsOf(abc) \o left = FieldsOf(a) \o (FieldsOf(b) \o (FieldsOf(c) \o left))
  <2> HIDE DEF left
  <2> QED BY <1>3, <1>4, Zenon
<1> HIDE DEF abc, left
<1>6. Len(abc \o d) = Len(a) + Len(b) + Len(c) + Len(d)
  BY <1>1, <1>2
<1> QED BY <1>2, <1>5, <1>6, Zenon DEF abc, left

\* A row of no more than 1023 fields is written whole, and nothing follows it.
LEMMA RowIsSent ==
  ASSUME NEW row \in Seq(Pair), Len(row) <= 1023
  PROVE  WriteRow(<<>>, row) = FieldsOf(row) \o <<>> /\ <<>> \in Seq(Field)
<1>1. FieldsOf(row) \in Seq(Field)
  BY FieldsOfIs
<1>2. FieldsOf(row) \o <<>> = FieldsOf(row)
  BY <1>1, ConcatEmptySeq
<1>3. 4 + Bytes(FieldsOf(row)) <= NET_PACK_MAX_LEN
  <2> DEFINE n == Len(row)
             b == Bytes(FieldsOf(row))
  <2>1. n \in Nat /\ n <= 1023 /\ b \in Nat /\ b <= 4 * n
    BY RowBytes, LenProperties
  <2> HIDE DEF n, b
  <2>2. 4 + b <= 4096
    BY <2>1
  <2> QED BY <2>2 DEF NET_PACK_MAX_LEN, b
<1>4. WriteRow(<<>>, row) = FieldsOf(row)
  BY <1>3, WriteRowIs
<1>5. <<>> \in Seq(Field)
  OBVIOUS
<1> QED BY <1>2, <1>4, <1>5

\* A hand result, with the board it was reached on.
LEMMA ResultReadBack ==
  ASSUME NEW result \in Result, IsFiniteSet(result.players),
         NEW m \in Nat, m <= 100, Cardinality(result.players) <= m,
         NEW n \in Nat, n <= 10, NEW scores, Scored(scores)
  PROVE  ReadResult(WriteRow(<<>>, ResultRow(result, BoardOf(n), scores)))
           = [totalPot |-> result.totalPot, isShowdown |-> result.isShowdown,
              community |-> BoardOf(n),
              players |-> EntriesSent(result.players, result.isShowdown, scores),
              unread |-> <<>>]
<1> DEFINE shown == result.isShowdown
           S == result.players
           a == <<<<4, result.totalPot>>, <<1, Flag(shown)>>>>
           b == ListRow(BoardOf(n), CardRow)
           c == EntriesRow(S, shown, scores)
           row == ResultRow(result, BoardOf(n), scores)
           fields == WriteRow(<<>>, row)
           none == <<>>
           last == FieldsOf(c) \o none
           left == FieldsOf(b) \o last
           widths == <<4, 1>>
           values == [k \in 1..2 |-> a[k][2]]
<1>1. S \in SUBSET Entry /\ shown \in BOOLEAN /\ result.totalPot \in Nat
  BY DEF Result, Entry
<1>2. row = (a \o b) \o c
  BY DEF ResultRow, EntriesRow, EntryRow, EntryScalars, HoleRow
<1>3. a \in Seq(Pair) /\ Len(a) = 2
  <2>1. <<4, result.totalPot>> \in Pair /\ <<1, Flag(shown)>> \in Pair
    <3>1. Flag(shown) \in Value /\ result.totalPot \in Value
      BY <1>1, FlagIs DEF Value
    <3> QED BY <3>1 DEF Pair
  <2> QED BY <2>1
<1>4. widths \in Seq(Nat) /\ Len(widths) = 2 /\ a[1][1] = widths[1] /\ a[2][1] = widths[2]
  OBVIOUS
<1>5. values[1] = result.totalPot /\ values[2] = Flag(shown)
  OBVIOUS
<1>6. none \in Seq(Field)
  OBVIOUS
<1>7. b \in Seq(Pair) /\ Len(b) \in Nat /\ Len(b) <= 1 + n * 2
  <2>1. n < 256
    OBVIOUS
  <2> QED BY <1>6, <2>1, BoardReadBack
<1>8. /\ c \in Seq(Pair) /\ Len(c) \in Nat /\ Len(c) <= 1 + m * 8
      /\ ToSet(EntriesFrom(last, shown).values) = EntriesSent(S, shown, scores)
      /\ EntriesFrom(last, shown).rest = none
  <2>1. m < 256
    OBVIOUS
  <2>2. S \in SUBSET Entry /\ IsFiniteSet(S) /\ Cardinality(S) <= m
    BY <1>1
  <2> HIDE DEF shown, S, none
  <2> QED BY <1>1, <1>6, <2>1, <2>2, EntriesReadBack
<1> HIDE DEF a, b, c, row, none
<1>9. /\ (a \o b) \o c \in Seq(Pair) /\ Len((a \o b) \o c) = Len(a) + Len(b) + Len(c)
      /\ last \in Seq(Field) /\ left \in Seq(Field)
      /\ FieldsOf((a \o b) \o c) \o none = FieldsOf(a) \o left
  <2>1. a \in Seq(Pair) /\ b \in Seq(Pair) /\ c \in Seq(Pair)
    BY <1>3, <1>7, <1>8
  <2>2. (a \o b) \o c \in Seq(Pair)
    BY <1>6, <2>1, ThreeRows
  <2>3. Len((a \o b) \o c) = Len(a) + Len(b) + Len(c)
    BY <1>6, <2>1, ThreeRows
  <2>4. last \in Seq(Field)
    BY <1>6, <2>1, ThreeRows
  <2>5. left \in Seq(Field)
    BY <1>6, <2>1, ThreeRows
  <2>6. FieldsOf((a \o b) \o c) \o none = FieldsOf(a) \o left
    <3> DEFINE ab == a \o b
    <3>1. ab \in Seq(Pair)
      BY <2>1, TwoRows
    <3>2. FieldsOf(ab \o c) \o none = FieldsOf(ab) \o last
      <4> HIDE DEF ab
      <4> QED BY <1>6, <2>1, <3>1, TwoRows
    <3>3. FieldsOf(a \o b) \o last = FieldsOf(a) \o left
      <4> HIDE DEF last
      <4> QED BY <2>1, <2>4, TwoRows
    <3> QED BY <3>2, <3>3, Zenon
  <2> QED BY <2>2, <2>3, <2>4, <2>5, <2>6
<1>10. fields = FieldsOf(a) \o left
  <2>1. Len((a \o b) \o c) <= 1023
    <3> DEFINE x == Len(b)
               y == Len(c)
               z == Len((a \o b) \o c)
    <3>1. x \in Nat /\ x <= 1 + n * 2 /\ y \in Nat /\ y <= 1 + m * 8 /\ z = 2 + x + y
      BY <1>3, <1>7, <1>8, <1>9
    <3> HIDE DEF x, y, z
    <3>2. z <= 1023
      BY <3>1
    <3> QED BY <3>2 DEF z
  <2>2. row \in Seq(Pair) /\ Len(row) <= 1023
    BY <1>2, <1>9, <2>1
  <2>3. WriteRow(<<>>, row) = FieldsOf(row) \o none
    BY <2>2, RowIsSent DEF none
  <2> QED BY <1>2, <1>9, <2>3
<1>11. ReadRow(FieldsOf(a) \o left, widths) = [values |-> values, rest |-> left]
  <2>1. Len(widths) = Len(a) /\ \A k \in 1..Len(a) : a[k][1] = widths[k]
    <3>1. \A k \in 1..Len(a) : k = 1 \/ k = 2
      BY <1>3
    <3> QED BY <1>3, <1>4, <3>1
  <2>2. values = [k \in 1..Len(a) |-> a[k][2]]
    BY <1>3
  <2> HIDE DEF widths, left, values
  <2> QED BY <1>3, <1>4, <1>9, <2>1, <2>2, ReadRowIs
<1>12. ReadList(left, ReadCard) = [values |-> BoardOf(n), rest |-> last]
  <2>1. n < 256
    OBVIOUS
  <2> HIDE DEF last
  <2> QED BY <1>9, <2>1, BoardReadBack DEF b
<1> HIDE DEF values, left, last, fields
<1> DEFINE r == ReadRow(fields, widths)
<1>13. r.values = values /\ r.rest = left
  <2> HIDE DEF widths
  <2> QED BY <1>10, <1>11
<1> DEFINE board == ReadList(r.rest, ReadCard)
<1>14. board.values = BoardOf(n) /\ board.rest = last
  <2> HIDE DEF r
  <2> QED BY <1>12, <1>13
<1> DEFINE sent == r.values[2] # 0
           entries == EntriesFrom(board.rest, sent)
<1>15. ReadResult(fields)
         = [totalPot |-> r.values[1], isShowdown |-> sent, community |-> board.values,
            players |-> ToSet(entries.values), unread |-> entries.rest]
  BY DEF ReadResult, EntriesFrom
<1> HIDE DEF r, board
<1>16. sent = shown /\ r.values[1] = result.totalPot
  <2> HIDE DEF shown
  <2> QED BY <1>1, <1>5, <1>13, FlagIs
<1> HIDE DEF sent
<1>17. /\ ToSet(entries.values) = EntriesSent(S, shown, scores)
        /\ entries.rest = none
  BY <1>8, <1>14, <1>16
<1> HIDE DEF entries
<1>18. ReadResult(fields)
         = [totalPot |-> result.totalPot, isShowdown |-> shown, community |-> BoardOf(n),
            players |-> EntriesSent(S, shown, scores), unread |-> none]
  BY <1>14, <1>15, <1>16, <1>17
<1> QED BY <1>18 DEF fields, row, none

-----------------------------------------------------------------------------
(* The table.                                                               *)

\* Every enumerator is written as a number of its own.
LEMMA CodesAreRead ==
  /\ \A name \in Stages : StageCode[name] \in Nat /\ Decoded(StageCode, StageCode[name]) = name
  /\ \A name \in Actions : ActionCode[name] \in Nat /\ Decoded(ActionCode, ActionCode[name]) = name
<1>1. /\ DOMAIN StageCode = Stages
      /\ \A a, b \in Stages : StageCode[a] \in Nat /\ (StageCode[a] = StageCode[b] => a = b)
  BY DEF StageCode, Stages
<1>2. /\ DOMAIN ActionCode = Actions
      /\ \A a, b \in Actions : ActionCode[a] \in Nat /\ (ActionCode[a] = ActionCode[b] => a = b)
  BY DEF ActionCode, Actions
<1> QED BY <1>1, <1>2 DEF Decoded

\* An id that is sent.
LEMMA IdIs ==
  ASSUME NEW p \in Players \cup {NoOne}
  PROVE  Id(p) \in Value
BY DEF Id, Value

\* The queries of the snapshot return numbers and ids.
LEMMA QueriesType ==
  ASSUME NEW g \in Table
  PROVE  /\ GetTotalPot(g) \in Value /\ ActingPlayerId(g) \in Value
         /\ GetDealerSeatIndex(g) \in Int /\ GetSmallBlindSeatIndex(g) \in Int
         /\ GetBigBlindSeatIndex(g) \in Int
<1>1. g.seats \in Seq(Seat)
  BY DEF Table
<1>2. \A i \in Positions(g) : At(g, i).seatIndex \in Int /\ At(g, i).playerId \in Players
  <2>1. \A i \in Positions(g) : At(g, i) \in Seat
    BY <1>1, SeatsAre
  <2>2. \A s \in Seat : s.seatIndex \in Int /\ s.playerId \in Players
    BY TableAssumption DEF Seat
  <2> QED BY <2>1, <2>2
<1>3. GetTotalPot(g) \in Value
  BY TotalPotType DEF Value
<1>4. ActingPlayerId(g) \in Value
  <2>1. -1 \in Value
    BY DEF Value
  <2> QED BY <1>2, <2>1, IdIs DEF ActingPlayerId
<1>5. GetDealerSeatIndex(g) \in Int
  BY <1>2 DEF GetDealerSeatIndex
<1>6. GetSmallBlindSeatIndex(g) \in Int
  BY <1>2 DEF GetSmallBlindSeatIndex
<1>7. GetBigBlindSeatIndex(g) \in Int
  <2> DEFINE sb == BlindAfter(g, g.dealerIndex)
             bb == BlindAfter(g, sb)
  <2>1. \/ GetBigBlindSeatIndex(g) = -1
        \/ bb \in Positions(g) /\ GetBigBlindSeatIndex(g) = At(g, bb).seatIndex
    BY DEF GetBigBlindSeatIndex
  <2> HIDE DEF bb
  <2> QED BY <1>2, <2>1
<1> QED BY <1>3, <1>4, <1>5, <1>6, <1>7

\* The fields before the lists.
LEMMA TableRowIs ==
  ASSUME NEW g \in Table
  PROVE  /\ TableRow(g) \in Seq(Pair) /\ Len(TableRow(g)) = 13
<1>1. /\ g.stage \in Stages /\ g.lastBet \in Value /\ g.lastRaise \in Value
      /\ g.smallBlind \in Value /\ g.bigBlind \in Value
      /\ g.lastAction.playerId \in Players \cup {NoOne} /\ g.lastAction.action \in Actions
      /\ g.lastAction.amount \in Value
  BY DEF Table, LastAction, Value
<1>2. StageCode[g.stage] \in Value /\ ActionCode[g.lastAction.action] \in Value
  BY <1>1, CodesAreRead DEF Value
<1>3. Id(g.lastAction.playerId) \in Value
  BY <1>1, IdIs
<1>4. /\ GetTotalPot(g) \in Value /\ ActingPlayerId(g) \in Value
      /\ GetDealerSeatIndex(g) \in Value /\ GetSmallBlindSeatIndex(g) \in Value
      /\ GetBigBlindSeatIndex(g) \in Value
  BY QueriesType DEF Value
<1>5. \A v \in Value : <<1, v>> \in Pair /\ <<4, v>> \in Pair
  BY DEF Pair
<1>6. /\ <<1, StageCode[g.stage]>> \in Pair /\ <<4, GetTotalPot(g)>> \in Pair
      /\ <<4, ActingPlayerId(g)>> \in Pair /\ <<4, g.lastBet>> \in Pair
      /\ <<4, g.lastRaise>> \in Pair /\ <<4, g.smallBlind>> \in Pair
      /\ <<4, g.bigBlind>> \in Pair /\ <<4, GetDealerSeatIndex(g)>> \in Pair
      /\ <<4, GetSmallBlindSeatIndex(g)>> \in Pair /\ <<4, GetBigBlindSeatIndex(g)>> \in Pair
      /\ <<4, Id(g.lastAction.playerId)>> \in Pair
      /\ <<1, ActionCode[g.lastAction.action]>> \in Pair /\ <<4, g.lastAction.amount>> \in Pair
  BY <1>1, <1>2, <1>3, <1>4, <1>5
<1> QED BY <1>6 DEF TableRow

\* The copy ReadTable is to leave.
CopyOf(g, viewer) ==
  LET seats == SeatsSent(g, viewer)
  IN  [stage |-> g.stage, lastBet |-> g.lastBet, dealerIndex |-> GetDealerSeatIndex(g),
       smallBlind |-> g.smallBlind, bigBlind |-> g.bigBlind, lastRaise |-> g.lastRaise,
       sidePots |-> g.sidePots, community |-> BoardOf(g.community),
       lastAction |-> [playerId |-> Id(g.lastAction.playerId),
                       action |-> g.lastAction.action, amount |-> g.lastAction.amount],
       seats |-> seats, actingIndex |-> ActingIndexOf(seats, ActingPlayerId(g)),
       unread |-> <<>>]

\* A table that fits into one message: 14 seats, their pots of three streets, the board.
Fitting ==
  {g \in Table : /\ Len(g.seats) <= 14 /\ Len(g.sidePots) <= 42 /\ g.community <= 5
                 /\ \A k \in DOMAIN g.sidePots :
                      /\ IsFiniteSet(g.sidePots[k].eligible)
                      /\ Cardinality(g.sidePots[k].eligible) <= 14}

\* The row of a table.
LEMMA TableIsSent ==
  ASSUME NEW g \in Fitting, NEW viewer
  PROVE  \E last, next, left \in Seq(Field) :
           /\ ReadList(left, ReadPot) = [values |-> g.sidePots, rest |-> next]
           /\ ReadList(next, ReadCard) = [values |-> BoardOf(g.community), rest |-> last]
           /\ ReadList(last, ReadSeat) = [values |-> SeatsSent(g, viewer), rest |-> <<>>]
           /\ WriteTable(g, viewer) = FieldsOf(TableRow(g)) \o left
<1> DEFINE n == g.community
           a == TableRow(g)
           b == ListRow(g.sidePots, PotRow)
           c == ListRow(BoardOf(n), CardRow)
           d == SeatRows(g, viewer)
           seats == SeatsSent(g, viewer)
           none == <<>>
           last == FieldsOf(d) \o none
           next == FieldsOf(c) \o last
           left == FieldsOf(b) \o next
           row == ((a \o b) \o c) \o d
<1>1. /\ g \in Table /\ g.seats \in Seq(Seat) /\ Len(g.seats) <= 14
      /\ g.sidePots \in Seq(Pot) /\ Len(g.sidePots) <= 42
      /\ n \in Nat /\ n <= 5
      /\ \A k \in DOMAIN g.sidePots : /\ IsFiniteSet(g.sidePots[k].eligible)
                                      /\ Cardinality(g.sidePots[k].eligible) <= 14
  BY DEF Fitting, Table
<1>2. Len(g.seats) \in Nat /\ Len(g.sidePots) \in Nat /\ DOMAIN g.sidePots = 1..Len(g.sidePots)
  BY <1>1, LenProperties
<1>3. none \in Seq(Field)
  OBVIOUS
<1>4. WriteTable(g, viewer) = WriteRow(none, row)
  BY DEF WriteTable, SeatRows
<1>5. a \in Seq(Pair) /\ Len(a) = 13
  BY <1>1, TableRowIs
<1> HIDE DEF n, none
<1>6. /\ d \in Seq(Pair) /\ Len(d) \in Nat /\ Len(d) <= 1 + Len(g.seats) * 16
      /\ ReadList(last, ReadSeat) = [values |-> seats, rest |-> none]
  <2>1. Len(g.seats) < 256
    BY <1>1, <1>2
  <2> QED BY <1>1, <1>3, <2>1, SeatsReadBack
<1> HIDE DEF d, seats
<1>7. last \in Seq(Field)
  BY <1>3, <1>6, FieldsOfIs, ConcatIs
<1> HIDE DEF last
<1>8. /\ c \in Seq(Pair) /\ Len(c) \in Nat /\ Len(c) <= 1 + n * 2
      /\ ReadList(next, ReadCard) = [values |-> BoardOf(n), rest |-> last]
  <2>1. n < 256
    BY <1>1
  <2> QED BY <1>1, <1>7, <2>1, BoardReadBack
<1> HIDE DEF c
<1>9. next \in Seq(Field)
  BY <1>7, <1>8, FieldsOfIs, ConcatIs
<1> HIDE DEF next
<1>10. /\ b \in Seq(Pair) /\ Len(b) \in Nat /\ Len(b) <= 1 + Len(g.sidePots) * 16
       /\ ReadList(left, ReadPot) = [values |-> g.sidePots, rest |-> next]
  <2> DEFINE m == 14
  <2>1. /\ m \in Nat /\ m < 256 /\ Len(g.sidePots) < 256
        /\ \A k \in 1..Len(g.sidePots) : /\ IsFiniteSet(g.sidePots[k].eligible)
                                         /\ Cardinality(g.sidePots[k].eligible) <= m
    BY <1>1, <1>2
  <2>2. 2 + m = 16
    OBVIOUS
  <2> HIDE DEF m
  <2>3. /\ b \in Seq(Pair) /\ Len(b) \in Nat /\ Len(b) <= 1 + Len(g.sidePots) * (2 + m)
        /\ ReadList(left, ReadPot) = [values |-> g.sidePots, rest |-> next]
    BY <1>1, <1>9, <2>1, PotsReadBack
  <2> QED BY <2>2, <2>3
<1> HIDE DEF b
<1>11. left \in Seq(Field)
  BY <1>9, <1>10, FieldsOfIs, ConcatIs
<1> HIDE DEF left
<1>12. row \in Seq(Pair) /\ Len(row) <= 1023
  <2> HIDE DEF a
  <2>1. row \in Seq(Pair) /\ Len(row) = Len(a) + Len(b) + Len(c) + Len(d)
    <3>1. a \in Seq(Pair) /\ b \in Seq(Pair) /\ c \in Seq(Pair) /\ d \in Seq(Pair)
      BY <1>5, <1>6, <1>8, <1>10
    <3> QED BY <1>3, <3>1, FourRows
  <2> DEFINE x == Len(b)
             y == Len(c)
             z == Len(d)
             w == Len(row)
             pots == Len(g.sidePots)
             seated == Len(g.seats)
  <2>2. /\ x \in Nat /\ x <= 1 + pots * 16 /\ y \in Nat /\ y <= 1 + n * 2
        /\ z \in Nat /\ z <= 1 + seated * 16 /\ w = 13 + x + y + z
        /\ pots \in Nat /\ pots <= 42 /\ seated \in Nat /\ seated <= 14 /\ n \in Nat /\ n <= 5
    BY <1>1, <1>2, <1>5, <1>6, <1>8, <1>10, <2>1
  <2> HIDE DEF x, y, z, w, pots, seated
  <2>3. w <= 1023
    BY <2>2
  <2> QED BY <2>1, <2>3 DEF w
<1>13. WriteTable(g, viewer) = FieldsOf(row) \o none
  <2> HIDE DEF row
  <2> QED BY <1>4, <1>12, RowIsSent DEF none
<1>14. FieldsOf(row) \o none = FieldsOf(a) \o left
  <2> DEFINE ab == a \o b
             abc == ab \o c
  <2>0. a \in Seq(Pair) /\ b \in Seq(Pair) /\ c \in Seq(Pair) /\ d \in Seq(Pair)
    BY <1>5, <1>6, <1>8, <1>10
  <2> HIDE DEF a
  <2>1. ab \in Seq(Pair) /\ FieldsOf(ab) \o next = FieldsOf(a) \o left
    BY <1>9, <2>0, TwoRows DEF left
  <2>2. abc \in Seq(Pair) /\ FieldsOf(abc) \o last = FieldsOf(ab) \o next
    <3> HIDE DEF ab
    <3> QED BY <1>7, <2>0, <2>1, TwoRows DEF next
  <2>3. FieldsOf(abc \o d) \o none = FieldsOf(abc) \o last
    <3> HIDE DEF abc
    <3> QED BY <1>3, <2>0, <2>2, TwoRows DEF last
  <2> QED BY <2>1, <2>2, <2>3, Zenon
<1>15. WriteTable(g, viewer) = FieldsOf(a) \o left
  BY <1>13, <1>14
<1>16. /\ ReadList(left, ReadPot) = [values |-> g.sidePots, rest |-> next]
       /\ ReadList(next, ReadCard) = [values |-> BoardOf(g.community), rest |-> last]
       /\ ReadList(last, ReadSeat) = [values |-> seats, rest |-> <<>>]
  BY <1>6, <1>8, <1>10 DEF n, none
<1> HIDE DEF a
<1> QED BY <1>7, <1>9, <1>11, <1>15, <1>16 DEF a, seats

\* What is read of a table is the copy it is to leave.
LEMMA TableReadBack ==
  ASSUME NEW g \in Fitting, NEW viewer
  PROVE  ReadTable(WriteTable(g, viewer)) = CopyOf(g, viewer)
<1> DEFINE a == TableRow(g)
           widths == <<1, 4, 4, 4, 4, 4, 4, 4, 4, 4, 4, 1, 4>>
           values == [k \in 1..13 |-> a[k][2]]
           fields == WriteTable(g, viewer)
<1>1. PICK last, next, left \in Seq(Field) :
        /\ ReadList(left, ReadPot) = [values |-> g.sidePots, rest |-> next]
        /\ ReadList(next, ReadCard) = [values |-> BoardOf(g.community), rest |-> last]
        /\ ReadList(last, ReadSeat) = [values |-> SeatsSent(g, viewer), rest |-> <<>>]
        /\ fields = FieldsOf(a) \o left
  BY TableIsSent
<1>2. a \in Seq(Pair) /\ Len(a) = 13
  BY TableRowIs DEF Fitting
<1>3. /\ widths \in Seq(Nat) /\ Len(widths) = 13 /\ 1..13 = DOMAIN a
      /\ \A k \in 1..13 : a[k][1] = widths[k]
  BY DEF TableRow
<1>4. /\ values[1] = StageCode[g.stage] /\ values[3] = ActingPlayerId(g)
      /\ values[4] = g.lastBet /\ values[5] = g.lastRaise
      /\ values[6] = g.smallBlind /\ values[7] = g.bigBlind
      /\ values[8] = GetDealerSeatIndex(g) /\ values[11] = Id(g.lastAction.playerId)
      /\ values[12] = ActionCode[g.lastAction.action] /\ values[13] = g.lastAction.amount
  BY DEF TableRow
<1> HIDE DEF a
<1>5. ReadRow(FieldsOf(a) \o left, widths) = [values |-> values, rest |-> left]
  <2>1. Len(widths) = Len(a) /\ \A k \in 1..Len(a) : a[k][1] = widths[k]
    BY <1>2, <1>3
  <2>2. values = [k \in 1..Len(a) |-> a[k][2]]
    BY <1>2
  <2> HIDE DEF widths, values
  <2> QED BY <1>1, <1>2, <1>3, <2>1, <2>2, ReadRowIs
<1> HIDE DEF values, fields
<1> DEFINE r == ReadRow(fields, widths)
<1>6. r.values = values /\ r.rest = left
  <2> HIDE DEF widths
  <2> QED BY <1>1, <1>5
<1> DEFINE pots == ReadList(r.rest, ReadPot)
<1>7. pots.values = g.sidePots /\ pots.rest = next
  <2> HIDE DEF r
  <2> QED BY <1>1, <1>6
<1> DEFINE board == ReadList(pots.rest, ReadCard)
<1>8. board.values = BoardOf(g.community) /\ board.rest = last
  <2> HIDE DEF pots
  <2> QED BY <1>1, <1>7
<1> DEFINE seats == ReadList(board.rest, ReadSeat)
<1>9. seats.values = SeatsSent(g, viewer) /\ seats.rest = <<>>
  <2> HIDE DEF board
  <2> QED BY <1>1, <1>8
<1>10. ReadTable(fields)
         = [stage |-> Decoded(StageCode, r.values[1]), lastBet |-> r.values[4],
            dealerIndex |-> r.values[8], smallBlind |-> r.values[6],
            bigBlind |-> r.values[7], lastRaise |-> r.values[5],
            sidePots |-> pots.values, community |-> board.values,
            lastAction |-> [playerId |-> r.values[11],
                            action |-> Decoded(ActionCode, r.values[12]),
                            amount |-> r.values[13]],
            seats |-> seats.values, actingIndex |-> ActingIndexOf(seats.values, r.values[3]),
            unread |-> seats.rest]
  BY DEF ReadTable
<1> HIDE DEF r, pots, board, seats
<1>11. Decoded(StageCode, values[1]) = g.stage /\ Decoded(ActionCode, values[12]) = g.lastAction.action
  <2>1. g.stage \in Stages /\ g.lastAction.action \in Actions
    BY DEF Fitting, Table, LastAction
  <2> QED BY <1>4, <2>1, CodesAreRead
<1> QED BY <1>4, <1>6, <1>7, <1>8, <1>9, <1>10, <1>11 DEF CopyOf, fields

\* Every pass of the loop of CollectBetsToSidePots makes at most one pot.
LEMMA PassesMakePots ==
  ASSUME NEW g \in Table
  PROVE  Len(Layers(g)) \in Nat /\ Len(Layers(g)) <= Len(g.sidePots) + Len(g.seats)
<1> DEFINE N == Len(g.seats)
           base == Len(g.sidePots)
           T == [n \in 0..N |-> {acc \in LoopState : Len(acc.pots) <= base + n}]
<1>1. /\ N \in Nat /\ base \in Nat /\ g.seats \in Seq(Seat) /\ g.sidePots \in Seq(Pot)
  BY SeatsAre, LenProperties DEF Table
<1>2. [level |-> 0, pots |-> g.sidePots] \in T[0]
  <2>1. [level |-> 0, pots |-> g.sidePots] \in LoopState
    BY <1>1 DEF LoopState
  <2> DEFINE first == [level |-> 0, pots |-> g.sidePots]
  <2>2. first.pots = g.sidePots
    OBVIOUS
  <2> HIDE DEF first
  <2>3. Len(first.pots) <= base + 0
    BY <1>1, <2>2
  <2>4. T[0] = {acc \in LoopState : Len(acc.pots) <= base + 0}
    BY <1>1
  <2> HIDE DEF T
  <2> QED BY <2>1, <2>3, <2>4 DEF first
<1>3. ASSUME NEW n \in 1..N, NEW acc \in T[n - 1] PROVE AddLayer(g, acc) \in T[n]
  <2>1. n \in 0..N /\ n - 1 \in 0..N /\ n \in Nat /\ n - 1 \in Nat
    BY <1>1
  <2>2. acc \in LoopState /\ Len(acc.pots) <= base + (n - 1)
    BY <2>1
  <2>3. AddLayer(g, acc) \in LoopState
    BY <1>1, <2>2, AddLayerType
  <2>4. acc.pots \in Seq(Pot) /\ Len(acc.pots) \in Nat
    BY <2>2, LenProperties DEF LoopState
  <2> DEFINE made == AddLayer(g, acc)
  <2>5. \/ made.pots = acc.pots
        \/ \E pot : made.pots = Append(acc.pots, pot)
    BY DEF AddLayer
  <2>6. Len(made.pots) <= Len(acc.pots) + 1
    <3> HIDE DEF made
    <3>1. CASE made.pots = acc.pots
      BY <2>4, <3>1
    <3>2. CASE \E pot : made.pots = Append(acc.pots, pot)
      BY <2>4, <3>2
    <3> QED BY <2>5, <3>1, <3>2
  <2> HIDE DEF made
  <2>7. Len(made.pots) \in Nat
    BY <2>3, LenProperties DEF LoopState, made
  <2> DEFINE x == Len(made.pots)
             y == Len(acc.pots)
  <2>8. x <= base + n
    <3>1. x \in Nat /\ y \in Nat /\ x <= y + 1 /\ y <= base + (n - 1)
      BY <2>2, <2>4, <2>6, <2>7
    <3> HIDE DEF x, y, base
    <3> QED BY <1>1, <2>1, <3>1
  <2>9. T[n] = {a \in LoopState : Len(a.pots) <= base + n}
    BY <2>1
  <2> HIDE DEF T, base, N
  <2> QED BY <2>3, <2>8, <2>9 DEF made
<1>4. PICK acc \in T[N] : Layers(g) = acc.pots
  <2>1. \A n \in 1..N : \A acc \in T[n - 1] : AddLayer(g, acc) \in T[n]
    BY <1>3
  <2> HIDE DEF T
  <2> QED BY <1>2, <2>1, LayersReach
<1>5. acc \in LoopState /\ Len(acc.pots) <= base + N
  <2>1. N \in 0..N
    BY <1>1
  <2>2. T[N] = {a \in LoopState : Len(a.pots) <= base + N}
    BY <2>1
  <2> HIDE DEF T, base, N
  <2> QED BY <1>4, <2>2
<1> QED BY <1>4, <1>5, LenProperties DEF LoopState

\* The pots and the cards of each street: a street makes at most one pot for every seat.
Laid(g) ==
  g.stage # "Waiting" =>
    \/ g.stage = "PreFlop" /\ Len(g.sidePots) = 0 /\ g.community = 0
    \/ g.stage = "Flop" /\ Len(g.sidePots) <= MaxSeats /\ g.community = 3
    \/ g.stage = "Turn" /\ Len(g.sidePots) <= MaxSeats + MaxSeats /\ g.community = 4
    \/ g.stage = "River" /\ Len(g.sidePots) <= MaxSeats + MaxSeats + MaxSeats
       /\ g.community = 5

\* The same stage, pots and board.
LEMMA SameLaid ==
  ASSUME NEW g, NEW h, Laid(g), h.stage = g.stage, h.community = g.community,
         h.sidePots = g.sidePots
  PROVE  Laid(h)
BY DEF Laid

\* The next street has the pots of one more.
LEMMA StreetLaid ==
  ASSUME NEW t \in HandTable, t.stage \in {"PreFlop", "Flop", "Turn"},
         \E i \in DOMAIN t.seats : Live(t.seats[i]), InOrder(t.seats), Laid(t)
  PROVE  Laid(NewStreet(CollectBetsToSidePots(t)))
<1> DEFINE c == CollectBetsToSidePots(t)
           h == NewStreet(c)
           x == Len(t.sidePots)
           y == Len(h.sidePots)
           drawn == CardsDealt[t.stage]
<1>1. /\ h.stage = NextStreet[t.stage] /\ h.community = t.community + drawn
      /\ h.sidePots = c.sidePots
  BY StreetIs
<1>2. c = t \/ c.sidePots = Layers(t)
  BY CollectIs
<1>3. t \in Table /\ t.seats \in Seq(Seat) /\ t.sidePots \in Seq(Pot)
  BY DEF HandTable, Table
<1>4. /\ Len(t.seats) \in Nat /\ Len(t.seats) <= MaxSeats /\ MaxSeats \in Nat /\ x \in Nat
  BY <1>3, SeatsFit, SeatsAre, LenProperties, TableAssumption
<1> HIDE DEF h, c
<1>5. y \in Nat /\ y <= x + Len(t.seats)
  <2>1. CASE c = t
    <3>1. y = x
      BY <1>1, <2>1
    <3> HIDE DEF x, y
    <3> QED BY <1>4, <3>1
  <2>2. CASE c.sidePots = Layers(t)
    <3>1. y = Len(Layers(t))
      BY <1>1, <2>2
    <3> QED BY <1>3, <3>1, PassesMakePots
  <2> QED BY <1>2, <2>1, <2>2
<1>6. \/ t.stage = "PreFlop" /\ h.stage = "Flop" /\ drawn = 3 /\ t.community = 0 /\ x = 0
      \/ /\ t.stage = "Flop" /\ h.stage = "Turn" /\ drawn = 1 /\ t.community = 3
         /\ x <= MaxSeats
      \/ /\ t.stage = "Turn" /\ h.stage = "River" /\ drawn = 1 /\ t.community = 4
         /\ x <= MaxSeats + MaxSeats
  BY <1>1 DEF Laid, NextStreet, CardsDealt
<1> HIDE DEF drawn, x, y
<1>7. \/ h.stage = "Flop" /\ h.community = 3 /\ y <= MaxSeats
      \/ h.stage = "Turn" /\ h.community = 4 /\ y <= MaxSeats + MaxSeats
      \/ h.stage = "River" /\ h.community = 5 /\ y <= MaxSeats + MaxSeats + MaxSeats
  BY <1>1, <1>4, <1>5, <1>6
<1> QED BY <1>7 DEF Laid, y, h, c

\* A turn leaves pots and board, adds those of a street or ends the hand.
LEMMA TurnedLaid ==
  ASSUME NEW g, NEW h, Turned(g, h), InOrder(g.seats), Laid(g)
  PROVE  Laid(h)
<1> DEFINE a == Aimed(g)
<1>1. /\ g \in HandTable /\ a \in HandTable /\ a.stage \in Streets
      /\ a.seats = g.seats /\ SameRound(g, a)
  BY AimedIs DEF Turned, SameRound
<1>2. Laid(a)
  BY <1>1, SameLaid DEF SameRound
<1>3. \/ h = a
      \/ \E t, pay : Acted(a, t, a.actingIndex + 1, pay) /\ h \in Outcomes(PlayOn(t))
  BY DEF Turned
<1> HIDE DEF a
<1>4. CASE \E t, pay : Acted(a, t, a.actingIndex + 1, pay) /\ h \in Outcomes(PlayOn(t))
  <2>1. PICK t, pay : Acted(a, t, a.actingIndex + 1, pay) /\ h \in Outcomes(PlayOn(t))
    BY <1>4
  <2>2. /\ t \in HandTable /\ t.stage \in Streets /\ SameHands(a, t)
        /\ t.stage = a.stage /\ t.community = a.community /\ t.sidePots = a.sidePots
    BY <1>1, <2>1 DEF Acted
  <2>3. Laid(t)
    BY <1>2, <2>2, SameLaid
  <2>4. InOrder(t.seats)
    BY <1>1, <2>2, SamePlacesOrdered DEF SameHands, SamePlaces
  <2>5. CASE Ended(t, h)
    BY <2>5 DEF Ended, Laid
  <2>6. CASE \E k \in Positions(t) : Live(At(t, k)) /\ h = [t EXCEPT !.actingIndex = k]
    <3>1. PICK k \in Positions(t) : h = [t EXCEPT !.actingIndex = k]
      BY <2>6
    <3>2. /\ h.stage = t.stage /\ h.community = t.community /\ h.sidePots = t.sidePots
      BY <2>2, <3>1 DEF HandTable, Table
    <3> QED BY <2>3, <3>2, SameLaid
  <2>7. CASE /\ t.stage \in {"PreFlop", "Flop", "Turn"}
             /\ \E i \in DOMAIN t.seats : Live(t.seats[i])
             /\ h = NewStreet(CollectBetsToSidePots(t))
    BY <2>2, <2>3, <2>4, <2>7, StreetLaid
  <2> QED BY <2>1, <2>2, <2>5, <2>6, <2>7, PlayedOn DEF GoesOn
<1> QED BY <1>2, <1>3, <1>4

\* Every call keeps the pots within the seats of the streets played.
LEMMA LaidKept ==
  ASSUME IInv, Ordered(game), Laid(game), [Next]_vars
  PROVE  Laid(game')
<1> DEFINE g == game
           h == game'
<1>1. \/ Edited(g, h) \/ Joined(g, h) \/ Left(g, h) \/ Started(g, h) \/ Turned(g, h)
  BY StepKinds
<1>2. Laid(g) /\ InOrder(g.seats)
  BY DEF Ordered
<1> HIDE DEF g, h
<1> SUFFICES Laid(h)
  BY DEF h
<1>3. CASE Edited(g, h) \/ Joined(g, h) \/ Left(g, h)
  BY <1>2, <1>3, SameLaid DEF Edited, Joined, Left, SameRound
<1>4. CASE Started(g, h)
  <2>1. h.stage = "PreFlop" /\ h.community = 0 /\ h.sidePots = <<>>
    BY <1>4 DEF Started
  <2> QED BY <2>1 DEF Laid
<1>5. CASE Turned(g, h)
  BY <1>2, <1>5, TurnedLaid
<1> QED BY <1>1, <1>3, <1>4, <1>5

\* And so for ever.
LEMMA LaidInductive == Spec => []Laid(game)
<1>1. Init => Laid(game)
  BY DEF Init, Laid
<1>2. IInv /\ Ordered(game) /\ Laid(game) /\ [Next]_vars => Laid(game)'
  BY LaidKept
<1> QED BY <1>1, <1>2, Inductive, OrderedInductive, PTL DEF Spec

\* Every table of at most 14 seats fits into one message: there are at most three
\* streets of pots, and a pot has no more owners than there are seats.
LEMMA TableFits ==
  ASSUME IInv, Ordered(game), PotsOwned(game), Laid(game), MaxSeats <= 14
  PROVE  game \in Fitting
<1> DEFINE g == game
           x == Len(g.sidePots)
           n == Len(g.seats)
<1>1. g \in Table /\ g.seats \in Seq(Seat) /\ g.sidePots \in Seq(Pot) /\ InOrder(g.seats)
  BY TableTypes DEF Table, Ordered
<1>2. n \in Nat /\ n <= MaxSeats /\ MaxSeats \in Nat /\ DOMAIN g.seats = 1..n /\ x \in Nat
  BY <1>1, SeatsFit, SeatsAre, LenProperties, TableAssumption
<1>3. x <= 42 /\ g.community <= 5
  <2>1. CASE g.stage = "Waiting"
    <3>1. g.sidePots = <<>> /\ g.community = 0
      BY <2>1 DEF IInv, SoundTable, IdleTable, Streets
    <3> QED BY <3>1
  <2>2. CASE g.stage # "Waiting"
    <3>1. \/ x = 0 /\ g.community = 0
          \/ x <= MaxSeats /\ g.community = 3
          \/ x <= MaxSeats + MaxSeats /\ g.community = 4
          \/ x <= MaxSeats + MaxSeats + MaxSeats /\ g.community = 5
      BY <2>2 DEF Laid
    <3> HIDE DEF x
    <3> QED BY <1>2, <3>1
  <2> QED BY <2>1, <2>2
<1>4. ASSUME NEW k \in DOMAIN g.sidePots
      PROVE  /\ IsFiniteSet(g.sidePots[k].eligible)
             /\ Cardinality(g.sidePots[k].eligible) <= 14
  <2> DEFINE E == g.sidePots[k].eligible
             I == 1..n
             S == {i \in I : g.seats[i].playerId \in E}
             f == [i \in S |-> g.seats[i].playerId]
  <2>1. \A p \in E : \E i \in I : g.seats[i].playerId = p
    BY <1>2 DEF PotsOwned, OwnedPot, InTheHand
  <2>2. IsFiniteSet(S) /\ Cardinality(S) <= n
    <3>1. S \in SUBSET I
      OBVIOUS
    <3>2. IsFiniteSet(I) /\ Cardinality(I) = n
      BY <1>2, PositionsUpTo
    <3> HIDE DEF S, I, n
    <3> QED BY <3>1, <3>2, FS_Subset
  <2>3. f \in Surjection(S, E)
    <3>1. f \in [S -> E]
      OBVIOUS
    <3>2. \A p \in E : \E i \in S : f[i] = p
      BY <2>1
    <3> HIDE DEF f, S, E
    <3> QED BY <3>1, <3>2 DEF Surjection
  <2>4. Cardinality(S) \in Nat
    BY <2>2, FS_CardinalityType
  <2> HIDE DEF E, S, f
  <2>5. IsFiniteSet(E) /\ Cardinality(E) <= Cardinality(S)
    BY <2>2, <2>3, FS_Surjection
  <2>6. Cardinality(E) \in Nat
    BY <2>5, FS_CardinalityType
  <2>7. Cardinality(E) <= 14
    <3> HIDE DEF n
    <3> QED BY <1>2, <2>2, <2>4, <2>5, <2>6
  <2> QED BY <2>5, <2>7 DEF E
<1>5. n <= 14
  <2> HIDE DEF n
  <2> QED BY <1>2
<1> QED BY <1>1, <1>3, <1>4, <1>5 DEF Fitting

-----------------------------------------------------------------------------
(* What the copy tells.                                                     *)

\* Two functions that agree on the same domain.
LEMMA SameFunction ==
  ASSUME NEW D, NEW f, f = [x \in D |-> f[x]], NEW g, g = [x \in D |-> g[x]],
         \A x \in D : f[x] = g[x]
  PROVE  f = g
OBVIOUS

\* A seat as it is sent is the seat as it is to be seen.
LEMMA SeatIsSeen ==
  ASSUME NEW s \in Seat, NEW viewer, NEW sent \in BOOLEAN, sent <=> s.playerId = viewer
  PROVE  SeatSent(s, sent) = SeenSeat(s, viewer)
<1> DEFINE fields == {"seatIndex", "playerId", "chips", "currentBet", "totalBetThisHand",
                      "inHand", "folded", "allIn", "pendingLeave", "sittingOut",
                      "autoMode", "actedThisRound"}
           z == [s EXCEPT !.actedThisRound = FALSE]
           D == fields \cup {"hole"}
           hole == HoleSent(s.playerId, sent)
           f == SeatSent(s, sent)
           g == WithHole(z, hole)
<1>1. DOMAIN z = fields
  BY DEF Seat
<1>2. SeenSeat(s, viewer) = g
  <2>1. hole = IF s.playerId = viewer THEN HoleOf(viewer) ELSE <<NoCard, NoCard>>
    BY DEF HoleSent
  <2> HIDE DEF hole
  <2> QED BY <2>1 DEF SeenSeat
<1>3. g = [x \in D |-> IF x = "hole" THEN hole ELSE z[x]]
  BY <1>1, Zenon DEF WithHole
<1>4. g = [x \in D |-> g[x]]
  BY <1>3
<1>5. f = [x \in D |-> f[x]]
  BY DEF SeatSent
<1>6. \A x \in D : f[x] = g[x]
  <2>1. /\ f.hole = hole /\ f.seatIndex = z.seatIndex /\ f.playerId = z.playerId
        /\ f.chips = z.chips /\ f.currentBet = z.currentBet
        /\ f.totalBetThisHand = z.totalBetThisHand /\ f.inHand = z.inHand
        /\ f.folded = z.folded /\ f.allIn = z.allIn /\ f.pendingLeave = z.pendingLeave
        /\ f.sittingOut = z.sittingOut /\ f.autoMode = z.autoMode
        /\ f.actedThisRound = z.actedThisRound
    BY DEF SeatSent, Seat
  <2> HIDE DEF f, z, hole, g
  <2>2. \A x \in D : g[x] = IF x = "hole" THEN hole ELSE z[x]
    BY <1>3
  <2>3. \A x \in fields : x # "hole"
    OBVIOUS
  <2> QED BY <2>1, <2>2, <2>3
<1> HIDE DEF f, g, D
<1>7. f = g
  BY <1>4, <1>5, <1>6, SameFunction
<1> QED BY <1>2, <1>7 DEF f

\* The seats of a copy: each as it was sent, with everything but the cards and the
\* mark of the round as the table has it.
LEMMA SeatsCopied ==
  ASSUME NEW g \in Table, NEW viewer
  PROVE  LET c == SeatsSent(g, viewer)
         IN  /\ Len(c) = Len(g.seats) /\ DOMAIN c = DOMAIN g.seats
             /\ \A i \in DOMAIN g.seats :
                  /\ g.seats[i] \in Seat
                  /\ c[i] = SeatSent(g.seats[i], ShowHole(g, g.seats[i], viewer))
                  /\ c[i].seatIndex = g.seats[i].seatIndex
                  /\ c[i].playerId = g.seats[i].playerId
                  /\ c[i].currentBet = g.seats[i].currentBet
                  /\ c[i].inHand = g.seats[i].inHand /\ c[i].folded = g.seats[i].folded
<1> DEFINE n == Len(g.seats)
           sent(i) == SeatSent(g.seats[i], ShowHole(g, g.seats[i], viewer))
           c == SeatsSent(g, viewer)
<1>1. /\ n \in Nat /\ DOMAIN g.seats = 1..n /\ \A i \in 1..n : g.seats[i] \in Seat
  BY SeatsAre DEF Table
<1>2. c = [i \in 1..n |-> sent(i)]
  BY DEF SeatsSent
<1>3. \A i \in 1..n : /\ sent(i).seatIndex = g.seats[i].seatIndex
                      /\ sent(i).playerId = g.seats[i].playerId
                      /\ sent(i).currentBet = g.seats[i].currentBet
                      /\ sent(i).inHand = g.seats[i].inHand
                      /\ sent(i).folded = g.seats[i].folded
  BY DEF SeatSent
<1>4. /\ Len(c) = n /\ DOMAIN c = 1..n /\ \A i \in 1..n : c[i] = sent(i)
  <2> HIDE DEF n, sent, c
  <2>1. DOMAIN c = 1..n
    BY <1>2
  <2>2. n \in Nat
    BY <1>1
  <2>3. c \in [1..n -> {sent(i) : i \in 1..n}]
    BY <1>2
  <2> QED BY <1>2, <2>1, <2>2, <2>3, SeqIntro
<1> HIDE DEF sent, c
<1> QED BY <1>1, <1>3, <1>4 DEF sent, c

\* The place to act is found again: no player is seated twice.
LEMMA TurnCopied ==
  ASSUME NEW g \in Table, InOrder(g.seats), NEW viewer, NoOne \notin Players,
         g.stage # "Waiting" => /\ g.actingIndex \in Positions(g)
                                /\ CanAct(At(g, g.actingIndex))
  PROVE  ActingPlayerId(CopyOf(g, viewer)) = ActingPlayerId(g)
<1> DEFINE c == CopyOf(g, viewer)
           seats == SeatsSent(g, viewer)
           a == g.actingIndex
           n == Len(g.seats)
           p == At(g, a).playerId
<1>1. c.stage = g.stage /\ c.seats = seats /\ c.actingIndex = ActingIndexOf(seats, ActingPlayerId(g))
  BY DEF CopyOf
<1>2. CASE g.stage = "Waiting"
  <2> HIDE DEF c
  <2>1. ActingPlayerId(c) = ActingPlayerId(g)
    BY <1>1, <1>2 DEF ActingPlayerId
  <2> QED BY <2>1 DEF c
<1>3. CASE g.stage # "Waiting"
  <2>1. /\ n \in Nat /\ DOMAIN g.seats = 1..n /\ \A i \in 1..n : g.seats[i].playerId \in Players
    <3>1. /\ n \in Nat /\ DOMAIN g.seats = 1..n /\ \A i \in 1..n : g.seats[i] \in Seat
      BY SeatsAre DEF Table
    <3> QED BY <3>1 DEF Seat
  <2>2. /\ Len(seats) = n /\ DOMAIN seats = 1..n
        /\ \A i \in 1..n : /\ seats[i].playerId = g.seats[i].playerId
                           /\ seats[i].inHand = g.seats[i].inHand
                           /\ seats[i].folded = g.seats[i].folded
    BY <2>1, SeatsCopied
  <2>3. /\ a \in 0..n - 1 /\ a \in Nat /\ a + 1 \in 1..n
        /\ g.seats[a + 1].inHand /\ ~g.seats[a + 1].folded
        /\ p = g.seats[a + 1].playerId
    BY <1>3, <2>1 DEF Positions, CanAct, At
  <2>4. p # NoOne
    BY <2>1, <2>3
  <2>5. ActingPlayerId(g) = p
    BY <1>3, <2>3, <2>4 DEF ActingPlayerId, At, Id
  <2> DEFINE S == {j \in DOMAIN seats : seats[j].playerId = p}
  <2> HIDE DEF seats, n, a, p
  <2>6. S = {a + 1}
    <3>1. a + 1 \in S
      BY <2>2, <2>3
    <3>2. ASSUME NEW j \in S PROVE j = a + 1
      <4> DEFINE b == a + 1
      <4>1. j \in 1..n /\ b \in 1..n /\ g.seats[j].playerId = g.seats[b].playerId
        BY <2>2, <2>3
      <4> HIDE DEF b
      <4>2. ~(j < b) /\ ~(b < j)
        BY <2>1, <4>1 DEF InOrder
      <4>3. j = b
        BY <2>1, <4>1, <4>2
      <4> QED BY <4>3 DEF b
    <3> QED BY <3>1, <3>2
  <2> HIDE DEF S
  <2>7. {0} \cup {i - 1 : i \in S} = {0, a}
    BY <2>3, <2>6
  <2>8. ActingIndexOf(seats, p) = a
    <3>1. ActingIndexOf(seats, p) = Max({0, a})
      BY <2>7 DEF ActingIndexOf, S
    <3>2. Max({0, a}) = a
      BY <2>3, MaxOfTwo
    <3> QED BY <3>1, <3>2
  <2> HIDE DEF c
  <2>9. /\ c.stage # "Waiting" /\ c.actingIndex = a /\ a \in 0..Len(c.seats) - 1
        /\ c.seats[a + 1].inHand /\ ~c.seats[a + 1].folded
        /\ c.seats[a + 1].playerId = p
    BY <1>1, <1>3, <2>2, <2>3, <2>5, <2>8
  <2>10. ActingPlayerId(c) = p
    BY <2>4, <2>9 DEF ActingPlayerId, Positions, At, Id
  <2> QED BY <2>5, <2>10 DEF c
<1> QED BY <1>2, <1>3

\* The pot of the copy is the pot of the table.
LEMMA PotCopied ==
  ASSUME NEW g \in Table, NEW viewer
  PROVE  GetTotalPot(CopyOf(g, viewer)) = GetTotalPot(g)
<1> DEFINE c == CopyOf(g, viewer)
           seats == SeatsSent(g, viewer)
<1>1. c.seats = seats /\ c.sidePots = g.sidePots
  BY DEF CopyOf
<1>2. [i \in DOMAIN seats |-> seats[i].currentBet] = [i \in DOMAIN g.seats |-> g.seats[i].currentBet]
  BY SeatsCopied
<1> HIDE DEF c, seats
<1>3. PotTotal(c) = PotTotal(g)
  BY <1>1 DEF PotTotal
<1>4. GetTotalPot(c) = GetTotalPot(g)
  BY <1>1, <1>2, <1>3 DEF GetTotalPot
<1> QED BY <1>4 DEF c

\* The copy says what the table says.
LEMMA CopyTells ==
  ASSUME game \in Fitting, InOrder(game.seats), game.stage # "Showdown",
         NoOne \notin Players, NEW viewer
  PROVE  Tells(CopyOf(game, viewer), viewer)
<1> DEFINE g == game
           c == CopyOf(g, viewer)
           seats == SeatsSent(g, viewer)
<1>1. g \in Table /\ InOrder(g.seats) /\ g.stage # "Showdown"
  BY DEF Fitting
<1>2. /\ c.unread = <<>> /\ c.stage = g.stage /\ c.lastBet = g.lastBet
      /\ c.lastRaise = g.lastRaise /\ c.smallBlind = g.smallBlind
      /\ c.bigBlind = g.bigBlind /\ c.community = BoardOf(g.community)
      /\ c.sidePots = g.sidePots /\ c.seats = seats
      /\ c.lastAction = [playerId |-> Id(g.lastAction.playerId),
                         action |-> g.lastAction.action, amount |-> g.lastAction.amount]
  BY DEF CopyOf
<1>3. c.lastAction = [g.lastAction EXCEPT !.playerId = Id(@)]
  <2>1. g.lastAction \in LastAction
    BY <1>1 DEF Table
  <2> DEFINE z == g.lastAction
  <2> HIDE DEF z, c
  <2>2. [playerId |-> Id(z.playerId), action |-> z.action, amount |-> z.amount]
          = [z EXCEPT !.playerId = Id(z.playerId)]
    BY <2>1 DEF LastAction, z
  <2> QED BY <1>2, <2>2 DEF z
<1>4. seats = [i \in DOMAIN g.seats |-> SeenSeat(g.seats[i], viewer)]
  <2>1. ASSUME NEW i \in DOMAIN g.seats
        PROVE  seats[i] = SeenSeat(g.seats[i], viewer)
    <3> DEFINE s == g.seats[i]
               sent == ShowHole(g, s, viewer)
    <3>1. s \in Seat /\ seats[i] = SeatSent(s, sent)
      BY <1>1, SeatsCopied
    <3>2. sent \in BOOLEAN /\ (sent <=> s.playerId = viewer)
      BY <1>1 DEF ShowHole
    <3> HIDE DEF s, sent
    <3> QED BY <3>1, <3>2, SeatIsSeen DEF s
  <2>2. DOMAIN seats = DOMAIN g.seats /\ seats = [i \in DOMAIN g.seats |-> seats[i]]
    BY <1>1, SeatsCopied DEF SeatsSent
  <2> HIDE DEF seats
  <2> QED BY <2>1, <2>2
<1>5. GetTotalPot(c) = GetTotalPot(g)
  BY <1>1, PotCopied
<1>6. TurnIsLive => ActingPlayerId(c) = ActingPlayerId(g)
  BY <1>1, TurnCopied DEF TurnIsLive, InHand
<1> HIDE DEF c, seats
<1>7. \A field \in {"stage", "lastBet", "lastRaise", "smallBlind", "bigBlind"} :
        c[field] = g[field]
  BY <1>2
<1>8. Tells(c, viewer)
  BY <1>2, <1>3, <1>4, <1>5, <1>6, <1>7 DEF Tells
<1> QED BY <1>8 DEF c

\* Whoever asks for the table is sent a copy that says what the table says, at every
\* table of at most 14 seats: the message that is not checked for its length has room
\* for the pots of three streets, and no field or count wraps.
THEOREM CopyStaysTheTable ==
  ASSUME NoOne \notin Players, MaxSeats <= 14
  PROVE  Spec => []CopyIsTheTable
<1>1. Init => PotsOwned(game)
  BY DEF Init, PotsOwned
<1>2. IInv /\ Ordered(game) /\ PotsOwned(game) /\ [Next]_vars => PotsOwned(game)'
  BY PotsOwnedKept
<1>3. IInv /\ Ordered(game) /\ PotsOwned(game) /\ Laid(game) => CopyIsTheTable
  <2> SUFFICES ASSUME IInv, Ordered(game), PotsOwned(game), Laid(game), NEW viewer \in Viewers
               PROVE  Tells(ReadTable(WriteTable(game, viewer)), viewer)
    BY DEF CopyIsTheTable
  <2>1. game \in Fitting
    BY TableFits
  <2>2. InOrder(game.seats) /\ game.stage # "Showdown"
    BY DEF Ordered, IInv, SoundTable, IdleTable, Streets
  <2>3. ReadTable(WriteTable(game, viewer)) = CopyOf(game, viewer)
    BY <2>1, TableReadBack
  <2> QED BY <2>1, <2>2, <2>3, CopyTells
<1> QED BY <1>1, <1>2, <1>3, Inductive, OrderedInductive, LaidInductive, PTL DEF Spec

\* The i-th seat has at least the number i - 1.
LEMMA NumbersReach ==
  ASSUME NEW q \in Seq(Seat), InOrder(q)
  PROVE  \A n \in DOMAIN q : q[n].seatIndex >= n - 1
<1>1. /\ Len(q) \in Nat /\ DOMAIN q = 1..Len(q)
      /\ \A i \in 1..Len(q) : q[i].seatIndex \in Nat
  <2>1. /\ Len(q) \in Nat /\ DOMAIN q = 1..Len(q) /\ \A i \in 1..Len(q) : q[i] \in Seat
    BY SeatsAre
  <2>2. \A s \in Seat : s.seatIndex \in Nat
    BY TableAssumption DEF Seat
  <2> QED BY <2>1, <2>2
<1> DEFINE N == Len(q)
           P == {n \in 0..N : n = 0 \/ q[n].seatIndex >= n - 1}
<1> HIDE DEF N
<1>2. 0 \in P
  BY <1>1 DEF N
<1>3. ASSUME NEW n \in 1..N, n - 1 \in P PROVE n \in P
  <2>1. n \in Nat /\ n \in 0..N /\ N \in Nat /\ q[n].seatIndex \in Nat
    BY <1>1 DEF N
  <2>2. CASE n = 1
    BY <2>1, <2>2
  <2>3. CASE n # 1
    <3> DEFINE m == n - 1
    <3>1. m \in 1..N /\ m # 0 /\ m < n /\ m + 1 = n /\ m \in P
      BY <1>3, <2>1, <2>3
    <3> HIDE DEF m
    <3>2. q[m].seatIndex < q[n].seatIndex /\ q[m].seatIndex >= m - 1
      <4>1. m \in DOMAIN q /\ n \in DOMAIN q
        BY <1>1, <3>1 DEF N
      <4> QED BY <3>1, <4>1 DEF InOrder
    <3>3. q[m].seatIndex \in Nat
      BY <1>1, <3>1 DEF N
    <3> QED BY <2>1, <3>1, <3>2, <3>3
  <2> QED BY <2>2, <2>3
<1>4. N \in Nat /\ \A n \in 1..N : n - 1 \in P => n \in P
  BY <1>1, <1>3 DEF N
<1>5. \A n \in 1..N : n \in P
  <2> HIDE DEF P
  <2>1. \A n \in 0..N : n \in P
    BY <1>2, <1>4, IntervalInduction
  <2>2. \A n \in 1..N : n \in 0..N
    BY <1>4
  <2> QED BY <2>1, <2>2
<1>6. \A n \in 1..N : n # 0
  BY <1>4
<1> QED BY <1>1, <1>5, <1>6 DEF N

\* The copy for somebody who is not at the table shows the button: at its place where the
\* dealer's seat number is its position, and further on or nowhere where it is not.
LEMMA ButtonCopied ==
  ASSUME NEW g \in Table, InOrder(g.seats), NEW viewer,
         g.dealerIndex \in Positions(g) \/ g.seats = <<>>
  PROVE  LET c == CopyOf(g, viewer)
             number == GetDealerSeatIndex(g)
         IN  /\ number \in {-1, g.dealerIndex} => Shown(c) = Shown(g)
             /\ number \notin {-1, g.dealerIndex}
                  => GetDealerSeatIndex(c) = -1 \/ GetDealerSeatIndex(c) > number
<1> DEFINE c == CopyOf(g, viewer)
           seats == SeatsSent(g, viewer)
           d == g.dealerIndex
           n == Len(g.seats)
           number == GetDealerSeatIndex(g)
<1>1. c.seats = seats /\ c.dealerIndex = number
  BY DEF CopyOf
<1>2. /\ n \in Nat /\ DOMAIN g.seats = 1..n /\ d \in Nat
      /\ \A i \in 1..n : g.seats[i].seatIndex \in Nat
  <2>1. /\ n \in Nat /\ DOMAIN g.seats = 1..n /\ d \in Nat /\ \A i \in 1..n : g.seats[i] \in Seat
    BY SeatsAre DEF Table
  <2>2. \A s \in Seat : s.seatIndex \in Nat
    BY TableAssumption DEF Seat
  <2> QED BY <2>1, <2>2
<1>3. /\ Len(seats) = n
      /\ \A i \in 1..n : /\ seats[i].seatIndex = g.seats[i].seatIndex
                         /\ seats[i].inHand = g.seats[i].inHand
  BY <1>2, SeatsCopied
<1> HIDE DEF c, seats
<1>4. /\ Positions(c) = Positions(g) /\ Positions(g) = 0..n - 1 /\ Len(c.seats) = Len(g.seats)
      /\ \A i \in Positions(g) : /\ At(c, i).seatIndex = At(g, i).seatIndex
                                 /\ At(c, i).inHand = At(g, i).inHand
                                 /\ At(g, i).seatIndex \in Nat
  <2>1. \A i \in 0..n - 1 : i + 1 \in 1..n
    BY <1>2
  <2> QED BY <1>1, <1>2, <1>3, <2>1 DEF Positions, At
<1>5. \A start : FindNextValidBlindPosition(c, start) = FindNextValidBlindPosition(g, start)
  <2>1. {i \in Positions(c) : At(c, i).inHand} = {i \in Positions(g) : At(g, i).inHand}
    BY <1>4
  <2> SUFFICES ASSUME NEW start
               PROVE  FindNextValidBlindPosition(c, start) = FindNextValidBlindPosition(g, start)
    OBVIOUS
  <2> DEFINE S == {i \in Positions(g) : At(g, i).inHand}
             F(k) == IF S = {} THEN k
                     ELSE CHOOSE i \in S : \A j \in S : (i - start) % k <= (j - start) % k
  <2>2. /\ FindNextValidBlindPosition(g, start) = F(Len(g.seats))
        /\ FindNextValidBlindPosition(c, start)
             = FirstFrom(c, start, {i \in Positions(c) : At(c, i).inHand})
    BY DEF FindNextValidBlindPosition, FirstFrom
  <2>3. FirstFrom(c, start, S) = F(Len(c.seats))
    BY DEF FirstFrom
  <2> HIDE DEF F, S
  <2> QED BY <1>4, <2>1, <2>2, <2>3 DEF S
<1>6. CASE d \notin Positions(g)
  <2>1. number = -1 /\ n = 0
    BY <1>6 DEF GetDealerSeatIndex
  <2> HIDE DEF n, number, d
  <2>2. Positions(c) = {} /\ Positions(g) = {}
    BY <1>4, <2>1
  <2>3. Shown(c) = <<-1, -1, -1>> /\ Shown(g) = <<-1, -1, -1>>
    BY <2>2 DEF Shown, GetDealerSeatIndex, GetSmallBlindSeatIndex, GetBigBlindSeatIndex
  <2> QED BY <2>1, <2>3 DEF c, number
<1>7. CASE d \in Positions(g)
  <2>1. number = At(g, d).seatIndex /\ number \in Nat /\ number # -1
    BY <1>4, <1>7 DEF GetDealerSeatIndex
  <2>2. CASE number = d
    <3>1. c.dealerIndex = g.dealerIndex
      BY <1>1, <2>2
    <3>2. GetDealerSeatIndex(c) = GetDealerSeatIndex(g)
      BY <1>4, <3>1 DEF GetDealerSeatIndex
    <3>3. \A k : BlindAfter(c, k) = BlindAfter(g, k)
      BY <1>5 DEF BlindAfter
    <3>4. GetSmallBlindSeatIndex(c) = GetSmallBlindSeatIndex(g)
      BY <1>4, <3>1, <3>3 DEF GetSmallBlindSeatIndex
    <3>5. GetBigBlindSeatIndex(c) = GetBigBlindSeatIndex(g)
      BY <1>4, <3>1, <3>3 DEF GetBigBlindSeatIndex
    <3>6. Shown(c) = Shown(g)
      BY <3>2, <3>4, <3>5 DEF Shown
    <3> QED BY <2>1, <2>2, <3>6 DEF c
  <2>3. CASE number # d
    <3>1. GetDealerSeatIndex(c) = -1 \/ GetDealerSeatIndex(c) > number
      <4>1. CASE number \notin Positions(g)
        BY <1>1, <1>4, <4>1 DEF GetDealerSeatIndex
      <4>2. CASE number \in Positions(g)
        <5>1. GetDealerSeatIndex(c) = g.seats[number + 1].seatIndex
          BY <1>1, <1>4, <4>2 DEF GetDealerSeatIndex, At
        <5>2. number = g.seats[d + 1].seatIndex /\ d + 1 \in 1..n /\ number + 1 \in 1..n
          BY <1>2, <1>4, <1>7, <2>1, <4>2, SMTT(30) DEF At
        <5> DEFINE i == d + 1
                   j == number + 1
        <5>3. g.seats[i].seatIndex >= i - 1
          <6>1. g.seats \in Seq(Seat) /\ i \in DOMAIN g.seats
            BY <1>2, <5>2 DEF Table
          <6> HIDE DEF i
          <6> QED BY <6>1, NumbersReach
        <5>4. i < j
          BY <1>2, <2>1, <2>3, <5>2, <5>3
        <5>5. g.seats[i].seatIndex < g.seats[j].seatIndex
          <6>1. i \in DOMAIN g.seats /\ j \in DOMAIN g.seats
            BY <1>2, <5>2
          <6> HIDE DEF i, j
          <6> QED BY <5>4, <6>1 DEF InOrder
        <5>6. g.seats[i].seatIndex = number /\ GetDealerSeatIndex(c) = g.seats[j].seatIndex
          BY <5>1, <5>2
        <5>7. g.seats[j].seatIndex \in Nat
          BY <1>2, <5>2
        <5> HIDE DEF i, j, number
        <5> QED BY <2>1, <5>5, <5>6, <5>7
      <4> QED BY <4>1, <4>2
    <3> QED BY <2>1, <2>3, <3>1 DEF c
  <2> QED BY <2>2, <2>3
<1> QED BY <1>6, <1>7

\* The copy shows the button and the blinds where the table has them when no seat is free
\* below the dealer's, and otherwise shows the button further on or nowhere: never at a
\* seat before the dealer's.
THEOREM ButtonStaysShown ==
  ASSUME MaxSeats <= 14
  PROVE  Spec => []ButtonIsShown
<1>1. Init => PotsOwned(game)
  BY DEF Init, PotsOwned
<1>2. IInv /\ Ordered(game) /\ PotsOwned(game) /\ [Next]_vars => PotsOwned(game)'
  BY PotsOwnedKept
<1>3. IInv /\ Ordered(game) /\ PotsOwned(game) /\ Laid(game) => ButtonIsShown
  <2> SUFFICES ASSUME IInv, Ordered(game), PotsOwned(game), Laid(game)
               PROVE  ButtonIsShown
    OBVIOUS
  <2>1. game \in Fitting /\ game \in Table
    BY TableFits DEF Fitting
  <2>2. InOrder(game.seats) /\ (game.dealerIndex \in Positions(game) \/ game.seats = <<>>)
    BY DEF Ordered
  <2>3. ReadTable(WriteTable(game, NoOne)) = CopyOf(game, NoOne)
    BY <2>1, TableReadBack
  <2> DEFINE c == CopyOf(game, NoOne)
             number == GetDealerSeatIndex(game)
  <2>4. /\ number \in {-1, game.dealerIndex} => Shown(c) = Shown(game)
        /\ number \notin {-1, game.dealerIndex}
             => GetDealerSeatIndex(c) = -1 \/ GetDealerSeatIndex(c) > number
    BY <2>1, <2>2, ButtonCopied
  <2> HIDE DEF c
  <2> QED BY <2>3, <2>4 DEF ButtonIsShown, c
<1> QED BY <1>1, <1>2, <1>3, Inductive, OrderedInductive, LaidInductive, PTL DEF Spec

-----------------------------------------------------------------------------
(* The result of a hand.                                                    *)

\* The same members, and the last result among them.
SameReport(g, h) ==
  /\ DOMAIN h = DOMAIN g /\ "lastHandResult" \in DOMAIN g
  /\ h.lastHandResult = g.lastHandResult

\* One helper after the other.
LEMMA SameReportChain ==
  ASSUME NEW g, NEW c, NEW h, SameReport(g, c), SameReport(c, h)
  PROVE  SameReport(g, h)
BY DEF SameReport

\* A table has a last result.
LEMMA TableReports ==
  ASSUME NEW g \in Table
  PROVE  "lastHandResult" \in DOMAIN g
BY DEF Table

\* Neither a blind posted nor a hand started says anything of the last one.
LEMMA StartedReport ==
  ASSUME NEW g \in Table
  PROVE  SameReport(g, HandStarted(g))
<1>1. ASSUME NEW t, "lastHandResult" \in DOMAIN t, NEW i, NEW blind
      PROVE  SameReport(t, Post(t, i, blind))
  <2> DEFINE pay == Min({blind, At(t, i).chips})
             q == [t.seats EXCEPT ![i + 1] = PutIn(@, pay)]
             action == [playerId |-> At(t, i).playerId, action |-> "Bet", amount |-> pay]
             r == [t EXCEPT !.seats = q]
  <2>1. Post(t, i, blind) = [r EXCEPT !.lastAction = action]
    BY DEF Post, RecordLastAction
  <2> HIDE DEF q, action
  <2> QED BY <1>1, <2>1 DEF SameReport
<1>2. ASSUME NEW t, "lastHandResult" \in DOMAIN t
      PROVE  SameReport(t, PostBlinds(t))
  <2> DEFINE sb == FindNextValidBlindPosition(t, t.dealerIndex + 1)
             bb == FindNextValidBlindPosition(t, sb + 1)
             small == Post(t, sb, t.smallBlind)
             both == Post(small, bb, t.bigBlind)
             amount == both.lastAction.amount
             r == [both EXCEPT !.lastBet = amount, !.lastRaise = t.bigBlind]
  <2>1. PostBlinds(t) = r \/ PostBlinds(t) = t
    BY DEF PostBlinds
  <2> HIDE DEF sb, bb
  <2>2. SameReport(t, small)
    BY <1>1, <1>2
  <2> HIDE DEF small
  <2>3. SameReport(small, both)
    BY <1>1, <2>2 DEF SameReport
  <2> HIDE DEF both, amount
  <2>4. SameReport(both, r)
    BY <2>2, <2>3 DEF SameReport
  <2> HIDE DEF r
  <2>5. SameReport(t, r)
    BY <2>2, <2>3, <2>4, SameReportChain
  <2> QED BY <1>2, <2>1, <2>5 DEF SameReport
<1> DEFINE d == [g EXCEPT !.stage = "PreFlop", !.community = 0,
                          !.sidePots = <<>>, !.seats = DealtIn(g)]
           button == FindNextValidBlindPosition(d, d.dealerIndex + 1)
           place == IF button < Len(d.seats) THEN button ELSE d.dealerIndex
           b == [d EXCEPT !.dealerIndex = place]
           p == PostBlinds(b)
           left == Max({0, DeckSize - 2 * Cardinality({i \in DOMAIN p.seats : p.seats[i].inHand})})
           first == FirstToAct(p)
           f == Vector([i \in DOMAIN p.seats |-> [p.seats[i] EXCEPT !.actedThisRound = FALSE]])
           h == [p EXCEPT !.seats = f, !.deck = left, !.actingIndex = first]
<1>3. HandStarted(g) = LET posted == ButtonMoved(d)
                           drawn == 2 * Cardinality({i \in DOMAIN posted.seats : posted.seats[i].inHand})
                       IN  [posted EXCEPT
                             !.seats = Vector([i \in DOMAIN posted.seats |->
                                         [posted.seats[i] EXCEPT !.actedThisRound = FALSE]]),
                             !.deck  = Max({0, DeckSize - drawn}),
                             !.actingIndex = FirstToAct(posted)]
  BY DEF HandStarted
<1>4. SameReport(g, d)
  BY TableReports DEF SameReport
<1> HIDE DEF d
<1>5. ButtonMoved(d) = p
  BY DEF ButtonMoved
<1> HIDE DEF button, place
<1>6. SameReport(d, b)
  BY <1>4 DEF SameReport
<1> HIDE DEF b
<1>7. SameReport(b, p)
  BY <1>2, <1>4, <1>6 DEF SameReport
<1>8. HandStarted(g) = h
  BY <1>3, <1>5
<1> HIDE DEF p, left, first, f
<1>9. SameReport(p, h)
  BY <1>7 DEF SameReport
<1> HIDE DEF h
<1> QED BY <1>4, <1>6, <1>7, <1>8, <1>9, SameReportChain

\* Nor does a call on seats or on the blinds.
LEMMA CallReports ==
  ASSUME IInv, TableCall, ~ProcessAutoModePlayer
  PROVE  SameReport(game, game')
<1>1. game \in Table /\ "lastHandResult" \in DOMAIN game
  BY TableTypes, TableReports
<1>2. ASSUME NEW q, NEW a, NEW d
      PROVE  /\ SameReport(game, [game EXCEPT !.seats = q])
             /\ SameReport(game, [game EXCEPT !.seats = q, !.actingIndex = a, !.dealerIndex = d])
  BY <1>1 DEF SameReport
<1>3. ASSUME NEW blinds \in Blinds, SetBlinds(blinds) PROVE SameReport(game, game')
  <2> DEFINE buyin == blinds[2] * BuyinFactor
  <2>1. game' = [game EXCEPT !.smallBlind = blinds[1], !.bigBlind = blinds[2],
                             !.minBuyin = buyin]
    BY <1>3 DEF SetBlinds
  <2> HIDE DEF buyin
  <2> QED BY <1>1, <2>1 DEF SameReport
<1>4. ASSUME NEW p \in Players, SitDown(p) PROVE SameReport(game, game')
  <2> DEFINE free == (0 .. MaxSeats - 1) \ {s.seatIndex : s \in ToSet(game.seats)}
             q == Seating(game.seats, NewSeat(p, Min(free)))
  <2>1. game' = [game EXCEPT !.seats = q]
    BY <1>4 DEF SitDown
  <2> HIDE DEF q
  <2> QED BY <1>2, <2>1
<1>5. ASSUME NEW p \in Players, NEW amount \in BuyIns, BuyIn(p, amount)
      PROVE  SameReport(game, game')
  <2>1. PICK i \in DOMAIN game.seats, t \in Seat : game' = [game EXCEPT !.seats[i] = t]
    BY <1>5, BuyInIs DEF EditedSeat
  <2> QED BY <1>2, <2>1
<1>6. ASSUME NEW p \in Players, StandUp(p) \/ SitBack(p) \/ MarkPendingLeave(p)
      PROVE  SameReport(game, game')
  <2>1. PICK i \in DOMAIN game.seats, t \in Seat : game' = [game EXCEPT !.seats[i] = t]
    BY <1>6, FlagsAre DEF EditedSeat
  <2> QED BY <1>2, <2>1
<1>7. ASSUME NEW p \in Players, CashOut(p) PROVE SameReport(game, game')
  <2>1. PICK i \in DOMAIN game.seats, t \in Seat : game' = [game EXCEPT !.seats[i] = t]
    BY <1>7, CashOutIs DEF EditedSeat
  <2> QED BY <1>2, <2>1
<1>8. ASSUME RemovePendingLeavers PROVE SameReport(game, game')
  <2> DEFINE q == Erase(game.seats, {i \in DOMAIN game.seats : Leaves(game.seats[i])})
  <2>1. game' = [game EXCEPT !.seats = q, !.actingIndex = ActingIn(q), !.dealerIndex = DealerIn(q)]
    BY <1>8 DEF RemovePendingLeavers
  <2> HIDE DEF q
  <2> QED BY <1>2, <2>1
<1>9. ASSUME ClearPendingHandResult PROVE SameReport(game, game')
  BY <1>1, <1>9 DEF ClearPendingHandResult, SameReport
<1>10. ASSUME StartHand PROVE SameReport(game, game')
  BY <1>1, <1>10, StartedReport DEF StartHand
<1> QED
  BY <1>3, <1>4, <1>5, <1>6, <1>7, <1>8, <1>9, <1>10 DEF TableCall

\* A result with a place for every seat.
Sized(r) == IsFiniteSet(r.players) /\ Cardinality(r.players) <= MaxSeats

\* There is one entry for a seat dealt in.
LEMMA ResultSized ==
  ASSUME NEW g \in Table, InOrder(g.seats), NEW isShowdown, NEW total, NEW won
  PROVE  Sized(HandResult(g, isShowdown, total, won))
<1> DEFINE S == DealtSeats(g)
           f == [i \in S |-> [playerId |-> g.seats[i].playerId,
                              folded |-> g.seats[i].folded, chipsWon |-> won[i]]]
           T == {f[i] : i \in S}
           r == HandResult(g, isShowdown, total, won)
<1>1. r.players = T
  BY DEF HandResult, DealtSeats
<1>2. f \in Surjection(S, T)
  <2>1. f \in [S -> T] /\ \A y \in T : \E i \in S : f[i] = y
    OBVIOUS
  <2> HIDE DEF f, S, T
  <2> QED BY <2>1 DEF Surjection
<1>3. IsFiniteSet(S) /\ Cardinality(S) \in 0..MaxSeats /\ MaxSeats \in Nat
  BY DealtFit, TableAssumption
<1> HIDE DEF f, S, T
<1>4. IsFiniteSet(T) /\ Cardinality(T) <= Cardinality(S)
  BY <1>2, <1>3, FS_Surjection
<1>5. Cardinality(T) \in Nat
  BY <1>4, FS_CardinalityType
<1>6. Cardinality(T) <= MaxSeats
  BY <1>3, <1>4, <1>5
<1> HIDE DEF r
<1>7. Sized(r)
  BY <1>1, <1>4, <1>6 DEF Sized
<1> QED BY <1>7 DEF r

\* What a turn leaves is the last result, or that of the hand it ends.
LEMMA TurnReports ==
  ASSUME NEW t \in HandTable, t.stage \in Streets, InOrder(t.seats),
         NEW h \in Outcomes(PlayOn(t))
  PROVE  h.lastHandResult = t.lastHandResult \/ Sized(h.lastHandResult)
<1>1. t \in Table
  BY DEF HandTable
<1>2. CASE h = FinishHand(t)
  BY <1>1, <1>2, FinishHandIs DEF SameNews, SameResult
<1>3. ASSUME NEW i \in DOMAIN t.seats, h = SingleWinner(t, i)
      PROVE  Sized(h.lastHandResult)
  <2> DEFINE c == CollectBetsToSidePots(t)
             pot == GetTotalPot(c)
             w == [j \in DOMAIN c.seats |-> IF c.seats[j].seatIndex = i - 1 THEN pot ELSE 0]
             result == HandResult(c, FALSE, pot, w)
             q == [c.seats EXCEPT ![i].chips = @ + pot]
             r == [c EXCEPT !.seats = q, !.lastHandResult = result,
                            !.hasPendingHandResult = TRUE]
  <2>1. c \in Table /\ SamePlaces(t, c)
    BY CollectIs, PlacesStay DEF HandTable, SameHands
  <2>2. h = FinishHand(r)
    BY <1>3 DEF SingleWinner
  <2> HIDE DEF c
  <2>3. InOrder(c.seats)
    BY <2>1, SamePlacesOrdered DEF SamePlaces
  <2> HIDE DEF pot, w
  <2>4. Sized(result)
    BY <2>1, <2>3, ResultSized
  <2> HIDE DEF result, q
  <2>5. r.lastHandResult = result
    BY <2>1 DEF Table
  <2> HIDE DEF r
  <2>6. FinishHand(r).lastHandResult = r.lastHandResult
    BY DEF FinishHand
  <2> QED BY <2>2, <2>4, <2>5, <2>6
<1>4. ASSUME NEW d, NEW scores, ShowdownOf(t, d),
             h = FinishHand(DistributePots(CollectBetsToSidePots(d), scores))
      PROVE  Sized(h.lastHandResult)
  <2> DEFINE c == CollectBetsToSidePots(d)
             w == DistributePots(c, scores)
  <2>1. /\ d \in HandTable /\ d.dealerIndex = t.dealerIndex
        /\ d.seats = t.seats \/ d.seats = CollectBetsToSidePots(t).seats
    BY <1>4 DEF ShowdownOf
  <2>2. SamePlaces(t, d)
    <3>1. SameHands(t, CollectBetsToSidePots(t))
      BY PlacesStay
    <3> QED BY <2>1, <3>1 DEF SameHands, SamePlaces, SamePlace
  <2>3. /\ c \in HandTable /\ c \in Table /\ SamePlaces(d, c)
    BY <2>1, CollectIs, PlacesStay DEF HandTable, SameHands
  <2>4. h = FinishHand(w)
    BY <1>4
  <2> HIDE DEF c
  <2>5. InOrder(c.seats)
    <3>1. InOrder(d.seats)
      BY <2>2, SamePlacesOrdered DEF SamePlaces
    <3> QED BY <2>3, <3>1, SamePlacesOrdered DEF SamePlaces
  <2> DEFINE won == [i \in DOMAIN c.seats |-> Won(c, scores, i)]
             result == HandResult(c, TRUE, PotTotal(c), won)
  <2>6. w \in Table /\ w.lastHandResult = result
    <3>1. w \in Table
      BY <2>3, DistributePotsIs
    <3>2. w.lastHandResult = result
      BY <2>3, DistributePotsReports
    <3> QED BY <3>1, <3>2
  <2>7. Sized(result)
    <3> HIDE DEF won
    <3> QED BY <2>3, <2>5, ResultSized
  <2> HIDE DEF w, result
  <2>8. h.lastHandResult = w.lastHandResult
    BY <2>4, <2>6, FinishHandIs DEF SameNews, SameResult
  <2> QED BY <2>6, <2>7, <2>8
<1>5. ASSUME NEW k \in Positions(t), h = [t EXCEPT !.actingIndex = k]
      PROVE  h.lastHandResult = t.lastHandResult
  BY <1>1, <1>5 DEF Table
<1>6. ASSUME h = NewStreet(CollectBetsToSidePots(t))
      PROVE  h.lastHandResult = t.lastHandResult
  <2> DEFINE c == CollectBetsToSidePots(t)
             stage == NextStreet[c.stage]
             m == [c EXCEPT !.stage = stage]
             cards == c.community + CardsDealt[c.stage]
             left == Max({0, m.deck - CardsDealt[c.stage]})
             d == DealCommunity(m, CardsDealt[c.stage])
             n == ResetBetsForNewRound(d)
             q == Vector([i \in DOMAIN d.seats |->
                            [d.seats[i] EXCEPT !.currentBet = 0, !.actedThisRound = FALSE]])
             k == NextActiveIndex(n, n.dealerIndex + 1)
  <2>1. c \in Table /\ c.lastHandResult = t.lastHandResult
    BY CollectIs DEF HandTable, SameNews, SameResult
  <2>2. h = [n EXCEPT !.actingIndex = k]
    BY <1>6 DEF NewStreet
  <2>3. n = [d EXCEPT !.lastBet = 0, !.lastRaise = d.bigBlind, !.seats = q]
    BY DEF ResetBetsForNewRound
  <2>4. d = [m EXCEPT !.community = m.community + CardsDealt[c.stage], !.deck = left]
    BY DEF DealCommunity
  <2> HIDE DEF c, stage, q, left, k
  <2>5. SameReport(c, m)
    BY <2>1, TableReports DEF SameReport
  <2> HIDE DEF m, d, n
  <2>6. SameReport(m, d)
    BY <2>4, <2>5 DEF SameReport
  <2>7. SameReport(d, n)
    BY <2>3, <2>5, <2>6 DEF SameReport
  <2>8. SameReport(n, h)
    BY <2>2, <2>5, <2>6, <2>7 DEF SameReport
  <2> QED BY <2>1, <2>5, <2>6, <2>7, <2>8 DEF SameReport
<1> QED BY <1>2, <1>3, <1>4, <1>5, <1>6, PlayOnCases

\* No call records more players than there are seats.
LEMMA SizedKept ==
  ASSUME IInv, Ordered(game), Sized(game.lastHandResult), [Next]_vars
  PROVE  Sized(game.lastHandResult)'
<1> DEFINE g == game
           h == game'
<1>1. ASSUME Turned(g, h) PROVE Sized(h.lastHandResult)
  <2> DEFINE a == Aimed(g)
  <2>1. /\ g \in HandTable /\ a \in HandTable /\ a.stage \in Streets
        /\ a.seats = g.seats /\ SameRound(g, a)
    BY <1>1, AimedIs DEF Turned, SameRound
  <2>2. a.lastHandResult = g.lastHandResult
    BY <2>1 DEF Aimed, HandTable, Table
  <2>3. \/ h = a
        \/ \E t, pay : Acted(a, t, a.actingIndex + 1, pay) /\ h \in Outcomes(PlayOn(t))
    BY <1>1 DEF Turned
  <2>4. InOrder(a.seats) /\ Sized(g.lastHandResult)
    BY <2>1 DEF Ordered
  <2> HIDE DEF a, g, h
  <2>5. CASE \E t, pay : Acted(a, t, a.actingIndex + 1, pay) /\ h \in Outcomes(PlayOn(t))
    <3>1. PICK t, pay : Acted(a, t, a.actingIndex + 1, pay) /\ h \in Outcomes(PlayOn(t))
      BY <2>5
    <3>2. /\ t \in HandTable /\ t.stage \in Streets /\ SameHands(a, t)
          /\ t.lastHandResult = a.lastHandResult
      BY <2>1, <3>1 DEF Acted, SameResult
    <3>3. InOrder(t.seats)
      BY <2>4, <3>2, SamePlacesOrdered DEF SameHands, SamePlaces
    <3>4. h.lastHandResult = t.lastHandResult \/ Sized(h.lastHandResult)
      BY <3>1, <3>2, <3>3, TurnReports
    <3> QED BY <2>2, <2>4, <3>2, <3>4
  <2> QED BY <2>2, <2>3, <2>4, <2>5
<1>2. CASE ProcessAutoModePlayer
  BY <1>1, <1>2, ProcessAutoModePlayerIs
<1>3. CASE TableCall /\ ~ProcessAutoModePlayer
  <2>1. game'.lastHandResult = game.lastHandResult
    BY <1>3, CallReports DEF SameReport
  <2> QED BY <2>1
<1>4. CASE TakeTurn
  <2>1. {"CheckCall", "AllIn", "Fold", "Bet", "Raise"} \subseteq Actions /\ 0 \in Int
    BY DEF Actions
  <2>2. PICK p \in Players :
          \/ \E action \in {"CheckCall", "AllIn", "Fold"} : HandleAction(p, action, 0)
          \/ \E action \in {"Bet", "Raise"}, amount \in Amounts :
               HandleAction(p, action, amount)
    BY <1>4 DEF TakeTurn
  <2>3. Turned(game, game')
    BY <2>1, <2>2, HandleActionIs, GameAssumption
  <2> QED BY <1>1, <2>3
<1>5. CASE UNCHANGED vars
  BY <1>5 DEF vars
<1> QED BY <1>2, <1>3, <1>4, <1>5 DEF Next

\* Nor does any behaviour reach a result larger than the table.
LEMMA SizedInductive ==
  Spec => [](IInv /\ Ordered(game) /\ Sized(game.lastHandResult))
<1>1. Spec => []IInv
  BY Inductive
<1>2. Spec => []Ordered(game)
  BY OrderedInductive
<1>3. Init => Sized(game.lastHandResult)
  <2> SUFFICES ASSUME Init PROVE Sized(game.lastHandResult)
    OBVIOUS
  <2>1. game.lastHandResult.players = {}
    BY DEF Init, NoResult
  <2>2. IsFiniteSet({}) /\ Cardinality({}) = 0 /\ 0 <= MaxSeats
    BY FS_EmptySet, TableAssumption
  <2> QED BY <2>1, <2>2 DEF Sized
<1>4. IInv /\ Ordered(game) /\ Sized(game.lastHandResult) /\ [Next]_vars
        => Sized(game.lastHandResult)'
  BY SizedKept
<1> QED BY <1>1, <1>2, <1>3, <1>4, PTL DEF Spec

\* Every way the cards can fall gives each player a number.
LEMMA ScoresScore ==
  ASSUME NEW scores \in Scores
  PROVE  Scored(scores)
<1>1. scores \in [Players -> 1 .. Cardinality(Players)]
  BY DEF Scores
<1> QED BY <1>1 DEF Scored

\* A hand result that is sent arrives.
LEMMA ResultSeen ==
  ASSUME NEW result \in Result, Sized(result), MaxSeats <= 100, NEW n \in {0, 5},
         NEW scores \in Scores
  PROVE  LET hole(p) == IF result.isShowdown THEN HoleOf(p) ELSE <<NoCard, NoCard>>
             Recorded(e) ==
               [playerId |-> e.playerId, handRank |-> HandRank(e, scores),
                folded |-> e.folded, chipsWon |-> e.chipsWon, hole |-> hole(e.playerId)]
             got == ReadResult(WriteRow(<<>>, ResultRow(result, BoardOf(n), scores)))
         IN  /\ got.unread = <<>>
             /\ got.totalPot = result.totalPot /\ got.isShowdown = result.isShowdown
             /\ got.community = BoardOf(n)
             /\ got.players = {Recorded(e) : e \in result.players}
<1> DEFINE hole(p) == IF result.isShowdown THEN HoleOf(p) ELSE <<NoCard, NoCard>>
           Recorded(e) ==
             [playerId |-> e.playerId, handRank |-> HandRank(e, scores),
              folded |-> e.folded, chipsWon |-> e.chipsWon, hole |-> hole(e.playerId)]
           got == ReadResult(WriteRow(<<>>, ResultRow(result, BoardOf(n), scores)))
           seen == {Recorded(e) : e \in result.players}
           arrived == EntriesSent(result.players, result.isShowdown, scores)
<1>1. /\ MaxSeats \in Nat /\ MaxSeats <= 100 /\ n \in Nat /\ n <= 10
      /\ IsFiniteSet(result.players) /\ Cardinality(result.players) <= MaxSeats
      /\ Scored(scores)
  BY TableAssumption, ScoresScore DEF Sized
<1>2. got = [totalPot |-> result.totalPot, isShowdown |-> result.isShowdown,
             community |-> BoardOf(n), players |-> arrived, unread |-> <<>>]
  BY <1>1, ResultReadBack
<1>3. arrived = seen
  <2>1. \A e \in result.players : EntrySent(e, result.isShowdown, scores) = Recorded(e)
    BY DEF EntrySent, HoleSent
  <2> HIDE DEF Recorded
  <2> QED BY <2>1 DEF EntriesSent
<1> HIDE DEF seen, arrived
<1>4. /\ got.unread = <<>>
      /\ got.totalPot = result.totalPot /\ got.isShowdown = result.isShowdown
      /\ got.community = BoardOf(n)
      /\ got.players = seen
  <2> HIDE DEF got
  <2> QED BY <1>2, <1>3
<1> HIDE DEF got
<1> QED BY <1>4, Zenon DEF got, seen

\* A result reaches the client as it was recorded, however the cards fell, with the
\* cards of a showdown only.
THEOREM ResultAlwaysArrives ==
  ASSUME MaxSeats <= 100
  PROVE  Spec => []ResultArrives
<1>1. IInv /\ Sized(game.lastHandResult) => ResultArrives
  <2> SUFFICES ASSUME IInv, Sized(game.lastHandResult) PROVE ResultArrives
    OBVIOUS
  <2>1. game.lastHandResult \in Result
    BY TableTypes DEF Table
  <2>2. \A n \in {0, 5}, scores \in Scores :
          LET result == game.lastHandResult
              hole(p) == IF result.isShowdown THEN HoleOf(p) ELSE <<NoCard, NoCard>>
              Recorded(e) ==
                [playerId |-> e.playerId, handRank |-> HandRank(e, scores),
                 folded |-> e.folded, chipsWon |-> e.chipsWon, hole |-> hole(e.playerId)]
              got == ReadResult(WriteRow(<<>>, ResultRow(result, BoardOf(n), scores)))
          IN  /\ got.unread = <<>>
              /\ got.totalPot = result.totalPot /\ got.isShowdown = result.isShowdown
              /\ got.community = BoardOf(n)
              /\ got.players = {Recorded(e) : e \in result.players}
    BY <2>1, ResultSeen, Zenon
  <2> QED BY <2>2, Zenon DEF ResultArrives
<1> QED BY <1>1, SizedInductive, PTL

=============================================================================
