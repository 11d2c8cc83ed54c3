------------------------- MODULE HoldemMoneyProofs -------------------------
(***************************************************************************)
(* The money on the table, for any number of players, seats and chips.  The  *)
(* payout of a pot hands out the pot; the pots and the bets together never    *)
(* hold more than the players have bet in this hand; and so every call is a   *)
(* step of the ledger of TableLedger.tla.  The result of a showdown is the    *)
(* payout made, and nobody wins more from another than it put in itself.      *)
(***************************************************************************)
EXTENDS HoldemTurnProofs

-----------------------------------------------------------------------------
(* The payout of one pot.                                                   *)

\* The seats stand at different distances from the dealer.
LEMMA DealerOrder ==
  ASSUME NEW g \in Table
  PROVE  /\ \A i \in DOMAIN g.seats : FromDealer(g, i) \in Nat
         /\ \A i, j \in DOMAIN g.seats : FromDealer(g, i) = FromDealer(g, j) => i = j
<1> DEFINE N == Len(g.seats)
           start == IF g.dealerIndex < N THEN g.dealerIndex + 1 ELSE 0
           a(i) == (i - 1) - start
<1>1. N \in Nat /\ DOMAIN g.seats = 1..N /\ g.dealerIndex \in Nat
  BY SeatsAre DEF Table
<1>2. start \in 0..N
  <2> HIDE DEF N
  <2> QED BY <1>1
<1>3. \A i \in 1..N : FromDealer(g, i) = a(i) % N
  BY DEF FromDealer
<1> HIDE DEF N, start
<1>4. \A i \in 1..N : N \in Nat \ {0} /\ i \in Int /\ a(i) \in Int /\ a(i) >= -N /\ a(i) < N
  BY <1>1, <1>2
<1> DEFINE b(i) == IF a(i) >= 0 THEN a(i) ELSE a(i) + N
<1> HIDE DEF a
<1>5. ASSUME NEW i \in 1..N PROVE a(i) % N = b(i)
  <2>1. CASE a(i) >= 0
    BY <1>4, <2>1
  <2>2. CASE a(i) < 0
    <3> DEFINE x == a(i)
    <3>1. x \in Int /\ x < 0 /\ x >= -N /\ N \in Nat \ {0}
      BY <1>4, <2>2
    <3> HIDE DEF x
    <3>2. x % N = x + N
      BY <3>1
    <3> QED BY <2>2, <3>1, <3>2 DEF x
  <2> QED BY <1>4, <2>1, <2>2
<1>6. \A i \in 1..N : b(i) \in Nat
  BY <1>4
<1>7. ASSUME NEW i \in 1..N, NEW j \in 1..N, b(i) = b(j) PROVE i = j
  <2>1. a(j) - a(i) = j - i /\ i - j < N /\ j - i < N
    BY <1>1, <1>2 DEF a
  <2> QED BY <1>4, <1>7, <2>1
<1> QED BY <1>1, <1>3, <1>5, <1>6, <1>7

\* Of a set whose elements have different ranks, r have fewer than r before them.
LEMMA FirstOnes ==
  ASSUME NEW W, IsFiniteSet(W), NEW d \in [W -> Nat],
         \A x, y \in W : d[x] = d[y] => x = y,
         NEW r \in Nat, r <= Cardinality(W), NEW before,
         \A x \in W : before[x] = {y \in W : d[y] < d[x]}
  PROVE  Cardinality({x \in W : Cardinality(before[x]) < r}) = r
<1> DEFINE X == {x \in W : Cardinality(before[x]) < r}
<1>1. X \in SUBSET W /\ IsFiniteSet(X) /\ IsFiniteSet(W \ X)
  BY FS_Subset
<1>2. Cardinality(X) \in Nat /\ Cardinality(W) \in Nat
  BY <1>1, FS_CardinalityType
<1>3. ASSUME NEW x \in W
      PROVE  /\ IsFiniteSet(before[x]) /\ Cardinality(before[x]) \in Nat
             /\ before[x] \in SUBSET W
  <2>1. before[x] \in SUBSET W
    OBVIOUS
  <2>2. IsFiniteSet(before[x])
    BY <2>1, FS_Subset
  <2> QED BY <2>1, <2>2, FS_CardinalityType
<1>4. ASSUME NEW T \in SUBSET W, T # {}
      PROVE  /\ \E m \in T : \A x \in T : d[m] <= d[x]
             /\ \E m \in T : \A x \in T : d[x] <= d[m]
  <2> DEFINE D == {d[x] : x \in T}
  <2>1. D \in SUBSET Nat /\ D # {}
    BY <1>4
  <2>2. PICK N \in Nat : \A k \in D : k <= N
    <3>1. IsFiniteSet(T)
      BY FS_Subset
    <3> DEFINE e == [x \in T |-> d[x]]
    <3>2. e \in [T -> Nat]
      OBVIOUS
    <3>3. \E N \in Nat : \A x \in T : e[x] <= N
      <4> HIDE DEF e
      <4> QED BY <3>1, <3>2, FunctionIsBounded
    <3> QED BY <3>3
  <2>3. \E n \in D : \A k \in D : n <= k
    <3> HIDE DEF D
    <3> QED BY <2>1, LeastNat
  <2>4. \E n \in D : \A k \in D : k <= n
    <3> HIDE DEF D
    <3> QED BY <2>1, <2>2, MaxOfBounded
  <2> QED BY <2>3, <2>4
<1>5. Cardinality(X) <= r
  <2>1. CASE X = {}
    BY <2>1, FS_EmptySet
  <2>2. CASE X # {}
    <3>1. PICK m \in X : \A x \in X : d[x] <= d[m]
      <4> HIDE DEF X
      <4> QED BY <1>1, <1>4, <2>2
    <3>2. X \ {m} \in SUBSET before[m]
      <4> SUFFICES ASSUME NEW x \in X, x # m PROVE x \in before[m]
        OBVIOUS
      <4>1. d[x] <= d[m] /\ d[x] # d[m] /\ d[x] \in Nat /\ d[m] \in Nat /\ x \in W /\ m \in W
        BY <3>1
      <4> QED BY <4>1
    <3>3. m \in W /\ Cardinality(before[m]) < r
      OBVIOUS
    <3> HIDE DEF X
    <3>4. Cardinality(X \ {m}) = Cardinality(X) - 1
      BY <1>1, FS_RemoveElement
    <3>5. Cardinality(X \ {m}) <= Cardinality(before[m])
      BY <1>3, <3>2, <3>3, FS_Subset
    <3> QED BY <1>2, <1>3, <3>3, <3>4, <3>5
  <2> QED BY <2>1, <2>2
<1>6. Cardinality(X) >= r
  <2> SUFFICES ASSUME Cardinality(X) < r PROVE FALSE
    BY <1>2
  <2>1. W \ X # {}
    <3>1. ASSUME W \ X = {} PROVE FALSE
      <4>1. X = W
        BY <3>1
      <4> HIDE DEF X
      <4> QED BY <1>2, <4>1
    <3> QED BY <3>1
  <2>2. PICK m \in W \ X : \A x \in W \ X : d[m] <= d[x]
    <3>1. W \ X \in SUBSET W
      OBVIOUS
    <3> HIDE DEF X
    <3> QED BY <1>4, <2>1, <3>1
  <2>3. before[m] \in SUBSET X
    <3> SUFFICES ASSUME NEW x \in before[m], x \notin X PROVE FALSE
      OBVIOUS
    <3>1. x \in W /\ d[x] < d[m] /\ d[x] \in Nat /\ d[m] \in Nat
      OBVIOUS
    <3>2. d[m] <= d[x]
      BY <2>2, <3>1
    <3> QED BY <3>1, <3>2
  <2>4. Cardinality(before[m]) <= Cardinality(X)
    <3> HIDE DEF X
    <3> QED BY <1>1, <2>3, FS_Subset
  <2>5. Cardinality(before[m]) < r
    BY <1>2, <1>3, <2>4
  <2> QED BY <2>5
<1> QED BY <1>2, <1>5, <1>6

\* A pot that somebody can claim is handed out, to the last chip; a pot that
\* nobody can is not.
LEMMA PotPaidOut ==
  ASSUME NEW g \in Table, NEW pot \in Pot, NEW scores, NEW s,
         s \in [DOMAIN g.seats -> Nat],
         \A i \in DOMAIN g.seats : s[i] = Gain(g, pot, scores, i)
  PROVE  /\ Winners(g, pot, scores) = {} => SumSeq(s) = 0
         /\ Winners(g, pot, scores) # {} => SumSeq(s) = pot.amount
<1> DEFINE W == Winners(g, pot, scores)
           N == Len(g.seats)
           n == Cardinality(W)
           q == pot.amount \div n
           r == pot.amount % n
           before == [i \in W |-> {j \in W : FromDealer(g, j) < FromDealer(g, i)}]
           d == [i \in W |-> FromDealer(g, i)]
           X == {i \in W : Cardinality(before[i]) < r}
           even == [i \in 1..N |-> IF i \in W THEN q ELSE 0]
           odd == [i \in 1..N |-> IF i \in X THEN 1 ELSE 0]
<1>1. N \in Nat /\ DOMAIN g.seats = 1..N
  BY SeatsAre DEF Table
<1>2. W \in SUBSET (1..N) /\ X \in SUBSET (1..N)
  BY <1>1 DEF Winners, Contenders
<1>3. pot.amount \in Nat
  BY DEF Pot
<1>4. \A i \in 1..N : s[i] = IF i \in W THEN q + odd[i] ELSE 0
  BY <1>1 DEF Gain
<1>5. CASE W = {}
  <2>1. \A i \in 1..N : s[i] = 0
    BY <1>4, <1>5
  <2> QED BY <1>1, <1>5, <2>1, SumSeqZero
<1>6. CASE W # {}
  <2>1. IsFiniteSet(W) /\ n \in Nat \ {0}
    <3> HIDE DEF W
    <3>1. IsFiniteSet(W)
      BY <1>1, <1>2, PositionsUpTo, FS_Subset
    <3> QED BY <1>6, <3>1, FS_CardinalityType, FS_EmptySet
  <2>2. q \in Nat /\ r \in Nat /\ r < n /\ pot.amount = q * n + r
    <3> HIDE DEF n
    <3> QED BY <1>3, <2>1
  <2>3. Cardinality(X) = r
    <3>1. d \in [W -> Nat] /\ \A x, y \in W : d[x] = d[y] => x = y
      <4>1. \A i \in W : i \in DOMAIN g.seats
        BY <1>1, <1>2
      <4> HIDE DEF W
      <4> QED BY <4>1, DealerOrder
    <3>2. \A x \in W : before[x] = {y \in W : d[y] < d[x]}
      OBVIOUS
    <3>3. r <= Cardinality(W)
      BY <2>1, <2>2
    <3> HIDE DEF W, d, before, r
    <3> QED BY <2>1, <2>2, <3>1, <3>2, <3>3, FirstOnes
  <2> HIDE DEF W, q, r, n, X
  <2>4. even \in [1..N -> Nat] /\ odd \in [1..N -> Nat]
    BY <2>2
  <2>5. SumSeq(even) = q * Cardinality(W)
    <3>1. \A i \in 1..N : even[i] = IF i \in W THEN q ELSE 0
      OBVIOUS
    <3> HIDE DEF even
    <3> QED BY <1>1, <1>2, <2>2, <2>4, <3>1, SumSeqSame
  <2>6. SumSeq(odd) = 1 * Cardinality(X) 
    <3>1. \A i \in 1..N : odd[i] = IF i \in X THEN 1 ELSE 0
      OBVIOUS
    <3>2. 1 \in Nat
      OBVIOUS
    <3> HIDE DEF odd
    <3> QED BY <1>1, <1>2, <2>4, <3>1, <3>2, SumSeqSame
  <2>7. \A i \in 1..N : s[i] = even[i] + odd[i]
    <3>1. \A i \in 1..N : i \notin W => odd[i] = 0
      BY DEF X
    <3>2. \A i \in 1..N : odd[i] \in Nat /\ even[i] = IF i \in W THEN q ELSE 0
      BY <2>4
    <3>3. \A i \in 1..N : s[i] = IF i \in W THEN q + odd[i] ELSE 0
      BY <1>4
    <3> HIDE DEF odd, even
    <3> QED BY <2>2, <3>1, <3>2, <3>3
  <2>8. SumSeq(s) = SumSeq(even) + SumSeq(odd)
    <3>1. s \in [1..N -> Nat]
      BY <1>1
    <3> HIDE DEF even, odd
    <3> QED BY <1>1, <2>4, <2>7, <3>1, SumSeqAdd
  <2>9. pot.amount = q * Cardinality(W) + r
    BY <2>2 DEF n
  <2> QED BY <1>6, <2>2, <2>3, <2>5, <2>6, <2>8, <2>9 DEF W
<1> QED BY <1>5, <1>6

\* The members the sums run over.
LEMMA MoneyTypes ==
  ASSUME NEW g \in Table
  PROVE  /\ g.seats \in Seq(Seat) /\ g.sidePots \in Seq(Pot)
         /\ Len(g.seats) \in Nat /\ DOMAIN g.seats = 1..Len(g.seats)
         /\ Len(g.sidePots) \in Nat /\ DOMAIN g.sidePots = 1..Len(g.sidePots)
         /\ \A i \in DOMAIN g.seats :
              /\ g.seats[i] \in Seat /\ g.seats[i].chips \in Nat
              /\ g.seats[i].currentBet \in Nat /\ g.seats[i].totalBetThisHand \in Nat
              /\ g.seats[i].inHand \in BOOLEAN /\ g.seats[i].playerId \in Players
         /\ \A k \in DOMAIN g.sidePots :
              /\ g.sidePots[k] \in Pot /\ g.sidePots[k].amount \in Nat
<1>1. g.seats \in Seq(Seat) /\ g.sidePots \in Seq(Pot)
  BY DEF Table
<1>2. /\ Len(g.seats) \in Nat /\ DOMAIN g.seats = 1..Len(g.seats)
      /\ \A i \in DOMAIN g.seats : g.seats[i] \in Seat
  BY <1>1, SeatsAre
<1>3. /\ Len(g.sidePots) \in Nat /\ DOMAIN g.sidePots = 1..Len(g.sidePots)
      /\ \A k \in DOMAIN g.sidePots : g.sidePots[k] \in Pot
  BY <1>1, LenProperties, ElementOfSeq
<1>4. \A s \in Seat : /\ s.chips \in Nat /\ s.currentBet \in Nat /\ s.totalBetThisHand \in Nat
                      /\ s.inHand \in BOOLEAN /\ s.playerId \in Players
  BY DEF Seat
<1>5. \A pot \in Pot : pot.amount \in Nat
  BY DEF Pot
<1> QED BY <1>1, <1>2, <1>3, <1>4, <1>5

\* What the seats win is what the pots that somebody can claim hold.
LEMMA PotsPaidOut ==
  ASSUME NEW g \in Table, NEW scores, NEW won \in [DOMAIN g.seats -> Nat],
         \A i \in DOMAIN g.seats : won[i] = Won(g, scores, i)
  PROVE  /\ \A claimed \in [DOMAIN g.sidePots -> Nat] :
              (\A k \in DOMAIN g.sidePots :
                 claimed[k] = IF Winners(g, g.sidePots[k], scores) = {} THEN 0
                              ELSE g.sidePots[k].amount)
              => SumSeq(won) = SumSeq(claimed)
         /\ SumSeq(won) <= PotTotal(g)
<1> DEFINE N == Len(g.seats)
           M == Len(g.sidePots)
           amount == [k \in 1..M |-> g.sidePots[k].amount]
           G == [i \in 1..N |-> [k \in 1..M |-> Gain(g, g.sidePots[k], scores, i)]]
           C == [k \in 1..M |-> [i \in 1..N |-> Gain(g, g.sidePots[k], scores, i)]]
           Claims(claimed) == \A k \in 1..M :
             claimed[k] = IF Winners(g, g.sidePots[k], scores) = {} THEN 0 ELSE amount[k]
<1>1. /\ N \in Nat /\ DOMAIN g.seats = 1..N /\ g.seats \in Seq(Seat)
      /\ M \in Nat /\ DOMAIN g.sidePots = 1..M
      /\ \A k \in 1..M : g.sidePots[k] \in Pot /\ amount[k] \in Nat
  BY MoneyTypes
<1>2. \A i \in 1..N : \A k \in 1..M : Gain(g, g.sidePots[k], scores, i) \in Nat
  BY <1>1, GainType
<1>3. /\ G \in [1..N -> [1..M -> Nat]] /\ C \in [1..M -> [1..N -> Nat]]
      /\ \A k \in 1..M : \A i \in 1..N : C[k][i] = G[i][k]
  <2> HIDE DEF N, M
  <2> QED BY <1>2
<1>4. won \in [1..N -> Nat] /\ \A i \in 1..N : won[i] = SumSeq(G[i])
  <2>1. \A i \in 1..N : Won(g, scores, i) = SumSeq(G[i])
    BY <1>1 DEF Won
  <2> QED BY <1>1, <2>1
<1>5. ASSUME NEW k \in 1..M
      PROVE  SumSeq(C[k]) =
               IF Winners(g, g.sidePots[k], scores) = {} THEN 0 ELSE amount[k]
  <2> DEFINE s == C[k]
  <2>1. s \in [1..N -> Nat] /\ \A i \in 1..N : s[i] = Gain(g, g.sidePots[k], scores, i)
    <3> HIDE DEF N, M
    <3> QED BY <1>2
  <2>2. s \in [DOMAIN g.seats -> Nat] /\ \A i \in DOMAIN g.seats : s[i] = Gain(g, g.sidePots[k], scores, i)
    BY <1>1, <2>1
  <2> DEFINE pot == g.sidePots[k]
  <2>3. pot \in Pot /\ amount[k] = pot.amount
    BY <1>1
  <2>4. \A i \in DOMAIN g.seats : s[i] = Gain(g, pot, scores, i)
    BY <2>2
  <2> HIDE DEF s, pot, amount
  <2>5. /\ Winners(g, pot, scores) = {} => SumSeq(s) = 0
        /\ Winners(g, pot, scores) # {} => SumSeq(s) = pot.amount
    BY <2>2, <2>3, <2>4, PotPaidOut
  <2> QED BY <2>3, <2>5 DEF s, pot
<1>6. ASSUME NEW claimed \in [1..M -> Nat], Claims(claimed)
      PROVE  SumSeq(won) = SumSeq(claimed)
  <2>1. \A k \in 1..M : claimed[k] = SumSeq(C[k])
    BY <1>5, <1>6
  <2> HIDE DEF N, M, G, C, Claims
  <2>2. N \in Nat /\ M \in Nat /\ claimed \in [1..M -> Nat]
    BY <1>1, <1>6
  <2>3. G \in [1..N -> [1..M -> Nat]] /\ C \in [1..M -> [1..N -> Nat]]
    BY <1>3
  <2>4. \A k \in 1..M : \A i \in 1..N : C[k][i] = G[i][k]
    BY <1>3
  <2>5. won \in [1..N -> Nat]
    BY <1>4
  <2>6. \A i \in 1..N : won[i] = SumSeq(G[i])
    BY <1>4
  <2> QED BY <2>1, <2>2, <2>3, <2>4, <2>5, <2>6, SumExchange, ZenonT(60)
<1>7. SumSeq(won) <= SumSeq(amount)
  <2> DEFINE claimed == [k \in 1..M |-> IF Winners(g, g.sidePots[k], scores) = {} THEN 0
                                        ELSE amount[k]]
  <2>1. claimed \in [1..M -> Nat] /\ Claims(claimed) /\ amount \in [1..M -> Nat]
    BY <1>1
  <2>2. \A k \in 1..M : claimed[k] <= amount[k]
    <3>1. \A k \in 1..M : amount[k] \in Nat /\ claimed[k] \in {0, amount[k]}
      BY <1>1
    <3> HIDE DEF claimed, amount, M
    <3> QED BY <3>1
  <2> HIDE DEF claimed, Claims, amount, M
  <2>3. SumSeq(claimed) <= SumSeq(amount)
    BY <1>1, <2>1, <2>2, SumSeqMono
  <2> QED BY <1>6, <2>1, <2>3
<1>8. PotTotal(g) = SumSeq(amount)
  BY <1>1 DEF PotTotal
<1> QED BY <1>1, <1>6, <1>7, <1>8

\* Who contends for no pot wins nothing.
LEMMA WinsNothing ==
  ASSUME NEW g \in Table, NEW scores, NEW i \in DOMAIN g.seats,
         \A k \in DOMAIN g.sidePots : i \notin Contenders(g, g.sidePots[k])
  PROVE  Won(g, scores, i) = 0
<1> DEFINE M == Len(g.sidePots)
           s == [k \in 1..M |-> Gain(g, g.sidePots[k], scores, i)]
<1>1. M \in Nat /\ DOMAIN g.sidePots = 1..M
  BY MoneyTypes
<1>2. \A k \in 1..M : Gain(g, g.sidePots[k], scores, i) = 0
  BY <1>1 DEF Gain, Winners
<1>3. Won(g, scores, i) = SumSeq(s)
  BY <1>1 DEF Won
<1>4. s \in [1..M -> Nat] /\ \A k \in 1..M : s[k] = 0
  BY <1>2
<1> HIDE DEF s, M
<1> QED BY <1>1, <1>3, <1>4, SumSeqZero

\* A player of no hand and one who folded win nothing.
LEMMA OnlyPlayersWin ==
  ASSUME NEW g \in Table, InOrder(g.seats), PotsOwned(g), NEW scores,
         NEW i \in DOMAIN g.seats, ~g.seats[i].inHand \/ g.seats[i].folded
  PROVE  Won(g, scores, i) = 0
<1> SUFFICES ASSUME NEW k \in DOMAIN g.sidePots, i \in Contenders(g, g.sidePots[k])
             PROVE  FALSE
  BY WinsNothing
<1>1. g.seats[i].playerId \in g.sidePots[k].eligible /\ ~g.seats[i].folded
  BY DEF Contenders
<1>2. PICK j \in DOMAIN g.seats :
        g.seats[j].playerId = g.seats[i].playerId /\ g.seats[j].inHand
  BY <1>1 DEF PotsOwned, OwnedPot, InTheHand
<1>3. i \in Nat /\ j \in Nat
  BY MoneyTypes
<1>4. i = j
  BY <1>2, <1>3 DEF InOrder
<1> QED BY <1>1, <1>2, <1>4

-----------------------------------------------------------------------------
(* The bets of a street become pots.                                        *)

\* The smaller of two numbers.
Lesser(a, b) == IF a <= b THEN a ELSE b

\* The chips in those of the pots that are in E.
ChipsIn(pots, E) ==
  SumSeq([k \in DOMAIN pots |-> IF pots[k] \in E THEN pots[k].amount ELSE 0])

\* The bets of the seats up to a cap.
CappedBets(g, cap) ==
  SumSeq([i \in DOMAIN g.seats |-> Lesser(g.seats[i].currentBet, cap)])

\* A layer is what the bets rise by between two levels.
LEMMA ShareIs ==
  ASSUME NEW bet \in Nat, NEW below \in Nat, NEW level \in Nat, below < level
  PROVE  Lesser(bet, below) + Share(bet, below, level) = Lesser(bet, level)
<1>1. Min({bet, level}) = Lesser(bet, level)
  BY MinOfTwo DEF Lesser
<1> DEFINE x == Lesser(bet, level)
<1>2. x \in Nat /\ x - below \in Int
  BY DEF Lesser
<1>3. Share(bet, below, level) = Max({0, x - below})
  BY <1>1 DEF Share
<1> HIDE DEF x
<1>4. Max({0, x - below}) = IF 0 >= x - below THEN 0 ELSE x - below
  BY <1>2, MaxOfTwo
<1> QED BY <1>2, <1>3, <1>4 DEF x, Lesser

\* The sum of the numbers chosen from some pots is a number.
LEMMA ChipsInType ==
  ASSUME NEW pots \in Seq(Pot), NEW E
  PROVE  ChipsIn(pots, E) \in Nat
<1> DEFINE s == [k \in DOMAIN pots |-> IF pots[k] \in E THEN pots[k].amount ELSE 0]
<1>1. DOMAIN pots = 1..Len(pots) /\ Len(pots) \in Nat /\ \A k \in DOMAIN pots : pots[k] \in Pot
  BY LenProperties, ElementOfSeq
<1>2. \A pot \in Pot : pot.amount \in Nat
  BY DEF Pot
<1>3. s \in [1..Len(pots) -> Nat]
  BY <1>1, <1>2
<1> HIDE DEF s
<1>4. SumSeq(s) \in Nat
  BY <1>1, <1>3, SeqIntro, SumSeqType
<1> QED BY <1>4 DEF ChipsIn, s

\* One pot more.
LEMMA ChipsInAppend ==
  ASSUME NEW pots \in Seq(Pot), NEW pot \in Pot, NEW E
  PROVE  ChipsIn(Append(pots, pot), E) =
           ChipsIn(pots, E) + IF pot \in E THEN pot.amount ELSE 0
<1> DEFINE N == Len(pots)
           more == Append(pots, pot)
           s == [k \in 1..N |-> IF pots[k] \in E THEN pots[k].amount ELSE 0]
           r == [k \in 1..N + 1 |-> IF more[k] \in E THEN more[k].amount ELSE 0]
<1>1. /\ DOMAIN pots = 1..N /\ N \in Nat /\ \A k \in 1..N : pots[k] \in Pot
      /\ DOMAIN more = 1..N + 1
      /\ more[N + 1] = pot /\ \A k \in 1..N : more[k] = pots[k]
  BY LenProperties, ElementOfSeq, AppendProperties
<1>2. \A k \in 1..N + 1 : more[k] \in Pot
  <2>1. \A k \in 1..N + 1 : k \in 1..N \/ k = N + 1
    <3> HIDE DEF N
    <3> QED BY <1>1
  <2> HIDE DEF N, more
  <2> QED BY <1>1, <2>1
<1>3. \A x \in Pot : x.amount \in Nat
  BY DEF Pot
<1> HIDE DEF N, more
<1>4. s \in [1..N -> Nat] /\ r \in [1..N + 1 -> Nat] /\ \A k \in 1..N : r[k] = s[k]
  <2>1. \A k \in 1..N : k \in 1..N + 1
    BY <1>1
  <2> QED BY <1>1, <1>2, <1>3, <2>1
<1>5. r[N + 1] = IF pot \in E THEN pot.amount ELSE 0
  <2>1. N + 1 \in 1..N + 1
    BY <1>1
  <2> QED BY <1>1, <2>1
<1>6. ChipsIn(pots, E) = SumSeq(s) /\ ChipsIn(more, E) = SumSeq(r)
  BY <1>1 DEF ChipsIn
<1> HIDE DEF s, r
<1>7. SumSeq(r) = SumSeq(s) + r[N + 1]
  BY <1>1, <1>4, SumSeqAppend
<1> QED BY <1>5, <1>6, <1>7 DEF more

\* The layers of a street put no more chips into the pots of E than the bets
\* hold up to a cap that no layer in E is above.
LEMMA LayersBounded ==
  ASSUME NEW g \in Table, NEW E, NEW cap \in Nat,
         \A below \in Nat : \A level \in BetLevels(g) :
           /\ below < level /\ \A l \in BetLevels(g) : below < l => level <= l
           /\ Layer(g, below, level) \in E
           => level <= cap
  PROVE  ChipsIn(Layers(g), E) <= ChipsIn(g.sidePots, E) + CappedBets(g, cap)
<1> DEFINE N == Len(g.seats)
           b(i) == Lesser(g.seats[i].currentBet, cap)
           upto(level) == [i \in 1..N |-> Lesser(b(i), level)]
           capped == [i \in 1..N |-> b(i)]
           S == {acc \in LoopState :
                   ChipsIn(acc.pots, E) <= ChipsIn(g.sidePots, E) + SumSeq(upto(acc.level))}
<1>1. /\ N \in Nat /\ DOMAIN g.seats = 1..N /\ g.seats \in Seq(Seat) /\ g.sidePots \in Seq(Pot)
      /\ \A i \in 1..N : g.seats[i].currentBet \in Nat
  BY MoneyTypes
<1>2. /\ \A i \in 1..N : b(i) \in Nat
      /\ capped \in [1..N -> Nat] /\ SumSeq(capped) = CappedBets(g, cap)
      /\ \A level \in Nat : upto(level) \in [1..N -> Nat]
  <2>1. \A i \in 1..N : b(i) \in Nat
    BY <1>1 DEF Lesser
  <2>2. SumSeq(capped) = CappedBets(g, cap)
    BY <1>1 DEF CappedBets
  <2> HIDE DEF b
  <2> QED BY <2>1, <2>2 DEF Lesser
<1>3. \A level \in Nat : SumSeq(upto(level)) \in Nat
  <2> HIDE DEF upto
  <2> QED BY <1>1, <1>2, SeqIntro, SumSeqType
<1>4. [level |-> 0, pots |-> g.sidePots] \in S
  <2>1. ChipsIn(g.sidePots, E) \in Nat
    BY <1>1, ChipsInType
  <2>2. SumSeq(upto(0)) \in Nat
    BY <1>3
  <2> HIDE DEF upto
  <2> QED BY <1>1, <2>1, <2>2 DEF LoopState
<1>5. ASSUME NEW acc \in S PROVE AddLayer(g, acc) \in S
  <2> DEFINE higher == {l \in BetLevels(g) : l > acc.level}
             level == Min(higher)
             pot == Layer(g, acc.level, level)
             next == AddLayer(g, acc)
             share == [i \in 1..N |-> IF i \in Contributors(g)
                         THEN Share(g.seats[i].currentBet, acc.level, level) ELSE 0]
  <2>1. acc \in LoopState /\ acc.level \in Nat /\ acc.pots \in Seq(Pot)
    BY DEF LoopState
  <2>2. next \in LoopState
    BY <1>1, <2>1, AddLayerType
  <2>3. CASE higher = {}
    BY <2>3 DEF AddLayer
  <2>4. CASE higher # {}
    <3>1. higher \in SUBSET Nat
      BY <1>1, BetLevelsType
    <3>2. level \in higher /\ \A l \in higher : level <= l
      <4> HIDE DEF higher
      <4> QED BY <2>4, <3>1, MinOfNats
    <3>3. /\ level \in BetLevels(g) /\ level \in Nat /\ acc.level < level
          /\ \A l \in BetLevels(g) : acc.level < l => level <= l
      BY <2>1, <3>1, <3>2
    <3>4. /\ next.level = level
          /\ \/ next.pots = acc.pots
             \/ next.pots = Append(acc.pots, pot)
      BY <2>4 DEF AddLayer
    <3> HIDE DEF level, higher
    <3>5. pot \in Pot /\ pot.amount = SumSeq(share)
      <4>1. pot \in Pot
        BY <1>1, <2>1, <3>3, LayerType
      <4> QED BY <1>1, <4>1 DEF Layer
    <3>6. share \in [1..N -> Nat]
      <4>1. \A i \in 1..N : Share(g.seats[i].currentBet, acc.level, level) \in Nat
        BY <1>1, <2>1, <3>3, ShareType
      <4> QED BY <4>1
    <3>7. SumSeq(upto(acc.level)) <= SumSeq(upto(level))
      <4>1. \A i \in 1..N : upto(acc.level)[i] <= upto(level)[i]
        <5> HIDE DEF b
        <5> QED BY <1>2, <2>1, <3>3 DEF Lesser
      <4> HIDE DEF upto
      <4> QED BY <1>1, <1>2, <2>1, <3>3, <4>1, SumSeqMono
    <3>8. ASSUME pot \in E
          PROVE  SumSeq(upto(acc.level)) + SumSeq(share) <= SumSeq(upto(level))
      <4> DEFINE both == [i \in 1..N |-> upto(acc.level)[i] + share[i]]
      <4>1. level <= cap
        BY <2>1, <3>3, <3>8
      <4>2. ASSUME NEW i \in 1..N
            PROVE  upto(acc.level)[i] + share[i] <= upto(level)[i]
        <5> DEFINE bet == g.seats[i].currentBet
                   x == Share(bet, acc.level, level)
        <5>1. bet \in Nat
          BY <1>1
        <5>2. x \in Nat /\ Lesser(bet, acc.level) + x = Lesser(bet, level)
          <6> HIDE DEF bet
          <6> QED BY <2>1, <3>3, <5>1, ShareIs, ShareType
        <5>3. share[i] \in {0, x}
          OBVIOUS
        <5>4. upto(acc.level)[i] = Lesser(Lesser(bet, cap), acc.level)
              /\ upto(level)[i] = Lesser(Lesser(bet, cap), level)
          OBVIOUS
        <5> HIDE DEF bet, x, share, upto
        <5> QED BY <2>1, <3>3, <4>1, <5>1, <5>2, <5>3, <5>4 DEF Lesser
      <4>3. both \in [1..N -> Nat] /\ \A i \in 1..N : both[i] = upto(acc.level)[i] + share[i]
        <5>1. \A i \in 1..N : upto(acc.level)[i] \in Nat /\ share[i] \in Nat
          <6>1. upto(acc.level) \in [1..N -> Nat]
            BY <1>2, <2>1
          <6> HIDE DEF upto, share
          <6> QED BY <3>6, <6>1
        <5> HIDE DEF upto, share
        <5> QED BY <5>1
      <4> HIDE DEF upto, share, both
      <4>4. SumSeq(both) = SumSeq(upto(acc.level)) + SumSeq(share)
        <5>1. upto(acc.level) \in [1..N -> Nat] /\ N \in Nat
          BY <1>1, <1>2, <2>1
        <5> HIDE DEF N
        <5> QED BY <3>6, <4>3, <5>1, SumSeqAdd
      <4>5. \A i \in 1..N : both[i] <= upto(level)[i]
        BY <4>2, <4>3
      <4>6. SumSeq(both) <= SumSeq(upto(level))
        BY <1>1, <1>2, <3>3, <4>3, <4>5, SumSeqMono
      <4> QED BY <4>4, <4>6
    <3>9. /\ SumSeq(upto(acc.level)) \in Nat /\ SumSeq(upto(level)) \in Nat
          /\ ChipsIn(acc.pots, E) \in Nat /\ ChipsIn(g.sidePots, E) \in Nat
          /\ SumSeq(share) \in Nat
          /\ ChipsIn(acc.pots, E) <= ChipsIn(g.sidePots, E) + SumSeq(upto(acc.level))
      <4>1. SumSeq(share) \in Nat
        <5> HIDE DEF share
        <5> QED BY <1>1, <3>6, SeqIntro, SumSeqType
      <4> QED BY <1>1, <1>3, <2>1, <3>3, <4>1, ChipsInType
    <3>10. ChipsIn(next.pots, E) <= ChipsIn(g.sidePots, E) + SumSeq(upto(level))
      <4> HIDE DEF upto, share, next, pot
      <4>1. CASE next.pots = acc.pots
        BY <3>7, <3>9, <4>1
      <4>2. CASE next.pots = Append(acc.pots, pot)
        <5>1. ChipsIn(next.pots, E) = ChipsIn(acc.pots, E) + IF pot \in E THEN pot.amount ELSE 0
          BY <2>1, <3>5, <4>2, ChipsInAppend
        <5>2. CASE pot \in E
          BY <3>5, <3>8, <3>9, <5>1, <5>2
        <5>3. CASE pot \notin E
          BY <3>7, <3>9, <5>1, <5>3
        <5> QED BY <5>2, <5>3
      <4> QED BY <3>4, <4>1, <4>2
    <3> HIDE DEF upto, next
    <3> QED BY <2>2, <3>4, <3>10 DEF next
  <2> QED BY <2>3, <2>4
<1>6. PICK acc \in S : Layers(g) = acc.pots
  <2> HIDE DEF S
  <2> QED BY <1>4, <1>5, LayersKeep
<1>7. acc.level \in Nat /\ acc.pots \in Seq(Pot)
  BY DEF LoopState
<1>8. SumSeq(upto(acc.level)) <= SumSeq(capped)
  <2>1. \A i \in 1..N : upto(acc.level)[i] <= capped[i]
    <3> HIDE DEF b
    <3> QED BY <1>2, <1>7 DEF Lesser
  <2> HIDE DEF upto, capped
  <2> QED BY <1>1, <1>2, <1>7, <2>1, SumSeqMono
<1>9. /\ SumSeq(upto(acc.level)) \in Nat /\ SumSeq(capped) \in Nat
      /\ ChipsIn(acc.pots, E) \in Nat /\ ChipsIn(g.sidePots, E) \in Nat
  <2>1. SumSeq(capped) \in Nat
    <3> HIDE DEF capped
    <3> QED BY <1>1, <1>2, SeqIntro, SumSeqType
  <2> QED BY <1>1, <1>3, <1>7, <2>1, ChipsInType
<1>10. ChipsIn(acc.pots, E) <= ChipsIn(g.sidePots, E) + SumSeq(upto(acc.level))
  OBVIOUS
<1> HIDE DEF upto, capped, S
<1> QED BY <1>2, <1>6, <1>8, <1>9, <1>10

\* The bets of the street, and what the players have bet in this hand.
Bets(g) == SumSeq([i \in DOMAIN g.seats |-> g.seats[i].currentBet])
Staked(g) == SumSeq([i \in DOMAIN g.seats |-> g.seats[i].totalBetThisHand])

\* The sums are numbers.
LEMMA SumTypes ==
  ASSUME NEW g \in Table
  PROVE  /\ Bets(g) \in Nat /\ Staked(g) \in Nat /\ PotTotal(g) \in Nat
         /\ GetTotalPot(g) = PotTotal(g) + Bets(g)
         /\ PotTotal(g) = ChipsIn(g.sidePots, Pot)
<1> DEFINE N == Len(g.seats)
           bets == [i \in 1..N |-> g.seats[i].currentBet]
           staked == [i \in 1..N |-> g.seats[i].totalBetThisHand]
<1>1. /\ N \in Nat /\ DOMAIN g.seats = 1..N
      /\ bets \in [1..N -> Nat] /\ staked \in [1..N -> Nat]
  BY MoneyTypes
<1>2. Bets(g) = SumSeq(bets) /\ Staked(g) = SumSeq(staked)
  BY <1>1 DEF Bets, Staked
<1> HIDE DEF bets, staked, N
<1>3. Bets(g) \in Nat /\ Staked(g) \in Nat
  BY <1>1, <1>2, SeqIntro, SumSeqType
<1>4. PotTotal(g) \in Nat
  BY MoneyTypes, PotTotalType
<1>5. GetTotalPot(g) = PotTotal(g) + Bets(g)
  BY DEF GetTotalPot, Bets
<1>6. [k \in DOMAIN g.sidePots |-> g.sidePots[k].amount]
        = [k \in DOMAIN g.sidePots |->
             IF g.sidePots[k] \in Pot THEN g.sidePots[k].amount ELSE 0]
  BY MoneyTypes
<1>7. PotTotal(g) = ChipsIn(g.sidePots, Pot)
  BY <1>6 DEF PotTotal, ChipsIn
<1> QED BY <1>3, <1>4, <1>5, <1>7

\* CollectBetsToSidePots makes no chips.
LEMMA CollectAddsNothing ==
  ASSUME NEW g \in HandTable
  PROVE  GetTotalPot(CollectBetsToSidePots(g)) <= GetTotalPot(g)
<1> DEFINE c == CollectBetsToSidePots(g)
           N == Len(g.seats)
<1>1. g \in Table /\ c \in HandTable /\ c \in Table
  BY CollectIs DEF HandTable
<1>2. GetTotalPot(g) \in Nat /\ GetTotalPot(c) \in Nat
  BY <1>1, SumTypes
<1>3. CASE c = g
  BY <1>2, <1>3
<1>4. CASE c # g
  <2>1. /\ c.sidePots = Layers(g) /\ DOMAIN c.seats = DOMAIN g.seats
        /\ \A i \in DOMAIN g.seats : c.seats[i] = [g.seats[i] EXCEPT !.currentBet = 0]
    BY <1>4, CollectIs
  <2>2. N \in Nat /\ DOMAIN g.seats = 1..N /\ \A i \in 1..N : g.seats[i] \in Seat
    BY <1>1, MoneyTypes
  <2> DEFINE bets == [i \in 1..N |-> g.seats[i].currentBet]
             none == [i \in 1..N |-> c.seats[i].currentBet]
  <2>3. bets \in [1..N -> Nat] /\ Bets(g) = SumSeq(bets)
    BY <1>1, <2>2, MoneyTypes DEF Bets
  <2>4. Bets(c) = 0
    <3>1. \A i \in 1..N : c.seats[i].currentBet = 0
      BY <2>1, <2>2 DEF Seat
    <3>2. none \in [1..N -> Nat] /\ \A i \in 1..N : none[i] = 0
      BY <3>1
    <3>3. Bets(c) = SumSeq(none)
      BY <2>1, <2>2 DEF Bets
    <3> HIDE DEF none, N
    <3> QED BY <2>2, <3>2, <3>3, SumSeqZero
  <2>5. PICK cap \in Nat : \A i \in 1..N : bets[i] <= cap
    <3>1. IsFiniteSet(1..N)
      BY <2>2, PositionsUpTo
    <3> HIDE DEF bets, N
    <3> QED BY <2>3, <3>1, FunctionIsBounded
  <2>6. ChipsIn(Layers(g), Pot) <= ChipsIn(g.sidePots, Pot) + CappedBets(g, cap)
    <3>1. \A level \in BetLevels(g) : level <= cap
      BY <2>2, <2>5 DEF BetLevels, Contributors
    <3> QED BY <1>1, <3>1, LayersBounded
  <2>7. CappedBets(g, cap) = Bets(g)
    <3>1. \A i \in 1..N : Lesser(g.seats[i].currentBet, cap) = bets[i]
      BY <2>5 DEF Lesser
    <3>2. [i \in 1..N |-> Lesser(g.seats[i].currentBet, cap)] = bets
      BY <3>1
    <3> QED BY <2>2, <2>3, <3>2 DEF CappedBets
  <2>8. PotTotal(c) = ChipsIn(Layers(g), Pot) /\ GetTotalPot(c) = PotTotal(c) + Bets(c)
    BY <1>1, <2>1, SumTypes
  <2>9. /\ PotTotal(g) = ChipsIn(g.sidePots, Pot) /\ GetTotalPot(g) = PotTotal(g) + Bets(g)
        /\ PotTotal(g) \in Nat /\ Bets(g) \in Nat /\ PotTotal(c) \in Nat
    BY <1>1, SumTypes
  <2> HIDE DEF c
  <2>10. GetTotalPot(c) <= GetTotalPot(g)
    BY <2>4, <2>6, <2>7, <2>8, <2>9
  <2> QED BY <2>10 DEF c
<1> QED BY <1>3, <1>4

-----------------------------------------------------------------------------
(* What is on the table has been bet.                                       *)

\* The pots and the bets are covered by what the players of the hand have bet in
\* it, and nobody else has bet.
Bettor(s) == s.inHand \/ (s.currentBet = 0 /\ s.totalBetThisHand = 0)
Backed(g) == GetTotalPot(g) <= Staked(g) /\ \A i \in DOMAIN g.seats : Bettor(g.seats[i])

\* A seat with the same bets.
SameBets(s, t) ==
  /\ t.inHand = s.inHand /\ t.currentBet = s.currentBet
  /\ t.totalBetThisHand = s.totalBetThisHand

\* Between hands nothing is on the table.
LEMMA IdleBacked ==
  ASSUME NEW g \in IdleTable
  PROVE  Backed(g)
<1> DEFINE N == Len(g.seats)
           bets == [i \in 1..N |-> g.seats[i].currentBet]
           pots == [k \in DOMAIN g.sidePots |-> g.sidePots[k].amount]
<1>1. g \in Table /\ g.seats \in Seq(IdleSeat) /\ g.sidePots = <<>>
  BY DEF IdleTable
<1>2. N \in Nat /\ DOMAIN g.seats = 1..N /\ \A i \in 1..N : g.seats[i] \in IdleSeat
  BY <1>1, SeatsAre
<1>3. \A i \in 1..N : g.seats[i].currentBet = 0 /\ g.seats[i].totalBetThisHand = 0
  BY <1>2 DEF IdleSeat
<1>4. Bets(g) = 0
  <2>1. bets \in [1..N -> Nat] /\ \A i \in 1..N : bets[i] = 0
    BY <1>3
  <2>2. Bets(g) = SumSeq(bets)
    BY <1>2 DEF Bets
  <2> HIDE DEF bets, N
  <2> QED BY <1>2, <2>1, <2>2, SumSeqZero
<1>5. PotTotal(g) = 0
  <2>1. Len(g.sidePots) = 0 /\ DOMAIN g.sidePots = 1..0
    BY <1>1, MoneyTypes
  <2>2. pots \in [1..0 -> Nat] /\ \A k \in 1..0 : pots[k] = 0
    BY <2>1
  <2>3. PotTotal(g) = SumSeq(pots)
    BY DEF PotTotal
  <2> HIDE DEF pots
  <2> QED BY <2>2, <2>3, SumSeqZero
<1>6. GetTotalPot(g) <= Staked(g)
  BY <1>1, <1>4, <1>5, SumTypes
<1> QED BY <1>2, <1>3, <1>6 DEF Backed, Bettor

\* The same pots and the same bets are backed by the same.
LEMMA SameBetsBacked ==
  ASSUME NEW g, NEW h, Backed(g), h.sidePots = g.sidePots,
         DOMAIN h.seats = DOMAIN g.seats,
         \A i \in DOMAIN g.seats : SameBets(g.seats[i], h.seats[i])
  PROVE  Backed(h)
<1>1. /\ [i \in DOMAIN h.seats |-> h.seats[i].currentBet]
           = [i \in DOMAIN g.seats |-> g.seats[i].currentBet]
      /\ [i \in DOMAIN h.seats |-> h.seats[i].totalBetThisHand]
           = [i \in DOMAIN g.seats |-> g.seats[i].totalBetThisHand]
  BY DEF SameBets
<1>2. GetTotalPot(h) = GetTotalPot(g) /\ Staked(h) = Staked(g)
  BY <1>1 DEF GetTotalPot, PotTotal, Staked
<1> QED BY <1>2 DEF Backed, Bettor, SameBets

\* Seats come and go, and those of the hand stay as they are.
SamePlayers(g, h) ==
  /\ \A i \in DOMAIN g.seats : g.seats[i].inHand =>
       \E j \in DOMAIN h.seats : h.seats[j] = g.seats[i]
  /\ \A j \in DOMAIN h.seats : h.seats[j].inHand =>
       \E i \in DOMAIN g.seats : g.seats[i] = h.seats[j]

\* Where each seat of one table is at another.
LEMMA JoinedSeats ==
  ASSUME NEW g \in Table, NEW h \in Table, Joined(g, h)
  PROVE  \E s \in IdleSeat :
           /\ s.chips = 0
           /\ \A i \in DOMAIN g.seats : g.seats[i].playerId # s.playerId
           /\ \A i \in DOMAIN g.seats : \E j \in DOMAIN h.seats : h.seats[j] = g.seats[i]
           /\ \A j \in DOMAIN h.seats : \/ h.seats[j] = s
                                        \/ \E i \in DOMAIN g.seats : g.seats[i] = h.seats[j]
<1>1. PICK s, k : /\ s \in IdleSeat /\ s.chips = 0 /\ Inserted(g.seats, s, k, h.seats)
                  /\ \A i \in DOMAIN g.seats : g.seats[i].playerId # s.playerId
  BY DEF Joined
<1>2. /\ Len(g.seats) \in Nat /\ DOMAIN g.seats = 1..Len(g.seats)
      /\ Len(h.seats) \in Nat /\ DOMAIN h.seats = 1..Len(h.seats)
  BY MoneyTypes
<1>3. ASSUME NEW i \in DOMAIN g.seats PROVE \E j \in DOMAIN h.seats : h.seats[j] = g.seats[i]
  <2> DEFINE j == IF i <= k THEN i ELSE i + 1
  <2>1. j \in 1..Len(h.seats) /\ h.seats[j] = g.seats[i]
    BY <1>1, <1>2, InsertedTo
  <2> QED BY <1>2, <2>1
<1>4. ASSUME NEW j \in DOMAIN h.seats
      PROVE  h.seats[j] = s \/ \E i \in DOMAIN g.seats : g.seats[i] = h.seats[j]
  <2>1. \/ j <= k /\ j \in 1..Len(g.seats) /\ h.seats[j] = g.seats[j]
        \/ j = k + 1 /\ h.seats[j] = s
        \/ j > k + 1 /\ j - 1 \in 1..Len(g.seats) /\ h.seats[j] = g.seats[j - 1]
    BY <1>1, <1>2, InsertedFrom
  <2> QED BY <1>2, <2>1
<1> QED BY <1>1, <1>3, <1>4

\* See JoinedSeats.
LEMMA LeftSeats ==
  ASSUME NEW g \in Table, NEW h \in Table, Left(g, h)
  PROVE  /\ \A j \in DOMAIN h.seats : \E i \in DOMAIN g.seats : g.seats[i] = h.seats[j]
         /\ \A i \in DOMAIN g.seats :
              ~Leaves(g.seats[i]) => \E j \in DOMAIN h.seats : h.seats[j] = g.seats[i]
<1>1. PICK place : Kept(g.seats, place, h.seats)
  BY DEF Left
<1>2. /\ Len(g.seats) \in Nat /\ DOMAIN g.seats = 1..Len(g.seats)
      /\ Len(h.seats) \in Nat /\ DOMAIN h.seats = 1..Len(h.seats)
  BY MoneyTypes
<1> QED BY <1>1, <1>2, SMTT(30) DEF Kept

\* Who sits down has no bet and who leaves is in no hand.
LEMMA SeatCallPlayers ==
  ASSUME NEW g \in Table, NEW h \in Table, Joined(g, h) \/ Left(g, h)
  PROVE  /\ SamePlayers(g, h)
         /\ (\A i \in DOMAIN g.seats : Bettor(g.seats[i]))
              => \A j \in DOMAIN h.seats : Bettor(h.seats[j])
<1>1. CASE Joined(g, h)
  <2>1. PICK s \in IdleSeat :
           /\ \A i \in DOMAIN g.seats : \E j \in DOMAIN h.seats : h.seats[j] = g.seats[i]
           /\ \A j \in DOMAIN h.seats : \/ h.seats[j] = s
                                        \/ \E i \in DOMAIN g.seats : g.seats[i] = h.seats[j]
    BY <1>1, JoinedSeats
  <2>2. ~s.inHand /\ Bettor(s)
    BY DEF IdleSeat, Bettor
  <2> QED BY <2>1, <2>2 DEF SamePlayers
<1>2. CASE Left(g, h)
  <2>1. \A i \in DOMAIN g.seats : g.seats[i].inHand => ~Leaves(g.seats[i])
    BY DEF Leaves
  <2> QED BY <1>2, <2>1, LeftSeats DEF SamePlayers
<1> QED BY <1>1, <1>2

\* The numbers f of the players in S, kept on their seats.
KeptFor(g, val, f, S) ==
  /\ val \in [DOMAIN g.seats -> Nat]
  /\ \A p \in S : \E i \in DOMAIN g.seats : g.seats[i].playerId = p
  /\ \A i \in DOMAIN g.seats : g.seats[i].playerId \in S => val[i] = f[g.seats[i].playerId]
  /\ \A i \in DOMAIN g.seats : g.seats[i].playerId \notin S => val[i] = 0

\* The same sum, taken over the players.
LEMMA SumOfPlayers ==
  ASSUME NEW g \in Table, InOrder(g.seats), NEW S \in SUBSET Players, NEW f \in [Players -> Nat],
         NEW val, KeptFor(g, val, f, S)
  PROVE  SumSeq(val) = SumFunctionOnSet(f, S)
<1> /\ val \in [DOMAIN g.seats -> Nat]
    /\ \A p \in S : \E i \in DOMAIN g.seats : g.seats[i].playerId = p
    /\ \A i \in DOMAIN g.seats : g.seats[i].playerId \in S => val[i] = f[g.seats[i].playerId]
    /\ \A i \in DOMAIN g.seats : g.seats[i].playerId \notin S => val[i] = 0
  BY DEF KeptFor
<1> DEFINE N == Len(g.seats)
           key == [i \in 1..N |-> g.seats[i].playerId]
<1>1. N \in Nat /\ DOMAIN g.seats = 1..N
  BY MoneyTypes
<1>2. IsFiniteSet(S)
  BY TableAssumption, FS_Subset
<1>3. \A i \in 1..N : \A j \in 1..N : key[i] = key[j] => i = j
  <2> SUFFICES ASSUME NEW i \in 1..N, NEW j \in 1..N, i # j,
                      g.seats[i].playerId = g.seats[j].playerId
               PROVE  FALSE
    OBVIOUS
  <2>1. i < j \/ j < i
    BY <1>1
  <2> QED BY <1>1, <2>1 DEF InOrder
<1>4. \A x \in S : \E i \in 1..N : key[i] = x
  BY <1>1
<1>5. val \in [1..N -> Nat] /\ \A i \in 1..N : val[i] = IF key[i] \in S THEN f[key[i]] ELSE 0
  BY <1>1
<1> HIDE DEF key, N
<1>6. \A i, j \in 1..N : key[i] = key[j] => i = j
  BY <1>3
<1>7. Lists(key, val, N, f, S)
  BY <1>4, <1>5, <1>6 DEF Lists
<1> QED BY <1>1, <1>2, <1>7, SetSumIsSeqSum, ZenonT(60)

\* Any number kept on the seats of a hand adds up to the same wherever they are.
LEMMA SamePlayersSum ==
  ASSUME NEW g \in Table, NEW h \in Table, InOrder(g.seats), InOrder(h.seats), SamePlayers(g, h),
         NEW a \in [DOMAIN g.seats -> Nat], NEW b \in [DOMAIN h.seats -> Nat],
         \A i \in DOMAIN g.seats : ~g.seats[i].inHand => a[i] = 0,
         \A j \in DOMAIN h.seats : ~h.seats[j].inHand => b[j] = 0,
         \A i \in DOMAIN g.seats : \A j \in DOMAIN h.seats : g.seats[i] = h.seats[j] => a[i] = b[j]
  PROVE  SumSeq(a) = SumSeq(b)
<1> DEFINE S == {p \in Players : InTheHand(g, p)}
           At1(p) == CHOOSE i \in DOMAIN g.seats : g.seats[i].playerId = p
           f == [p \in Players |-> IF p \in S THEN a[At1(p)] ELSE 0]
<1>1. /\ \A i \in DOMAIN g.seats : g.seats[i].playerId \in Players /\ i \in Nat
      /\ \A j \in DOMAIN h.seats : h.seats[j].playerId \in Players /\ j \in Nat
  BY MoneyTypes
<1>2. /\ \A i, j \in DOMAIN g.seats : g.seats[i].playerId = g.seats[j].playerId => i = j
      /\ \A i, j \in DOMAIN h.seats : h.seats[i].playerId = h.seats[j].playerId => i = j
  <2>1. \A i, j \in DOMAIN g.seats : i = j \/ i < j \/ j < i
    BY <1>1
  <2>2. \A i, j \in DOMAIN h.seats : i = j \/ i < j \/ j < i
    BY <1>1
  <2> QED BY <2>1, <2>2 DEF InOrder
<1>3. ASSUME NEW i \in DOMAIN g.seats PROVE At1(g.seats[i].playerId) = i
  <2> DEFINE p == g.seats[i].playerId
  <2>1. At1(p) \in DOMAIN g.seats /\ g.seats[At1(p)].playerId = p
    <3> HIDE DEF p
    <3>1. \E x \in DOMAIN g.seats : g.seats[x].playerId = p
      BY DEF p
    <3> QED BY <3>1
  <2> HIDE DEF At1
  <2> QED BY <1>2, <2>1
<1>4. \A p \in S : At1(p) \in DOMAIN g.seats
  <2> SUFFICES ASSUME NEW p \in S PROVE At1(p) \in DOMAIN g.seats
    OBVIOUS
  <2>1. \E x \in DOMAIN g.seats : g.seats[x].playerId = p
    BY DEF InTheHand
  <2> QED BY <2>1
<1> HIDE DEF At1
<1>5. f \in [Players -> Nat] /\ S \in SUBSET Players
  BY <1>4
<1>6. \A i \in DOMAIN g.seats : g.seats[i].playerId \in S <=> g.seats[i].inHand
  BY <1>1, <1>2 DEF InTheHand
<1>7. SumSeq(a) = SumFunctionOnSet(f, S)
  <2>1. \A p \in S : \E i \in DOMAIN g.seats : g.seats[i].playerId = p
    BY DEF InTheHand
  <2>2. \A i \in DOMAIN g.seats : g.seats[i].playerId \in S => a[i] = f[g.seats[i].playerId]
    BY <1>1, <1>3
  <2>3. \A i \in DOMAIN g.seats : g.seats[i].playerId \notin S => a[i] = 0
    BY <1>6
  <2> HIDE DEF S, f
  <2>4. KeptFor(g, a, f, S)
    BY <2>1, <2>2, <2>3 DEF KeptFor
  <2> QED BY <1>5, <2>4, SumOfPlayers
<1>8. \A j \in DOMAIN h.seats : h.seats[j].playerId \in S <=> h.seats[j].inHand
  <2> SUFFICES ASSUME NEW j \in DOMAIN h.seats
               PROVE  h.seats[j].playerId \in S <=> h.seats[j].inHand
    OBVIOUS
  <2>1. ASSUME h.seats[j].inHand PROVE h.seats[j].playerId \in S
    BY <1>1, <2>1 DEF SamePlayers, InTheHand
  <2>2. ASSUME h.seats[j].playerId \in S PROVE h.seats[j].inHand
    <3>1. PICK i \in DOMAIN g.seats :
            g.seats[i].playerId = h.seats[j].playerId /\ g.seats[i].inHand
      BY <2>2 DEF InTheHand
    <3>2. PICK k \in DOMAIN h.seats : h.seats[k] = g.seats[i]
      BY <3>1 DEF SamePlayers
    <3>3. k = j
      BY <1>2, <3>1, <3>2
    <3> QED BY <3>1, <3>2, <3>3
  <2> QED BY <2>1, <2>2, MoneyTypes
<1>9. SumSeq(b) = SumFunctionOnSet(f, S)
  <2>1. \A p \in S : \E j \in DOMAIN h.seats : h.seats[j].playerId = p
    BY DEF InTheHand, SamePlayers
  <2>2. ASSUME NEW j \in DOMAIN h.seats, h.seats[j].playerId \in S
        PROVE  b[j] = f[h.seats[j].playerId]
    <3>1. PICK i \in DOMAIN g.seats : g.seats[i] = h.seats[j]
      BY <1>8, <2>2 DEF SamePlayers
    <3>2. At1(h.seats[j].playerId) = i /\ a[i] = b[j]
      BY <1>3, <3>1
    <3> QED BY <1>1, <2>2, <3>2
  <2>3. \A j \in DOMAIN h.seats : h.seats[j].playerId \notin S => b[j] = 0
    BY <1>8
  <2>4. \A j \in DOMAIN h.seats : h.seats[j].playerId \in S => b[j] = f[h.seats[j].playerId]
    BY <2>2
  <2> HIDE DEF S, f
  <2>5. KeptFor(h, b, f, S)
    BY <2>1, <2>3, <2>4 DEF KeptFor
  <2> QED BY <1>5, <2>5, SumOfPlayers
<1> QED BY <1>7, <1>9

\* So the money of the hand stays backed.
LEMMA SeatCallBacked ==
  ASSUME NEW g \in Table, NEW h \in Table, InOrder(g.seats), InOrder(h.seats),
         Joined(g, h) \/ Left(g, h), Backed(g)
  PROVE  Backed(h)
<1>1. SamePlayers(g, h) /\ \A j \in DOMAIN h.seats : Bettor(h.seats[j])
  BY SeatCallPlayers DEF Backed
<1>2. h.sidePots = g.sidePots
  BY DEF Joined, Left, SameRound
<1> DEFINE betsG == [i \in DOMAIN g.seats |-> g.seats[i].currentBet]
           betsH == [i \in DOMAIN h.seats |-> h.seats[i].currentBet]
           stakedG == [i \in DOMAIN g.seats |-> g.seats[i].totalBetThisHand]
           stakedH == [i \in DOMAIN h.seats |-> h.seats[i].totalBetThisHand]
<1>3. /\ betsG \in [DOMAIN g.seats -> Nat] /\ stakedG \in [DOMAIN g.seats -> Nat]
      /\ betsH \in [DOMAIN h.seats -> Nat] /\ stakedH \in [DOMAIN h.seats -> Nat]
  BY MoneyTypes
<1>4. /\ \A i \in DOMAIN g.seats : ~g.seats[i].inHand => betsG[i] = 0 /\ stakedG[i] = 0
      /\ \A j \in DOMAIN h.seats : ~h.seats[j].inHand => betsH[j] = 0 /\ stakedH[j] = 0
  BY <1>1 DEF Backed, Bettor
<1>5. \A i \in DOMAIN g.seats : \A j \in DOMAIN h.seats :
        g.seats[i] = h.seats[j] => betsG[i] = betsH[j] /\ stakedG[i] = stakedH[j]
  OBVIOUS
<1>6. Bets(g) = SumSeq(betsG) /\ Bets(h) = SumSeq(betsH)
      /\ Staked(g) = SumSeq(stakedG) /\ Staked(h) = SumSeq(stakedH)
  BY DEF Bets, Staked
<1> HIDE DEF betsG, betsH, stakedG, stakedH
<1>7. SumSeq(betsG) = SumSeq(betsH)
  <2>1. /\ \A i \in DOMAIN g.seats : ~g.seats[i].inHand => betsG[i] = 0
        /\ \A j \in DOMAIN h.seats : ~h.seats[j].inHand => betsH[j] = 0
        /\ \A i \in DOMAIN g.seats : \A j \in DOMAIN h.seats :
             g.seats[i] = h.seats[j] => betsG[i] = betsH[j]
    BY <1>4, <1>5
  <2> QED BY <1>1, <1>3, <2>1, SamePlayersSum
<1>8. SumSeq(stakedG) = SumSeq(stakedH)
  <2>1. /\ \A i \in DOMAIN g.seats : ~g.seats[i].inHand => stakedG[i] = 0
        /\ \A j \in DOMAIN h.seats : ~h.seats[j].inHand => stakedH[j] = 0
        /\ \A i \in DOMAIN g.seats : \A j \in DOMAIN h.seats :
             g.seats[i] = h.seats[j] => stakedG[i] = stakedH[j]
    BY <1>4, <1>5
  <2> QED BY <1>1, <1>3, <2>1, SamePlayersSum
<1>9. PotTotal(h) = PotTotal(g)
  BY <1>2 DEF PotTotal
<1>10. GetTotalPot(g) = PotTotal(g) + Bets(g) /\ GetTotalPot(h) = PotTotal(h) + Bets(h)
  BY SumTypes
<1> QED BY <1>1, <1>6, <1>7, <1>8, <1>9, <1>10 DEF Backed

\* At the deal a bet is all the seat has bet.
LEMMA StartedBacked ==
  ASSUME NEW g \in Table, NEW h \in Table, Started(g, h)
  PROVE  Backed(h)
<1>1. /\ h.sidePots = <<>> /\ DOMAIN h.seats = DOMAIN g.seats
      /\ \E sb, bb \in DealtSeats(h) : sb # bb /\
           \A i \in DOMAIN g.seats :
             LET blind == IF i = sb THEN Min({h.smallBlind, g.seats[i].chips})
                          ELSE IF i = bb THEN h.bigBlind ELSE 0
             IN  h.seats[i].currentBet = blind /\ h.seats[i].totalBetThisHand = blind
  BY ZenonT(60) DEF Started
<1>2. PICK sb \in DealtSeats(h), bb \in DealtSeats(h) :
           \A i \in DOMAIN g.seats :
             LET blind == IF i = sb THEN Min({h.smallBlind, g.seats[i].chips})
                          ELSE IF i = bb THEN h.bigBlind ELSE 0
             IN  h.seats[i].currentBet = blind /\ h.seats[i].totalBetThisHand = blind
  BY <1>1
<1>3. \A i \in DOMAIN h.seats : /\ h.seats[i].currentBet = h.seats[i].totalBetThisHand
                                /\ i \notin {sb, bb} => h.seats[i].currentBet = 0
  BY <1>1, <1>2
<1>4. \A i \in DOMAIN h.seats : Bettor(h.seats[i])
  BY <1>3 DEF Bettor, DealtSeats
<1>5. Bets(h) = Staked(h)
  <2>1. [i \in DOMAIN h.seats |-> h.seats[i].currentBet]
          = [i \in DOMAIN h.seats |-> h.seats[i].totalBetThisHand]
    BY <1>3
  <2> QED BY <2>1 DEF Bets, Staked
<1>6. PotTotal(h) = 0
  <2> DEFINE pots == [k \in DOMAIN h.sidePots |-> h.sidePots[k].amount]
  <2>1. DOMAIN h.sidePots = 1..0
    BY <1>1, MoneyTypes
  <2>2. pots \in [1..0 -> Nat] /\ \A k \in 1..0 : pots[k] = 0
    BY <2>1
  <2>3. PotTotal(h) = SumSeq(pots)
    BY DEF PotTotal
  <2> HIDE DEF pots
  <2> QED BY <2>2, <2>3, SumSeqZero
<1> QED BY <1>4, <1>5, <1>6, SumTypes DEF Backed

\* r is s but for the number at i, which is larger.
GrowsAt(r, s, N, i, pay) ==
  /\ s \in [1..N -> Nat] /\ r \in [1..N -> Nat] /\ i \in 1..N
  /\ r[i] = s[i] + pay
  /\ \A j \in 1..N : j # i => r[j] = s[j]

\* A sum in which one number grows.
LEMMA SumSeqGrows ==
  ASSUME NEW N \in Nat, NEW s, NEW r, NEW i, NEW pay \in Nat, GrowsAt(r, s, N, i, pay)
  PROVE  SumSeq(r) = SumSeq(s) + pay
<1>0. /\ s \in [1..N -> Nat] /\ r \in [1..N -> Nat] /\ i \in 1..N
      /\ r[i] = s[i] + pay
      /\ \A j \in 1..N : j # i => r[j] = s[j]
  BY DEF GrowsAt
<1> DEFINE d == [j \in 1..N |-> IF j = i THEN pay ELSE 0]
<1>1. /\ d \in [1..N -> Nat] /\ d[i] = pay
      /\ \A j \in 1..N : j # i => d[j] = 0
  BY <1>0
<1> HIDE DEF d
<1>2. ASSUME NEW j \in 1..N PROVE r[j] = s[j] + d[j]
  <2>1. s[j] \in Nat
    BY <1>0
  <2>2. CASE j = i
    BY <1>0, <1>1, <2>2
  <2>3. CASE j # i
    BY <1>0, <1>1, <2>1, <2>3
  <2> QED BY <2>2, <2>3
<1>3. SumSeq(r) = SumSeq(s) + SumSeq(d)
  BY <1>0, <1>1, <1>2, SumSeqAdd
<1>4. SumSeq(d) = d[i]
  BY <1>0, <1>1, SumSeqSingle
<1> QED BY <1>1, <1>3, <1>4

\* What a seat that acts does to its money.
LEMMA ActedMoney ==
  ASSUME NEW g \in HandTable, NEW h, NEW i, NEW pay, Acted(g, h, i, pay)
  PROVE  /\ g \in Table /\ h \in Table /\ h.sidePots = g.sidePots
         /\ DOMAIN h.seats = DOMAIN g.seats /\ pay \in Nat
         /\ i \in DOMAIN g.seats /\ g.seats[i].inHand
         /\ h.seats[i].chips + pay = g.seats[i].chips
         /\ h.seats[i].currentBet = g.seats[i].currentBet + pay
         /\ h.seats[i].totalBetThisHand = g.seats[i].totalBetThisHand + pay
         /\ \A j \in DOMAIN g.seats :
              /\ h.seats[j].inHand = g.seats[j].inHand
              /\ h.seats[j].playerId = g.seats[j].playerId
              /\ j # i => /\ h.seats[j].chips = g.seats[j].chips
                          /\ h.seats[j].currentBet = g.seats[j].currentBet
                          /\ h.seats[j].totalBetThisHand = g.seats[j].totalBetThisHand
<1>1. /\ g \in Table /\ h \in Table /\ h.sidePots = g.sidePots
      /\ DOMAIN h.seats = DOMAIN g.seats
      /\ i \in DOMAIN g.seats /\ g.seats[i].inHand
      /\ pay \in 0..g.seats[i].chips
      /\ h.seats[i].chips = g.seats[i].chips - pay
      /\ h.seats[i].currentBet = g.seats[i].currentBet + pay
      /\ h.seats[i].totalBetThisHand = g.seats[i].totalBetThisHand + pay
  BY DEF Acted, HandTable, SameHands, SamePlaces
<1>2. g.seats[i].chips \in Nat
  BY <1>1, MoneyTypes
<1>3. pay \in Nat /\ h.seats[i].chips + pay = g.seats[i].chips
  BY <1>1, <1>2
<1>4. ASSUME NEW j \in DOMAIN g.seats
      PROVE  /\ h.seats[j].inHand = g.seats[j].inHand
             /\ h.seats[j].playerId = g.seats[j].playerId
             /\ j # i => /\ h.seats[j].chips = g.seats[j].chips
                         /\ h.seats[j].currentBet = g.seats[j].currentBet
                         /\ h.seats[j].totalBetThisHand = g.seats[j].totalBetThisHand
  <2>1. SameHand(g.seats[j], h.seats[j])
    BY DEF Acted, SameHands
  <2>2. ASSUME j # i
        PROVE  /\ h.seats[j].chips = g.seats[j].chips
               /\ h.seats[j].currentBet = g.seats[j].currentBet
               /\ h.seats[j].totalBetThisHand = g.seats[j].totalBetThisHand
    <3>1. PICK b \in BOOLEAN : h.seats[j] = [g.seats[j] EXCEPT !.actedThisRound = b]
      BY <2>2 DEF Acted
    <3>2. g.seats[j] \in Seat
      BY <1>1, MoneyTypes
    <3> QED BY <3>1, <3>2 DEF Seat
  <2> QED BY <2>1, <2>2 DEF SameHand, SamePlace
<1> QED BY <1>1, <1>3, <1>4

\* A seat that acts adds what it pays to both sides.
LEMMA ActedBacked ==
  ASSUME NEW g \in HandTable, NEW h, NEW i, NEW pay, Acted(g, h, i, pay), Backed(g)
  PROVE  Backed(h)
<1> DEFINE N == Len(g.seats)
           betsG == [j \in 1..N |-> g.seats[j].currentBet]
           betsH == [j \in 1..N |-> h.seats[j].currentBet]
           stakedG == [j \in 1..N |-> g.seats[j].totalBetThisHand]
           stakedH == [j \in 1..N |-> h.seats[j].totalBetThisHand]
<1>1. /\ g \in Table /\ h \in Table /\ h.sidePots = g.sidePots
      /\ N \in Nat /\ DOMAIN g.seats = 1..N /\ DOMAIN h.seats = 1..N
      /\ pay \in Nat /\ i \in 1..N /\ g.seats[i].inHand
  BY ActedMoney, MoneyTypes
<1>2. /\ betsG \in [1..N -> Nat] /\ betsH \in [1..N -> Nat]
      /\ stakedG \in [1..N -> Nat] /\ stakedH \in [1..N -> Nat]
  BY <1>1, MoneyTypes
<1>3. /\ Bets(g) = SumSeq(betsG) /\ Bets(h) = SumSeq(betsH)
      /\ Staked(g) = SumSeq(stakedG) /\ Staked(h) = SumSeq(stakedH)
  BY <1>1 DEF Bets, Staked
<1>4. /\ betsH[i] = betsG[i] + pay /\ stakedH[i] = stakedG[i] + pay
      /\ \A j \in 1..N : j # i => betsH[j] = betsG[j] /\ stakedH[j] = stakedG[j]
  BY <1>1, ActedMoney
<1> HIDE DEF N, betsG, betsH, stakedG, stakedH
<1>5. Bets(h) = Bets(g) + pay
  <2>1. GrowsAt(betsH, betsG, N, i, pay)
    BY <1>1, <1>2, <1>4 DEF GrowsAt
  <2> QED BY <1>1, <1>3, <2>1, SumSeqGrows
<1>6. Staked(h) = Staked(g) + pay
  <2>1. GrowsAt(stakedH, stakedG, N, i, pay)
    BY <1>1, <1>2, <1>4 DEF GrowsAt
  <2> QED BY <1>1, <1>3, <2>1, SumSeqGrows
<1>7. PotTotal(h) = PotTotal(g)
  BY <1>1 DEF PotTotal
<1>8. GetTotalPot(h) <= Staked(h)
  <2>1. GetTotalPot(g) <= Staked(g)
    BY DEF Backed
  <2> QED BY <1>1, <1>5, <1>6, <1>7, <2>1, SumTypes
<1>9. ASSUME NEW j \in DOMAIN h.seats PROVE Bettor(h.seats[j])
  <2>1. j \in DOMAIN g.seats /\ Bettor(g.seats[j])
    BY <1>1, <1>9 DEF Backed
  <2> QED BY <1>1, <2>1, ActedMoney DEF Bettor
<1> QED BY <1>8, <1>9 DEF Backed

\* What the next street does to the money of a seat.
LEMMA StreetMoney ==
  ASSUME NEW t \in HandTable, t.stage \in {"PreFlop", "Flop", "Turn"},
         \E i \in DOMAIN t.seats : Live(t.seats[i])
  PROVE  LET c == CollectBetsToSidePots(t)
             h == NewStreet(c)
         IN  /\ h \in Table /\ DOMAIN h.seats = DOMAIN t.seats /\ h.sidePots = c.sidePots
             /\ \A i \in DOMAIN t.seats :
                  /\ h.seats[i].playerId = t.seats[i].playerId
                  /\ h.seats[i].inHand = t.seats[i].inHand
                  /\ h.seats[i].chips = t.seats[i].chips
                  /\ h.seats[i].currentBet = 0
                  /\ h.seats[i].totalBetThisHand = t.seats[i].totalBetThisHand
<1> DEFINE c == CollectBetsToSidePots(t)
           h == NewStreet(c)
<1>1. /\ c \in HandTable /\ DOMAIN c.seats = DOMAIN t.seats /\ c.stage = t.stage
      /\ c = t \/ \A i \in DOMAIN t.seats : c.seats[i] = [t.seats[i] EXCEPT !.currentBet = 0]
  BY CollectIs
<1> HIDE DEF c
<1>2. /\ h \in HandTable /\ DOMAIN h.seats = DOMAIN c.seats /\ h.sidePots = c.sidePots
      /\ \A i \in DOMAIN c.seats :
           h.seats[i] = [c.seats[i] EXCEPT !.currentBet = 0, !.actedThisRound = FALSE]
  BY <1>1, NewStreetIs
<1> HIDE DEF h
<1>3. h \in Table /\ t \in Table /\ c \in Table
  BY <1>1, <1>2 DEF HandTable
<1>4. ASSUME NEW i \in DOMAIN t.seats
      PROVE  /\ h.seats[i].playerId = t.seats[i].playerId
             /\ h.seats[i].inHand = t.seats[i].inHand
             /\ h.seats[i].chips = t.seats[i].chips
             /\ h.seats[i].currentBet = 0
             /\ h.seats[i].totalBetThisHand = t.seats[i].totalBetThisHand
  <2>1. t.seats[i] \in Seat /\ c.seats[i] \in Seat
    BY <1>1, <1>3, MoneyTypes
  <2>2. c.seats[i] = t.seats[i] \/ c.seats[i] = [t.seats[i] EXCEPT !.currentBet = 0]
    BY <1>1
  <2>3. /\ c.seats[i].playerId = t.seats[i].playerId
        /\ c.seats[i].inHand = t.seats[i].inHand
        /\ c.seats[i].chips = t.seats[i].chips
        /\ c.seats[i].totalBetThisHand = t.seats[i].totalBetThisHand
    BY <2>1, <2>2 DEF Seat
  <2>4. h.seats[i] = [c.seats[i] EXCEPT !.currentBet = 0, !.actedThisRound = FALSE]
    BY <1>1, <1>2
  <2>5. /\ h.seats[i].playerId = c.seats[i].playerId
        /\ h.seats[i].inHand = c.seats[i].inHand
        /\ h.seats[i].chips = c.seats[i].chips
        /\ h.seats[i].currentBet = 0
        /\ h.seats[i].totalBetThisHand = c.seats[i].totalBetThisHand
    BY <2>1, <2>4 DEF Seat
  <2> QED BY <2>3, <2>5
<1>5. DOMAIN h.seats = DOMAIN t.seats /\ h.sidePots = c.sidePots
  BY <1>1, <1>2
<1> QED BY <1>3, <1>4, <1>5 DEF h, c

\* The bets of a street that are collected stay backed.
LEMMA StreetBacked ==
  ASSUME NEW t \in HandTable, t.stage \in {"PreFlop", "Flop", "Turn"},
         \E i \in DOMAIN t.seats : Live(t.seats[i]), Backed(t)
  PROVE  Backed(NewStreet(CollectBetsToSidePots(t)))
<1> DEFINE c == CollectBetsToSidePots(t)
           h == NewStreet(c)
<1>1. t \in Table /\ c \in Table /\ GetTotalPot(c) <= GetTotalPot(t)
  BY CollectAddsNothing, CollectIs DEF HandTable
<1>2. /\ h \in Table /\ DOMAIN h.seats = DOMAIN t.seats /\ h.sidePots = c.sidePots
      /\ \A i \in DOMAIN t.seats :
           /\ h.seats[i].inHand = t.seats[i].inHand /\ h.seats[i].currentBet = 0
           /\ h.seats[i].totalBetThisHand = t.seats[i].totalBetThisHand
  BY StreetMoney
<1> HIDE DEF h, c
<1>3. Staked(h) = Staked(t)
  <2>1. [i \in DOMAIN h.seats |-> h.seats[i].totalBetThisHand]
          = [i \in DOMAIN t.seats |-> t.seats[i].totalBetThisHand]
    BY <1>2
  <2> QED BY <2>1 DEF Staked
<1>4. Bets(h) = 0
  <2> DEFINE N == Len(h.seats)
             bets == [i \in 1..N |-> h.seats[i].currentBet]
  <2>1. N \in Nat /\ DOMAIN h.seats = 1..N
    BY <1>2, MoneyTypes
  <2>2. bets \in [1..N -> Nat] /\ \A i \in 1..N : bets[i] = 0
    BY <1>2, <2>1
  <2>3. Bets(h) = SumSeq(bets)
    BY <2>1 DEF Bets
  <2> HIDE DEF bets, N
  <2> QED BY <2>1, <2>2, <2>3, SumSeqZero
<1>5. PotTotal(h) = PotTotal(c)
  BY <1>2 DEF PotTotal
<1>6. GetTotalPot(h) <= GetTotalPot(c)
  BY <1>1, <1>2, <1>4, <1>5, SumTypes
<1>7. GetTotalPot(h) <= Staked(h)
  <2>1. GetTotalPot(t) <= Staked(t)
    BY DEF Backed
  <2>2. GetTotalPot(h) \in Nat /\ GetTotalPot(c) \in Nat /\ GetTotalPot(t) \in Nat /\ Staked(t) \in Nat
    BY <1>1, <1>2, SumTypes
  <2> QED BY <1>1, <1>3, <1>6, <2>1, <2>2
<1>8. \A i \in DOMAIN h.seats : Bettor(h.seats[i])
  BY <1>2 DEF Backed, Bettor
<1>9. Backed(h)
  BY <1>7, <1>8 DEF Backed
<1> QED BY <1>9 DEF h, c

\* A turn leaves a table between hands or one whose money is backed.
LEMMA TurnedBacked ==
  ASSUME NEW g, NEW h \in SoundTable, Turned(g, h), Backed(g)
  PROVE  Backed(h)
<1> DEFINE a == Aimed(g)
<1>1. /\ a \in HandTable /\ a.stage \in Streets /\ a.seats = g.seats /\ a.sidePots = g.sidePots
  BY AimedIs DEF Turned, SameRound
<1>2. Backed(a)
  BY <1>1, SameBetsBacked DEF SameBets
<1>3. \/ h = a
      \/ \E t, pay : Acted(a, t, a.actingIndex + 1, pay) /\ h \in Outcomes(PlayOn(t))
  BY DEF Turned
<1> HIDE DEF a
<1>4. CASE \E t, pay : Acted(a, t, a.actingIndex + 1, pay) /\ h \in Outcomes(PlayOn(t))
  <2>1. PICK t, pay : Acted(a, t, a.actingIndex + 1, pay) /\ h \in Outcomes(PlayOn(t))
    BY <1>4
  <2>0. t \in HandTable /\ t.stage = a.stage
    BY <2>1 DEF Acted
  <2>2. t \in HandTable /\ t.stage \in Streets /\ Backed(t)
    <3>1. Backed(t)
      BY <1>1, <1>2, <2>1, ActedBacked
    <3> QED BY <1>1, <2>0, <3>1
  <2>3. CASE Ended(t, h)
    <3>1. h.stage = "Waiting"
      BY <2>3 DEF Ended
    <3>2. h \in IdleTable
      BY <3>1 DEF SoundTable, Streets
    <3> QED BY <3>2, IdleBacked
  <2>4. CASE \E k \in Positions(t) : Live(At(t, k)) /\ h = [t EXCEPT !.actingIndex = k]
    <3>1. PICK k \in Positions(t) : h = [t EXCEPT !.actingIndex = k]
      BY <2>4
    <3>2. h.seats = t.seats /\ h.sidePots = t.sidePots
      BY <2>2, <3>1 DEF HandTable, Table
    <3> QED BY <2>2, <3>2, SameBetsBacked DEF SameBets
  <2>5. CASE /\ t.stage \in {"PreFlop", "Flop", "Turn"}
             /\ \E i \in DOMAIN t.seats : Live(t.seats[i])
             /\ h = NewStreet(CollectBetsToSidePots(t))
    BY <2>2, <2>5, StreetBacked
  <2> QED BY <2>1, <2>2, <2>3, <2>4, <2>5, PlayedOn DEF GoesOn
<1> QED BY <1>2, <1>3, <1>4

\* Both ends of a step.
LEMMA StepTables ==
  ASSUME IInv, Ordered(game), [Next]_vars
  PROVE  /\ game \in Table /\ game' \in Table
         /\ game \in SoundTable /\ game' \in SoundTable
         /\ InOrder(game.seats) /\ InOrder(game'.seats)
<1>1. IInv' /\ Ordered(game')
  BY NextKeeps, OrderedKept
<1>2. game \in SoundTable /\ game' \in SoundTable
  BY <1>1 DEF IInv
<1>3. SoundTable \subseteq Table
  BY DEF SoundTable, IdleTable, HandTable
<1> QED BY <1>1, <1>2, <1>3 DEF Ordered

\* Every call keeps the table's money backed.
LEMMA BackedKept ==
  ASSUME IInv, Ordered(game), Backed(game), [Next]_vars
  PROVE  Backed(game')
<1> DEFINE g == game
           h == game'
<1>1. /\ g \in Table /\ h \in Table /\ h \in SoundTable
      /\ InOrder(g.seats) /\ InOrder(h.seats)
  BY StepTables
<1>2. \/ Edited(g, h) \/ Joined(g, h) \/ Left(g, h) \/ Started(g, h) \/ Turned(g, h)
  BY StepKinds
<1>3. Backed(g)
  OBVIOUS
<1> HIDE DEF g, h
<1> SUFFICES Backed(h)
  BY DEF h
<1>4. CASE Edited(g, h)
  <2>1. /\ h.sidePots = g.sidePots /\ DOMAIN h.seats = DOMAIN g.seats
        /\ \A i \in DOMAIN g.seats : SameBets(g.seats[i], h.seats[i])
    BY <1>4 DEF Edited, SameRound, SameHands, SamePlaces, SameSeat, SameHand, SameBets
  <2> QED BY <1>3, <2>1, SameBetsBacked
<1>5. CASE Joined(g, h) \/ Left(g, h)
  BY <1>1, <1>3, <1>5, SeatCallBacked
<1>6. CASE Started(g, h)
  BY <1>1, <1>6, StartedBacked
<1>7. CASE Turned(g, h)
  BY <1>1, <1>3, <1>7, TurnedBacked
<1> QED BY <1>2, <1>4, <1>5, <1>6, <1>7

\* What the ledger needs to know of the table.
Sound(g) == Ordered(g) /\ PotsOwned(g) /\ Backed(g)

\* All three are invariants of the game.
LEMMA SoundInductive == Spec => []Sound(game)
<1>1. Init => Sound(game)
  <2>1. Init => game \in IdleTable
    BY InitHolds DEF Init, IInv, SoundTable, Streets
  <2>2. Init => PotsOwned(game)
    BY DEF Init, PotsOwned
  <2> QED BY <2>1, <2>2, InitOrdered, IdleBacked DEF Sound
<1>2. IInv /\ Sound(game) /\ [Next]_vars => Sound(game)'
  BY OrderedKept, PotsOwnedKept, BackedKept DEF Sound
<1> QED BY <1>1, <1>2, Inductive, PTL DEF Spec

-----------------------------------------------------------------------------
(* The end of a hand.                                                       *)

\* The hand on t is over and the table is h: each seat has what it won.
PaidOut(t, h, won) ==
  /\ won \in [DOMAIN t.seats -> Nat] /\ SumSeq(won) <= GetTotalPot(t)
  /\ \A i \in DOMAIN t.seats : /\ ~t.seats[i].inHand => won[i] = 0
                               /\ h.seats[i].chips = t.seats[i].chips + won[i]

\* The three ways a hand ends.
LEMMA FoldedPaid ==
  ASSUME NEW t \in Table
  PROVE  \E won : PaidOut(t, FinishHand(t), won)
<1> DEFINE N == Len(t.seats)
           won == [i \in 1..N |-> 0]
<1>1. N \in Nat /\ DOMAIN t.seats = 1..N /\ \A i \in 1..N : t.seats[i] \in Seat
  BY MoneyTypes
<1>2. won \in [1..N -> Nat] /\ \A i \in 1..N : won[i] = 0
  OBVIOUS
<1>3. SumSeq(won) = 0
  <2> HIDE DEF won, N
  <2> QED BY <1>1, <1>2, SumSeqZero
<1>4. 0 <= GetTotalPot(t)
  BY SumTypes
<1>5. \A i \in 1..N : FinishHand(t).seats[i].chips = t.seats[i].chips + won[i]
  <2> SUFFICES ASSUME NEW i \in 1..N
               PROVE  FinishHand(t).seats[i].chips = t.seats[i].chips + 0
    OBVIOUS
  <2>1. FinishHand(t).seats[i] = ClearedSeat(t.seats[i])
    BY <1>1, FinishHandIs
  <2>2. ClearedSeat(t.seats[i]).chips = t.seats[i].chips /\ t.seats[i].chips \in Nat
    BY <1>1 DEF ClearedSeat, Seat
  <2> QED BY <2>1, <2>2
<1>6. PaidOut(t, FinishHand(t), won)
  BY <1>1, <1>2, <1>3, <1>4, <1>5 DEF PaidOut
<1> QED BY <1>6

\* The last player alive takes the whole pot.
LEMMA SinglePaid ==
  ASSUME NEW t \in HandTable, NEW i \in DOMAIN t.seats, t.seats[i].inHand
  PROVE  \E won : PaidOut(t, SingleWinner(t, i), won)
<1> DEFINE N == Len(t.seats)
           c == CollectBetsToSidePots(t)
           pot == GetTotalPot(c)
           won == [j \in 1..N |-> IF j = i THEN pot ELSE 0]
<1>1. t \in Table /\ c \in Table
  BY CollectIs DEF HandTable
<1>2. N \in Nat /\ DOMAIN t.seats = 1..N
  BY <1>1, MoneyTypes
<1>3. pot \in Nat /\ pot <= GetTotalPot(t)
  BY <1>1, SumTypes, CollectAddsNothing
<1>4. \A j \in 1..N : SingleWinner(t, i).seats[j].chips
                        = t.seats[j].chips + IF j = i THEN pot ELSE 0
  BY <1>2, SingleWinnerIs
<1> HIDE DEF pot, N
<1>5. /\ won \in [1..N -> Nat] /\ won[i] = pot /\ \A j \in 1..N : j # i => won[j] = 0
  BY <1>2, <1>3
<1>6. SumSeq(won) = pot
  <2> HIDE DEF won
  <2> QED BY <1>2, <1>5, SumSeqSingle
<1>7. \A j \in 1..N : SingleWinner(t, i).seats[j].chips = t.seats[j].chips + won[j]
  BY <1>4
<1> HIDE DEF won
<1>8. PaidOut(t, SingleWinner(t, i), won)
  BY <1>2, <1>3, <1>5, <1>6, <1>7 DEF PaidOut
<1> QED BY <1>8

\* See TurnedPots: collecting the bets leaves the pots owned.
LEMMA CollectOwned ==
  ASSUME NEW g \in HandTable, PotsOwned(g)
  PROVE  PotsOwned(CollectBetsToSidePots(g))
<1> DEFINE c == CollectBetsToSidePots(g)
<1>1. g \in Table /\ SameHands(g, c) /\ (c = g \/ c.sidePots = Layers(g))
  BY CollectIs, PlacesStay DEF HandTable
<1> HIDE DEF c
<1>2. \A k \in DOMAIN c.sidePots : OwnedPot(g, c.sidePots[k])
  BY <1>1, LayersOwned DEF PotsOwned
<1>3. \A p : InTheHand(g, p) => InTheHand(c, p)
  BY <1>1, SameHandsSamePlayers
<1>4. PotsOwned(c)
  BY <1>2, <1>3 DEF PotsOwned, OwnedPot
<1> QED BY <1>4 DEF c

\* The seats at the showdown have the chips they had when it began.
LEMMA CollectMoney ==
  ASSUME NEW g \in HandTable
  PROVE  LET c == CollectBetsToSidePots(g)
         IN  /\ c \in HandTable /\ DOMAIN c.seats = DOMAIN g.seats
             /\ \A i \in DOMAIN g.seats :
                  /\ c.seats[i].chips = g.seats[i].chips
                  /\ c.seats[i].totalBetThisHand = g.seats[i].totalBetThisHand
                  /\ c.seats[i].inHand = g.seats[i].inHand
                  /\ c.seats[i].folded = g.seats[i].folded
                  /\ c.seats[i].playerId = g.seats[i].playerId
<1> DEFINE c == CollectBetsToSidePots(g)
<1>1. /\ c \in HandTable /\ DOMAIN c.seats = DOMAIN g.seats
      /\ c = g \/ \A i \in DOMAIN g.seats : c.seats[i] = [g.seats[i] EXCEPT !.currentBet = 0]
  BY CollectIs
<1>2. \A i \in DOMAIN g.seats : g.seats[i] \in Seat
  BY MoneyTypes DEF HandTable
<1> HIDE DEF c
<1>3. ASSUME NEW i \in DOMAIN g.seats
      PROVE  /\ c.seats[i].chips = g.seats[i].chips
             /\ c.seats[i].totalBetThisHand = g.seats[i].totalBetThisHand
             /\ c.seats[i].inHand = g.seats[i].inHand
             /\ c.seats[i].folded = g.seats[i].folded
             /\ c.seats[i].playerId = g.seats[i].playerId
  BY <1>1, <1>2 DEF Seat
<1> QED BY <1>1, <1>3 DEF c

\* What a seat keeps while bets are collected.
SameStack(s, t) ==
  /\ SameHand(s, t) /\ t.folded = s.folded
  /\ t.chips = s.chips /\ t.totalBetThisHand = s.totalBetThisHand

\* The hand on t came to a showdown: the pots of c, those of t with the bets since,
\* were paid out as the scores say, and the table is h.
ShownDown(t, h, c, scores, won) ==
  /\ c \in Table /\ DOMAIN c.seats = DOMAIN t.seats /\ PotsOwned(c)
  /\ \A i \in DOMAIN t.seats : SameStack(t.seats[i], c.seats[i])
  /\ GetTotalPot(c) <= GetTotalPot(t)
  /\ won = [i \in DOMAIN t.seats |-> Won(c, scores, i)]
  /\ \A i \in DOMAIN t.seats : /\ won[i] \in Nat
                               /\ h.seats[i].chips = t.seats[i].chips + won[i]
                               /\ h.seats[i].playerId = t.seats[i].playerId
  /\ DOMAIN h.seats = DOMAIN t.seats
  /\ h.lastHandResult = HandResult(c, TRUE, PotTotal(c), won)
  /\ h.lastAction = t.lastAction

\* Nothing is lost of a table when its bets are collected, but what is bet.
LEMMA CollectStacks ==
  ASSUME NEW g \in HandTable, PotsOwned(g)
  PROVE  LET c == CollectBetsToSidePots(g)
         IN  /\ c \in HandTable /\ DOMAIN c.seats = DOMAIN g.seats /\ PotsOwned(c)
             /\ \A i \in DOMAIN g.seats : SameStack(g.seats[i], c.seats[i])
             /\ GetTotalPot(c) <= GetTotalPot(g) /\ SameNews(g, c)
<1> DEFINE c == CollectBetsToSidePots(g)
<1>1. /\ c \in HandTable /\ DOMAIN c.seats = DOMAIN g.seats /\ SameNews(g, c)
      /\ SameHands(g, c)
  BY CollectIs, PlacesStay
<1>2. PotsOwned(c) /\ GetTotalPot(c) <= GetTotalPot(g)
  BY CollectOwned, CollectAddsNothing
<1>3. \A i \in DOMAIN g.seats : /\ c.seats[i].chips = g.seats[i].chips
                                /\ c.seats[i].totalBetThisHand = g.seats[i].totalBetThisHand
                                /\ c.seats[i].folded = g.seats[i].folded
  BY CollectMoney
<1> HIDE DEF c
<1>4. \A i \in DOMAIN g.seats : SameStack(g.seats[i], c.seats[i])
  BY <1>1, <1>3 DEF SameStack, SameHands
<1> QED BY <1>1, <1>2, <1>4 DEF c

\* What a showdown makes of a table.
LEMMA ShowdownIs ==
  ASSUME NEW t \in HandTable, PotsOwned(t), NEW d, ShowdownOf(t, d), NEW scores
  PROVE  LET c == CollectBetsToSidePots(d)
         IN  \E won : ShownDown(t, FinishHand(DistributePots(c, scores)), c, scores, won)
<1> DEFINE ct == CollectBetsToSidePots(t)
           c == CollectBetsToSidePots(d)
           p == DistributePots(c, scores)
           h == FinishHand(p)
           won == [i \in DOMAIN t.seats |-> Won(c, scores, i)]
<1>1. /\ d \in HandTable /\ d \in Table /\ t \in Table /\ SameNews(t, d)
  BY DEF ShowdownOf, HandTable
<1>2. /\ DOMAIN d.seats = DOMAIN t.seats /\ PotsOwned(d)
      /\ \A i \in DOMAIN t.seats : SameStack(t.seats[i], d.seats[i])
      /\ GetTotalPot(d) <= GetTotalPot(t)
  <2>1. CASE d.seats = t.seats /\ d.sidePots = t.sidePots
    <3>1. GetTotalPot(d) = GetTotalPot(t)
      BY <2>1 DEF GetTotalPot, PotTotal
    <3>2. PotsOwned(d)
      BY <2>1 DEF PotsOwned, OwnedPot, InTheHand
    <3>3. \A i \in DOMAIN t.seats : SameStack(t.seats[i], d.seats[i])
      BY <2>1 DEF SameStack, SameHand, SamePlace
    <3> QED BY <1>1, <2>1, <3>1, <3>2, <3>3, SumTypes
  <2>2. CASE d.seats = ct.seats /\ d.sidePots = ct.sidePots
    <3>1. /\ DOMAIN ct.seats = DOMAIN t.seats /\ PotsOwned(ct)
          /\ \A i \in DOMAIN t.seats : SameStack(t.seats[i], ct.seats[i])
          /\ GetTotalPot(ct) <= GetTotalPot(t)
      BY CollectStacks
    <3> HIDE DEF ct
    <3>2. GetTotalPot(d) = GetTotalPot(ct)
      BY <2>2 DEF GetTotalPot, PotTotal
    <3>3. PotsOwned(d)
      BY <2>2, <3>1 DEF PotsOwned, OwnedPot, InTheHand
    <3> QED BY <2>2, <3>1, <3>2, <3>3
  <2> QED BY <2>1, <2>2 DEF ShowdownOf
<1>3. /\ c \in Table /\ DOMAIN c.seats = DOMAIN d.seats /\ PotsOwned(c)
      /\ \A i \in DOMAIN d.seats : SameStack(d.seats[i], c.seats[i])
      /\ GetTotalPot(c) <= GetTotalPot(d) /\ SameNews(d, c)
  BY <1>1, <1>2, CollectStacks DEF HandTable
<1> HIDE DEF c
<1>4. \A i \in DOMAIN t.seats : SameStack(t.seats[i], c.seats[i])
  BY <1>2, <1>3 DEF SameStack, SameHand, SamePlace
<1>5. GetTotalPot(c) <= GetTotalPot(t)
  BY <1>1, <1>2, <1>3, SumTypes
<1>6. \A i \in DOMAIN c.seats : Won(c, scores, i) \in Nat
  BY <1>3, WonType
<1>7. /\ p \in Table /\ DOMAIN p.seats = DOMAIN c.seats
      /\ \A j \in DOMAIN c.seats :
           p.seats[j] = [c.seats[j] EXCEPT !.chips = @ + Won(c, scores, j)]
  BY <1>3, DistributePotsIs
<1>8. p.lastAction = c.lastAction /\ p.lastHandResult = HandResult(c, TRUE, PotTotal(c), won)
  <2>1. won = [i \in DOMAIN c.seats |-> Won(c, scores, i)]
    BY <1>2, <1>3
  <2> HIDE DEF won
  <2> QED BY <1>3, <2>1, DistributePotsReports
<1> HIDE DEF p
<1>9. /\ DOMAIN h.seats = DOMAIN p.seats /\ SameNews(p, h)
      /\ \A i \in DOMAIN p.seats : h.seats[i] = ClearedSeat(p.seats[i])
  BY <1>7, FinishHandIs
<1> HIDE DEF h
<1>10. ASSUME NEW i \in DOMAIN t.seats
       PROVE  /\ h.seats[i].chips = t.seats[i].chips + Won(c, scores, i)
              /\ h.seats[i].playerId = t.seats[i].playerId
  <2>1. i \in DOMAIN c.seats /\ i \in DOMAIN p.seats
    BY <1>2, <1>3, <1>7
  <2>2. c.seats[i] \in Seat /\ p.seats[i] \in Seat
    BY <1>3, <1>7, <2>1, MoneyTypes
  <2>3. /\ p.seats[i].chips = c.seats[i].chips + Won(c, scores, i)
        /\ p.seats[i].playerId = c.seats[i].playerId
    BY <1>7, <2>1, <2>2 DEF Seat
  <2>4. /\ ClearedSeat(p.seats[i]).chips = p.seats[i].chips
        /\ ClearedSeat(p.seats[i]).playerId = p.seats[i].playerId
    BY <2>2 DEF ClearedSeat, Seat
  <2> QED BY <1>4, <1>9, <2>1, <2>3, <2>4 DEF SameStack, SameHand, SamePlace
<1>11. \A i \in DOMAIN t.seats : won[i] = Won(c, scores, i)
  OBVIOUS
<1>12. h.lastAction = t.lastAction /\ h.lastHandResult = HandResult(c, TRUE, PotTotal(c), won)
  <2> HIDE DEF won
  <2> QED BY <1>1, <1>3, <1>8, <1>9 DEF SameNews, SameResult
<1>13. \A i \in DOMAIN t.seats : /\ won[i] \in Nat
                                 /\ h.seats[i].chips = t.seats[i].chips + won[i]
                                 /\ h.seats[i].playerId = t.seats[i].playerId
  <2> HIDE DEF won
  <2> QED BY <1>2, <1>3, <1>6, <1>10, <1>11
<1>14. ShownDown(t, h, c, scores, won)
  <2>1. DOMAIN c.seats = DOMAIN t.seats /\ DOMAIN h.seats = DOMAIN t.seats
    BY <1>2, <1>3, <1>7, <1>9
  <2>2. won = [i \in DOMAIN t.seats |-> Won(c, scores, i)]
    OBVIOUS
  <2> HIDE DEF won
  <2> QED BY <1>3, <1>4, <1>5, <1>12, <1>13, <2>1, <2>2 DEF ShownDown
<1> QED BY <1>14 DEF c, h, p

\* The seats of c are those of t.
LEMMA ShownDownSeats ==
  ASSUME NEW t \in Table, InOrder(t.seats), NEW h, NEW c, NEW scores, NEW won,
         ShownDown(t, h, c, scores, won)
  PROVE  /\ c \in Table /\ DOMAIN c.seats = DOMAIN t.seats /\ InOrder(c.seats) /\ PotsOwned(c)
         /\ won \in [DOMAIN c.seats -> Nat]
         /\ \A i \in DOMAIN c.seats : won[i] = Won(c, scores, i)
<1>1. /\ c \in Table /\ DOMAIN c.seats = DOMAIN t.seats /\ PotsOwned(c)
      /\ \A i \in DOMAIN t.seats : SamePlace(t.seats[i], c.seats[i])
      /\ won = [i \in DOMAIN t.seats |-> Won(c, scores, i)]
      /\ \A i \in DOMAIN t.seats : won[i] \in Nat
  BY DEF ShownDown, SameStack, SameHand
<1>2. InOrder(c.seats)
  BY <1>1, SamePlacesOrdered
<1> QED BY <1>1, <1>2

\* A showdown pays out at most what is in the pots, to players of the hand.
LEMMA ShowdownPaid ==
  ASSUME NEW t \in HandTable, InOrder(t.seats), PotsOwned(t), NEW d, ShowdownOf(t, d), NEW scores
  PROVE  \E won :
           PaidOut(t, FinishHand(DistributePots(CollectBetsToSidePots(d), scores)), won)
<1> DEFINE c == CollectBetsToSidePots(d)
           h == FinishHand(DistributePots(c, scores))
           N == Len(t.seats)
<1>1. PICK won : ShownDown(t, h, c, scores, won)
  BY ShowdownIs
<1> HIDE DEF c, h
<1>2. t \in Table /\ N \in Nat /\ DOMAIN t.seats = 1..N
  BY MoneyTypes DEF HandTable
<1>3. /\ c \in Table /\ DOMAIN c.seats = DOMAIN t.seats /\ InOrder(c.seats) /\ PotsOwned(c)
      /\ won \in [DOMAIN c.seats -> Nat]
      /\ \A i \in DOMAIN c.seats : won[i] = Won(c, scores, i)
  BY <1>1, <1>2, ShownDownSeats
<1>4. SumSeq(won) <= GetTotalPot(t)
  <2>1. SumSeq(won) <= PotTotal(c)
    BY <1>3, PotsPaidOut
  <2>2. SumSeq(won) \in Nat
    BY <1>2, <1>3, SeqIntro, SumSeqType
  <2>3. /\ PotTotal(c) \in Nat /\ GetTotalPot(c) \in Nat /\ PotTotal(c) <= GetTotalPot(c)
        /\ GetTotalPot(t) \in Nat /\ GetTotalPot(c) <= GetTotalPot(t)
    BY <1>1, <1>2, <1>3, SumTypes DEF ShownDown
  <2> QED BY <2>1, <2>2, <2>3
<1>5. ASSUME NEW i \in DOMAIN t.seats PROVE ~t.seats[i].inHand => won[i] = 0
  <2>1. c.seats[i].inHand = t.seats[i].inHand
    BY <1>1 DEF ShownDown, SameStack, SameHand
  <2> QED BY <1>3, <2>1, OnlyPlayersWin
<1>6. \A i \in DOMAIN t.seats : h.seats[i].chips = t.seats[i].chips + won[i]
  BY <1>1 DEF ShownDown
<1>7. PaidOut(t, h, won)
  BY <1>3, <1>4, <1>5, <1>6 DEF PaidOut
<1> QED BY <1>7 DEF c, h

\* A hand that ends is paid out.
LEMMA HandPaid ==
  ASSUME NEW t \in HandTable, t.stage \in Streets, InOrder(t.seats), PotsOwned(t),
         NEW h \in Outcomes(PlayOn(t)), h.stage = "Waiting"
  PROVE  \E won : PaidOut(t, h, won)
<1>1. t \in Table
  BY DEF HandTable
<1>2. CASE h = FinishHand(t)
  BY <1>1, <1>2, FoldedPaid
<1>3. CASE \E i \in DOMAIN t.seats : AliveSeats(t) = {i} /\ h = SingleWinner(t, i)
  <2>1. PICK i \in DOMAIN t.seats : AliveSeats(t) = {i} /\ h = SingleWinner(t, i)
    BY <1>3
  <2>2. t.seats[i].inHand
    BY <2>1 DEF AliveSeats, Alive
  <2> QED BY <2>1, <2>2, SinglePaid
<1>4. CASE \E d : \E scores \in Scores : ShowdownOf(t, d)
             /\ h = FinishHand(DistributePots(CollectBetsToSidePots(d), scores))
  BY <1>4, ShowdownPaid
<1>5. CASE \E k \in Positions(t) : Live(At(t, k)) /\ h = [t EXCEPT !.actingIndex = k]
  <2>1. h.stage = t.stage
    BY <1>1, <1>5 DEF Table
  <2> QED BY <2>1 DEF Streets
<1>6. CASE /\ t.stage \in {"PreFlop", "Flop", "Turn"}
           /\ \E i \in DOMAIN t.seats : Live(t.seats[i])
           /\ h = NewStreet(CollectBetsToSidePots(t))
  <2>1. h.stage = NextStreet[t.stage]
    BY <1>6, StreetIs
  <2> QED BY <1>6, <2>1 DEF NextStreet
<1> QED BY <1>2, <1>3, <1>4, <1>5, <1>6, PlayOnCases

-----------------------------------------------------------------------------
(* The ledger of a table.                                                   *)

\* What the players own at g.
Stake(g) ==
  [p \in Players |->
     IF \E i \in DOMAIN g.seats : g.seats[i].playerId = p
     THEN LET s == g.seats[CHOOSE i \in DOMAIN g.seats : g.seats[i].playerId = p]
          IN  s.chips + s.totalBetThisHand
     ELSE 0]

\* The players of the hand at g.
PlayersIn(g) == {p \in Players : InTheHand(g, p)}

\* f lists what each player owns.
Owns(g, f) ==
  /\ f \in [Players -> Nat]
  /\ \A i \in DOMAIN g.seats :
       f[g.seats[i].playerId] = g.seats[i].chips + g.seats[i].totalBetThisHand
  /\ \A p \in Players : (\A i \in DOMAIN g.seats : g.seats[i].playerId # p) => f[p] = 0

\* No player sits twice.
LEMMA OneSeat ==
  ASSUME NEW g \in Table, InOrder(g.seats), NEW i \in DOMAIN g.seats, NEW j \in DOMAIN g.seats,
         g.seats[i].playerId = g.seats[j].playerId
  PROVE  i = j
<1>1. i \in Nat /\ j \in Nat
  BY MoneyTypes
<1>2. i = j \/ i < j \/ j < i
  BY <1>1
<1> QED BY <1>2 DEF InOrder

\* The stakes are the one list of what players own.
LEMMA StakeOwns ==
  ASSUME NEW g \in Table, InOrder(g.seats)
  PROVE  Owns(g, Stake(g))
<1> DEFINE place(p) == CHOOSE i \in DOMAIN g.seats : g.seats[i].playerId = p
           sits(p) == \E i \in DOMAIN g.seats : g.seats[i].playerId = p
           worth(i) == g.seats[i].chips + g.seats[i].totalBetThisHand
<1>1. \A i \in DOMAIN g.seats : g.seats[i].playerId \in Players /\ worth(i) \in Nat
  BY MoneyTypes
<1>2. \A p : sits(p) => place(p) \in DOMAIN g.seats /\ g.seats[place(p)].playerId = p
  OBVIOUS
<1>3. Stake(g) = [p \in Players |-> IF sits(p) THEN worth(place(p)) ELSE 0]
  BY DEF Stake
<1>4. ASSUME NEW i \in DOMAIN g.seats PROVE place(g.seats[i].playerId) = i
  <2> DEFINE p == g.seats[i].playerId
  <2>1. sits(p)
    OBVIOUS
  <2>2. place(p) \in DOMAIN g.seats /\ g.seats[place(p)].playerId = p
    BY <1>2, <2>1
  <2> HIDE DEF place
  <2> QED BY <2>2, OneSeat
<1> HIDE DEF place, worth
<1>5. Stake(g) \in [Players -> Nat]
  BY <1>1, <1>2, <1>3
<1>6. ASSUME NEW i \in DOMAIN g.seats PROVE Stake(g)[g.seats[i].playerId] = worth(i)
  BY <1>1, <1>3, <1>4
<1>7. ASSUME NEW p \in Players, \A i \in DOMAIN g.seats : g.seats[i].playerId # p
      PROVE  Stake(g)[p] = 0
  BY <1>3, <1>7
<1> QED BY <1>5, <1>6, <1>7 DEF Owns, worth

\* See StakeOwns.
LEMMA OwnsIsStake ==
  ASSUME NEW g \in Table, InOrder(g.seats), NEW f, Owns(g, f)
  PROVE  Stake(g) = f
<1>1. Owns(g, Stake(g))
  BY StakeOwns
<1>2. ASSUME NEW p \in Players PROVE Stake(g)[p] = f[p]
  <2>1. CASE \E i \in DOMAIN g.seats : g.seats[i].playerId = p
    BY <1>1, <2>1 DEF Owns
  <2>2. CASE \A i \in DOMAIN g.seats : g.seats[i].playerId # p
    BY <1>1, <2>2 DEF Owns
  <2> QED BY <2>1, <2>2
<1> QED BY <1>1, <1>2 DEF Owns

\* Where the seats stay, what each of them is worth decides.
LEMMA SameWorth ==
  ASSUME NEW g \in Table, NEW h \in Table, InOrder(g.seats), InOrder(h.seats),
         DOMAIN h.seats = DOMAIN g.seats,
         \A i \in DOMAIN g.seats :
           /\ h.seats[i].playerId = g.seats[i].playerId
           /\ h.seats[i].chips + h.seats[i].totalBetThisHand
                = g.seats[i].chips + g.seats[i].totalBetThisHand
  PROVE  Stake(h) = Stake(g)
<1>1. Owns(g, Stake(g))
  BY StakeOwns
<1>2. Owns(h, Stake(g))
  BY <1>1 DEF Owns
<1> QED BY <1>2, OwnsIsStake

\* Where the hands stay, the same players play.
LEMMA SamePlaying ==
  ASSUME NEW g, NEW h, DOMAIN h.seats = DOMAIN g.seats,
         \A i \in DOMAIN g.seats : /\ h.seats[i].playerId = g.seats[i].playerId
                                   /\ h.seats[i].inHand = g.seats[i].inHand
  PROVE  PlayersIn(h) = PlayersIn(g)
BY DEF PlayersIn, InTheHand

\* A table between hands has no player of a hand.
LEMMA IdlePlayers ==
  ASSUME NEW g \in IdleTable
  PROVE  /\ PlayersIn(g) = {}
         /\ \A i \in DOMAIN g.seats : g.seats[i].totalBetThisHand = 0 /\ ~g.seats[i].inHand
<1>1. \A i \in DOMAIN g.seats : g.seats[i] \in IdleSeat
  BY SeatsAre DEF IdleTable
<1> QED BY <1>1 DEF PlayersIn, InTheHand, IdleSeat

\* Everybody seated whose seat is in the hand.
HandPlayers(g) ==
  {p \in {s.playerId : s \in ToSet(g.seats)} :
     g.seats[CHOOSE i \in DOMAIN g.seats : g.seats[i].playerId = p].inHand}

\* Looking a player up by his id finds the seat that is his.
LEMMA PlayersFound ==
  ASSUME NEW g \in Table, InOrder(g.seats)
  PROVE  HandPlayers(g) = PlayersIn(g)
<1> DEFINE seated == {s.playerId : s \in ToSet(g.seats)}
           place(p) == CHOOSE i \in DOMAIN g.seats : g.seats[i].playerId = p
<1>1. \A p \in seated : \E i \in DOMAIN g.seats : g.seats[i].playerId = p
  BY DEF ToSet
<1>2. ASSUME NEW i \in DOMAIN g.seats
      PROVE  /\ g.seats[i].playerId \in Players /\ g.seats[i].playerId \in seated
             /\ place(g.seats[i].playerId) = i
  <2> DEFINE p == g.seats[i].playerId
  <2>1. p \in Players /\ p \in seated
    BY MoneyTypes DEF ToSet
  <2>2. place(p) \in DOMAIN g.seats /\ g.seats[place(p)].playerId = p
    OBVIOUS
  <2> HIDE DEF place
  <2>3. place(p) = i
    BY <2>2, OneSeat
  <2> QED BY <2>1, <2>3
<1>3. HandPlayers(g) = {p \in seated : g.seats[place(p)].inHand}
  BY DEF HandPlayers
<1> HIDE DEF seated, place
<1>4. ASSUME NEW p \in seated, g.seats[place(p)].inHand PROVE p \in PlayersIn(g)
  BY <1>1, <1>2, <1>4 DEF PlayersIn, InTheHand
<1>5. ASSUME NEW p \in PlayersIn(g) PROVE p \in seated /\ g.seats[place(p)].inHand
  BY <1>2 DEF PlayersIn, InTheHand
<1> QED BY <1>3, <1>4, <1>5

\* The stakes and the players of the ledger are those of the table.
LEMMA LedgerReads ==
  ASSUME game \in Table, InOrder(game.seats)
  PROVE  Stakes = Stake(game) /\ Playing = PlayersIn(game)
<1>1. Stakes = Stake(game)
  BY DEF Stakes, Stake, Seated, SeatOf, PositionOf, ToSet
<1>2. Playing = HandPlayers(game)
  BY DEF Playing, HandPlayers, Seated, SeatOf, PositionOf
<1> QED BY <1>1, <1>2, PlayersFound

\* The same after a step.
LEMMA LedgerReadsNext ==
  ASSUME game' \in Table, InOrder(game'.seats)
  PROVE  Stakes' = Stake(game') /\ Playing' = PlayersIn(game')
<1>1. Stakes' = Stake(game')
  BY DEF Stakes, Stake, Seated, SeatOf, PositionOf, ToSet
<1>2. Playing' = HandPlayers(game')
  BY DEF Playing, HandPlayers, Seated, SeatOf, PositionOf
<1> QED BY <1>1, <1>2, PlayersFound

-----------------------------------------------------------------------------
(* Every call is a step of the ledger.                                      *)

\* The steps of the ledger from the stakes s and the players P to t and Q.
Deposited(s, P, t, Q) ==
  \E p \in Players : p \notin P /\ t[p] > s[p] /\ t = [s EXCEPT ![p] = t[p]] /\ Q = P

Withdrawn(s, P, t, Q) ==
  \E S \in SUBSET Players :
    S \cap P = {} /\ t = [p \in Players |-> IF p \in S THEN 0 ELSE s[p]] /\ Q = P

DealtOut(s, P, t, Q) ==
  P = {} /\ Q \in SUBSET Players /\ Cardinality(Q) >= 2 /\ t = s

Settled(s, P, t, Q) ==
  /\ P # {} /\ Q = {} /\ t \in [Players -> Nat]
  /\ \A p \in Players \ P : t[p] = s[p]
  /\ SumFunctionOnSet(t, P) <= SumFunctionOnSet(s, P)

Moves(s, P, t, Q) ==
  \/ t = s /\ Q = P
  \/ Deposited(s, P, t, Q) \/ Withdrawn(s, P, t, Q)
  \/ DealtOut(s, P, t, Q) \/ Settled(s, P, t, Q)

\* Each of these changes is a step of the ledger, or none.
LEMMA LedgerMoves ==
  ASSUME Moves(Stakes, Playing, Stakes', Playing')
  PROVE  [Ledger!Next]_(Ledger!ledger)
<1>1. CASE Stakes' = Stakes /\ Playing' = Playing
  BY <1>1 DEF Ledger!ledger
<1>2. CASE Deposited(Stakes, Playing, Stakes', Playing')
  <2>1. \E p \in Players : Ledger!Deposit(p)
    BY <1>2 DEF Deposited, Ledger!Deposit
  <2> QED BY <2>1 DEF Ledger!Next
<1>3. CASE Withdrawn(Stakes, Playing, Stakes', Playing')
  <2>1. \E S \in SUBSET Players : Ledger!Withdraw(S)
    BY <1>3 DEF Withdrawn, Ledger!Withdraw
  <2> QED BY <2>1 DEF Ledger!Next
<1>4. CASE DealtOut(Stakes, Playing, Stakes', Playing')
  <2>1. \A S : Ledger!Cardinality(S) = Cardinality(S)
    BY DEF Ledger!Cardinality, Cardinality
  <2>2. Ledger!Deal
    BY <1>4, <2>1 DEF DealtOut, Ledger!Deal
  <2> QED BY <2>2 DEF Ledger!Next
<1>5. CASE Settled(Stakes, Playing, Stakes', Playing')
  <2>1. \A S, f : Ledger!Total(S, f) = SumFunctionOnSet(f, S)
    BY DEF Ledger!Total, Ledger!SumFunctionOnSet, SumFunctionOnSet, Ledger!FoldFunctionOnSet,
           FoldFunctionOnSet, Ledger!MapThenFoldSet, MapThenFoldSet
  <2>2. Ledger!Settle
    BY <1>5, <2>1 DEF Settled, Ledger!Settle
  <2> QED BY <2>2 DEF Ledger!Next
<1> QED BY <1>1, <1>2, <1>3, <1>4, <1>5 DEF Moves

\* A newcomer owns nothing yet.
LEMMA JoinedMoves ==
  ASSUME NEW g \in Table, NEW h \in Table, InOrder(g.seats), InOrder(h.seats), Joined(g, h)
  PROVE  Stake(h) = Stake(g) /\ PlayersIn(h) = PlayersIn(g)
<1>1. PICK s \in IdleSeat :
         /\ s.chips = 0
         /\ \A i \in DOMAIN g.seats : g.seats[i].playerId # s.playerId
         /\ \A i \in DOMAIN g.seats : \E j \in DOMAIN h.seats : h.seats[j] = g.seats[i]
         /\ \A j \in DOMAIN h.seats : \/ h.seats[j] = s
                                      \/ \E i \in DOMAIN g.seats : g.seats[i] = h.seats[j]
  BY JoinedSeats
<1>2. s.playerId \in Players /\ s.totalBetThisHand = 0 /\ ~s.inHand
  BY DEF IdleSeat, Seat
<1>3. Owns(g, Stake(g))
  BY StakeOwns
<1>4. Stake(g)[s.playerId] = 0
  BY <1>1, <1>2, <1>3 DEF Owns
<1>5. ASSUME NEW j \in DOMAIN h.seats
      PROVE  Stake(g)[h.seats[j].playerId] = h.seats[j].chips + h.seats[j].totalBetThisHand
  <2>1. CASE h.seats[j] = s
    BY <1>1, <1>2, <1>4, <2>1
  <2>2. CASE \E i \in DOMAIN g.seats : g.seats[i] = h.seats[j]
    BY <1>3, <2>2 DEF Owns
  <2> QED BY <1>1, <2>1, <2>2
<1>6. ASSUME NEW p \in Players, \A j \in DOMAIN h.seats : h.seats[j].playerId # p
      PROVE  Stake(g)[p] = 0
  <2>1. \A i \in DOMAIN g.seats : g.seats[i].playerId # p
    BY <1>1, <1>6
  <2> QED BY <1>3, <2>1 DEF Owns
<1>7. Owns(h, Stake(g))
  BY <1>3, <1>5, <1>6 DEF Owns
<1>8. SamePlayers(g, h)
  BY SeatCallPlayers
<1>9. PlayersIn(h) = PlayersIn(g)
  BY <1>8 DEF SamePlayers, PlayersIn, InTheHand
<1> QED BY <1>7, <1>9, OwnsIsStake

\* Those who are removed take what they own with them; none of them plays.
LEMMA LeftMoves ==
  ASSUME NEW g \in Table, NEW h \in Table, InOrder(g.seats), InOrder(h.seats), Left(g, h)
  PROVE  Withdrawn(Stake(g), PlayersIn(g), Stake(h), PlayersIn(h))
<1> DEFINE S == {p \in Players : /\ \E i \in DOMAIN g.seats : g.seats[i].playerId = p
                                 /\ \A j \in DOMAIN h.seats : h.seats[j].playerId # p}
           f == [p \in Players |-> IF p \in S THEN 0 ELSE Stake(g)[p]]
<1>1. /\ \A j \in DOMAIN h.seats : \E i \in DOMAIN g.seats : g.seats[i] = h.seats[j]
      /\ \A i \in DOMAIN g.seats :
           ~Leaves(g.seats[i]) => \E j \in DOMAIN h.seats : h.seats[j] = g.seats[i]
  BY LeftSeats
<1>2. Owns(g, Stake(g))
  BY StakeOwns
<1>3. \A i \in DOMAIN h.seats : h.seats[i].playerId \in Players
  BY MoneyTypes
<1>4. f \in [Players -> Nat]
  BY <1>2 DEF Owns
<1>5. ASSUME NEW j \in DOMAIN h.seats
      PROVE  f[h.seats[j].playerId] = h.seats[j].chips + h.seats[j].totalBetThisHand
  <2>1. h.seats[j].playerId \notin S
    OBVIOUS
  <2>2. PICK i \in DOMAIN g.seats : g.seats[i] = h.seats[j]
    BY <1>1
  <2>3. Stake(g)[h.seats[j].playerId] = h.seats[j].chips + h.seats[j].totalBetThisHand
    BY <1>2, <2>2 DEF Owns
  <2> HIDE DEF S
  <2> QED BY <1>3, <2>1, <2>3
<1>6. ASSUME NEW p \in Players, \A j \in DOMAIN h.seats : h.seats[j].playerId # p
      PROVE  f[p] = 0
  <2>1. CASE p \in S
    BY <2>1
  <2>2. CASE p \notin S
    <3>1. \A i \in DOMAIN g.seats : g.seats[i].playerId # p
      BY <1>6, <2>2
    <3> QED BY <1>2, <2>2, <3>1 DEF Owns
  <2> QED BY <2>1, <2>2
<1>7. S \cap PlayersIn(g) = {}
  <2> SUFFICES ASSUME NEW p \in S, p \in PlayersIn(g) PROVE FALSE
    OBVIOUS
  <2>1. PICK i \in DOMAIN g.seats : g.seats[i].playerId = p /\ g.seats[i].inHand
    BY DEF PlayersIn, InTheHand
  <2>2. ~Leaves(g.seats[i])
    BY <2>1 DEF Leaves
  <2> QED BY <1>1, <2>1, <2>2
<1> HIDE DEF f
<1>8. Owns(h, f)
  BY <1>4, <1>5, <1>6 DEF Owns
<1>9. Stake(h) = [p \in Players |-> IF p \in S THEN 0 ELSE Stake(g)[p]]
  BY <1>8, OwnsIsStake DEF f
<1>10. PlayersIn(h) = PlayersIn(g)
  <2>1. SamePlayers(g, h)
    BY SeatCallPlayers
  <2> QED BY <2>1 DEF SamePlayers, PlayersIn, InTheHand
<1>11. S \in SUBSET Players
  OBVIOUS
<1> HIDE DEF S
<1> QED BY <1>7, <1>9, <1>10, <1>11 DEF Withdrawn

\* One stack is another: only what its player owns changes.
LEMMA EditedStake ==
  ASSUME NEW g \in Table, NEW h \in Table, InOrder(g.seats), InOrder(h.seats),
         NEW p, NEW chips, EditedSeat(g, h, p, chips)
  PROVE  \E i \in DOMAIN g.seats :
           /\ g.seats[i].playerId = p /\ PlayersIn(h) = PlayersIn(g)
           /\ chips \in Nat /\ p \in Players
           /\ Stake(h) = [Stake(g) EXCEPT ![p] = chips + g.seats[i].totalBetThisHand]
<1>1. PICK i \in DOMAIN g.seats, t \in Seat :
        /\ g.seats[i].playerId = p /\ h = [g EXCEPT !.seats[i] = t]
        /\ SameSeat(g.seats[i], t) /\ t.chips = chips
  BY DEF EditedSeat
<1>2. g.seats \in Seq(Seat)
  BY DEF Table
<1>3. h.seats = [g.seats EXCEPT ![i] = t]
  BY <1>1 DEF Table
<1>4. /\ DOMAIN h.seats = DOMAIN g.seats /\ h.seats[i] = t
      /\ \A j \in DOMAIN g.seats : j # i => h.seats[j] = g.seats[j]
  BY <1>2, <1>3
<1>5. /\ t.playerId = p /\ t.inHand = g.seats[i].inHand /\ p \in Players
      /\ t.totalBetThisHand = g.seats[i].totalBetThisHand
  BY <1>1, MoneyTypes DEF SameSeat, SameHand, SamePlace
<1>6. chips \in Nat /\ g.seats[i].totalBetThisHand \in Nat
  BY <1>1, MoneyTypes DEF Seat
<1>7. PlayersIn(h) = PlayersIn(g)
  <2>1. \A j \in DOMAIN g.seats : /\ h.seats[j].playerId = g.seats[j].playerId
                                  /\ h.seats[j].inHand = g.seats[j].inHand
    BY <1>1, <1>4, <1>5
  <2> QED BY <1>4, <2>1, SamePlaying
<1> DEFINE worth == chips + g.seats[i].totalBetThisHand
           f == [Stake(g) EXCEPT ![p] = worth]
<1>8. Owns(g, Stake(g))
  BY StakeOwns
<1>9. worth \in Nat /\ t.chips + t.totalBetThisHand = worth
  BY <1>1, <1>5, <1>6
<1> HIDE DEF worth
<1>10. f \in [Players -> Nat] /\ f[p] = worth /\ \A q \in Players : q # p => f[q] = Stake(g)[q]
  BY <1>5, <1>8, <1>9 DEF Owns
<1> HIDE DEF f
<1>11. ASSUME NEW j \in DOMAIN h.seats
       PROVE  f[h.seats[j].playerId] = h.seats[j].chips + h.seats[j].totalBetThisHand
  <2>1. CASE j = i
    BY <1>4, <1>5, <1>9, <1>10, <2>1
  <2>2. CASE j # i
    <3>1. g.seats[j].playerId # p
      BY <1>1, <1>4, <2>2, OneSeat
    <3>2. g.seats[j].playerId \in Players
      BY <1>4, MoneyTypes
    <3>3. Stake(g)[g.seats[j].playerId] = g.seats[j].chips + g.seats[j].totalBetThisHand
      BY <1>4, <1>8 DEF Owns
    <3> QED BY <1>4, <1>10, <2>2, <3>1, <3>2, <3>3
  <2> QED BY <2>1, <2>2
<1>12. ASSUME NEW q \in Players, \A j \in DOMAIN h.seats : h.seats[j].playerId # q
       PROVE  f[q] = 0
  <2>1. q # p
    BY <1>4, <1>5, <1>12
  <2>2. \A j \in DOMAIN g.seats : g.seats[j].playerId # q
    BY <1>1, <1>4, <1>12, <2>1
  <2>3. Stake(g)[q] = 0
    BY <1>8, <2>2 DEF Owns
  <2> QED BY <1>10, <2>1, <2>3
<1>13. Owns(h, f)
  BY <1>10, <1>11, <1>12 DEF Owns
<1>14. Stake(h) = f
  BY <1>13, OwnsIsStake
<1> QED BY <1>1, <1>5, <1>6, <1>7, <1>14 DEF f, worth

\* The call edits the stack of p's seat: s is that seat, and chips its new stack.
LEMMA EditedMoves ==
  ASSUME NEW g \in Table, NEW h \in Table, InOrder(g.seats), InOrder(h.seats), Backed(g),
         NEW k \in DOMAIN g.seats, NEW chips, EditedSeat(g, h, g.seats[k].playerId, chips)
  PROVE  LET s == g.seats[k]
         IN  /\ chips = s.chips => Stake(h) = Stake(g) /\ PlayersIn(h) = PlayersIn(g)
             /\ chips > s.chips /\ ~s.inHand
                  => Deposited(Stake(g), PlayersIn(g), Stake(h), PlayersIn(h))
             /\ chips = 0 /\ ~s.inHand
                  => Withdrawn(Stake(g), PlayersIn(g), Stake(h), PlayersIn(h))
<1> DEFINE s == g.seats[k]
           p == s.playerId
<1>1. PICK i \in DOMAIN g.seats :
        /\ g.seats[i].playerId = p /\ PlayersIn(h) = PlayersIn(g) /\ chips \in Nat
        /\ p \in Players
        /\ Stake(h) = [Stake(g) EXCEPT ![p] = chips + g.seats[i].totalBetThisHand]
  BY EditedStake
<1>2. g.seats[i] = s
  BY <1>1, OneSeat
<1>3. /\ s.chips \in Nat /\ s.totalBetThisHand \in Nat
      /\ ~s.inHand => s.totalBetThisHand = 0
  BY MoneyTypes DEF Backed, Bettor
<1>4. Stake(g) \in [Players -> Nat] /\ Stake(g)[p] = s.chips + s.totalBetThisHand
  BY StakeOwns DEF Owns
<1>5. ~s.inHand => p \notin PlayersIn(g)
  BY OneSeat DEF PlayersIn, InTheHand
<1> HIDE DEF s, p
<1>6. Stake(h) = [Stake(g) EXCEPT ![p] = chips + s.totalBetThisHand]
  BY <1>1, <1>2
<1>7. ASSUME chips = s.chips PROVE Stake(h) = Stake(g)
  BY <1>4, <1>6, <1>7
<1>8. ASSUME chips > s.chips, ~s.inHand
      PROVE  Deposited(Stake(g), PlayersIn(g), Stake(h), PlayersIn(h))
  <2>1. Stake(h)[p] = chips + s.totalBetThisHand
    BY <1>1, <1>4, <1>6
  <2>2. Stake(h)[p] > Stake(g)[p]
    BY <1>1, <1>3, <1>4, <1>8, <2>1
  <2>3. Stake(h) = [Stake(g) EXCEPT ![p] = Stake(h)[p]]
    BY <1>6, <2>1
  <2> QED BY <1>1, <1>5, <1>8, <2>2, <2>3 DEF Deposited
<1>9. ASSUME chips = 0, ~s.inHand
      PROVE  Withdrawn(Stake(g), PlayersIn(g), Stake(h), PlayersIn(h))
  <2>0. chips + s.totalBetThisHand = 0
    BY <1>3, <1>9
  <2>1. Stake(h) = [Stake(g) EXCEPT ![p] = 0]
    BY <1>6, <2>0
  <2>2. Stake(h) = [q \in Players |-> IF q \in {p} THEN 0 ELSE Stake(g)[q]]
    BY <1>4, <2>1
  <2>3. {p} \in SUBSET Players /\ {p} \cap PlayersIn(g) = {}
    BY <1>1, <1>5, <1>9
  <2> QED BY <1>1, <2>2, <2>3 DEF Withdrawn
<1> QED BY <1>1, <1>7, <1>8, <1>9 DEF s

\* The blinds are posted out of what the players own, and two at least play.
LEMMA StartedMoves ==
  ASSUME NEW g \in IdleTable, NEW h \in Table, InOrder(g.seats), InOrder(h.seats), Started(g, h)
  PROVE  DealtOut(Stake(g), PlayersIn(g), Stake(h), PlayersIn(h))
<1>0. g \in Table
  BY DEF IdleTable
<1>1. /\ DOMAIN h.seats = DOMAIN g.seats
      /\ \A i \in DOMAIN g.seats : SamePlace(g.seats[i], h.seats[i])
      /\ \E sb, bb \in DealtSeats(h) : sb # bb /\
           \A i \in DOMAIN g.seats :
             LET blind == IF i = sb THEN Min({h.smallBlind, g.seats[i].chips})
                          ELSE IF i = bb THEN h.bigBlind ELSE 0
             IN  /\ h.seats[i].chips = g.seats[i].chips - blind
                 /\ h.seats[i].currentBet = blind /\ h.seats[i].totalBetThisHand = blind
  BY DEF Started
<1>2. PICK sb \in DealtSeats(h), bb \in DealtSeats(h) :
        /\ sb # bb
        /\ \A i \in DOMAIN g.seats :
             h.seats[i].chips = g.seats[i].chips - h.seats[i].totalBetThisHand
  <2>1. PICK sb \in DealtSeats(h), bb \in DealtSeats(h) : sb # bb /\
           \A i \in DOMAIN g.seats :
             LET blind == IF i = sb THEN Min({h.smallBlind, g.seats[i].chips})
                          ELSE IF i = bb THEN h.bigBlind ELSE 0
             IN  /\ h.seats[i].chips = g.seats[i].chips - blind
                 /\ h.seats[i].totalBetThisHand = blind
    BY <1>1
  <2>2. ASSUME NEW i \in DOMAIN g.seats
        PROVE  h.seats[i].chips = g.seats[i].chips - h.seats[i].totalBetThisHand
    <3> DEFINE blind == IF i = sb THEN Min({h.smallBlind, g.seats[i].chips})
                        ELSE IF i = bb THEN h.bigBlind ELSE 0
    <3>1. h.seats[i].chips = g.seats[i].chips - blind /\ h.seats[i].totalBetThisHand = blind
      BY <2>1
    <3> HIDE DEF blind
    <3> QED BY <3>1
  <2> QED BY <2>1, <2>2
<1>3. PlayersIn(g) = {} /\ \A i \in DOMAIN g.seats : g.seats[i].totalBetThisHand = 0
  BY IdlePlayers
<1>4. Stake(h) = Stake(g)
  <2>1. ASSUME NEW i \in DOMAIN g.seats
        PROVE  /\ h.seats[i].playerId = g.seats[i].playerId
               /\ h.seats[i].chips + h.seats[i].totalBetThisHand
                    = g.seats[i].chips + g.seats[i].totalBetThisHand
    <3>1. g.seats[i].chips \in Nat /\ h.seats[i].totalBetThisHand \in Nat
      BY <1>0, <1>1, MoneyTypes
    <3> QED BY <1>1, <1>2, <1>3, <3>1 DEF SamePlace
  <2> QED BY <1>0, <1>1, <2>1, SameWorth
<1>5. PlayersIn(h) \in SUBSET Players
  BY DEF PlayersIn
<1>6. Cardinality(PlayersIn(h)) >= 2
  <2> DEFINE x == h.seats[sb].playerId
             y == h.seats[bb].playerId
  <2>1. x \in PlayersIn(h) /\ y \in PlayersIn(h)
    BY MoneyTypes DEF DealtSeats, PlayersIn, InTheHand
  <2>2. x # y
    BY <1>2, OneSeat DEF DealtSeats
  <2> HIDE DEF x, y
  <2>3. IsFiniteSet(PlayersIn(h))
    BY <1>5, TableAssumption, FS_Subset
  <2>4. Cardinality({x, y}) = 2 /\ {x, y} \subseteq PlayersIn(h)
    <3>1. IsFiniteSet({x}) /\ Cardinality({x}) = 1
      BY FS_Singleton
    <3>2. Cardinality({x} \cup {y}) = Cardinality({x}) + 1
      BY <2>2, <3>1, FS_AddElement
    <3>3. {x} \cup {y} = {x, y}
      OBVIOUS
    <3> QED BY <2>1, <3>1, <3>2, <3>3
  <2> QED BY <2>3, <2>4, FS_Subset, FS_CardinalityType
<1> QED BY <1>3, <1>4, <1>5, <1>6 DEF DealtOut

\* A hand that ends moves chips between those who played it.
LEMMA PaidMoves ==
  ASSUME NEW t \in Table, NEW h \in IdleTable, InOrder(t.seats), InOrder(h.seats), Backed(t),
         SamePlaces(t, h), NEW won, PaidOut(t, h, won),
         NEW k \in DOMAIN t.seats, t.seats[k].inHand
  PROVE  Settled(Stake(t), PlayersIn(t), Stake(h), PlayersIn(h))
<1> DEFINE N == Len(t.seats)
           P == PlayersIn(t)
           rest == [i \in 1..N |-> IF t.seats[i].inHand THEN t.seats[i].chips ELSE 0]
           bets == [i \in 1..N |-> t.seats[i].totalBetThisHand]
           had == [i \in 1..N |-> rest[i] + bets[i]]
           has == [i \in 1..N |-> rest[i] + won[i]]
<1>1. /\ h \in Table /\ N \in Nat /\ DOMAIN t.seats = 1..N /\ DOMAIN h.seats = 1..N
      /\ \A i \in 1..N : /\ h.seats[i].playerId = t.seats[i].playerId
                         /\ t.seats[i].playerId \in Players
                         /\ t.seats[i].chips \in Nat /\ t.seats[i].totalBetThisHand \in Nat
                         /\ ~t.seats[i].inHand => t.seats[i].totalBetThisHand = 0
  <2>1. h \in Table /\ N \in Nat /\ DOMAIN t.seats = 1..N /\ DOMAIN h.seats = DOMAIN t.seats
    BY MoneyTypes DEF IdleTable, SamePlaces
  <2> QED BY <2>1, MoneyTypes DEF Backed, Bettor, SamePlaces, SamePlace
<1>2. /\ won \in [1..N -> Nat] /\ SumSeq(won) <= GetTotalPot(t)
      /\ \A i \in 1..N : /\ ~t.seats[i].inHand => won[i] = 0
                         /\ h.seats[i].chips = t.seats[i].chips + won[i]
  BY <1>1 DEF PaidOut
<1>3. /\ PlayersIn(h) = {}
      /\ \A i \in 1..N : h.seats[i].totalBetThisHand = 0
  BY <1>1, IdlePlayers
<1>4. Owns(t, Stake(t)) /\ Owns(h, Stake(h))
  BY <1>1, StakeOwns
<1>5. P # {} /\ P \in SUBSET Players
  BY <1>1 DEF PlayersIn, InTheHand
<1>6. \A i \in 1..N : t.seats[i].playerId \in P <=> t.seats[i].inHand
  BY <1>1, OneSeat DEF PlayersIn, InTheHand
<1>7. \A p \in P : \E i \in 1..N : t.seats[i].playerId = p
  BY <1>1 DEF PlayersIn, InTheHand
<1> HIDE DEF P, N
<1>8. ASSUME NEW p \in Players \ P PROVE Stake(h)[p] = Stake(t)[p]
  <2>1. CASE \E i \in 1..N : t.seats[i].playerId = p
    <3>1. PICK i \in 1..N : t.seats[i].playerId = p
      BY <2>1
    <3>2. ~t.seats[i].inHand
      BY <1>6, <1>8, <3>1
    <3>3. Stake(h)[p] = h.seats[i].chips + h.seats[i].totalBetThisHand
      BY <1>1, <1>4, <3>1 DEF Owns
    <3>4. Stake(t)[p] = t.seats[i].chips + t.seats[i].totalBetThisHand
      BY <1>1, <1>4, <3>1 DEF Owns
    <3> QED BY <1>1, <1>2, <1>3, <3>2, <3>3, <3>4
  <2>2. CASE \A i \in 1..N : t.seats[i].playerId # p
    <3>1. \A i \in 1..N : h.seats[i].playerId # p
      BY <1>1, <2>2
    <3> QED BY <1>1, <1>4, <2>2, <3>1 DEF Owns
  <2> QED BY <2>1, <2>2
<1>9. /\ rest \in [1..N -> Nat] /\ bets \in [1..N -> Nat]
      /\ had \in [1..N -> Nat] /\ has \in [1..N -> Nat]
  <2>1. rest \in [1..N -> Nat] /\ bets \in [1..N -> Nat]
    BY <1>1
  <2>2. \A i \in 1..N : rest[i] \in Nat /\ bets[i] \in Nat /\ won[i] \in Nat
    BY <1>2, <2>1
  <2> HIDE DEF rest, bets
  <2> QED BY <2>1, <2>2
<1>10. SumSeq(had) = SumSeq(rest) + SumSeq(bets) /\ SumSeq(has) = SumSeq(rest) + SumSeq(won)
  <2>1. \A i \in 1..N : had[i] = rest[i] + bets[i]
    OBVIOUS
  <2>2. \A i \in 1..N : has[i] = rest[i] + won[i]
    OBVIOUS
  <2> HIDE DEF rest, bets, had, has
  <2>3. N \in Nat /\ won \in [1..N -> Nat]
    BY <1>1, <1>2
  <2>4. \A a, b, c \in [1..N -> Nat] :
          (\A i \in 1..N : c[i] = a[i] + b[i]) => SumSeq(c) = SumSeq(a) + SumSeq(b)
    BY <2>3, SumSeqAdd
  <2>5. SumSeq(had) = SumSeq(rest) + SumSeq(bets)
    BY <1>9, <2>1, <2>4
  <2>6. SumSeq(has) = SumSeq(rest) + SumSeq(won)
    BY <1>9, <2>2, <2>3, <2>4
  <2> QED BY <2>5, <2>6
<1>11. SumSeq(won) <= SumSeq(bets)
  <2>1. SumSeq(bets) = Staked(t)
    BY <1>1 DEF Staked
  <2>2. GetTotalPot(t) \in Nat /\ Staked(t) \in Nat /\ GetTotalPot(t) <= Staked(t)
    BY SumTypes DEF Backed
  <2>3. SumSeq(won) \in Nat
    BY <1>1, <1>2, SeqIntro, SumSeqType
  <2> QED BY <1>2, <2>1, <2>2, <2>3
<1>12. KeptFor(t, had, Stake(t), P)
  <2>1. ASSUME NEW i \in 1..N, t.seats[i].playerId \in P
        PROVE  had[i] = Stake(t)[t.seats[i].playerId]
    BY <1>1, <1>4, <1>6, <2>1 DEF Owns
  <2>2. ASSUME NEW i \in 1..N, t.seats[i].playerId \notin P PROVE had[i] = 0
    BY <1>1, <1>6, <2>2
  <2> HIDE DEF had
  <2> QED BY <1>1, <1>7, <1>9, <2>1, <2>2 DEF KeptFor
<1>13. KeptFor(h, has, Stake(h), P)
  <2>1. ASSUME NEW i \in 1..N, h.seats[i].playerId \in P
        PROVE  has[i] = Stake(h)[h.seats[i].playerId]
    <3>1. Stake(h)[h.seats[i].playerId] = h.seats[i].chips + h.seats[i].totalBetThisHand
      BY <1>1, <1>4 DEF Owns
    <3>2. t.seats[i].inHand
      BY <1>1, <1>6, <2>1
    <3>3. has[i] = t.seats[i].chips + won[i] /\ won[i] \in Nat
      BY <1>2, <3>2
    <3> QED BY <1>1, <1>2, <1>3, <3>1, <3>3
  <2>2. ASSUME NEW i \in 1..N, h.seats[i].playerId \notin P PROVE has[i] = 0
    <3>1. ~t.seats[i].inHand
      BY <1>1, <1>6, <2>2
    <3>2. rest[i] = 0 /\ won[i] = 0
      BY <1>2, <3>1
    <3> HIDE DEF rest
    <3> QED BY <3>2
  <2>3. \A p \in P : \E i \in 1..N : h.seats[i].playerId = p
    BY <1>1, <1>7
  <2> HIDE DEF has
  <2> QED BY <1>1, <1>9, <2>1, <2>2, <2>3 DEF KeptFor
<1> HIDE DEF had, has, bets, rest
<1>14. SumSeq(had) = SumFunctionOnSet(Stake(t), P)
  BY <1>4, <1>5, <1>12, SumOfPlayers DEF Owns
<1>15. SumSeq(has) = SumFunctionOnSet(Stake(h), P)
  BY <1>1, <1>4, <1>5, <1>13, SumOfPlayers DEF Owns
<1>16. SumSeq(has) <= SumSeq(had)
  <2>1. SumSeq(rest) \in Nat /\ SumSeq(bets) \in Nat /\ SumSeq(won) \in Nat
    BY <1>1, <1>2, <1>9, SeqIntro, SumSeqType
  <2> QED BY <1>10, <1>11, <2>1
<1>17. Stake(h) \in [Players -> Nat]
  BY <1>4 DEF Owns
<1>18. SumFunctionOnSet(Stake(h), P) <= SumFunctionOnSet(Stake(t), P)
  BY <1>14, <1>15, <1>16
<1> QED BY <1>3, <1>5, <1>8, <1>17, <1>18 DEF Settled, P

\* A turn leaves every stake alone until the hand is settled.
LEMMA TurnedMoves ==
  ASSUME NEW g, NEW h \in SoundTable, h \in Table, InOrder(h.seats), Turned(g, h), Sound(g)
  PROVE  Moves(Stake(g), PlayersIn(g), Stake(h), PlayersIn(h))
<1> DEFINE a == Aimed(g)
<1>1. /\ a \in HandTable /\ a \in Table /\ a.stage \in Streets
      /\ a.seats = g.seats /\ a.sidePots = g.sidePots
  BY AimedIs DEF Turned, SameRound, HandTable
<1>2. Stake(a) = Stake(g) /\ PlayersIn(a) = PlayersIn(g)
  BY <1>1 DEF Stake, PlayersIn, InTheHand
<1>3. InOrder(a.seats) /\ PotsOwned(a) /\ Backed(a)
  <2>1. \A i \in DOMAIN g.seats : SameBets(g.seats[i], a.seats[i])
    BY <1>1 DEF SameBets
  <2> HIDE DEF a
  <2>2. Backed(a)
    BY <1>1, <2>1, SameBetsBacked DEF Sound
  <2> QED BY <1>1, <2>2 DEF Sound, Ordered, PotsOwned, OwnedPot, InTheHand
<1>4. \/ h = a
      \/ \E t, pay : Acted(a, t, a.actingIndex + 1, pay) /\ h \in Outcomes(PlayOn(t))
  BY DEF Turned
<1> HIDE DEF a
<1>5. CASE h = a
  BY <1>2, <1>5 DEF Moves
<1>6. CASE \E t, pay : Acted(a, t, a.actingIndex + 1, pay) /\ h \in Outcomes(PlayOn(t))
  <2> DEFINE i == a.actingIndex + 1
  <2>1. PICK t, pay : Acted(a, t, i, pay) /\ h \in Outcomes(PlayOn(t))
    BY <1>6
  <2> HIDE DEF i
  <2>2. /\ t \in HandTable /\ t.stage \in Streets /\ SameHands(a, t) /\ t.sidePots = a.sidePots
    BY <1>1, <2>1 DEF Acted
  <2>3. /\ t \in Table /\ DOMAIN t.seats = DOMAIN a.seats /\ pay \in Nat
        /\ i \in DOMAIN a.seats /\ a.seats[i].inHand
        /\ t.seats[i].chips + pay = a.seats[i].chips
        /\ t.seats[i].totalBetThisHand = a.seats[i].totalBetThisHand + pay
        /\ \A j \in DOMAIN a.seats :
             /\ t.seats[j].inHand = a.seats[j].inHand
             /\ t.seats[j].playerId = a.seats[j].playerId
             /\ j # i => /\ t.seats[j].chips = a.seats[j].chips
                         /\ t.seats[j].totalBetThisHand = a.seats[j].totalBetThisHand
    BY <1>1, <2>1, ActedMoney
  <2>4. Backed(t)
    BY <1>1, <1>3, <2>1, ActedBacked
  <2>5. InOrder(t.seats)
    BY <1>3, <2>2, SamePlacesOrdered DEF SameHands, SamePlaces
  <2>6. PotsOwned(t)
    <3>1. \A p : InTheHand(a, p) => InTheHand(t, p)
      BY <2>2, SameHandsSamePlayers
    <3> QED BY <1>3, <2>2, <3>1 DEF PotsOwned, OwnedPot
  <2>7. Stake(t) = Stake(a) /\ PlayersIn(t) = PlayersIn(a)
    <3>1. ASSUME NEW j \in DOMAIN a.seats
          PROVE  t.seats[j].chips + t.seats[j].totalBetThisHand
                   = a.seats[j].chips + a.seats[j].totalBetThisHand
      <4>1. /\ a.seats[j].chips \in Nat /\ a.seats[j].totalBetThisHand \in Nat
            /\ t.seats[j].chips \in Nat
        BY <1>1, <2>3, MoneyTypes
      <4>2. CASE j = i
        BY <2>3, <4>1, <4>2
      <4>3. CASE j # i
        BY <2>3, <4>3
      <4> QED BY <4>2, <4>3
    <3>2. Stake(t) = Stake(a)
      BY <1>1, <1>3, <2>3, <2>5, <3>1, SameWorth
    <3>3. PlayersIn(t) = PlayersIn(a)
      BY <2>3, SamePlaying
    <3> QED BY <3>2, <3>3
  <2>8. CASE Ended(t, h)
    <3>1. h.stage = "Waiting" /\ SamePlaces(t, h)
      BY <2>8 DEF Ended
    <3>2. h \in IdleTable
      BY <3>1 DEF SoundTable, Streets
    <3>3. PICK won : PaidOut(t, h, won)
      BY <2>1, <2>2, <2>5, <2>6, <3>1, HandPaid
    <3>4. i \in DOMAIN t.seats /\ t.seats[i].inHand
      BY <2>3
    <3>5. Settled(Stake(t), PlayersIn(t), Stake(h), PlayersIn(h))
      BY <2>3, <2>4, <2>5, <3>1, <3>2, <3>3, <3>4, PaidMoves
    <3> QED BY <1>2, <2>7, <3>5 DEF Moves
  <2>9. CASE \E k \in Positions(t) : Live(At(t, k)) /\ h = [t EXCEPT !.actingIndex = k]
    <3>1. PICK k \in Positions(t) : h = [t EXCEPT !.actingIndex = k]
      BY <2>9
    <3>2. h.seats = t.seats
      BY <2>3, <3>1 DEF Table
    <3>3. Stake(h) = Stake(t) /\ PlayersIn(h) = PlayersIn(t)
      BY <3>2 DEF Stake, PlayersIn, InTheHand
    <3> QED BY <1>2, <2>7, <3>3 DEF Moves
  <2>10. CASE /\ t.stage \in {"PreFlop", "Flop", "Turn"}
              /\ \E j \in DOMAIN t.seats : Live(t.seats[j])
              /\ h = NewStreet(CollectBetsToSidePots(t))
    <3>1. /\ DOMAIN h.seats = DOMAIN t.seats
          /\ \A j \in DOMAIN t.seats : /\ h.seats[j].playerId = t.seats[j].playerId
                                       /\ h.seats[j].inHand = t.seats[j].inHand
      BY <2>2, <2>10, StreetIs DEF SameHands, SamePlaces, SameHand, SamePlace
    <3>2. \A j \in DOMAIN t.seats :
            /\ h.seats[j].chips = t.seats[j].chips
            /\ h.seats[j].totalBetThisHand = t.seats[j].totalBetThisHand
      BY <2>2, <2>10, StreetMoney
    <3>3. Stake(h) = Stake(t)
      BY <2>3, <2>5, <3>1, <3>2, SameWorth
    <3>4. PlayersIn(h) = PlayersIn(t)
      BY <3>1, SamePlaying
    <3> QED BY <1>2, <2>7, <3>3, <3>4 DEF Moves
  <2> QED BY <2>1, <2>2, <2>8, <2>9, <2>10, PlayedOn DEF GoesOn
<1> QED BY <1>4, <1>5, <1>6

\* The seat of a player found by its id.
LEMMA SeatFound ==
  ASSUME IInv, NEW p \in Seated
  PROVE  \E k \in DOMAIN game.seats : game.seats[k].playerId = p /\ SeatOf(p) = game.seats[k]
BY SeatOfSeated

\* Every call of the engine is a step of the ledger, or none.
LEMMA CallMoves ==
  ASSUME IInv, Sound(game), [Next]_vars
  PROVE  Moves(Stake(game), PlayersIn(game), Stake(game'), PlayersIn(game'))
<1> DEFINE g == game
           h == game'
<1>1. /\ g \in Table /\ h \in Table /\ g \in SoundTable /\ h \in SoundTable
      /\ InOrder(g.seats) /\ InOrder(h.seats)
  BY StepTables DEF Sound
<1>2. Ordered(g) /\ Backed(g) /\ Sound(g)
  BY DEF Sound
<1> SUFFICES Moves(Stake(g), PlayersIn(g), Stake(h), PlayersIn(h))
  OBVIOUS
<1>3. ASSUME h.seats = g.seats PROVE Moves(Stake(g), PlayersIn(g), Stake(h), PlayersIn(h))
  BY <1>3 DEF Moves, Stake, PlayersIn, InTheHand
<1>4. ASSUME Turned(g, h) PROVE Moves(Stake(g), PlayersIn(g), Stake(h), PlayersIn(h))
  <2> HIDE DEF g, h
  <2> QED BY <1>1, <1>2, <1>4, TurnedMoves
<1>5. CASE TakeTurn
  <2>1. {"CheckCall", "AllIn", "Fold", "Bet", "Raise"} \subseteq Actions /\ 0 \in Int
    BY DEF Actions
  <2>2. PICK p \in Players :
          \/ \E action \in {"CheckCall", "AllIn", "Fold"} : HandleAction(p, action, 0)
          \/ \E action \in {"Bet", "Raise"}, amount \in Amounts :
               HandleAction(p, action, amount)
    BY <1>5 DEF TakeTurn
  <2>3. Turned(g, h)
    BY <2>1, <2>2, HandleActionIs, GameAssumption
  <2> QED BY <1>4, <2>3
<1>6. ASSUME NEW blinds \in Blinds, SetBlinds(blinds) PROVE h.seats = g.seats
  BY <1>1, <1>6 DEF SetBlinds, Table
<1>7. ASSUME NEW p \in Players, SitDown(p)
      PROVE  Moves(Stake(g), PlayersIn(g), Stake(h), PlayersIn(h))
  <2>1. Joined(g, h)
    BY <1>1, <1>7, SitDownIs
  <2> HIDE DEF g, h
  <2> QED BY <1>1, <2>1, JoinedMoves DEF Moves
<1>8. ASSUME NEW p \in Players, NEW amount \in BuyIns, BuyIn(p, amount)
      PROVE  Moves(Stake(g), PlayersIn(g), Stake(h), PlayersIn(h))
  <2>1. p \in Seated
    BY <1>8 DEF BuyIn
  <2>2. PICK k \in DOMAIN g.seats : g.seats[k].playerId = p /\ SeatOf(p) = g.seats[k]
    BY <2>1, SeatFound
  <2>3. EditedSeat(g, h, p, g.seats[k].chips + amount) /\ amount \in Nat /\ ~g.seats[k].inHand
    BY <1>8, <2>2, BuyInIs
  <2>4. g.seats[k].chips \in Nat
    BY <1>1, MoneyTypes
  <2> DEFINE chips == g.seats[k].chips + amount
  <2>5. chips = g.seats[k].chips \/ chips > g.seats[k].chips
    BY <2>3, <2>4
  <2>6. EditedSeat(g, h, g.seats[k].playerId, chips)
    BY <2>2, <2>3
  <2> HIDE DEF chips, g, h
  <2> QED BY <1>1, <1>2, <2>3, <2>5, <2>6, EditedMoves DEF Moves
<1>9. ASSUME NEW p \in Players, StandUp(p) \/ SitBack(p) \/ MarkPendingLeave(p)
      PROVE  Moves(Stake(g), PlayersIn(g), Stake(h), PlayersIn(h))
  <2>1. p \in Seated /\ EditedSeat(g, h, p, SeatOf(p).chips)
    BY <1>9, FlagsAre
  <2>2. PICK k \in DOMAIN g.seats : g.seats[k].playerId = p /\ SeatOf(p) = g.seats[k]
    BY <2>1, SeatFound
  <2>3. EditedSeat(g, h, g.seats[k].playerId, g.seats[k].chips)
    BY <2>1, <2>2
  <2> HIDE DEF g, h
  <2> QED BY <1>1, <1>2, <2>3, EditedMoves DEF Moves
<1>10. ASSUME NEW p \in Players, CashOut(p)
       PROVE  Moves(Stake(g), PlayersIn(g), Stake(h), PlayersIn(h))
  <2>1. p \in Seated
    BY <1>10 DEF CashOut
  <2>2. PICK k \in DOMAIN g.seats : g.seats[k].playerId = p /\ SeatOf(p) = g.seats[k]
    BY <2>1, SeatFound
  <2>3. EditedSeat(g, h, g.seats[k].playerId, 0) /\ ~g.seats[k].inHand
    BY <1>10, <2>2, CashOutIs
  <2> HIDE DEF g, h
  <2> QED BY <1>1, <1>2, <2>3, EditedMoves DEF Moves
<1>11. ASSUME RemovePendingLeavers
       PROVE  Moves(Stake(g), PlayersIn(g), Stake(h), PlayersIn(h))
  <2>1. Left(g, h)
    BY <1>2, <1>11, RemovePendingLeaversIs
  <2> HIDE DEF g, h
  <2> QED BY <1>1, <2>1, LeftMoves DEF Moves
<1>12. ASSUME ClearPendingHandResult \/ UNCHANGED vars PROVE h.seats = g.seats
  BY <1>1, <1>12 DEF ClearPendingHandResult, vars, Table
<1>13. ASSUME StartHand PROVE Moves(Stake(g), PlayersIn(g), Stake(h), PlayersIn(h))
  <2>1. g \in IdleTable /\ CanStart(g) /\ h = HandStarted(g)
    BY <1>1, <1>13 DEF SoundTable, StartHand, CanStart, Streets
  <2>2. Started(g, h)
    BY <2>1, HandStartedIs
  <2> HIDE DEF g, h
  <2> QED BY <1>1, <2>1, <2>2, StartedMoves DEF Moves
<1>14. ASSUME ProcessAutoModePlayer PROVE Turned(g, h)
  BY <1>14, ProcessAutoModePlayerIs
<1>15. CASE TableCall
  <2> HIDE DEF g, h
  <2> QED
    BY <1>3, <1>4, <1>6, <1>7, <1>8, <1>9, <1>10, <1>11, <1>12, <1>13, <1>14, <1>15 DEF TableCall
<1> HIDE DEF g, h
<1> QED BY <1>3, <1>5, <1>12, <1>15 DEF Next

\* The engine implements the cash table: what a player owns is frozen while it
\* plays, a hand's end moves chips only between those who played it and pays out
\* no more than they had, and nobody deposits, withdraws or is removed during a
\* hand it plays (all of HoldemPokerGame.cpp).
THEOREM TableKeepsTheLedger == Spec => ImplementsLedger
<1>1. Init => Ledger!Init
  <2> SUFFICES ASSUME Init PROVE Ledger!Init
    OBVIOUS
  <2>1. Seated = {}
    BY DEF Init, Seated, ToSet
  <2> QED BY <2>1 DEF Ledger!Init, Stakes, Playing
<1>2. IInv /\ Sound(game) /\ [Next]_vars => [Ledger!Next]_(Ledger!ledger)
  <2> SUFFICES ASSUME IInv, Sound(game), [Next]_vars
               PROVE  [Ledger!Next]_(Ledger!ledger)
    OBVIOUS
  <2>1. /\ game \in Table /\ game' \in Table
        /\ InOrder(game.seats) /\ InOrder(game'.seats)
    BY StepTables DEF Sound
  <2>2. Moves(Stakes, Playing, Stakes', Playing')
    BY <2>1, CallMoves, LedgerReads, LedgerReadsNext
  <2> QED BY <2>2, LedgerMoves
<1> QED BY <1>1, <1>2, Inductive, SoundInductive, PTL DEF Spec, ImplementsLedger, Ledger!Spec

-----------------------------------------------------------------------------
(* What is announced.                                                       *)

\* Every pot of c is one of g's or somebody can claim it.
Claimable(g, c) ==
  \A k \in DOMAIN c.sidePots :
    c.sidePots[k] \in ToSet(g.sidePots) \/ Contenders(g, c.sidePots[k]) # {}

\* The pots that the loop over the bets makes can be claimed: a layer is pushed
\* only for a seat that bet above the level below it and has not folded.
LEMMA LayersClaimable ==
  ASSUME NEW g \in Table
  PROVE  \A k \in DOMAIN Layers(g) :
           Layers(g)[k] \in ToSet(g.sidePots) \/ Contenders(g, Layers(g)[k]) # {}
<1> DEFINE Good(pot) == pot \in ToSet(g.sidePots) \/ Contenders(g, pot) # {}
           S == {acc \in LoopState : \A k \in DOMAIN acc.pots : Good(acc.pots[k])}
<1>1. g.seats \in Seq(Seat) /\ g.sidePots \in Seq(Pot)
  BY DEF Table
<1>2. [level |-> 0, pots |-> g.sidePots] \in S
  BY <1>1 DEF LoopState, ToSet
<1>3. ASSUME NEW acc \in S PROVE AddLayer(g, acc) \in S
  <2> DEFINE higher == {l \in BetLevels(g) : l > acc.level}
             level == Min(higher)
             pot == Layer(g, acc.level, level)
             next == AddLayer(g, acc)
  <2>1. acc \in LoopState /\ acc.pots \in Seq(Pot)
    BY DEF LoopState
  <2>2. next \in LoopState
    BY <1>1, <2>1, AddLayerType
  <2>3. \/ next.pots = acc.pots
        \/ pot.eligible # {} /\ next.pots = Append(acc.pots, pot)
    BY DEF AddLayer
  <2>4. ASSUME pot.eligible # {} PROVE Good(pot)
    <3>1. PICK j \in DOMAIN g.seats : g.seats[j].playerId \in pot.eligible /\ ~g.seats[j].folded
      BY <2>4 DEF Layer, Contributors
    <3>2. j \in Contenders(g, pot)
      BY <3>1 DEF Contenders
    <3> QED BY <3>2
  <2>5. \A k \in DOMAIN next.pots : Good(next.pots[k])
    <3> HIDE DEF pot, next, Good
    <3>1. \A k \in DOMAIN acc.pots : Good(acc.pots[k])
      OBVIOUS
    <3>2. CASE pot.eligible # {} /\ next.pots = Append(acc.pots, pot)
      <4>1. DOMAIN acc.pots = 1..Len(acc.pots) /\ Len(acc.pots) \in Nat
        BY <2>1, LenProperties
      <4>2. /\ DOMAIN Append(acc.pots, pot) = 1..Len(acc.pots) + 1
            /\ Append(acc.pots, pot)[Len(acc.pots) + 1] = pot
            /\ \A k \in 1..Len(acc.pots) : Append(acc.pots, pot)[k] = acc.pots[k]
        <5>1. acc.pots \in Seq(Pot \cup {pot})
          BY <2>1
        <5> QED BY <5>1, AppendProperties
      <4> QED BY <2>4, <3>1, <3>2, <4>1, <4>2
    <3> QED BY <2>3, <3>1, <3>2
  <2> HIDE DEF next, Good
  <2> QED BY <2>2, <2>5 DEF next
<1>4. \E acc \in S : Layers(g) = acc.pots
  <2> HIDE DEF S
  <2> QED BY <1>2, <1>3, LayersKeep
<1> QED BY <1>4

\* So do those that CollectBetsToSidePots leaves.
LEMMA CollectClaimable ==
  ASSUME NEW g \in HandTable
  PROVE  Claimable(g, CollectBetsToSidePots(g))
<1> DEFINE c == CollectBetsToSidePots(g)
<1>1. g \in Table /\ g.sidePots \in Seq(Pot)
  BY DEF HandTable, Table
<1>2. c.sidePots = g.sidePots \/ c.sidePots = Layers(g)
  BY CollectIs
<1> HIDE DEF c
<1>3. ASSUME c.sidePots = g.sidePots PROVE Claimable(g, c)
  <2>1. \A k \in DOMAIN g.sidePots : g.sidePots[k] \in ToSet(g.sidePots)
    BY DEF ToSet
  <2> QED BY <1>3, <2>1 DEF Claimable
<1>4. ASSUME c.sidePots = Layers(g) PROVE Claimable(g, c)
  BY <1>1, <1>4, LayersClaimable DEF Claimable
<1> QED BY <1>2, <1>3, <1>4 DEF c

\* A pot has the same contenders while nobody moves or folds.
LEMMA SameContenders ==
  ASSUME NEW g, NEW h, DOMAIN h.seats = DOMAIN g.seats,
         \A i \in DOMAIN g.seats : SameStack(g.seats[i], h.seats[i]), NEW pot
  PROVE  Contenders(h, pot) = Contenders(g, pot)
BY DEF Contenders, SameStack, SameHand, SamePlace

\* A showdown is played for the pots of the table and claimable new ones.
LEMMA ShowdownClaimable ==
  ASSUME NEW t \in HandTable, PotsOwned(t), NEW d, ShowdownOf(t, d)
  PROVE  Claimable(t, CollectBetsToSidePots(d))
<1> DEFINE ct == CollectBetsToSidePots(t)
           c == CollectBetsToSidePots(d)
<1>1. d \in HandTable
  BY DEF ShowdownOf
<1>2. Claimable(d, c) /\ Claimable(t, ct)
  BY <1>1, CollectClaimable
<1>3. /\ DOMAIN ct.seats = DOMAIN t.seats
      /\ \A i \in DOMAIN t.seats : SameStack(t.seats[i], ct.seats[i])
  BY CollectStacks
<1>4. \A pot : Contenders(ct, pot) = Contenders(t, pot)
  <2> HIDE DEF ct
  <2> QED BY <1>3, SameContenders
<1> HIDE DEF c, ct
<1>5. CASE d.seats = t.seats /\ d.sidePots = t.sidePots
  <2>1. \A pot : Contenders(d, pot) = Contenders(t, pot)
    BY <1>5 DEF Contenders
  <2> QED BY <1>2, <1>5, <2>1 DEF Claimable, c
<1>6. CASE d.seats = ct.seats /\ d.sidePots = ct.sidePots
  <2>1. \A pot : Contenders(d, pot) = Contenders(ct, pot)
    BY <1>6 DEF Contenders
  <2>2. \A pot \in ToSet(ct.sidePots) : pot \in ToSet(t.sidePots) \/ Contenders(t, pot) # {}
    BY <1>2 DEF Claimable, ToSet
  <2>3. ASSUME NEW k \in DOMAIN c.sidePots
        PROVE  c.sidePots[k] \in ToSet(t.sidePots) \/ Contenders(t, c.sidePots[k]) # {}
    <3>1. c.sidePots[k] \in ToSet(d.sidePots) \/ Contenders(d, c.sidePots[k]) # {}
      BY <1>2 DEF Claimable
    <3> QED BY <1>4, <1>6, <2>1, <2>2, <3>1
  <2> QED BY <2>3 DEF Claimable, c
<1> QED BY <1>5, <1>6 DEF ShowdownOf, c, ct

\* Of those who contend for a pot somebody wins it.
LEMMA SomebodyWins ==
  ASSUME NEW g \in Table, NEW pot, NEW scores \in Scores, Contenders(g, pot) # {}
  PROVE  Winners(g, pot, scores) # {}
<1> DEFINE C == Contenders(g, pot)
           T == {scores[g.seats[i].playerId] : i \in C}
           top == Cardinality(Players)
<1>1. top \in Nat
  BY TableAssumption, FS_CardinalityType
<1>2. scores \in [Players -> 1..top]
  BY DEF Scores
<1>3. \A i \in C : g.seats[i].playerId \in Players
  BY MoneyTypes DEF Contenders
<1> HIDE DEF C, top
<1>4. T \in SUBSET Nat /\ T # {} /\ \A k \in T : k <= top
  BY <1>1, <1>2, <1>3 DEF C
<1>5. Max(T) \in T /\ \A k \in T : k <= Max(T)
  <2> HIDE DEF T
  <2> QED BY <1>1, <1>4, MaxOfBounded
<1>6. PICK i \in C : \A j \in C : scores[g.seats[j].playerId] <= scores[g.seats[i].playerId]
  BY <1>5
<1> QED BY <1>6 DEF C, Winners

\* The pots that come to a showdown are paid out to the last chip, but for those
\* that nobody can claim, and these were there before the turn that ended the hand.
LEMMA ShowdownPaysPots ==
  ASSUME NEW t \in HandTable, InOrder(t.seats), PotsOwned(t), NEW d, ShowdownOf(t, d),
         NEW scores \in Scores, NEW h, NEW won,
         ShownDown(t, h, CollectBetsToSidePots(d), scores, won)
  PROVE  LET c == CollectBetsToSidePots(d)
         IN  \/ SumSeq(won) = PotTotal(c)
             \/ /\ SumSeq(won) < PotTotal(c)
                /\ \E pot \in ToSet(t.sidePots) : Contenders(t, pot) = {}
<1> DEFINE c == CollectBetsToSidePots(d)
           M == Len(c.sidePots)
           amount == [k \in 1..M |-> c.sidePots[k].amount]
           claimed == [k \in 1..M |->
                         IF Winners(c, c.sidePots[k], scores) = {} THEN 0 ELSE amount[k]]
<1>1. Claimable(t, c)
  BY ShowdownClaimable
<1>2. t \in Table /\ ShownDown(t, h, c, scores, won)
  BY DEF HandTable
<1> HIDE DEF c
<1>3. /\ c \in Table /\ DOMAIN c.seats = DOMAIN t.seats
      /\ won \in [DOMAIN c.seats -> Nat]
      /\ \A i \in DOMAIN c.seats : won[i] = Won(c, scores, i)
  BY <1>2, ShownDownSeats
<1>4. \A i \in DOMAIN t.seats : SameStack(t.seats[i], c.seats[i])
  BY <1>2 DEF ShownDown
<1>5. /\ M \in Nat /\ DOMAIN c.sidePots = 1..M
      /\ \A k \in 1..M : c.sidePots[k].amount \in Nat
  BY <1>3, MoneyTypes
<1>6. amount \in [1..M -> Nat] /\ claimed \in [1..M -> Nat] /\ PotTotal(c) = SumSeq(amount)
  BY <1>5 DEF PotTotal
<1>7. SumSeq(won) = SumSeq(claimed) /\ SumSeq(won) <= PotTotal(c)
  <2>1. claimed \in [DOMAIN c.sidePots -> Nat]
    BY <1>5, <1>6
  <2>2. \A k \in DOMAIN c.sidePots :
          claimed[k] = IF Winners(c, c.sidePots[k], scores) = {} THEN 0
                       ELSE c.sidePots[k].amount
    BY <1>5
  <2> HIDE DEF claimed
  <2> QED BY <1>3, <2>1, <2>2, PotsPaidOut
<1>8. SumSeq(won) \in Nat /\ PotTotal(c) \in Nat
  <2>1. SumSeq(amount) \in Nat /\ SumSeq(claimed) \in Nat
    <3> HIDE DEF amount, claimed, M
    <3> QED BY <1>5, <1>6, SeqIntro, SumSeqType
  <2> HIDE DEF amount, claimed
  <2> QED BY <1>6, <1>7, <2>1
<1>9. ASSUME NEW k \in 1..M, Winners(c, c.sidePots[k], scores) = {}
      PROVE  \E pot \in ToSet(t.sidePots) : Contenders(t, pot) = {}
  <2> DEFINE pot == c.sidePots[k]
  <2>1. Contenders(c, pot) = Contenders(t, pot)
    BY <1>3, <1>4, SameContenders
  <2>2. pot \in ToSet(t.sidePots) \/ Contenders(t, pot) # {}
    BY <1>1, <1>5 DEF Claimable
  <2>3. Contenders(c, pot) = {}
    BY <1>3, <1>9, SomebodyWins
  <2> QED BY <2>1, <2>2, <2>3
<1>10. CASE \E k \in 1..M : Winners(c, c.sidePots[k], scores) = {}
  BY <1>7, <1>8, <1>9, <1>10 DEF c
<1>11. CASE \A k \in 1..M : Winners(c, c.sidePots[k], scores) # {}
  <2>1. claimed = amount
    BY <1>11
  <2> HIDE DEF claimed, amount
  <2> QED BY <1>6, <1>7, <2>1 DEF c
<1> QED BY <1>10, <1>11

\* What the single winner is told is not of a showdown.
LEMMA SingleWinnerReports ==
  ASSUME NEW g \in HandTable, NEW i \in DOMAIN g.seats
  PROVE  ~SingleWinner(g, i).lastHandResult.isShowdown
<1> DEFINE c == CollectBetsToSidePots(g)
           pot == GetTotalPot(c)
           w == [j \in DOMAIN c.seats |-> IF c.seats[j].seatIndex = i - 1 THEN pot ELSE 0]
           result == HandResult(c, FALSE, pot, w)
           r == [c EXCEPT !.seats[i].chips = @ + pot, !.lastHandResult = result,
                          !.hasPendingHandResult = TRUE]
<1>1. c \in Table
  BY CollectIs DEF HandTable
<1>2. ~result.isShowdown
  BY DEF HandResult
<1>3. SingleWinner(g, i) = FinishHand(r)
  BY DEF SingleWinner
<1> HIDE DEF c, result, pot
<1>4. r.lastHandResult = result
  BY <1>1 DEF Table
<1> HIDE DEF r
<1>5. FinishHand(r).lastHandResult = r.lastHandResult
  BY DEF FinishHand
<1> QED BY <1>2, <1>3, <1>4, <1>5

\* A hand that ends without a showdown, and a turn that passes.
LEMMA OtherEnds ==
  ASSUME NEW t \in HandTable, t.stage \in Streets, NEW h \in Outcomes(PlayOn(t)),
         h.stage = "Waiting", h.lastHandResult.isShowdown,
         ~SameResult(t, h)
  PROVE  \E d : \E scores \in Scores :
           ShowdownOf(t, d) /\ h = FinishHand(DistributePots(CollectBetsToSidePots(d), scores))
<1>1. t \in Table
  BY DEF HandTable
<1>2. CASE h = FinishHand(t)
  BY <1>1, <1>2, FinishHandIs DEF SameNews
<1>3. CASE \E i \in DOMAIN t.seats : AliveSeats(t) = {i} /\ h = SingleWinner(t, i)
  BY <1>3, SingleWinnerReports
<1>5. CASE \E k \in Positions(t) : Live(At(t, k)) /\ h = [t EXCEPT !.actingIndex = k]
  <2>1. h.stage = t.stage
    BY <1>1, <1>5 DEF Table
  <2> QED BY <2>1 DEF Streets
<1>6. CASE /\ t.stage \in {"PreFlop", "Flop", "Turn"}
           /\ \E i \in DOMAIN t.seats : Live(t.seats[i])
           /\ h = NewStreet(CollectBetsToSidePots(t))
  <2>1. h.stage = NextStreet[t.stage]
    BY <1>6, StreetIs
  <2> QED BY <1>6, <2>1 DEF NextStreet
<1> QED BY <1>2, <1>3, <1>5, <1>6, PlayOnCases

\* The step from g came to a showdown after a seat acted: t is the table after the
\* act, c the one whose pots were paid out.
ShowdownStep(g, h, a, t, i, d, scores, won) ==
  /\ t \in HandTable /\ InOrder(t.seats) /\ PotsOwned(t)
  /\ a \in HandTable /\ a.seats = g.seats /\ a.sidePots = g.sidePots
  /\ \E pay : Acted(a, t, i, pay)
  /\ ShowdownOf(t, d) /\ scores \in Scores
  /\ ShownDown(t, h, CollectBetsToSidePots(d), scores, won)

\* What a seat did leaves the hand in order.
LEMMA ActedSound ==
  ASSUME NEW a \in Table, InOrder(a.seats), PotsOwned(a), NEW t, NEW i, NEW pay,
         Acted(a, t, i, pay)
  PROVE  t \in HandTable /\ InOrder(t.seats) /\ PotsOwned(t)
<1>1. t \in HandTable /\ SameHands(a, t) /\ t.sidePots = a.sidePots
  BY DEF Acted
<1>2. InOrder(t.seats)
  BY <1>1, SamePlacesOrdered DEF SameHands, SamePlaces
<1>3. \A p : InTheHand(a, p) => InTheHand(t, p)
  BY <1>1, SameHandsSamePlayers
<1> QED BY <1>1, <1>2, <1>3 DEF PotsOwned, OwnedPot

\* A result of a showdown is announced by such a step.
LEMMA AnnouncedByShowdown ==
  ASSUME IInv, Sound(game), [Next]_vars, Announced, game'.lastHandResult.isShowdown
  PROVE  \E a, t, i, d, scores, won : ShowdownStep(game, game', a, t, i, d, scores, won)
<1> DEFINE g == game
           h == game'
           a == Aimed(g)
<1>1. /\ g.stage # "Waiting" /\ h.stage = "Waiting" /\ ~SameResult(g, h)
      /\ h.lastHandResult.isShowdown
  <2>1. h.hasPendingHandResult => g.hasPendingHandResult \/ ~SameResult(g, h)
    BY DEF SameResult
  <2> QED BY <2>1 DEF Announced, InHand, SameResult
<1>2. Turned(g, h)
  <2>1. \/ Edited(g, h) \/ Joined(g, h) \/ Left(g, h) \/ g \in IdleTable \/ Turned(g, h)
    BY StepKinds DEF Sound
  <2> HIDE DEF g, h
  <2>2. CASE Edited(g, h) \/ Joined(g, h) \/ Left(g, h)
    BY <1>1, <2>2 DEF Edited, Joined, Left, SameRound
  <2>3. CASE g \in IdleTable
    BY <1>1, <2>3 DEF IdleTable
  <2> QED BY <2>1, <2>2, <2>3
<1>3. g \in Table /\ InOrder(g.seats) /\ PotsOwned(g)
  BY TableTypes DEF Sound, Ordered
<1> HIDE DEF g, h
<1>4. /\ g \in HandTable /\ g.stage \in Streets /\ a \in HandTable
      /\ \/ h = a
         \/ \E t, pay : Acted(a, t, a.actingIndex + 1, pay) /\ h \in Outcomes(PlayOn(t))
  BY <1>2 DEF Turned
<1>5. a.seats = g.seats /\ a.sidePots = g.sidePots /\ a.stage = g.stage /\ SameResult(g, a)
  <2>1. a.seats = g.seats /\ a.sidePots = g.sidePots /\ a.stage = g.stage
    BY <1>4, AimedIs DEF SameRound
  <2>2. SameResult(g, a)
    BY <1>3 DEF Aimed, SameResult, Table
  <2> QED BY <2>1, <2>2
<1>6. a \in Table /\ InOrder(a.seats) /\ PotsOwned(a)
  BY <1>3, <1>4, <1>5 DEF HandTable, PotsOwned, OwnedPot, InTheHand
<1> HIDE DEF a
<1>7. PICK t, pay : Acted(a, t, a.actingIndex + 1, pay) /\ h \in Outcomes(PlayOn(t))
  BY <1>1, <1>4, <1>5
<1>8. t \in HandTable /\ InOrder(t.seats) /\ PotsOwned(t)
  BY <1>6, <1>7, ActedSound, SMTT(30)
<1>9. t.stage \in Streets /\ ~SameResult(t, h)
  BY <1>1, <1>4, <1>5, <1>7 DEF Acted, SameResult
<1>10. PICK d : \E scores \in Scores :
         ShowdownOf(t, d) /\ h = FinishHand(DistributePots(CollectBetsToSidePots(d), scores))
  BY <1>1, <1>7, <1>8, <1>9, OtherEnds
<1>11. PICK scores \in Scores :
         ShowdownOf(t, d) /\ h = FinishHand(DistributePots(CollectBetsToSidePots(d), scores))
  BY <1>10
<1>12. PICK won : ShownDown(t, h, CollectBetsToSidePots(d), scores, won)
  BY <1>8, <1>11, ShowdownIs
<1>13. ShowdownStep(g, h, a, t, a.actingIndex + 1, d, scores, won)
  BY <1>4, <1>5, <1>7, <1>8, <1>11, <1>12 DEF ShowdownStep
<1> QED BY <1>13 DEF g, h

\* The entry of a seat in the result.
Entry(c, won, i) ==
  [playerId |-> c.seats[i].playerId, folded |-> c.seats[i].folded, chipsWon |-> won[i]]

Entries(c, won) ==
  {Entry(c, won, i) : i \in {j \in DOMAIN c.seats : c.seats[j].inHand}}

\* f lists by entry what v lists by seat: the seats in the hand have one.
ByEntry(c, won, f, v) ==
  \A i \in DOMAIN c.seats : /\ c.seats[i].inHand => f[Entry(c, won, i)] = v[i]
                            /\ ~c.seats[i].inHand => v[i] = 0

\* Numbers listed by entry add up to what they do listed by seat.
LEMMA EntriesSum ==
  ASSUME NEW c \in Table, InOrder(c.seats), NEW won,
         NEW v \in [DOMAIN c.seats -> Nat],
         NEW f \in [Entries(c, won) -> Nat], ByEntry(c, won, f, v)
  PROVE  SumFunctionOnSet(f, Entries(c, won)) = SumSeq(v)
<1> DEFINE N == Len(c.seats)
           entries == Entries(c, won)
           key == [i \in 1..N |-> Entry(c, won, i)]
           dealt == {j \in 1..N : c.seats[j].inHand}
<1>1. N \in Nat /\ DOMAIN c.seats = 1..N
  BY MoneyTypes
<1>2. /\ \A i \in dealt : key[i] \in entries
      /\ \A e \in entries : \E i \in dealt : e = key[i]
  BY <1>1 DEF Entries
<1>3. \A i \in 1..N : key[i].playerId = c.seats[i].playerId
  BY DEF Entry
<1>4. \A i \in 1..N : \A j \in 1..N : key[i] = key[j] => i = j
  <2> SUFFICES ASSUME NEW i \in 1..N, NEW j \in 1..N, key[i] = key[j] PROVE i = j
    OBVIOUS
  <2>1. c.seats[i].playerId = c.seats[j].playerId
    BY <1>3
  <2> QED BY <1>1, <2>1, OneSeat
<1>5. \A i \in 1..N : IF i \in dealt THEN f[key[i]] = v[i] ELSE v[i] = 0
  BY <1>1 DEF ByEntry
<1> HIDE DEF key, N, entries
<1>6. IsFiniteSet(entries)
  <2> DEFINE k == [i \in dealt |-> key[i]]
  <2>1. k \in Surjection(dealt, entries)
    BY <1>2 DEF Surjection
  <2>2. IsFiniteSet(dealt)
    <3>1. IsFiniteSet(1..N) /\ dealt \in SUBSET (1..N)
      BY <1>1, FS_Interval
    <3> HIDE DEF dealt
    <3> QED BY <3>1, FS_Subset
  <2> HIDE DEF k, dealt
  <2> QED BY <2>1, <2>2, FS_Surjection
<1>7. \A i \in 1..N : v[i] = IF key[i] \in entries THEN f[key[i]] ELSE 0
  <2> SUFFICES ASSUME NEW i \in 1..N PROVE v[i] = IF key[i] \in entries THEN f[key[i]] ELSE 0
    OBVIOUS
  <2>1. ASSUME key[i] \in entries PROVE i \in dealt
    <3>1. PICK j \in dealt : key[i] = key[j]
      BY <1>2, <2>1
    <3>2. j \in 1..N
      OBVIOUS
    <3>3. j = i
      BY <1>4, <3>1, <3>2
    <3> QED BY <3>3
  <2> QED BY <1>2, <1>5, <2>1
<1>8. /\ \A x \in entries : \E i \in 1..N : key[i] = x
      /\ \A i, j \in 1..N : key[i] = key[j] => i = j
      /\ v \in [1..N -> Nat]
  BY <1>1, <1>2, <1>4
<1>9. Lists(key, v, N, f, entries)
  BY <1>1, <1>7, <1>8 DEF Lists
<1> QED
  <2>1. entries \in SUBSET entries /\ N \in Nat
    BY <1>1
  <2>2. f \in [entries -> Nat] /\ IsFiniteSet(entries) /\ Lists(key, v, N, f, entries)
    BY <1>6, <1>9 DEF entries
  <2> HIDE DEF dealt
  <2>3. \A D : \A S \in SUBSET D : \A g \in [D -> Nat] :
          IsFiniteSet(S) /\ Lists(key, v, N, g, S) => SumFunctionOnSet(g, S) = SumSeq(v)
    BY <2>1, SetSumIsSeqSum
  <2> QED BY <2>1, <2>2, <2>3 DEF entries

\* The entries add up to what the seats won.
LEMMA EntriesAddUp ==
  ASSUME NEW c \in Table, InOrder(c.seats), NEW won \in [DOMAIN c.seats -> Nat],
         \A i \in DOMAIN c.seats : ~c.seats[i].inHand => won[i] = 0,
         NEW total
  PROVE  LET entries == HandResult(c, TRUE, total, won).players
         IN  SumFunctionOnSet([e \in entries |-> e.chipsWon], entries) = SumSeq(won)
<1> DEFINE entries == Entries(c, won)
           f == [e \in entries |-> e.chipsWon]
<1>1. /\ \A i \in DOMAIN c.seats : c.seats[i].inHand => Entry(c, won, i) \in entries
      /\ \A e \in entries : \E i \in DOMAIN c.seats : e = Entry(c, won, i)
      /\ HandResult(c, TRUE, total, won).players = entries
  BY DEF HandResult, Entries, Entry
<1>2. \A i \in DOMAIN c.seats : Entry(c, won, i).chipsWon = won[i]
  BY DEF Entry
<1> HIDE DEF entries
<1>3. f \in [entries -> Nat]
  BY <1>1, <1>2
<1>4. ByEntry(c, won, f, won)
  BY <1>1, <1>2 DEF ByEntry
<1> HIDE DEF f
<1>5. SumFunctionOnSet(f, entries) = SumSeq(won)
  BY <1>3, <1>4, EntriesSum DEF entries
<1> QED BY <1>1, <1>5 DEF f

\* A pot that nobody could claim was abandoned by the one who just folded.
LEMMA UnclaimedIsAbandoned ==
  ASSUME IInv, NEW a, NEW t, NEW i, NEW d, NEW scores, NEW won,
         ShowdownStep(game, game', a, t, i, d, scores, won),
         NEW pot, Contenders(t, pot) = {}
  PROVE  Abandoned(pot)
<1> DEFINE seats == game.seats
<1>1. /\ DOMAIN t.seats = DOMAIN seats
      /\ \A j \in DOMAIN seats : t.seats[j].playerId = seats[j].playerId
  BY DEF ShowdownStep, Acted, SameHands, SamePlaces, SamePlace, SameHand
<1>2. /\ \A j \in DOMAIN seats : j # i =>
           \E b \in BOOLEAN : t.seats[j] = [seats[j] EXCEPT !.actedThisRound = b]
      /\ t.seats[i].folded => /\ t.lastAction.playerId = seats[i].playerId
                              /\ t.lastAction.action = "Fold"
  BY DEF ShowdownStep, Acted
<1>3. game'.lastAction = t.lastAction
  BY DEF ShowdownStep, ShownDown
<1>4. ASSUME NEW j \in DOMAIN seats, seats[j] \in Seat,
             seats[j].playerId \in pot.eligible, ~seats[j].folded
      PROVE  /\ seats[j].playerId = game'.lastAction.playerId
             /\ game'.lastAction.action = "Fold"
  <2>1. t.seats[j].folded
    BY <1>1, <1>4 DEF Contenders
  <2>2. j # i => t.seats[j].folded = seats[j].folded
    BY <1>2, <1>4 DEF Seat
  <2>3. j = i
    BY <1>4, <2>1, <2>2
  <2> QED BY <1>2, <1>3, <2>1, <2>3
<1>5. \A j \in DOMAIN seats : seats[j] \in Seat
  BY TableTypes, MoneyTypes
<1> QED BY <1>4, <1>5 DEF Abandoned, ToSet

\* What is announced after a showdown.
LEMMA AnnouncedIsPaid ==
  ASSUME IInv, Sound(game), [Next]_vars, Announced, game'.lastHandResult.isShowdown
  PROVE  LET result == game'.lastHandResult
             paid   == SumFunctionOnSet([e \in result.players |-> e.chipsWon], result.players)
         IN  /\ \A e \in result.players : e.folded => e.chipsWon = 0
             /\ \/ paid = result.totalPot
                \/ paid < result.totalPot
                   /\ \E pot \in ToSet(game.sidePots) : Abandoned(pot)
<1>1. PICK a, t, i, d, scores, won : ShowdownStep(game, game', a, t, i, d, scores, won)
  BY AnnouncedByShowdown
<1> DEFINE c == CollectBetsToSidePots(d)
           total == PotTotal(c)
           result == HandResult(c, TRUE, total, won)
           paid == SumFunctionOnSet([e \in result.players |-> e.chipsWon], result.players)
<1>2. /\ t \in HandTable /\ t \in Table /\ InOrder(t.seats) /\ PotsOwned(t)
      /\ ShowdownOf(t, d) /\ scores \in Scores /\ ShownDown(t, game', c, scores, won)
      /\ t.sidePots = game.sidePots
  BY <1>1 DEF ShowdownStep, HandTable, Acted
<1>3. game'.lastHandResult = result /\ result.totalPot = total
  BY <1>2 DEF ShownDown, HandResult
<1>4. \/ SumSeq(won) = total
      \/ SumSeq(won) < total /\ \E pot \in ToSet(t.sidePots) : Contenders(t, pot) = {}
  BY <1>2, ShowdownPaysPots
<1> HIDE DEF c
<1>5. /\ c \in Table /\ DOMAIN c.seats = DOMAIN t.seats /\ InOrder(c.seats) /\ PotsOwned(c)
      /\ won \in [DOMAIN c.seats -> Nat]
      /\ \A j \in DOMAIN c.seats : won[j] = Won(c, scores, j)
  BY <1>2, ShownDownSeats
<1>6. \A j \in DOMAIN c.seats : ~c.seats[j].inHand \/ c.seats[j].folded => won[j] = 0
  BY <1>5, OnlyPlayersWin
<1>7. \A e \in result.players : e.folded => e.chipsWon = 0
  BY <1>6 DEF HandResult
<1>8. paid = SumSeq(won)
  BY <1>5, <1>6, EntriesAddUp
<1>9. \A pot : Contenders(t, pot) = {} => Abandoned(pot)
  BY <1>1, UnclaimedIsAbandoned
<1> HIDE DEF result, total
<1> QED BY <1>2, <1>3, <1>4, <1>7, <1>8, <1>9

\* The result sent after a showdown is the payout that was made: its entries add up
\* to the pot unless a pot was abandoned by the last fold, and nobody who folded is
\* paid (DistributePots).
THEOREM ResultIsThePayout == Spec => ResultMatchesPayout
<1>1. IInv /\ Sound(game) /\ [Next]_vars =>
              [Announced /\ game'.lastHandResult.isShowdown =>
                LET result == game'.lastHandResult
                    paid == SumFunctionOnSet([e \in result.players |-> e.chipsWon],
                                             result.players)
                IN  /\ \A e \in result.players : e.folded => e.chipsWon = 0
                    /\ \/ paid = result.totalPot
                       \/ paid < result.totalPot
                          /\ \E pot \in ToSet(game.sidePots) : Abandoned(pot)]_vars
  BY AnnouncedIsPaid
<1>2. Spec => []IInv /\ []Sound(game)
  BY Inductive, SoundInductive
<1> QED BY <1>1, <1>2, PTL DEF Spec, ResultMatchesPayout

-----------------------------------------------------------------------------
(* Nobody wins more than it matched.                                        *)

\* The chips of a seat that have been collected, and those that all seats put in
\* up to what this one did.
Collected(s) == s.totalBetThisHand - s.currentBet
Matched(g, i) ==
  SumSeq([j \in DOMAIN g.seats |-> Lesser(Collected(g.seats[i]), Collected(g.seats[j]))])

Naming(p) == {pot \in Pot : p \in pot.eligible}

\* The pots that name a player of the hand hold no more than that.
Covered(g) ==
  \A i \in DOMAIN g.seats :
    /\ g.seats[i].currentBet <= g.seats[i].totalBetThisHand
    /\ g.seats[i].inHand =>
         ChipsIn(g.sidePots, Naming(g.seats[i].playerId)) <= Matched(g, i)

\* The summands, and the sum, are numbers.
LEMMA MatchedType ==
  ASSUME NEW g \in Table, NEW i \in DOMAIN g.seats,
         \A j \in DOMAIN g.seats : g.seats[j].currentBet <= g.seats[j].totalBetThisHand
  PROVE  /\ \A j \in DOMAIN g.seats : Collected(g.seats[j]) \in Nat
         /\ [j \in DOMAIN g.seats |-> Lesser(Collected(g.seats[i]), Collected(g.seats[j]))]
              \in [DOMAIN g.seats -> Nat]
         /\ Matched(g, i) \in Nat
<1> DEFINE N == Len(g.seats)
           s == [j \in DOMAIN g.seats |->
                   Lesser(Collected(g.seats[i]), Collected(g.seats[j]))]
<1>1. N \in Nat /\ DOMAIN g.seats = 1..N
  BY MoneyTypes
<1>2. \A j \in DOMAIN g.seats : Collected(g.seats[j]) \in Nat
  BY MoneyTypes DEF Collected
<1>3. s \in [DOMAIN g.seats -> Nat]
  BY <1>2 DEF Lesser
<1>4. Matched(g, i) = SumSeq(s)
  BY DEF Matched
<1> HIDE DEF s, N
<1>5. SumSeq(s) \in Nat
  BY <1>1, <1>3, SeqIntro, SumSeqType
<1> QED BY <1>2, <1>3, <1>4, <1>5 DEF s

\* The same pots are covered by more.
LEMMA MoreCovered ==
  ASSUME NEW g \in Table, NEW h \in Table, Covered(g), h.sidePots = g.sidePots,
         DOMAIN h.seats = DOMAIN g.seats,
         \A i \in DOMAIN g.seats :
           /\ h.seats[i].inHand = g.seats[i].inHand
           /\ h.seats[i].playerId = g.seats[i].playerId
           /\ h.seats[i].currentBet <= h.seats[i].totalBetThisHand
           /\ Collected(g.seats[i]) <= Collected(h.seats[i])
  PROVE  Covered(h)
<1>1. /\ \A i \in DOMAIN g.seats : g.seats[i].currentBet <= g.seats[i].totalBetThisHand
      /\ \A i \in DOMAIN h.seats : h.seats[i].currentBet <= h.seats[i].totalBetThisHand
  BY DEF Covered
<1>2. ASSUME NEW i \in DOMAIN h.seats PROVE Matched(g, i) <= Matched(h, i)
  <2> DEFINE N == Len(g.seats)
             s == [j \in 1..N |-> Lesser(Collected(g.seats[i]), Collected(g.seats[j]))]
             r == [j \in 1..N |-> Lesser(Collected(h.seats[i]), Collected(h.seats[j]))]
  <2>1. N \in Nat /\ DOMAIN g.seats = 1..N /\ i \in 1..N
    BY MoneyTypes
  <2>2. \A j \in 1..N : /\ Collected(g.seats[j]) \in Nat /\ Collected(h.seats[j]) \in Nat
                        /\ Collected(g.seats[j]) <= Collected(h.seats[j])
    BY <1>1, <2>1, MatchedType
  <2>3. s \in [1..N -> Nat] /\ r \in [1..N -> Nat]
    BY <2>1, <2>2 DEF Lesser
  <2>4. \A j \in 1..N : s[j] <= r[j]
    <3> SUFFICES ASSUME NEW j \in 1..N
                 PROVE  Lesser(Collected(g.seats[i]), Collected(g.seats[j]))
                          <= Lesser(Collected(h.seats[i]), Collected(h.seats[j]))
      OBVIOUS
    <3> DEFINE a == Collected(g.seats[i])
               b == Collected(g.seats[j])
               x == Collected(h.seats[i])
               y == Collected(h.seats[j])
    <3>1. a \in Nat /\ b \in Nat /\ x \in Nat /\ y \in Nat /\ a <= x /\ b <= y
      BY <2>1, <2>2
    <3> HIDE DEF a, b, x, y
    <3>2. Lesser(a, b) <= Lesser(x, y)
      BY <3>1 DEF Lesser
    <3> QED BY <3>2 DEF a, b, x, y
  <2>5. Matched(g, i) = SumSeq(s) /\ Matched(h, i) = SumSeq(r)
    BY <2>1 DEF Matched
  <2> HIDE DEF s, r, N
  <2> QED BY <2>1, <2>3, <2>4, <2>5, SumSeqMono
<1>3. ASSUME NEW i \in DOMAIN h.seats, h.seats[i].inHand
      PROVE  ChipsIn(h.sidePots, Naming(h.seats[i].playerId)) <= Matched(h, i)
  <2>1. ChipsIn(h.sidePots, Naming(h.seats[i].playerId)) <= Matched(g, i)
    BY <1>3 DEF Covered
  <2>2. Matched(g, i) \in Nat /\ Matched(h, i) \in Nat
    BY <1>1, MatchedType
  <2>3. ChipsIn(h.sidePots, Naming(h.seats[i].playerId)) \in Nat
    BY MoneyTypes, ChipsInType
  <2> QED BY <1>2, <2>1, <2>2, <2>3
<1> QED BY <1>1, <1>3 DEF Covered

\* A table with no pot is covered.
LEMMA NoPotsCovered ==
  ASSUME NEW g \in Table, g.sidePots = <<>>,
         \A i \in DOMAIN g.seats : g.seats[i].currentBet <= g.seats[i].totalBetThisHand
  PROVE  Covered(g)
<1>1. ASSUME NEW E PROVE ChipsIn(g.sidePots, E) = 0
  <2> DEFINE s == [k \in DOMAIN g.sidePots |->
                     IF g.sidePots[k] \in E THEN g.sidePots[k].amount ELSE 0]
  <2>1. DOMAIN g.sidePots = 1..0
    BY MoneyTypes
  <2>2. s \in [1..0 -> Nat] /\ \A k \in 1..0 : s[k] = 0
    BY <2>1
  <2>3. ChipsIn(g.sidePots, E) = SumSeq(s)
    BY DEF ChipsIn
  <2> HIDE DEF s
  <2> QED BY <2>2, <2>3, SumSeqZero
<1>2. ASSUME NEW i \in DOMAIN g.seats
      PROVE  ChipsIn(g.sidePots, Naming(g.seats[i].playerId)) <= Matched(g, i)
  <2>1. Matched(g, i) \in Nat
    BY MatchedType
  <2> QED BY <1>1, <2>1
<1> QED BY <1>2 DEF Covered

\* The capped bets add up to a number.
LEMMA CappedBetsType ==
  ASSUME NEW g \in Table, NEW cap \in Nat
  PROVE  CappedBets(g, cap) \in Nat
<1> DEFINE N == Len(g.seats)
           s == [i \in 1..N |-> Lesser(g.seats[i].currentBet, cap)]
<1>1. N \in Nat /\ DOMAIN g.seats = 1..N /\ \A i \in 1..N : g.seats[i].currentBet \in Nat
  BY MoneyTypes
<1>2. s \in [1..N -> Nat] /\ CappedBets(g, cap) = SumSeq(s)
  BY <1>1 DEF Lesser, CappedBets
<1> HIDE DEF s, N
<1> QED BY <1>1, <1>2, SeqIntro, SumSeqType

\* A layer names a player only up to the player's own bet.
LEMMA NamedLayer ==
  ASSUME NEW g \in Table, InOrder(g.seats), NEW i \in DOMAIN g.seats,
         NEW below \in Nat, NEW level \in BetLevels(g), below < level,
         \A l \in BetLevels(g) : below < l => level <= l,
         Layer(g, below, level) \in Naming(g.seats[i].playerId)
  PROVE  level <= g.seats[i].currentBet
<1>1. g.seats[i].playerId \in Layer(g, below, level).eligible
  BY DEF Naming
<1>2. PICK j \in Contributors(g) : /\ g.seats[j].playerId = g.seats[i].playerId
                                   /\ g.seats[j].currentBet > below
  BY <1>1 DEF Layer
<1>3. j = i
  BY <1>2, OneSeat DEF Contributors
<1>4. g.seats[i].currentBet \in Nat
  BY MoneyTypes
<1>5. g.seats[i].currentBet \in BetLevels(g)
  BY <1>2, <1>3, <1>4 DEF BetLevels
<1> QED BY <1>2, <1>3, <1>5

\* What was matched before a street and on it is matched after it.
LEMMA MatchedGrows ==
  ASSUME NEW g \in Table, NEW h \in Table, NEW i \in DOMAIN g.seats,
         DOMAIN h.seats = DOMAIN g.seats,
         \A j \in DOMAIN g.seats :
           /\ g.seats[j].currentBet <= g.seats[j].totalBetThisHand
           /\ h.seats[j].currentBet = 0
           /\ h.seats[j].totalBetThisHand = g.seats[j].totalBetThisHand
  PROVE  Matched(g, i) + CappedBets(g, g.seats[i].currentBet) <= Matched(h, i)
<1> DEFINE N == Len(g.seats)
           x(j) == Collected(g.seats[j])
           y(j) == g.seats[j].currentBet
           s == [j \in 1..N |-> Lesser(x(i), x(j))]
           b == [j \in 1..N |-> Lesser(y(j), y(i))]
           sb == [j \in 1..N |-> s[j] + b[j]]
           r == [j \in 1..N |-> Lesser(Collected(h.seats[i]), Collected(h.seats[j]))]
<1>1. N \in Nat /\ DOMAIN g.seats = 1..N /\ i \in 1..N
  BY MoneyTypes
<1>2. /\ \A j \in 1..N : x(j) \in Nat /\ y(j) \in Nat
      /\ \A j \in 1..N : Collected(h.seats[j]) = x(j) + y(j)
  <2> SUFFICES ASSUME NEW j \in 1..N
               PROVE  /\ x(j) \in Nat /\ y(j) \in Nat
                      /\ Collected(h.seats[j]) = x(j) + y(j)
    OBVIOUS
  <2> DEFINE bet == g.seats[j].currentBet
             total == g.seats[j].totalBetThisHand
  <2>1. bet \in Nat /\ total \in Nat /\ bet <= total
    BY <1>1, MoneyTypes
  <2>2. x(j) = total - bet /\ Collected(h.seats[j]) = total - 0 /\ y(j) = bet
    BY <1>1 DEF Collected
  <2> HIDE DEF bet, total, x, y
  <2> QED BY <2>1, <2>2
<1>3. /\ Matched(g, i) = SumSeq(s) /\ Matched(h, i) = SumSeq(r)
      /\ CappedBets(g, g.seats[i].currentBet) = SumSeq(b)
  BY <1>1 DEF Matched, CappedBets
<1> HIDE DEF x, y, N
<1>4. s \in [1..N -> Nat] /\ b \in [1..N -> Nat] /\ r \in [1..N -> Nat]
  <2>1. \A k, l \in Nat : Lesser(k, l) \in Nat
    BY DEF Lesser
  <2>2. \A j \in 1..N : Collected(h.seats[j]) \in Nat
    BY <1>2
  <2>3. \A j \in 1..N : /\ Lesser(x(i), x(j)) \in Nat /\ Lesser(y(j), y(i)) \in Nat
                        /\ Lesser(Collected(h.seats[i]), Collected(h.seats[j])) \in Nat
    BY <1>1, <1>2, <2>1, <2>2
  <2> QED BY <2>3
<1>5. sb \in [1..N -> Nat]
  <2>1. \A j \in 1..N : s[j] \in Nat /\ b[j] \in Nat
    BY <1>4
  <2> HIDE DEF s, b
  <2> QED BY <2>1
<1>6. \A j \in 1..N : sb[j] <= r[j]
  <2> SUFFICES ASSUME NEW j \in 1..N
               PROVE  Lesser(x(i), x(j)) + Lesser(y(j), y(i))
                        <= Lesser(Collected(h.seats[i]), Collected(h.seats[j]))
    OBVIOUS
  <2>1. Collected(h.seats[i]) = x(i) + y(i) /\ Collected(h.seats[j]) = x(j) + y(j)
    BY <1>1, <1>2
  <2>2. \A a, aa, c, cc \in Nat : Lesser(a, aa) + Lesser(cc, c) <= Lesser(a + c, aa + cc)
    BY DEF Lesser
  <2> QED BY <1>1, <1>2, <2>1, <2>2
<1>7. SumSeq(sb) = SumSeq(s) + SumSeq(b)
  <2>1. \A j \in 1..N : sb[j] = s[j] + b[j]
    OBVIOUS
  <2> HIDE DEF s, b, sb
  <2> QED BY <1>1, <1>4, <1>5, <2>1, SumSeqAdd
<1>8. SumSeq(sb) <= SumSeq(r)
  <2> HIDE DEF sb, r
  <2> QED BY <1>1, <1>4, <1>5, <1>6, SumSeqMono
<1> HIDE DEF s, b, sb, r
<1> QED BY <1>3, <1>7, <1>8

\* Collecting the bets leaves the pots covered: each layer that names a player is
\* covered by what the player bet on this street.
LEMMA CollectCovered ==
  ASSUME NEW g \in HandTable, InOrder(g.seats), Covered(g)
  PROVE  Covered(CollectBetsToSidePots(g))
<1> DEFINE c == CollectBetsToSidePots(g)
<1>1. g \in Table /\ c \in Table /\ DOMAIN c.seats = DOMAIN g.seats
  BY CollectIs DEF HandTable
<1>2. CASE c = g
  BY <1>2
<1>3. ASSUME c # g PROVE Covered(c)
  <2>1. /\ c.sidePots = Layers(g)
        /\ \A i \in DOMAIN g.seats : c.seats[i] = [g.seats[i] EXCEPT !.currentBet = 0]
    BY <1>3, CollectIs
  <2> HIDE DEF c
  <2>2. \A i \in DOMAIN g.seats :
          /\ g.seats[i].currentBet <= g.seats[i].totalBetThisHand
          /\ g.seats[i].currentBet \in Nat /\ g.seats[i].totalBetThisHand \in Nat
    BY <1>1, MoneyTypes DEF Covered
  <2>3. \A i \in DOMAIN g.seats :
          /\ c.seats[i].currentBet = 0
          /\ c.seats[i].totalBetThisHand = g.seats[i].totalBetThisHand
          /\ c.seats[i].inHand = g.seats[i].inHand
          /\ c.seats[i].playerId = g.seats[i].playerId
    BY <1>1, <2>1, MoneyTypes DEF Seat
  <2>4. ASSUME NEW i \in DOMAIN c.seats, c.seats[i].inHand
        PROVE  ChipsIn(c.sidePots, Naming(c.seats[i].playerId)) <= Matched(c, i)
    <3> DEFINE E == Naming(g.seats[i].playerId)
               cap == g.seats[i].currentBet
    <3>1. ChipsIn(Layers(g), E) <= ChipsIn(g.sidePots, E) + CappedBets(g, cap)
      <4>1. \A below \in Nat : \A level \in BetLevels(g) :
              /\ below < level /\ \A l \in BetLevels(g) : below < l => level <= l
              /\ Layer(g, below, level) \in E
              => level <= cap
        BY <1>1, NamedLayer
      <4> HIDE DEF E, cap
      <4>2. cap \in Nat
        BY <1>1, <2>2 DEF cap
      <4> QED BY <1>1, <4>1, <4>2, LayersBounded
    <3>2. ChipsIn(g.sidePots, E) <= Matched(g, i)
      BY <1>1, <2>3, <2>4 DEF Covered
    <3>3. Matched(g, i) + CappedBets(g, cap) <= Matched(c, i)
      BY <1>1, <2>2, <2>3, MatchedGrows
    <3>4. ChipsIn(g.sidePots, E) \in Nat /\ ChipsIn(Layers(g), E) \in Nat
      BY <1>1, MoneyTypes, LayersType, ChipsInType
    <3>5. Matched(g, i) \in Nat /\ Matched(c, i) \in Nat
      BY <1>1, <2>2, <2>3, MatchedType
    <3>6. CappedBets(g, cap) \in Nat
      BY <1>1, <2>2, CappedBetsType
    <3>7. c.seats[i].playerId = g.seats[i].playerId
      BY <1>1, <2>3
    <3> HIDE DEF cap
    <3>8. ChipsIn(Layers(g), E) <= Matched(c, i)
      <4> HIDE DEF E
      <4> QED BY <3>1, <3>2, <3>3, <3>4, <3>5, <3>6
    <3> QED BY <2>1, <3>7, <3>8
  <2> QED BY <1>1, <2>2, <2>3, <2>4 DEF Covered
<1> QED BY <1>2, <1>3


\* Whoever sits down or leaves has put nothing in.
LEMMA SeatCallCovered ==
  ASSUME NEW g \in Table, NEW h \in Table, InOrder(g.seats), InOrder(h.seats),
         Joined(g, h) \/ Left(g, h), Backed(g), Covered(g)
  PROVE  Covered(h)
<1>1. SamePlayers(g, h) /\ \A j \in DOMAIN h.seats : Bettor(h.seats[j])
  BY SeatCallPlayers DEF Backed
<1>2. h.sidePots = g.sidePots
  BY DEF Joined, Left, SameRound
<1>3. \A i \in DOMAIN g.seats : /\ g.seats[i].currentBet <= g.seats[i].totalBetThisHand
                                /\ Bettor(g.seats[i])
  BY DEF Covered, Backed
<1>4. \A j \in DOMAIN h.seats : h.seats[j].currentBet <= h.seats[j].totalBetThisHand
  <2> SUFFICES ASSUME NEW j \in DOMAIN h.seats
               PROVE  h.seats[j].currentBet <= h.seats[j].totalBetThisHand
    OBVIOUS
  <2>1. CASE h.seats[j].inHand
    BY <1>1, <1>3, <2>1 DEF SamePlayers
  <2>2. CASE ~h.seats[j].inHand
    BY <1>1, <2>2 DEF Bettor
  <2> QED BY <2>1, <2>2
<1>5. ASSUME NEW j \in DOMAIN h.seats, h.seats[j].inHand
      PROVE  ChipsIn(h.sidePots, Naming(h.seats[j].playerId)) <= Matched(h, j)
  <2>1. PICK i \in DOMAIN g.seats : g.seats[i] = h.seats[j]
    BY <1>1, <1>5 DEF SamePlayers
  <2> DEFINE a == [k \in DOMAIN g.seats |->
                     Lesser(Collected(g.seats[i]), Collected(g.seats[k]))]
             b == [k \in DOMAIN h.seats |->
                     Lesser(Collected(h.seats[j]), Collected(h.seats[k]))]
  <2>2. /\ a \in [DOMAIN g.seats -> Nat] /\ b \in [DOMAIN h.seats -> Nat]
        /\ Matched(g, i) = SumSeq(a) /\ Matched(h, j) = SumSeq(b)
        /\ Collected(g.seats[i]) \in Nat /\ Collected(h.seats[j]) \in Nat
    BY <1>3, <1>4, MatchedType DEF Matched
  <2>3. \A s : Bettor(s) /\ ~s.inHand => Collected(s) = 0
    BY DEF Bettor, Collected
  <2>4. \A n \in Nat : Lesser(n, 0) = 0
    BY DEF Lesser
  <2>5. /\ \A k \in DOMAIN g.seats : ~g.seats[k].inHand => a[k] = 0
        /\ \A k \in DOMAIN h.seats : ~h.seats[k].inHand => b[k] = 0
    BY <1>1, <1>3, <2>2, <2>3, <2>4
  <2>6. \A k \in DOMAIN g.seats : \A l \in DOMAIN h.seats :
          g.seats[k] = h.seats[l] => a[k] = b[l]
    BY <2>1
  <2> HIDE DEF a, b
  <2>7. SumSeq(a) = SumSeq(b)
    BY <1>1, <2>2, <2>5, <2>6, SamePlayersSum
  <2> QED BY <1>2, <1>5, <2>1, <2>2, <2>7 DEF Covered
<1> QED BY <1>4, <1>5 DEF Covered

\* At the deal there is no pot, and between hands neither.
LEMMA StartedCovered ==
  ASSUME NEW g \in Table, NEW h \in Table, Started(g, h)
  PROVE  Covered(h)
<1>1. /\ h.sidePots = <<>> /\ DOMAIN h.seats = DOMAIN g.seats
      /\ \A i \in DOMAIN g.seats : h.seats[i].currentBet = h.seats[i].totalBetThisHand
  BY ZenonT(60) DEF Started
<1>2. \A i \in DOMAIN h.seats : h.seats[i].currentBet \in Nat
  BY MoneyTypes
<1> QED BY <1>1, <1>2, NoPotsCovered

\* So it holds of a table where no hand is played.
LEMMA IdleCovered ==
  ASSUME NEW g \in IdleTable
  PROVE  Covered(g)
<1>1. g \in Table /\ g.seats \in Seq(IdleSeat) /\ g.sidePots = <<>>
  BY DEF IdleTable
<1>2. \A i \in DOMAIN g.seats : g.seats[i] \in IdleSeat
  BY <1>1, SeatsAre
<1>3. \A i \in DOMAIN g.seats : g.seats[i].currentBet <= g.seats[i].totalBetThisHand
  BY <1>2 DEF IdleSeat
<1> QED BY <1>1, <1>3, NoPotsCovered

\* The same pots, players and bets.
LEMMA SameBetsCovered ==
  ASSUME NEW g \in Table, NEW h \in Table, Covered(g), h.sidePots = g.sidePots,
         DOMAIN h.seats = DOMAIN g.seats,
         \A i \in DOMAIN g.seats : /\ SameBets(g.seats[i], h.seats[i])
                                   /\ h.seats[i].playerId = g.seats[i].playerId
  PROVE  Covered(h)
<1>1. ASSUME NEW i \in DOMAIN g.seats
      PROVE  /\ h.seats[i].inHand = g.seats[i].inHand
             /\ h.seats[i].playerId = g.seats[i].playerId
             /\ h.seats[i].currentBet <= h.seats[i].totalBetThisHand
             /\ Collected(g.seats[i]) <= Collected(h.seats[i])
  <2>1. /\ g.seats[i].currentBet <= g.seats[i].totalBetThisHand
        /\ Collected(g.seats[i]) \in Nat
    BY MatchedType DEF Covered
  <2>2. Collected(h.seats[i]) = Collected(g.seats[i])
    BY DEF Collected, SameBets
  <2> QED BY <2>1, <2>2 DEF SameBets
<1> QED BY <1>1, MoreCovered

\* A bet is not collected yet.
LEMMA ActedCovered ==
  ASSUME NEW g \in HandTable, NEW h, NEW i, NEW pay, Acted(g, h, i, pay), Covered(g)
  PROVE  Covered(h)
<1>1. /\ g \in Table /\ h \in Table /\ h.sidePots = g.sidePots
      /\ DOMAIN h.seats = DOMAIN g.seats /\ pay \in Nat /\ i \in DOMAIN g.seats
      /\ h.seats[i].currentBet = g.seats[i].currentBet + pay
      /\ h.seats[i].totalBetThisHand = g.seats[i].totalBetThisHand + pay
      /\ \A j \in DOMAIN g.seats :
           /\ h.seats[j].inHand = g.seats[j].inHand
           /\ h.seats[j].playerId = g.seats[j].playerId
           /\ j # i => /\ h.seats[j].currentBet = g.seats[j].currentBet
                       /\ h.seats[j].totalBetThisHand = g.seats[j].totalBetThisHand
  BY ActedMoney
<1>2. ASSUME NEW j \in DOMAIN g.seats
      PROVE  /\ h.seats[j].currentBet <= h.seats[j].totalBetThisHand
             /\ Collected(g.seats[j]) <= Collected(h.seats[j])
  <2> DEFINE bet == g.seats[j].currentBet
             total == g.seats[j].totalBetThisHand
             p == IF j = i THEN pay ELSE 0
  <2>1. bet \in Nat /\ total \in Nat /\ bet <= total /\ p \in Nat
    BY <1>1, MoneyTypes DEF Covered
  <2>2. h.seats[j].currentBet = bet + p /\ h.seats[j].totalBetThisHand = total + p
    BY <1>1, <2>1
  <2>3. Collected(g.seats[j]) = total - bet /\ Collected(h.seats[j]) = (total + p) - (bet + p)
    BY <2>2 DEF Collected
  <2> HIDE DEF bet, total, p
  <2> QED BY <2>1, <2>2, <2>3
<1> QED BY <1>1, <1>2, MoreCovered

\* The bets of the street are collected.
LEMMA StreetCovered ==
  ASSUME NEW t \in HandTable, t.stage \in {"PreFlop", "Flop", "Turn"}, InOrder(t.seats),
         \E i \in DOMAIN t.seats : Live(t.seats[i]), Covered(t)
  PROVE  Covered(NewStreet(CollectBetsToSidePots(t)))
<1> DEFINE c == CollectBetsToSidePots(t)
           h == NewStreet(c)
<1>1. /\ c \in HandTable /\ c \in Table /\ DOMAIN c.seats = DOMAIN t.seats /\ Covered(c)
      /\ \A i \in DOMAIN t.seats :
           /\ c.seats[i].totalBetThisHand = t.seats[i].totalBetThisHand
           /\ c.seats[i].inHand = t.seats[i].inHand
           /\ c.seats[i].playerId = t.seats[i].playerId
  BY CollectMoney, CollectCovered DEF HandTable
<1>2. /\ h \in Table /\ DOMAIN h.seats = DOMAIN t.seats /\ h.sidePots = c.sidePots
      /\ \A i \in DOMAIN t.seats :
           /\ h.seats[i].playerId = t.seats[i].playerId
           /\ h.seats[i].inHand = t.seats[i].inHand
           /\ h.seats[i].currentBet = 0
           /\ h.seats[i].totalBetThisHand = t.seats[i].totalBetThisHand
  BY StreetMoney
<1> HIDE DEF h, c
<1>3. ASSUME NEW i \in DOMAIN c.seats
      PROVE  /\ h.seats[i].currentBet <= h.seats[i].totalBetThisHand
             /\ Collected(c.seats[i]) <= Collected(h.seats[i])
  <2>1. /\ c.seats[i].currentBet \in Nat /\ c.seats[i].totalBetThisHand \in Nat
        /\ c.seats[i].currentBet <= c.seats[i].totalBetThisHand
    BY <1>1, MoneyTypes DEF Covered
  <2>2. h.seats[i].currentBet = 0 /\ h.seats[i].totalBetThisHand = c.seats[i].totalBetThisHand
    BY <1>1, <1>2
  <2> QED BY <2>1, <2>2 DEF Collected
<1>4. Covered(h)
  BY <1>1, <1>2, <1>3, MoreCovered
<1> QED BY <1>4 DEF h, c


\* A turn leaves a table between hands or one whose pots are covered.
LEMMA TurnedCovered ==
  ASSUME NEW g \in Table, NEW h \in SoundTable, h \in Table, InOrder(g.seats),
         Turned(g, h), Covered(g)
  PROVE  Covered(h)
<1> DEFINE a == Aimed(g)
<1>1. /\ a \in HandTable /\ a \in Table /\ a.stage \in Streets
      /\ a.seats = g.seats /\ a.sidePots = g.sidePots
  BY AimedIs DEF Turned, SameRound, HandTable
<1>2. \/ h = a
      \/ \E t, pay : Acted(a, t, a.actingIndex + 1, pay) /\ h \in Outcomes(PlayOn(t))
  BY DEF Turned
<1> HIDE DEF a
<1>3. Covered(a)
  BY <1>1, SameBetsCovered DEF SameBets
<1>4. CASE \E t, pay : Acted(a, t, a.actingIndex + 1, pay) /\ h \in Outcomes(PlayOn(t))
  <2>1. PICK t, pay : Acted(a, t, a.actingIndex + 1, pay) /\ h \in Outcomes(PlayOn(t))
    BY <1>4
  <2>2. t \in HandTable /\ t \in Table /\ t.stage \in Streets /\ SameHands(a, t)
    BY <1>1, <2>1 DEF Acted, HandTable
  <2>3. Covered(t)
    BY <1>1, <1>3, <2>1, ActedCovered
  <2>4. InOrder(t.seats)
    BY <1>1, <2>2, SamePlacesOrdered DEF SameHands, SamePlaces
  <2>5. CASE Ended(t, h)
    <3>1. h.stage = "Waiting"
      BY <2>5 DEF Ended
    <3>2. h \in IdleTable
      BY <3>1 DEF SoundTable, Streets
    <3> QED BY <3>2, IdleCovered
  <2>6. CASE \E k \in Positions(t) : Live(At(t, k)) /\ h = [t EXCEPT !.actingIndex = k]
    <3>1. PICK k \in Positions(t) : h = [t EXCEPT !.actingIndex = k]
      BY <2>6
    <3>2. h.seats = t.seats /\ h.sidePots = t.sidePots
      BY <2>2, <3>1 DEF Table
    <3> QED BY <2>2, <2>3, <3>2, SameBetsCovered DEF SameBets
  <2>7. CASE /\ t.stage \in {"PreFlop", "Flop", "Turn"}
             /\ \E i \in DOMAIN t.seats : Live(t.seats[i])
             /\ h = NewStreet(CollectBetsToSidePots(t))
    BY <2>2, <2>3, <2>4, <2>7, StreetCovered
  <2> QED BY <2>1, <2>2, <2>5, <2>6, <2>7, PlayedOn DEF GoesOn
<1> QED BY <1>2, <1>3, <1>4

\* Every call leaves the pots covered.
LEMMA CoveredKept ==
  ASSUME IInv, Sound(game), Covered(game), [Next]_vars
  PROVE  Covered(game')
<1> DEFINE g == game
           h == game'
<1>1. /\ g \in Table /\ h \in Table /\ h \in SoundTable
      /\ InOrder(g.seats) /\ InOrder(h.seats)
  BY StepTables DEF Sound
<1>2. \/ Edited(g, h) \/ Joined(g, h) \/ Left(g, h) \/ Started(g, h) \/ Turned(g, h)
  BY StepKinds DEF Sound
<1>3. Covered(g) /\ Backed(g)
  BY DEF Sound
<1> HIDE DEF g, h
<1> SUFFICES Covered(h)
  BY DEF h
<1>4. CASE Edited(g, h)
  <2>1. /\ h.sidePots = g.sidePots /\ DOMAIN h.seats = DOMAIN g.seats
        /\ \A i \in DOMAIN g.seats : /\ SameBets(g.seats[i], h.seats[i])
                                     /\ h.seats[i].playerId = g.seats[i].playerId
    BY <1>4 DEF Edited, SameRound, SameHands, SamePlaces, SameSeat, SameHand, SamePlace, SameBets
  <2> QED BY <1>1, <1>3, <2>1, SameBetsCovered
<1>5. CASE Joined(g, h) \/ Left(g, h)
  BY <1>1, <1>3, <1>5, SeatCallCovered
<1>6. CASE Started(g, h)
  BY <1>1, <1>6, StartedCovered
<1>7. CASE Turned(g, h)
  BY <1>1, <1>3, <1>7, TurnedCovered
<1> QED BY <1>2, <1>4, <1>5, <1>6, <1>7

\* The pots are covered in every state of the game.
LEMMA CoveredInductive == Spec => []Covered(game)
<1>1. Init => Covered(game)
  <2>1. Init => game \in IdleTable
    BY InitHolds DEF Init, IInv, SoundTable, Streets
  <2> QED BY <2>1, IdleCovered
<1>2. IInv /\ Sound(game) /\ Covered(game) /\ [Next]_vars => Covered(game)'
  BY CoveredKept
<1> QED BY <1>1, <1>2, Inductive, SoundInductive, PTL DEF Spec


\* A seat wins no more than the pots that name its player hold.
LEMMA WonBounded ==
  ASSUME NEW g \in Table, NEW scores, NEW i \in DOMAIN g.seats
  PROVE  Won(g, scores, i) <= ChipsIn(g.sidePots, Naming(g.seats[i].playerId))
<1> DEFINE N == Len(g.seats)
           M == Len(g.sidePots)
           E == Naming(g.seats[i].playerId)
           gains == [k \in 1..M |-> Gain(g, g.sidePots[k], scores, i)]
           chips == [k \in 1..M |-> IF g.sidePots[k] \in E THEN g.sidePots[k].amount ELSE 0]
<1>1. /\ N \in Nat /\ DOMAIN g.seats = 1..N /\ M \in Nat /\ DOMAIN g.sidePots = 1..M
      /\ g.seats \in Seq(Seat)
      /\ \A k \in 1..M : g.sidePots[k] \in Pot /\ g.sidePots[k].amount \in Nat
  BY MoneyTypes
<1>2. \A k \in 1..M : \A j \in 1..N : Gain(g, g.sidePots[k], scores, j) \in Nat
  BY <1>1, GainType
<1>3. gains \in [1..M -> Nat] /\ chips \in [1..M -> Nat]
  BY <1>1, <1>2
<1>4. ASSUME NEW k \in 1..M PROVE gains[k] <= chips[k]
  <2> DEFINE pot == g.sidePots[k]
             s == [j \in 1..N |-> Gain(g, pot, scores, j)]
  <2>1. pot \in Pot /\ pot.amount \in Nat
    BY <1>1
  <2>2. s \in [DOMAIN g.seats -> Nat] /\ \A j \in DOMAIN g.seats : s[j] = Gain(g, pot, scores, j)
    BY <1>1, <1>2
  <2>3. gains[k] = s[i] /\ i \in 1..N
    BY <1>1
  <2>4. s[i] <= pot.amount
    <3> HIDE DEF s, pot
    <3>1. SumSeq(s) \in {0, pot.amount}
      BY <2>1, <2>2, PotPaidOut
    <3>2. s \in Seq(Nat) /\ Len(s) = N
      BY <1>1, <2>2, SeqIntro
    <3>3. s[i] <= SumSeq(s)
      BY <2>3, <3>2, SumSeqBounds
    <3>4. s[i] \in Nat
      BY <2>2
    <3> QED BY <2>1, <3>1, <3>3, <3>4
  <2>5. CASE pot \in E
    BY <2>3, <2>4, <2>5
  <2>6. CASE pot \notin E
    <3>1. i \notin Winners(g, pot, scores)
      BY <2>1, <2>6 DEF Naming, Winners, Contenders
    <3>2. gains[k] = 0
      BY <3>1 DEF Gain
    <3> HIDE DEF gains
    <3> QED BY <2>6, <3>2
  <2> QED BY <2>5, <2>6
<1>5. Won(g, scores, i) = SumSeq(gains) /\ ChipsIn(g.sidePots, E) = SumSeq(chips)
  BY <1>1 DEF Won, ChipsIn
<1> HIDE DEF gains, chips, M, N
<1> QED BY <1>1, <1>3, <1>4, <1>5, SumSeqMono

\* The pots of a showdown are covered.
LEMMA ShowdownCovered ==
  ASSUME NEW t \in HandTable, InOrder(t.seats), Covered(t), NEW d, ShowdownOf(t, d)
  PROVE  Covered(CollectBetsToSidePots(d))
<1> DEFINE ct == CollectBetsToSidePots(t)
<1>1. /\ d \in HandTable /\ t \in Table
      /\ \/ d.seats = t.seats /\ d.sidePots = t.sidePots
         \/ d.seats = ct.seats /\ d.sidePots = ct.sidePots
  BY DEF ShowdownOf, HandTable
<1>2. Covered(ct) /\ ct \in HandTable /\ SameHands(t, ct)
  BY <1>1, CollectCovered, CollectIs, PlacesStay
<1> HIDE DEF ct
<1>3. InOrder(ct.seats)
  BY <1>2, SamePlacesOrdered DEF SameHands, SamePlaces
<1>4. Covered(d) /\ InOrder(d.seats)
  BY <1>1, <1>2, <1>3 DEF Covered, Matched
<1> QED BY <1>1, <1>4, CollectCovered

\* So a seat wins at a showdown at most what each seat bet up to its own bet.
LEMMA WonIsMatched ==
  ASSUME NEW t \in HandTable, InOrder(t.seats), Covered(t), NEW d, ShowdownOf(t, d),
         NEW scores, NEW h, NEW won,
         ShownDown(t, h, CollectBetsToSidePots(d), scores, won),
         NEW i \in DOMAIN t.seats, t.seats[i].inHand
  PROVE  won[i] <= SumSeq([j \in DOMAIN t.seats |->
                             Lesser(t.seats[i].totalBetThisHand, t.seats[j].totalBetThisHand)])
<1> DEFINE c == CollectBetsToSidePots(d)
           N == Len(t.seats)
           all == [j \in 1..N |->
                     Lesser(t.seats[i].totalBetThisHand, t.seats[j].totalBetThisHand)]
           s == [j \in 1..N |-> Lesser(Collected(c.seats[i]), Collected(c.seats[j]))]
<1>1. t \in Table /\ Covered(c)
  BY ShowdownCovered DEF HandTable
<1> HIDE DEF c
<1>2. /\ c \in Table /\ DOMAIN c.seats = DOMAIN t.seats
      /\ N \in Nat /\ DOMAIN t.seats = 1..N /\ i \in 1..N
      /\ won[i] = Won(c, scores, i)
  BY <1>1, ShownDownSeats, MoneyTypes DEF c
<1>3. \A j \in 1..N : SameStack(t.seats[j], c.seats[j])
  BY <1>2 DEF ShownDown, c
<1>4. ASSUME NEW j \in 1..N
      PROVE  /\ t.seats[j].totalBetThisHand \in Nat /\ Collected(c.seats[j]) \in Nat
             /\ Collected(c.seats[j]) <= t.seats[j].totalBetThisHand
  <2>1. /\ c.seats[j].currentBet \in Nat /\ c.seats[j].totalBetThisHand \in Nat
        /\ c.seats[j].currentBet <= c.seats[j].totalBetThisHand
    BY <1>1, <1>2, MoneyTypes DEF Covered
  <2>2. t.seats[j].totalBetThisHand = c.seats[j].totalBetThisHand
    BY <1>3 DEF SameStack
  <2>3. Collected(c.seats[j]) = c.seats[j].totalBetThisHand - c.seats[j].currentBet
    BY DEF Collected
  <2> QED BY <2>1, <2>2, <2>3
<1>5. c.seats[i].inHand
  BY <1>2, <1>3 DEF SameStack, SameHand
<1>6. Won(c, scores, i) <= Matched(c, i)
  <2>1. Won(c, scores, i) <= ChipsIn(c.sidePots, Naming(c.seats[i].playerId))
    BY <1>2, WonBounded
  <2>2. ChipsIn(c.sidePots, Naming(c.seats[i].playerId)) <= Matched(c, i)
    BY <1>1, <1>2, <1>5 DEF Covered
  <2>3. /\ Won(c, scores, i) \in Nat /\ Matched(c, i) \in Nat
        /\ ChipsIn(c.sidePots, Naming(c.seats[i].playerId)) \in Nat
    BY <1>1, <1>2, WonType, MatchedType, MoneyTypes, ChipsInType DEF Covered
  <2> QED BY <2>1, <2>2, <2>3
<1>7. \A a, b, x, y \in Nat :
        a <= x /\ b <= y => /\ Lesser(a, b) \in Nat /\ Lesser(x, y) \in Nat
                            /\ Lesser(a, b) <= Lesser(x, y)
  BY DEF Lesser
<1>8. /\ s \in [1..N -> Nat] /\ all \in [1..N -> Nat]
      /\ \A j \in 1..N : s[j] <= all[j]
  BY <1>2, <1>4, <1>7
<1>9. Matched(c, i) = SumSeq(s)
  BY <1>2 DEF Matched
<1> HIDE DEF s, all, N
<1>10. SumSeq(s) <= SumSeq(all)
  BY <1>2, <1>8, SumSeqMono
<1>11. SumSeq(s) \in Nat /\ SumSeq(all) \in Nat /\ Won(c, scores, i) \in Nat
  BY <1>2, <1>8, SeqIntro, SumSeqType, WonType
<1>12. won[i] <= SumSeq(all)
  BY <1>2, <1>6, <1>9, <1>10, <1>11
<1> QED BY <1>2, <1>12 DEF all


\* What PaidIn recovers from a result is what the player had bet in the hand.
LEMMA PaidInIs ==
  ASSUME IInv, Sound(game), [Next]_vars, NEW a, NEW t, NEW i, NEW d, NEW scores, NEW won,
         ShowdownStep(game, game', a, t, i, d, scores, won),
         NEW k \in DOMAIN t.seats
  PROVE  PaidIn(Entry(CollectBetsToSidePots(d), won, k)) = t.seats[k].totalBetThisHand
<1> DEFINE c == CollectBetsToSidePots(d)
           e == Entry(c, won, k)
           p == t.seats[k].playerId
           before == SeatOf(e.playerId)
           after == CHOOSE s \in ToSet(game'.seats) : s.playerId = e.playerId
<1>1. /\ game \in Table /\ game' \in Table /\ InOrder(game.seats) /\ InOrder(game'.seats)
  BY StepTables DEF Sound
<1>2. /\ a \in HandTable /\ a.seats = game.seats /\ ShownDown(t, game', c, scores, won)
  BY DEF ShowdownStep
<1>3. PICK pay : Acted(a, t, i, pay)
  BY DEF ShowdownStep
<1>4. /\ t \in Table /\ DOMAIN t.seats = DOMAIN game.seats /\ pay \in Nat
      /\ i \in DOMAIN game.seats
      /\ t.seats[i].chips + pay = game.seats[i].chips
      /\ t.seats[i].totalBetThisHand = game.seats[i].totalBetThisHand + pay
      /\ \A j \in DOMAIN game.seats :
           /\ t.seats[j].playerId = game.seats[j].playerId
           /\ j # i => /\ t.seats[j].chips = game.seats[j].chips
                       /\ t.seats[j].totalBetThisHand = game.seats[j].totalBetThisHand
  BY <1>2, <1>3, ActedMoney
<1>5. /\ DOMAIN game'.seats = DOMAIN t.seats
      /\ game'.seats[k].chips = t.seats[k].chips + won[k] /\ won[k] \in Nat
      /\ game'.seats[k].playerId = p
      /\ c.seats[k].playerId = p
  BY <1>2 DEF ShownDown, SameStack, SameHand, SamePlace
<1> HIDE DEF c
<1>6. e.playerId = p /\ e.chipsWon = won[k]
  BY <1>5 DEF Entry
<1>7. before = game.seats[k]
  <2>1. p = game.seats[k].playerId /\ p \in Seated
    BY <1>4 DEF Seated, ToSet
  <2> HIDE DEF e, p
  <2>2. PICK m \in DOMAIN game.seats : game.seats[m].playerId = p /\ SeatOf(p) = game.seats[m]
    BY <2>1, SeatFound
  <2>3. m = k
    BY <1>1, <1>4, <2>1, <2>2, OneSeat
  <2> QED BY <1>6, <2>2, <2>3
<1>8. after = game'.seats[k]
  <2> HIDE DEF e, p
  <2>1. game'.seats[k] \in ToSet(game'.seats)
    BY <1>5 DEF ToSet
  <2>2. after \in ToSet(game'.seats) /\ after.playerId = p
    BY <1>5, <1>6, <2>1
  <2> HIDE DEF after
  <2>3. PICK m \in DOMAIN game'.seats : after = game'.seats[m]
    BY <2>2 DEF ToSet
  <2>4. m = k
    BY <1>1, <1>5, <2>2, <2>3, OneSeat
  <2> QED BY <2>3, <2>4
<1>9. PaidIn(e) = before.chips + before.totalBetThisHand - (after.chips - e.chipsWon)
  BY DEF PaidIn
<1> HIDE DEF before, after, e, p
<1>10. game.seats[k].chips + game.seats[k].totalBetThisHand
         = t.seats[k].chips + t.seats[k].totalBetThisHand
  <2>1. /\ game.seats[k].chips \in Nat /\ game.seats[k].totalBetThisHand \in Nat
        /\ t.seats[k].chips \in Nat
    BY <1>1, <1>4, MoneyTypes
  <2>2. CASE k = i
    BY <1>4, <2>1, <2>2
  <2>3. CASE k # i
    BY <1>4, <2>3
  <2> QED BY <2>2, <2>3
<1>11. t.seats[k].chips \in Nat /\ t.seats[k].totalBetThisHand \in Nat
  BY <1>4, MoneyTypes
<1>12. before.chips = game.seats[k].chips
       /\ before.totalBetThisHand = game.seats[k].totalBetThisHand
  BY <1>7
<1>13. after.chips = t.seats[k].chips + won[k]
  <2>1. after.chips = game'.seats[k].chips
    BY <1>8
  <2> QED BY <1>5, <2>1
<1>14. PaidIn(e) = game.seats[k].chips + game.seats[k].totalBetThisHand
                     - (after.chips - won[k])
  BY <1>6, <1>9, <1>12
<1>15. after.chips - won[k] = t.seats[k].chips
  BY <1>5, <1>11, <1>13
<1>16. PaidIn(e) = t.seats[k].totalBetThisHand
  <2>1. game.seats[k].chips \in Nat /\ game.seats[k].totalBetThisHand \in Nat
    BY <1>1, <1>4, MoneyTypes
  <2> QED BY <1>10, <1>11, <1>14, <1>15, <2>1
<1> QED BY <1>16 DEF e, c

\* Nobody wins more than it matched.
LEMMA AnnouncedIsCovered ==
  ASSUME IInv, Sound(game), Covered(game), [Next]_vars, Announced,
         game'.lastHandResult.isShowdown
  PROVE  LET entries == game'.lastHandResult.players
         IN  \A e \in entries :
               e.chipsWon <=
                 SumFunctionOnSet([f \in entries |-> Min({PaidIn(e), PaidIn(f)})], entries)
<1>1. PICK a, t, i, d, scores, won : ShowdownStep(game, game', a, t, i, d, scores, won)
  BY AnnouncedByShowdown
<1> DEFINE c == CollectBetsToSidePots(d)
           total(j) == t.seats[j].totalBetThisHand
           entries == Entries(c, won)
<1>2. /\ t \in HandTable /\ t \in Table /\ InOrder(t.seats) /\ PotsOwned(t)
      /\ ShowdownOf(t, d) /\ scores \in Scores /\ ShownDown(t, game', c, scores, won)
      /\ a \in HandTable /\ a \in Table /\ a.seats = game.seats /\ a.sidePots = game.sidePots
  BY <1>1 DEF ShowdownStep, HandTable
<1>3. Covered(t) /\ Backed(t)
  <2>1. game \in Table
    BY StepTables DEF Sound
  <2>2. \A k \in DOMAIN game.seats : SameBets(game.seats[k], a.seats[k])
    BY <1>2 DEF SameBets
  <2>3. Covered(a) /\ Backed(a)
    BY <1>2, <2>1, <2>2, SameBetsCovered, SameBetsBacked DEF Sound
  <2>4. PICK pay : Acted(a, t, i, pay)
    BY <1>1 DEF ShowdownStep
  <2> QED BY <1>2, <2>3, <2>4, ActedCovered, ActedBacked
<1>4. \A j \in DOMAIN t.seats : PaidIn(Entry(c, won, j)) = total(j)
  BY <1>1, PaidInIs
<1>5. game'.lastHandResult.players = entries
  BY <1>2 DEF ShownDown, HandResult, Entries, Entry
<1>6. /\ c \in Table /\ DOMAIN c.seats = DOMAIN t.seats /\ InOrder(c.seats)
      /\ \A j \in DOMAIN t.seats : c.seats[j].inHand = t.seats[j].inHand
  <2> HIDE DEF c, entries
  <2>1. ShownDown(t, game', c, scores, won)
    BY <1>2
  <2>2. c \in Table /\ DOMAIN c.seats = DOMAIN t.seats /\ InOrder(c.seats)
    BY <1>2, <2>1, ShownDownSeats
  <2>3. \A j \in DOMAIN t.seats : c.seats[j].inHand = t.seats[j].inHand
    BY <2>1 DEF ShownDown, SameStack, SameHand
  <2> QED BY <2>2, <2>3
<1>7. \A j \in DOMAIN t.seats : /\ total(j) \in Nat
                                /\ ~t.seats[j].inHand => total(j) = 0
  BY <1>2, <1>3, MoneyTypes DEF Backed, Bettor
<1>8. \A k \in DOMAIN t.seats : t.seats[k].inHand =>
        won[k] <= SumSeq([j \in DOMAIN t.seats |-> Lesser(total(k), total(j))])
  BY <1>2, <1>3, WonIsMatched
<1> HIDE DEF c, total
<1>9. ASSUME NEW e \in entries
      PROVE  e.chipsWon <=
               SumFunctionOnSet([f \in entries |-> Min({PaidIn(e), PaidIn(f)})], entries)
  <2> DEFINE f == [x \in entries |-> Min({PaidIn(e), PaidIn(x)})]
  <2>1. PICK k \in DOMAIN t.seats : t.seats[k].inHand /\ e = Entry(c, won, k)
    BY <1>6 DEF Entries
  <2> DEFINE v == [j \in DOMAIN t.seats |-> Lesser(total(k), total(j))]
  <2>2. PaidIn(e) = total(k) /\ e.chipsWon = won[k]
    BY <1>4, <2>1 DEF Entry
  <2>3. \A j \in DOMAIN t.seats : /\ Min({total(k), total(j)}) = Lesser(total(k), total(j))
                                  /\ Lesser(total(k), total(j)) \in Nat
                                  /\ total(j) = 0 => Lesser(total(k), total(j)) = 0
    BY <1>7, MinOfTwo DEF Lesser
  <2>4. v \in [DOMAIN c.seats -> Nat]
    BY <1>6, <2>3
  <2>5. f \in [entries -> Nat]
    <3>1. ASSUME NEW x \in entries PROVE Min({PaidIn(e), PaidIn(x)}) \in Nat
      <4>1. PICK j \in DOMAIN t.seats : x = Entry(c, won, j)
        BY <1>6 DEF Entries
      <4>2. PaidIn(x) = total(j)
        BY <1>4, <4>1
      <4> QED BY <2>2, <2>3, <4>2
    <3> HIDE DEF entries
    <3> QED BY <3>1
  <2>6. ByEntry(c, won, f, v)
    <3>1. ASSUME NEW j \in DOMAIN c.seats, c.seats[j].inHand
          PROVE  f[Entry(c, won, j)] = v[j]
      <4>1. Entry(c, won, j) \in entries
        BY <3>1 DEF Entries
      <4>2. f[Entry(c, won, j)] = Min({PaidIn(e), PaidIn(Entry(c, won, j))})
        BY <4>1
      <4> QED BY <1>4, <1>6, <2>2, <2>3, <4>2
    <3>2. ASSUME NEW j \in DOMAIN c.seats, ~c.seats[j].inHand PROVE v[j] = 0
      BY <1>6, <1>7, <2>3, <3>2
    <3> HIDE DEF f, v
    <3> QED BY <3>1, <3>2 DEF ByEntry
  <2>7. won[k] <= SumSeq(v)
    BY <1>8, <2>1
  <2> HIDE DEF f, v
  <2>8. SumFunctionOnSet(f, entries) = SumSeq(v)
    BY <1>6, <2>4, <2>5, <2>6, EntriesSum
  <2>9. e.chipsWon <= SumFunctionOnSet(f, entries)
    BY <2>2, <2>7, <2>8
  <2> QED BY <2>9 DEF f
<1> QED BY <1>5, <1>9

\* At a showdown nobody wins more from another player than it put in itself, over
\* all streets, side pots and split pots (CollectBetsToSidePots, DistributePots).
THEOREM NobodyWinsMoreThanMatched == Spec => WinsAreCovered
<1>1. IInv /\ Sound(game) /\ Covered(game) /\ [Next]_vars =>
        [Announced /\ game'.lastHandResult.isShowdown =>
           LET entries == game'.lastHandResult.players
           IN  \A e \in entries :
                 e.chipsWon <=
                   SumFunctionOnSet([f \in entries |-> Min({PaidIn(e), PaidIn(f)})], entries)
        ]_vars
  BY AnnouncedIsCovered
<1>2. Spec => []IInv /\ []Sound(game) /\ []Covered(game)
  BY Inductive, SoundInductive, CoveredInductive
<1> QED BY <1>1, <1>2, PTL DEF Spec, WinsAreCovered

-----------------------------------------------------------------------------
(* Nothing is lost while somebody can win it.                               *)

\* All bets are those of players of the hand, and for each of them somebody who has
\* bet as much still contends.
Whole(g) ==
  \A i \in DOMAIN g.seats : g.seats[i].currentBet # 0 =>
    /\ i \in Contributors(g)
    /\ \E l \in Contributors(g) : /\ ~g.seats[l].folded
                                  /\ g.seats[i].currentBet <= g.seats[l].currentBet

\* A layer of such bets names somebody.
LEMMA LayerNames ==
  ASSUME NEW g \in Table, Whole(g), NEW below \in Nat, NEW level \in BetLevels(g), below < level
  PROVE  Layer(g, below, level).eligible # {}
<1>1. PICK i \in Contributors(g) : level = g.seats[i].currentBet /\ level # 0
  BY DEF BetLevels
<1>2. \A j \in Contributors(g) : j \in DOMAIN g.seats /\ g.seats[j].currentBet \in Nat
  BY MoneyTypes DEF Contributors
<1>3. PICK l \in Contributors(g) : ~g.seats[l].folded /\ level <= g.seats[l].currentBet
  BY <1>1, <1>2 DEF Whole
<1>4. g.seats[l].currentBet > below
  BY <1>1, <1>2, <1>3
<1> QED BY <1>3, <1>4 DEF Layer

\* There are no more levels than seats.
LEMMA LevelsFit ==
  ASSUME NEW g \in Table
  PROVE  /\ IsFiniteSet(BetLevels(g)) /\ Cardinality(BetLevels(g)) \in Nat
         /\ Cardinality(BetLevels(g)) <= Len(g.seats)
<1> DEFINE N == Len(g.seats)
           all == {g.seats[i].currentBet : i \in 1..N}
<1>1. N \in Nat /\ DOMAIN g.seats = 1..N
  BY MoneyTypes
<1>2. IsFiniteSet(1..N) /\ Cardinality(1..N) = N
  BY <1>1, PositionsUpTo
<1>3. IsFiniteSet(all) /\ Cardinality(all) <= N
  <2> DEFINE f == [i \in 1..N |-> g.seats[i].currentBet]
  <2>1. f \in Surjection(1..N, all)
    BY DEF Surjection
  <2> HIDE DEF f, all, N
  <2> QED BY <1>2, <2>1, FS_Surjection
<1>4. BetLevels(g) \in SUBSET all
  BY <1>1 DEF BetLevels, Contributors
<1>5. Cardinality(all) \in Nat /\ Cardinality(BetLevels(g)) \in Nat
  <2> HIDE DEF all
  <2>1. IsFiniteSet(BetLevels(g))
    BY <1>3, <1>4, FS_Subset
  <2> QED BY <1>3, <2>1, FS_CardinalityType
<1> HIDE DEF all, N
<1>6. IsFiniteSet(BetLevels(g)) /\ Cardinality(BetLevels(g)) <= Cardinality(all)
  BY <1>3, <1>4, FS_Subset
<1>7. Cardinality(BetLevels(g)) <= N
  BY <1>1, <1>3, <1>5, <1>6
<1> QED BY <1>5, <1>6, <1>7 DEF N

\* After n passes of the loop the pots hold what was in them and the bets up to the
\* level reached, and the levels that are left take no more passes than are left.
Collecting(g, n) ==
  {acc \in LoopState :
     /\ ChipsIn(acc.pots, Pot) = PotTotal(g) + CappedBets(g, acc.level)
     /\ Cardinality({l \in BetLevels(g) : l > acc.level}) <= Len(g.seats) - n}

\* One pass adds the chips between two levels.
LEMMA LayerAdds ==
  ASSUME NEW g \in Table, Whole(g), NEW below \in Nat, NEW level \in Nat, below < level
  PROVE  CappedBets(g, level) = CappedBets(g, below) + Layer(g, below, level).amount
<1> DEFINE N == Len(g.seats)
           b(i) == g.seats[i].currentBet
           low == [i \in 1..N |-> Lesser(b(i), below)]
           high == [i \in 1..N |-> Lesser(b(i), level)]
           share == [i \in 1..N |-> IF i \in Contributors(g) THEN Share(b(i), below, level) ELSE 0]
<1>1. N \in Nat /\ DOMAIN g.seats = 1..N /\ \A i \in 1..N : b(i) \in Nat
  BY MoneyTypes
<1>2. /\ CappedBets(g, level) = SumSeq(high) /\ CappedBets(g, below) = SumSeq(low)
      /\ Layer(g, below, level).amount = SumSeq(share)
  BY <1>1 DEF CappedBets, Layer
<1>3. ASSUME NEW i \in 1..N
      PROVE  /\ low[i] \in Nat /\ share[i] \in Nat /\ high[i] \in Nat
             /\ high[i] = low[i] + share[i]
  <2> DEFINE bet == b(i)
             x == Share(bet, below, level)
  <2>1. bet \in Nat
    BY <1>1
  <2>2. /\ low[i] = Lesser(bet, below) /\ high[i] = Lesser(bet, level)
        /\ share[i] = IF i \in Contributors(g) THEN x ELSE 0
    OBVIOUS
  <2>3. bet # 0 => i \in Contributors(g)
    BY <1>1 DEF Whole
  <2> HIDE DEF bet, low, high, share
  <2>4. x \in Nat /\ Lesser(bet, below) + x = Lesser(bet, level)
    BY <2>1, ShareIs, ShareType
  <2>5. Lesser(bet, below) \in Nat /\ Lesser(bet, level) \in Nat
        /\ (bet = 0 => Lesser(bet, below) = 0 /\ Lesser(bet, level) = 0)
    BY <2>1 DEF Lesser
  <2> HIDE DEF x
  <2>6. CASE i \in Contributors(g)
    BY <2>2, <2>4, <2>5, <2>6
  <2>7. CASE i \notin Contributors(g)
    BY <2>2, <2>3, <2>5, <2>7
  <2> QED BY <2>6, <2>7
<1>4. low \in [1..N -> Nat] /\ share \in [1..N -> Nat] /\ high \in [1..N -> Nat]
  <2>1. \A i \in 1..N : low[i] \in Nat /\ share[i] \in Nat /\ high[i] \in Nat
    BY <1>3
  <2> HIDE DEF b
  <2>2. low = [i \in 1..N |-> low[i]] /\ share = [i \in 1..N |-> share[i]]
        /\ high = [i \in 1..N |-> high[i]]
    OBVIOUS
  <2> HIDE DEF low, share, high
  <2> QED BY <2>1, <2>2
<1>5. \A i \in 1..N : high[i] = low[i] + share[i]
  BY <1>3
<1> HIDE DEF low, high, share, N
<1>6. SumSeq(high) = SumSeq(low) + SumSeq(share)
  BY <1>1, <1>4, <1>5, SumSeqAdd
<1> QED BY <1>2, <1>6

\* A pass takes the next level, if there is one.
LEMMA PassCollects ==
  ASSUME NEW g \in Table, Whole(g), NEW n \in 1..Len(g.seats), NEW acc \in Collecting(g, n - 1)
  PROVE  AddLayer(g, acc) \in Collecting(g, n)
<1> DEFINE N == Len(g.seats)
           higher == {l \in BetLevels(g) : l > acc.level}
           level == Min(higher)
           pot == Layer(g, acc.level, level)
           next == AddLayer(g, acc)
           left == {l \in BetLevels(g) : l > next.level}
<1>1. /\ acc \in LoopState /\ acc.level \in Nat /\ acc.pots \in Seq(Pot)
      /\ ChipsIn(acc.pots, Pot) = PotTotal(g) + CappedBets(g, acc.level)
      /\ Cardinality(higher) <= N - (n - 1)
  BY DEF Collecting, LoopState
<1>2. /\ g.seats \in Seq(Seat) /\ N \in Nat /\ n \in Nat /\ n <= N
      /\ BetLevels(g) \in SUBSET Nat
  <2>1. g.seats \in Seq(Seat) /\ N \in Nat
    BY MoneyTypes
  <2> QED BY <2>1, BetLevelsType
<1>3. next \in LoopState /\ next.level \in Nat
  <2>1. next \in LoopState
    BY <1>1, <1>2, AddLayerType
  <2> QED BY <2>1 DEF LoopState
<1>4. CASE higher = {}
  <2>1. next = acc
    BY <1>4 DEF AddLayer
  <2>2. Cardinality(left) = 0
    BY <1>4, <2>1, FS_EmptySet
  <2> HIDE DEF next, left
  <2>3. Cardinality(left) <= N - n
    BY <1>2, <2>2
  <2> QED BY <1>1, <1>3, <2>1, <2>3 DEF Collecting, next, left
<1>5. CASE higher # {}
  <2>1. level \in higher /\ \A l \in higher : level <= l
    <3>1. higher \in SUBSET Nat
      BY <1>2
    <3> HIDE DEF higher
    <3> QED BY <1>5, <3>1, MinOfNats
  <2>2. level \in BetLevels(g) /\ level \in Nat /\ acc.level < level
    BY <1>1, <1>2, <2>1
  <2>3. pot.eligible # {}
    <3> HIDE DEF level
    <3> QED BY <1>1, <2>2, LayerNames
  <2>4. next.level = level /\ next.pots = Append(acc.pots, pot)
    BY <1>5, <2>3 DEF AddLayer
  <2> HIDE DEF level
  <2>5. pot \in Pot
    BY <1>1, <1>2, <2>2, LayerType
  <2>6. CappedBets(g, level) = CappedBets(g, acc.level) + pot.amount
    BY <1>1, <2>2, LayerAdds
  <2> HIDE DEF pot, next
  <2>7. ChipsIn(next.pots, Pot) = PotTotal(g) + CappedBets(g, next.level)
    <3>1. ChipsIn(next.pots, Pot) = ChipsIn(acc.pots, Pot) + pot.amount
      BY <1>1, <2>4, <2>5, ChipsInAppend
    <3>2. /\ PotTotal(g) \in Nat /\ CappedBets(g, acc.level) \in Nat
          /\ CappedBets(g, level) \in Nat /\ pot.amount \in Nat
      BY <1>1, <2>2, <2>5, SumTypes, CappedBetsType DEF Pot
    <3> QED BY <1>1, <2>4, <2>6, <3>1, <3>2
  <2>8. Cardinality(left) <= N - n
    <3>1. IsFiniteSet(higher) /\ Cardinality(higher) \in Nat
      <4>1. higher \in SUBSET BetLevels(g)
        OBVIOUS
      <4> HIDE DEF higher
      <4>2. IsFiniteSet(higher)
        BY <4>1, LevelsFit, FS_Subset
      <4> QED BY <4>2, FS_CardinalityType
    <3>2. left = higher \ {level}
      BY <1>1, <1>2, <2>1, <2>2, <2>4
    <3> HIDE DEF higher, left
    <3>3. Cardinality(left) = Cardinality(higher) - 1
      BY <2>1, <3>1, <3>2, FS_RemoveElement
    <3> HIDE DEF N
    <3> QED BY <1>1, <1>2, <3>1, <3>3
  <2>9. next \in Collecting(g, n)
    <3>1. Cardinality({l \in BetLevels(g) : l > next.level}) <= N - n
      BY <2>8
    <3> QED BY <1>3, <2>7, <3>1 DEF Collecting
  <2> QED BY <2>9 DEF next
<1>6. next \in Collecting(g, n)
  BY <1>4, <1>5
<1> QED BY <1>6

\* The pots take in all the bets.
LEMMA LayersExact ==
  ASSUME NEW g \in Table, Whole(g)
  PROVE  ChipsIn(Layers(g), Pot) = PotTotal(g) + Bets(g)
<1> DEFINE N == Len(g.seats)
           first == [level |-> 0, pots |-> g.sidePots]
           T == [n \in 0..N |-> Collecting(g, n)]
<1>1. N \in Nat /\ DOMAIN g.seats = 1..N /\ g.sidePots \in Seq(Pot)
      /\ \A i \in 1..N : g.seats[i].currentBet \in Nat
  BY MoneyTypes
<1>2. first \in Collecting(g, 0)
  <2>1. first \in LoopState /\ first.level = 0 /\ first.pots = g.sidePots
    BY <1>1 DEF LoopState
  <2>2. CappedBets(g, 0) = 0
    <3> DEFINE none == [i \in 1..N |-> Lesser(g.seats[i].currentBet, 0)]
    <3>1. CappedBets(g, 0) = SumSeq(none)
      BY <1>1 DEF CappedBets
    <3>2. none \in [1..N -> Nat] /\ \A i \in 1..N : none[i] = 0
      BY <1>1 DEF Lesser
    <3> HIDE DEF none, N
    <3> QED BY <1>1, <3>1, <3>2, SumSeqZero
  <2>3. PotTotal(g) = ChipsIn(g.sidePots, Pot) /\ PotTotal(g) \in Nat
    BY SumTypes
  <2>4. {l \in BetLevels(g) : l > 0} = BetLevels(g)
    <3>1. BetLevels(g) \in SUBSET Nat /\ 0 \notin BetLevels(g)
      BY MoneyTypes, BetLevelsType DEF BetLevels
    <3> QED BY <3>1
  <2>5. Cardinality({l \in BetLevels(g) : l > 0}) <= N - 0
    <3>1. Cardinality(BetLevels(g)) \in Nat /\ Cardinality(BetLevels(g)) <= N
      BY LevelsFit
    <3>2. Cardinality({l \in BetLevels(g) : l > 0}) = Cardinality(BetLevels(g))
      BY <2>4
    <3> HIDE DEF N
    <3> QED BY <1>1, <3>1, <3>2
  <2> HIDE DEF first
  <2>6. ChipsIn(first.pots, Pot) = PotTotal(g) + CappedBets(g, first.level)
    BY <2>1, <2>2, <2>3
  <2>7. Cardinality({l \in BetLevels(g) : l > first.level}) <= N - 0
    BY <2>1, <2>5
  <2> QED BY <2>1, <2>6, <2>7 DEF Collecting
<1>3. \E acc \in Collecting(g, N) : Layers(g) = acc.pots
  <2>1. /\ T[0] = Collecting(g, 0) /\ T[N] = Collecting(g, N)
        /\ \A n \in 1..N : T[n] = Collecting(g, n) /\ T[n - 1] = Collecting(g, n - 1)
    BY <1>1
  <2>2. \A n \in 1..N : \A acc \in T[n - 1] : AddLayer(g, acc) \in T[n]
    BY <2>1, PassCollects
  <2> HIDE DEF T
  <2>3. \E acc \in T[N] : Layers(g) = acc.pots
    BY <1>2, <2>1, <2>2, LayersReach
  <2> QED BY <2>1, <2>3
<1>4. PICK acc \in Collecting(g, N) : Layers(g) = acc.pots
  BY <1>3
<1>5. acc.level \in Nat /\ ChipsIn(Layers(g), Pot) = PotTotal(g) + CappedBets(g, acc.level)
  BY <1>4 DEF Collecting, LoopState
<1>6. {l \in BetLevels(g) : l > acc.level} = {}
  <2> DEFINE left == {l \in BetLevels(g) : l > acc.level}
  <2>1. Cardinality(left) <= N - N
    BY <1>4 DEF Collecting
  <2>2. IsFiniteSet(left)
    <3>1. left \in SUBSET BetLevels(g)
      OBVIOUS
    <3> HIDE DEF left
    <3> QED BY <3>1, LevelsFit, FS_Subset
  <2> HIDE DEF left, N
  <2>3. Cardinality(left) \in Nat
    BY <2>2, FS_CardinalityType
  <2>4. Cardinality(left) = 0
    BY <1>1, <2>1, <2>3
  <2>5. left = {}
    BY <2>2, <2>4, FS_EmptySet
  <2> QED BY <2>5 DEF left
<1>7. \A i \in 1..N : Lesser(g.seats[i].currentBet, acc.level) = g.seats[i].currentBet
  <2> SUFFICES ASSUME NEW i \in 1..N
               PROVE  Lesser(g.seats[i].currentBet, acc.level) = g.seats[i].currentBet
    OBVIOUS
  <2>1. CASE g.seats[i].currentBet = 0
    BY <1>5, <2>1 DEF Lesser
  <2>2. CASE g.seats[i].currentBet # 0
    <3>1. g.seats[i].currentBet \in BetLevels(g)
      BY <1>1, <2>2 DEF Whole, BetLevels
    <3>2. ~(g.seats[i].currentBet > acc.level)
      BY <1>6, <3>1
    <3> QED BY <1>1, <1>5, <3>2 DEF Lesser
  <2> QED BY <2>1, <2>2
<1>8. CappedBets(g, acc.level) = Bets(g)
  <2>1. [i \in 1..N |-> Lesser(g.seats[i].currentBet, acc.level)]
          = [i \in 1..N |-> g.seats[i].currentBet]
    BY <1>7
  <2> QED BY <1>1, <2>1 DEF CappedBets, Bets
<1> QED BY <1>5, <1>8

\* Where nobody has a bet there is none.
LEMMA NoBets ==
  ASSUME NEW g \in Table, \A i \in DOMAIN g.seats : g.seats[i].currentBet = 0
  PROVE  Bets(g) = 0 /\ Whole(g)
<1> DEFINE N == Len(g.seats)
           none == [i \in 1..N |-> g.seats[i].currentBet]
<1>1. N \in Nat /\ DOMAIN g.seats = 1..N
  BY MoneyTypes
<1>2. none \in [1..N -> Nat] /\ \A i \in 1..N : none[i] = 0
  BY <1>1
<1>3. Bets(g) = SumSeq(none)
  BY <1>1 DEF Bets
<1> HIDE DEF none, N
<1>4. Bets(g) = 0
  BY <1>1, <1>2, <1>3, SumSeqZero
<1> QED BY <1>4 DEF Whole

\* CollectBetsToSidePots loses no chips and leaves no bet.
LEMMA CollectExact ==
  ASSUME NEW g \in HandTable, Whole(g)
  PROVE  LET c == CollectBetsToSidePots(g)
         IN  /\ c \in HandTable /\ GetTotalPot(c) = GetTotalPot(g)
             /\ \A i \in DOMAIN c.seats : c.seats[i].currentBet = 0
<1> DEFINE c == CollectBetsToSidePots(g)
<1>1. /\ g \in Table /\ c \in HandTable /\ c \in Table /\ DOMAIN c.seats = DOMAIN g.seats
      /\ \A i \in DOMAIN g.seats : g.seats[i] \in Seat
  BY CollectIs, MoneyTypes DEF HandTable
<1>2. \/ BetLevels(g) = {} /\ c = g
      \/ /\ c.sidePots = Layers(g)
         /\ \A i \in DOMAIN g.seats : c.seats[i] = [g.seats[i] EXCEPT !.currentBet = 0]
  BY CollectIs
<1> HIDE DEF c
<1>3. CASE BetLevels(g) = {} /\ c = g
  <2>1. ASSUME NEW i \in DOMAIN g.seats, g.seats[i].currentBet # 0 PROVE FALSE
    BY <1>3, <2>1 DEF Whole, BetLevels
  <2>2. \A i \in DOMAIN c.seats : c.seats[i].currentBet = 0
    BY <1>3, <2>1
  <2> QED BY <1>1, <1>3, <2>2 DEF c
<1>4. CASE /\ c.sidePots = Layers(g)
           /\ \A i \in DOMAIN g.seats : c.seats[i] = [g.seats[i] EXCEPT !.currentBet = 0]
  <2>1. \A i \in DOMAIN c.seats : c.seats[i].currentBet = 0
    <3> SUFFICES ASSUME NEW i \in DOMAIN g.seats PROVE c.seats[i].currentBet = 0
      BY <1>1
    <3>1. g.seats[i] \in Seat /\ c.seats[i] = [g.seats[i] EXCEPT !.currentBet = 0]
      BY <1>1, <1>4
    <3> QED BY <3>1 DEF Seat
  <2>2. Bets(c) = 0
    BY <1>1, <2>1, NoBets
  <2>3. PotTotal(c) = PotTotal(g) + Bets(g)
    BY <1>1, <1>4, SumTypes, LayersExact
  <2>4. GetTotalPot(c) = GetTotalPot(g)
    BY <1>1, <2>2, <2>3, SumTypes
  <2> QED BY <1>1, <2>1, <2>4 DEF c
<1> QED BY <1>2, <1>3, <1>4

\* So a showdown is played for all that is on the table.
LEMMA ShowdownExact ==
  ASSUME NEW t \in HandTable, Whole(t), NEW d, ShowdownOf(t, d)
  PROVE  PotTotal(CollectBetsToSidePots(d)) = GetTotalPot(t)
<1> DEFINE ct == CollectBetsToSidePots(t)
           c == CollectBetsToSidePots(d)
<1>1. d \in HandTable /\ d \in Table /\ t \in Table
  BY DEF ShowdownOf, HandTable
<1>2. Whole(d) /\ GetTotalPot(d) = GetTotalPot(t)
  <2>1. CASE d.seats = t.seats /\ d.sidePots = t.sidePots
    BY <2>1 DEF GetTotalPot, PotTotal, Whole, Contributors
  <2>2. CASE d.seats = ct.seats /\ d.sidePots = ct.sidePots
    <3>1. /\ GetTotalPot(ct) = GetTotalPot(t)
          /\ \A i \in DOMAIN ct.seats : ct.seats[i].currentBet = 0
      BY CollectExact
    <3> HIDE DEF ct
    <3>2. GetTotalPot(d) = GetTotalPot(ct)
      BY <2>2 DEF GetTotalPot, PotTotal
    <3>3. Whole(d)
      BY <1>1, <2>2, <3>1, NoBets
    <3> QED BY <3>1, <3>2, <3>3
  <2> QED BY <2>1, <2>2 DEF ShowdownOf
<1>3. /\ c \in HandTable /\ GetTotalPot(c) = GetTotalPot(d)
      /\ \A i \in DOMAIN c.seats : c.seats[i].currentBet = 0
  BY <1>1, <1>2, CollectExact
<1> HIDE DEF c
<1>4. c \in Table
  BY <1>3 DEF HandTable
<1>5. Bets(c) = 0 /\ PotTotal(c) \in Nat /\ GetTotalPot(c) = PotTotal(c) + Bets(c)
  BY <1>3, <1>4, NoBets, SumTypes
<1> QED BY <1>2, <1>3, <1>5 DEF c

\* The stacks.
Stacks(g) == SumSeq([i \in DOMAIN g.seats |-> g.seats[i].chips])

\* The money is in the stacks, the pots and the bets.
LEMMA MoneyIs ==
  ASSUME NEW g \in Table
  PROVE  /\ Money(g) = Stacks(g) + GetTotalPot(g) /\ Money(g) \in Nat
         /\ Stacks(g) \in Nat /\ GetTotalPot(g) \in Nat
<1> DEFINE N == Len(g.seats)
           chips == [i \in 1..N |-> g.seats[i].chips]
<1>1. N \in Nat /\ DOMAIN g.seats = 1..N /\ chips \in [1..N -> Nat]
  BY MoneyTypes
<1>2. Stacks(g) = SumSeq(chips) /\ Money(g) = Stacks(g) + GetTotalPot(g)
  BY <1>1 DEF Stacks, Money
<1> HIDE DEF chips, N
<1>3. Stacks(g) \in Nat
  BY <1>1, <1>2, SeqIntro, SumSeqType
<1>4. GetTotalPot(g) \in Nat
  BY SumTypes
<1> QED BY <1>2, <1>3, <1>4

\* The same chips in front of the same seats.
LEMMA SameStacks ==
  ASSUME NEW g, NEW h, DOMAIN h.seats = DOMAIN g.seats,
         \A i \in DOMAIN g.seats : h.seats[i].chips = g.seats[i].chips
  PROVE  Stacks(h) = Stacks(g)
<1>1. [i \in DOMAIN h.seats |-> h.seats[i].chips] = [i \in DOMAIN g.seats |-> g.seats[i].chips]
  OBVIOUS
<1> QED BY <1>1 DEF Stacks

\* A seat that acts moves chips from its stack to its bet.
LEMMA ActedKeepsMoney ==
  ASSUME NEW g \in HandTable, NEW t, NEW i, NEW pay, Acted(g, t, i, pay)
  PROVE  Money(t) = Money(g)
<1> DEFINE N == Len(g.seats)
           betsG == [j \in 1..N |-> g.seats[j].currentBet]
           betsT == [j \in 1..N |-> t.seats[j].currentBet]
           chipsG == [j \in 1..N |-> g.seats[j].chips]
           chipsT == [j \in 1..N |-> t.seats[j].chips]
<1>1. /\ g \in Table /\ t \in Table /\ t.sidePots = g.sidePots
      /\ N \in Nat /\ DOMAIN g.seats = 1..N /\ DOMAIN t.seats = 1..N
      /\ pay \in Nat /\ i \in 1..N
  BY ActedMoney, MoneyTypes
<1>2. /\ betsG \in [1..N -> Nat] /\ betsT \in [1..N -> Nat]
      /\ chipsG \in [1..N -> Nat] /\ chipsT \in [1..N -> Nat]
  BY <1>1, MoneyTypes
<1>3. /\ Bets(g) = SumSeq(betsG) /\ Bets(t) = SumSeq(betsT)
      /\ Stacks(g) = SumSeq(chipsG) /\ Stacks(t) = SumSeq(chipsT)
  BY <1>1 DEF Bets, Stacks
<1>4. /\ betsT[i] = betsG[i] + pay /\ chipsG[i] = chipsT[i] + pay
      /\ \A j \in 1..N : j # i => betsT[j] = betsG[j] /\ chipsG[j] = chipsT[j]
  BY <1>1, ActedMoney
<1> HIDE DEF N, betsG, betsT, chipsG, chipsT
<1>5. Bets(t) = Bets(g) + pay
  <2>1. GrowsAt(betsT, betsG, N, i, pay)
    BY <1>1, <1>2, <1>4 DEF GrowsAt
  <2> QED BY <1>1, <1>3, <2>1, SumSeqGrows
<1>6. Stacks(g) = Stacks(t) + pay
  <2>1. GrowsAt(chipsG, chipsT, N, i, pay)
    BY <1>1, <1>2, <1>4 DEF GrowsAt
  <2> QED BY <1>1, <1>3, <2>1, SumSeqGrows
<1>7. PotTotal(t) = PotTotal(g)
  BY <1>1 DEF PotTotal
<1>8. /\ Money(g) = Stacks(g) + PotTotal(g) + Bets(g)
      /\ Money(t) = Stacks(t) + PotTotal(t) + Bets(t)
      /\ Stacks(t) \in Nat /\ Stacks(g) \in Nat /\ PotTotal(g) \in Nat /\ Bets(g) \in Nat
  BY <1>1, MoneyIs, SumTypes, SMTT(30)
<1> QED BY <1>1, <1>5, <1>6, <1>7, <1>8

\* Between hands the money is in the stacks: what the last hand paid out is what the
\* players gained.
LEMMA PaidKeepsMoney ==
  ASSUME NEW t \in Table, NEW h \in IdleTable, DOMAIN h.seats = DOMAIN t.seats,
         NEW won \in [DOMAIN t.seats -> Nat],
         \A i \in DOMAIN t.seats : h.seats[i].chips = t.seats[i].chips + won[i]
  PROVE  Money(h) = Stacks(t) + SumSeq(won) /\ SumSeq(won) \in Nat
<1> DEFINE N == Len(t.seats)
           chipsT == [i \in 1..N |-> t.seats[i].chips]
           chipsH == [i \in 1..N |-> h.seats[i].chips]
<1>1. /\ h \in Table /\ N \in Nat /\ DOMAIN t.seats = 1..N /\ DOMAIN h.seats = 1..N
  BY MoneyTypes DEF IdleTable
<1>2. chipsT \in [1..N -> Nat] /\ chipsH \in [1..N -> Nat] /\ won \in [1..N -> Nat]
  BY <1>1, MoneyTypes
<1>3. \A i \in 1..N : chipsH[i] = chipsT[i] + won[i]
  BY <1>1
<1>4. Stacks(h) = SumSeq(chipsH) /\ Stacks(t) = SumSeq(chipsT)
  BY <1>1 DEF Stacks
<1> HIDE DEF chipsT, chipsH, N
<1>5. SumSeq(chipsH) = SumSeq(chipsT) + SumSeq(won)
  BY <1>1, <1>2, <1>3, SumSeqAdd
<1>6. SumSeq(won) \in Nat
  BY <1>1, <1>2, SeqIntro, SumSeqType
<1>7. GetTotalPot(h) = 0
  <2>1. /\ \A i \in DOMAIN h.seats : h.seats[i].currentBet = 0
        /\ h.sidePots = <<>>
    <3>1. h.seats \in Seq(IdleSeat) /\ h.sidePots = <<>>
      BY DEF IdleTable
    <3>2. \A i \in DOMAIN h.seats : h.seats[i] \in IdleSeat
      BY <3>1, SeatsAre
    <3> QED BY <3>1, <3>2 DEF IdleSeat
  <2>2. Bets(h) = 0
    BY <1>1, <2>1, NoBets
  <2>3. PotTotal(h) = 0
    <3> DEFINE pots == [k \in DOMAIN h.sidePots |-> h.sidePots[k].amount]
    <3>1. Len(h.sidePots) = 0 /\ DOMAIN h.sidePots = 1..0
      BY <1>1, <2>1, MoneyTypes
    <3>2. pots \in [1..0 -> Nat] /\ \A k \in 1..0 : pots[k] = 0
      BY <3>1
    <3>3. PotTotal(h) = SumSeq(pots)
      BY DEF PotTotal
    <3> HIDE DEF pots
    <3> QED BY <3>2, <3>3, SumSeqZero
  <2> QED BY <1>1, <2>2, <2>3, SumTypes
<1>8. Money(h) = Stacks(h) + GetTotalPot(h) /\ Stacks(h) \in Nat
  BY <1>1, MoneyIs
<1> QED BY <1>4, <1>5, <1>6, <1>7, <1>8

\* The single winner takes all that is on the table.
LEMMA SingleKeepsMoney ==
  ASSUME NEW t \in HandTable, Whole(t), NEW i \in DOMAIN t.seats,
         NEW h \in IdleTable, h = SingleWinner(t, i)
  PROVE  Money(h) = Money(t)
<1> DEFINE N == Len(t.seats)
           c == CollectBetsToSidePots(t)
           pot == GetTotalPot(c)
           won == [j \in 1..N |-> IF j = i THEN pot ELSE 0]
<1>1. t \in Table /\ pot = GetTotalPot(t) /\ pot \in Nat
  <2>1. t \in Table
    BY DEF HandTable
  <2>2. pot = GetTotalPot(t)
    BY CollectExact
  <2> HIDE DEF pot
  <2> QED BY <2>1, <2>2, SumTypes
<1>2. N \in Nat /\ DOMAIN t.seats = 1..N /\ DOMAIN h.seats = DOMAIN t.seats
  BY <1>1, MoneyTypes, SingleWinnerIs DEF SamePlaces
<1>3. \A j \in 1..N : h.seats[j].chips = t.seats[j].chips + IF j = i THEN pot ELSE 0
  BY <1>2, SingleWinnerIs
<1> HIDE DEF pot, N
<1>4. /\ won \in [1..N -> Nat] /\ won[i] = pot /\ \A j \in 1..N : j # i => won[j] = 0
      /\ \A j \in 1..N : h.seats[j].chips = t.seats[j].chips + won[j]
  BY <1>1, <1>2, <1>3
<1> HIDE DEF won
<1>5. SumSeq(won) = pot
  BY <1>2, <1>4, SumSeqSingle
<1>6. Money(h) = Stacks(t) + SumSeq(won)
  BY <1>1, <1>2, <1>4, PaidKeepsMoney
<1>7. Money(t) = Stacks(t) + GetTotalPot(t)
  BY <1>1, MoneyIs
<1> QED BY <1>1, <1>5, <1>6, <1>7

\* The hand on t ended with a showdown at which nobody could claim some pot of the
\* table.
Unclaimed(t, h) ==
  /\ \E d : \E scores \in Scores : \E won :
       /\ ShowdownOf(t, d)
       /\ ShownDown(t, h, CollectBetsToSidePots(d), scores, won)
  /\ \E pot \in ToSet(t.sidePots) : Contenders(t, pot) = {}

\* A showdown pays out all that is on the table, but for pots nobody can claim.
LEMMA ShowdownKeepsMoney ==
  ASSUME NEW t \in HandTable, InOrder(t.seats), PotsOwned(t), Whole(t),
         NEW d, ShowdownOf(t, d), NEW scores \in Scores,
         NEW h \in IdleTable, h = FinishHand(DistributePots(CollectBetsToSidePots(d), scores))
  PROVE  Money(h) = Money(t) \/ (Money(h) < Money(t) /\ Unclaimed(t, h))
<1> DEFINE c == CollectBetsToSidePots(d)
<1>1. PICK won : ShownDown(t, h, c, scores, won)
  BY ShowdownIs
<1>2. PotTotal(c) = GetTotalPot(t)
  BY ShowdownExact
<1>3. \/ SumSeq(won) = PotTotal(c)
      \/ SumSeq(won) < PotTotal(c) /\ \E pot \in ToSet(t.sidePots) : Contenders(t, pot) = {}
  BY <1>1, ShowdownPaysPots
<1>4. Unclaimed(t, h) \/ ~\E pot \in ToSet(t.sidePots) : Contenders(t, pot) = {}
  BY <1>1 DEF Unclaimed
<1> HIDE DEF c
<1>5. t \in Table
  BY DEF HandTable
<1>6. /\ DOMAIN c.seats = DOMAIN t.seats /\ won \in [DOMAIN t.seats -> Nat]
      /\ DOMAIN h.seats = DOMAIN t.seats
      /\ \A i \in DOMAIN t.seats : h.seats[i].chips = t.seats[i].chips + won[i]
  BY <1>1, <1>5, ShownDownSeats DEF ShownDown
<1>7. Money(h) = Stacks(t) + SumSeq(won) /\ SumSeq(won) \in Nat
  BY <1>5, <1>6, PaidKeepsMoney
<1>8. Money(t) = Stacks(t) + GetTotalPot(t) /\ Stacks(t) \in Nat /\ GetTotalPot(t) \in Nat
  BY <1>5, MoneyIs
<1> QED BY <1>2, <1>3, <1>4, <1>7, <1>8

\* A street keeps the stacks and collects the bets.
LEMMA StreetKeepsMoney ==
  ASSUME NEW t \in HandTable, t.stage \in {"PreFlop", "Flop", "Turn"},
         \E i \in DOMAIN t.seats : Live(t.seats[i]),
         NEW h, h = NewStreet(CollectBetsToSidePots(t))
  PROVE  Money(h) <= Money(t) /\ (Whole(t) => Money(h) = Money(t))
<1> DEFINE c == CollectBetsToSidePots(t)
<1>1. /\ t \in Table /\ c \in Table /\ h \in Table /\ DOMAIN h.seats = DOMAIN t.seats
      /\ h.sidePots = c.sidePots
      /\ \A i \in DOMAIN t.seats : /\ h.seats[i].chips = t.seats[i].chips
                                   /\ h.seats[i].currentBet = 0
  BY StreetMoney, CollectIs DEF HandTable
<1>2. GetTotalPot(c) <= GetTotalPot(t)
  BY CollectAddsNothing
<1>3. Whole(t) => GetTotalPot(c) = GetTotalPot(t) /\ \A i \in DOMAIN c.seats : c.seats[i].currentBet = 0
  BY CollectExact
<1> HIDE DEF c
<1>4. Stacks(h) = Stacks(t)
  BY <1>1, SameStacks
<1>5. Bets(h) = 0
  BY <1>1, NoBets
<1>6. PotTotal(h) = PotTotal(c)
  BY <1>1 DEF PotTotal
<1>7. /\ Bets(c) \in Nat /\ PotTotal(c) \in Nat /\ GetTotalPot(c) = PotTotal(c) + Bets(c)
      /\ GetTotalPot(h) = PotTotal(h) + Bets(h) /\ GetTotalPot(t) \in Nat
  BY <1>1, SumTypes
<1>8. Whole(t) => Bets(c) = 0
  BY <1>1, <1>3, NoBets
<1>9. /\ Money(t) = Stacks(t) + GetTotalPot(t) /\ Money(h) = Stacks(h) + GetTotalPot(h)
      /\ Stacks(t) \in Nat
  BY <1>1, MoneyIs
<1>10. Money(h) <= Money(t)
  BY <1>2, <1>4, <1>5, <1>6, <1>7, <1>9
<1>11. Whole(t) => Money(h) = Money(t)
  BY <1>3, <1>4, <1>5, <1>6, <1>7, <1>8, <1>9
<1> QED BY <1>10, <1>11

\* What a turn does to the money, once the seat that acted has done its part.
LEMMA PlayedOnMoney ==
  ASSUME NEW t \in HandTable, t.stage \in Streets, InOrder(t.seats), PotsOwned(t),
         NEW h \in SoundTable, h \in Outcomes(PlayOn(t))
  PROVE  /\ Money(h) <= Money(t)
         /\ Whole(t) /\ AliveSeats(t) # {}
              => Money(h) = Money(t) \/ (Money(h) < Money(t) /\ Unclaimed(t, h))
<1>1. t \in Table /\ Money(t) \in Nat
  BY MoneyIs DEF HandTable
<1>2. CASE Ended(t, h)
  <2>1. h.stage = "Waiting" /\ h \in IdleTable /\ DOMAIN h.seats = DOMAIN t.seats
    BY <1>2 DEF Ended, SoundTable, Streets, SamePlaces
  <2>2. Money(h) <= Money(t)
    <3>1. PICK won : PaidOut(t, h, won)
      BY <2>1, HandPaid
    <3>2. /\ won \in [DOMAIN t.seats -> Nat] /\ SumSeq(won) <= GetTotalPot(t)
          /\ \A i \in DOMAIN t.seats : h.seats[i].chips = t.seats[i].chips + won[i]
      BY <3>1 DEF PaidOut
    <3>3. Money(h) = Stacks(t) + SumSeq(won) /\ SumSeq(won) \in Nat
      BY <1>1, <2>1, <3>2, PaidKeepsMoney
    <3>4. Money(t) = Stacks(t) + GetTotalPot(t) /\ Stacks(t) \in Nat /\ GetTotalPot(t) \in Nat
      BY <1>1, MoneyIs
    <3> QED BY <3>2, <3>3, <3>4
  <2>3. ASSUME Whole(t), AliveSeats(t) # {}
        PROVE  Money(h) = Money(t) \/ (Money(h) < Money(t) /\ Unclaimed(t, h))
    <3>1. CASE \E i \in DOMAIN t.seats : AliveSeats(t) = {i} /\ h = SingleWinner(t, i)
      BY <2>1, <2>3, <3>1, SingleKeepsMoney
    <3>2. CASE \E d : \E scores \in Scores : ShowdownOf(t, d)
                 /\ h = FinishHand(DistributePots(CollectBetsToSidePots(d), scores))
      BY <2>1, <2>3, <3>2, ShowdownKeepsMoney
    <3>3. CASE \E k \in Positions(t) : Live(At(t, k)) /\ h = [t EXCEPT !.actingIndex = k]
      <4>1. h.stage = t.stage
        BY <1>1, <3>3 DEF Table
      <4> QED BY <2>1, <4>1 DEF Streets
    <3>4. CASE /\ t.stage \in {"PreFlop", "Flop", "Turn"}
               /\ \E i \in DOMAIN t.seats : Live(t.seats[i])
               /\ h = NewStreet(CollectBetsToSidePots(t))
      <4>1. h.stage = NextStreet[t.stage]
        BY <3>4, StreetIs
      <4> QED BY <2>1, <3>4, <4>1 DEF NextStreet
    <3> QED BY <2>3, <3>1, <3>2, <3>3, <3>4, PlayOnCases
  <2> QED BY <2>2, <2>3
<1>3. CASE \E k \in Positions(t) : h = [t EXCEPT !.actingIndex = k]
  <2>1. h.seats = t.seats /\ h.sidePots = t.sidePots
    BY <1>1, <1>3 DEF Table
  <2>2. Money(h) = Money(t)
    BY <2>1 DEF Money, GetTotalPot, PotTotal
  <2> QED BY <1>1, <2>2
<1>4. CASE /\ t.stage \in {"PreFlop", "Flop", "Turn"}
           /\ \E i \in DOMAIN t.seats : Live(t.seats[i])
           /\ h = NewStreet(CollectBetsToSidePots(t))
  BY <1>4, StreetKeepsMoney
<1> QED BY <1>2, <1>3, <1>4, PlayedOn DEF GoesOn

\* Where a seat that contends has the highest bet, all bets can be won.
LEMMA SettledWhole ==
  ASSUME NEW t \in Table, t.stage # "Waiting", NoLeaver(t), BetsHeld(t), BetsSettled(t)
  PROVE  Whole(t)
<1>1. /\ t.lastBet \in Nat
      /\ \A i \in DOMAIN t.seats : /\ t.seats[i].currentBet \in Nat
                                   /\ t.seats[i].currentBet <= t.lastBet
                                   /\ t.seats[i].currentBet # 0 => t.seats[i].inHand
  BY BetTypes DEF BetsHeld
<1>2. \A i \in DOMAIN t.seats : t.seats[i].inHand => i \in Contributors(t)
  BY DEF NoLeaver, Contributors, IsOccupied
<1>3. \/ t.lastBet = 0
      \/ \E l \in DOMAIN t.seats : /\ t.seats[l].inHand /\ ~t.seats[l].folded
                                   /\ t.seats[l].currentBet = t.lastBet
  BY DEF BetsSettled, Leads, InPlay
<1>4. ASSUME NEW i \in DOMAIN t.seats, t.seats[i].currentBet # 0
      PROVE  /\ i \in Contributors(t)
             /\ \E l \in Contributors(t) : /\ ~t.seats[l].folded
                                           /\ t.seats[i].currentBet <= t.seats[l].currentBet
  <2>1. t.lastBet # 0
    BY <1>1, <1>4
  <2>2. PICK l \in DOMAIN t.seats : /\ t.seats[l].inHand /\ ~t.seats[l].folded
                                    /\ t.seats[l].currentBet = t.lastBet
    BY <1>3, <2>1
  <2>3. l \in Contributors(t) /\ t.seats[i].currentBet <= t.seats[l].currentBet
    BY <1>1, <1>2, <2>2
  <2> QED BY <1>1, <1>2, <1>4, <2>2, <2>3
<1> QED BY <1>4 DEF Whole

\* Two contended and one of them acted: one is left.
LEMMA SomebodyLeft ==
  ASSUME NEW a \in HandTable, a.stage # "Waiting", Led(a), NoLeaver(a),
         NEW t, NEW i, NEW pay, Acted(a, t, i, pay), NoLeaver(t)
  PROVE  AliveSeats(t) # {}
<1>1. PICK k, l \in InPlay(a) : k # l
  BY DEF Led
<1>2. PICK j \in InPlay(a) : j # i
  BY <1>1
<1>3. j \in DOMAIN a.seats /\ a.seats[j].inHand /\ ~a.seats[j].folded /\ a.seats[j] \in Seat
  BY MoneyTypes DEF InPlay, HandTable
<1>4. \E b \in BOOLEAN : t.seats[j] = [a.seats[j] EXCEPT !.actedThisRound = b]
  BY <1>2, <1>3 DEF Acted
<1>5. t.seats[j].inHand /\ ~t.seats[j].folded
  BY <1>3, <1>4 DEF Seat
<1>6. j \in DOMAIN t.seats
  BY <1>3 DEF Acted, SameHands, SamePlaces
<1> QED BY <1>5, <1>6 DEF NoLeaver, AliveSeats, Alive, IsOccupied

\* A turn keeps the money, unless a leaver is in the hand or the last fold leaves a pot
\* unclaimed.
LEMMA TurnKeepsMoney ==
  ASSUME NEW g \in Table, NEW h \in SoundTable, Turned(g, h), Sound(g),
         TurnHeld(g), BetsHeld(g), Led(g)
  PROVE  \/ Money(h) = Money(g)
         \/ Money(h) < Money(g) /\ ~NoLeaver(g)
         \/ /\ Money(h) < Money(g) /\ g \in HandTable
            /\ \E t, i, pay : Acted(g, t, i, pay) /\ Unclaimed(t, h)
<1>1. /\ g \in HandTable /\ g.stage \in Streets /\ g.stage # "Waiting"
      /\ g.actingIndex \in Positions(g)
  BY DEF Turned, TurnHeld, Streets
<1>2. Aimed(g) = g
  BY <1>1, AimedIs
<1>3. \/ h = g
      \/ \E t, pay : /\ Acted(g, t, g.actingIndex + 1, pay) /\ Acting(g, t)
                     /\ h \in Outcomes(PlayOn(t))
  BY <1>2 DEF Turned
<1>4. CASE h = g
  BY <1>4
<1>5. CASE \E t, pay : /\ Acted(g, t, g.actingIndex + 1, pay) /\ Acting(g, t)
                       /\ h \in Outcomes(PlayOn(t))
  <2> DEFINE i == g.actingIndex + 1
  <2>1. PICK t, pay : Acted(g, t, i, pay) /\ Acting(g, t) /\ h \in Outcomes(PlayOn(t))
    BY <1>5
  <2> HIDE DEF i
  <2>2. InOrder(g.seats) /\ PotsOwned(g)
    BY DEF Sound, Ordered
  <2>3. t \in HandTable /\ InOrder(t.seats) /\ PotsOwned(t)
    BY <2>1, <2>2, ActedSound
  <2>4. t.stage = g.stage /\ t.stage \in Streets /\ t.stage # "Waiting" /\ t \in Table
    BY <1>1, <2>1, <2>3 DEF Acted, HandTable
  <2>5. Money(t) = Money(g) /\ Money(g) \in Nat
    BY <1>1, <2>1, ActedKeepsMoney, MoneyIs
  <2>6. /\ Money(h) <= Money(t)
        /\ Whole(t) /\ AliveSeats(t) # {}
             => Money(h) = Money(t) \/ (Money(h) < Money(t) /\ Unclaimed(t, h))
    BY <2>1, <2>3, <2>4, PlayedOnMoney
  <2>7. h \in Table
    BY DEF SoundTable, IdleTable, HandTable
  <2>8. Money(h) \in Nat
    BY <2>7, MoneyIs
  <2>9. CASE NoLeaver(g)
    <3>1. NoLeaver(t)
      BY <1>1, <2>1, <2>9, ActingKeepsMarks DEF NoLeaver
    <3>2. BetsSettled(t)
      BY <1>1, <2>1, <2>2, ActingSettles
    <3>3. BetsHeld(t)
      BY <1>1, <2>1, ActedHolds
    <3>4. Whole(t)
      BY <2>4, <3>1, <3>2, <3>3, SettledWhole
    <3>5. AliveSeats(t) # {}
      BY <1>1, <2>1, <2>9, <3>1, SomebodyLeft
    <3>6. Money(h) = Money(t) \/ (Money(h) < Money(t) /\ Unclaimed(t, h))
      BY <2>6, <3>4, <3>5
    <3> QED BY <1>1, <2>1, <2>5, <3>6
  <2>10. CASE ~NoLeaver(g)
    <3>1. Money(h) = Money(g) \/ Money(h) < Money(g)
      BY <2>5, <2>6, <2>8
    <3> QED BY <2>10, <3>1
  <2> QED BY <2>9, <2>10
<1> QED BY <1>3, <1>4, <1>5

\* What a call other than a buy-in, a cash-out or a removal does to the money of a
\* running hand.
LEMMA CallKeepsMoney ==
  ASSUME IInv, Sound(game), TurnHeld(game), BetsHeld(game), Led(game), [Next]_vars,
         "SitDown" \notin DuringHand, InHand, ~RemovePendingLeavers,
         ~\E p \in Players : CashOut(p) \/ \E n \in BuyIns : BuyIn(p, n)
  PROVE  \/ Money(game') = Money(game)
         \/ /\ Money(game') < Money(game)
            /\ LeaverInHand \/ \E pot \in ToSet(game.sidePots) : Abandoned(pot)
<1> DEFINE g == game
           h == game'
           Equal == Money(h) = Money(g)
           Lost == /\ Money(h) < Money(g)
                   /\ LeaverInHand \/ \E pot \in ToSet(g.sidePots) : Abandoned(pot)
<1> SUFFICES Equal \/ Lost
  OBVIOUS
<1>1. /\ g \in Table /\ h \in Table /\ g \in SoundTable /\ h \in SoundTable
      /\ InOrder(g.seats) /\ InOrder(h.seats)
  BY StepTables DEF Sound
<1>2. ASSUME h.seats = g.seats, h.sidePots = g.sidePots PROVE Equal
  BY <1>2 DEF Money, GetTotalPot, PotTotal
<1>3. ASSUME Turned(g, h) PROVE Equal \/ Lost
  <2>1. \/ Money(h) = Money(g)
        \/ Money(h) < Money(g) /\ ~NoLeaver(g)
        \/ /\ Money(h) < Money(g) /\ g \in HandTable
           /\ \E t, i, pay : Acted(g, t, i, pay) /\ Unclaimed(t, h)
    BY <1>1, <1>3, TurnKeepsMoney
  <2>2. ASSUME ~NoLeaver(g) PROVE LeaverInHand
    BY <2>2 DEF NoLeaver, LeaverInHand, ToSet
  <2>3. ASSUME g \in HandTable, NEW t, NEW i, NEW pay, Acted(g, t, i, pay), Unclaimed(t, h)
        PROVE  \E pot \in ToSet(g.sidePots) : Abandoned(pot)
    <3>1. t \in HandTable /\ InOrder(t.seats) /\ PotsOwned(t) /\ t.sidePots = g.sidePots
      <4>1. PotsOwned(g)
        BY DEF Sound
      <4> HIDE DEF g
      <4> QED BY <1>1, <2>3, <4>1, ActedSound DEF Acted
    <3>2. PICK d : \E scores \in Scores : \E won :
            ShowdownOf(t, d) /\ ShownDown(t, h, CollectBetsToSidePots(d), scores, won)
      BY <2>3 DEF Unclaimed
    <3>7. PICK scores \in Scores : \E won :
            ShowdownOf(t, d) /\ ShownDown(t, h, CollectBetsToSidePots(d), scores, won)
      BY <3>2
    <3>3. PICK won :
            ShowdownOf(t, d) /\ ShownDown(t, h, CollectBetsToSidePots(d), scores, won)
      BY <3>7
    <3>4. ShowdownStep(g, h, g, t, i, d, scores, won)
      <4> HIDE DEF g, h
      <4> QED BY <2>3, <3>1, <3>3 DEF ShowdownStep
    <3>5. PICK pot \in ToSet(t.sidePots) : Contenders(t, pot) = {}
      BY <2>3 DEF Unclaimed
    <3>6. Abandoned(pot)
      BY <3>4, <3>5, UnclaimedIsAbandoned
    <3> QED BY <3>1, <3>5, <3>6
  <2> QED BY <2>1, <2>2, <2>3
<1>4. CASE TakeTurn
  <2>1. {"CheckCall", "AllIn", "Fold", "Bet", "Raise"} \subseteq Actions /\ 0 \in Int
    BY DEF Actions
  <2>2. PICK p \in Players :
          \/ \E action \in {"CheckCall", "AllIn", "Fold"} : HandleAction(p, action, 0)
          \/ \E action \in {"Bet", "Raise"}, amount \in Amounts :
               HandleAction(p, action, amount)
    BY <1>4 DEF TakeTurn
  <2>3. Turned(g, h)
    BY <2>1, <2>2, HandleActionIs, GameAssumption
  <2> QED BY <1>3, <2>3
<1>5. ASSUME NEW p \in Players, StandUp(p) \/ SitBack(p) \/ MarkPendingLeave(p)
      PROVE  Equal
  <2>1. p \in Seated /\ EditedSeat(g, h, p, SeatOf(p).chips)
    BY <1>5, FlagsAre
  <2>2. PICK k \in DOMAIN g.seats : g.seats[k].playerId = p /\ SeatOf(p) = g.seats[k]
    BY <2>1, SeatFound
  <2>3. EditedSeat(g, h, p, g.seats[k].chips)
    BY <2>1, <2>2
  <2> HIDE DEF g, h
  <2>4. PICK i \in DOMAIN g.seats, t \in Seat :
          /\ g.seats[i].playerId = p /\ h = [g EXCEPT !.seats[i] = t]
          /\ SameSeat(g.seats[i], t) /\ t.chips = g.seats[k].chips
    BY <2>3 DEF EditedSeat
  <2>5. i = k
    BY <1>1, <2>2, <2>4, OneSeat
  <2>6. h.sidePots = g.sidePots /\ h.seats = [g.seats EXCEPT ![i] = t]
    BY <1>1, <2>4 DEF Table
  <2>7. /\ DOMAIN h.seats = DOMAIN g.seats
        /\ \A j \in DOMAIN g.seats : h.seats[j] = IF j = i THEN t ELSE g.seats[j]
    BY <1>1, <2>6, MoneyTypes
  <2>8. \A j \in DOMAIN g.seats : /\ h.seats[j].chips = g.seats[j].chips
                                  /\ h.seats[j].currentBet = g.seats[j].currentBet
    BY <2>4, <2>5, <2>7 DEF SameSeat
  <2>9. Stacks(h) = Stacks(g)
    BY <2>7, <2>8, SameStacks
  <2>10. [j \in DOMAIN h.seats |-> h.seats[j].currentBet] = [j \in DOMAIN g.seats |-> g.seats[j].currentBet]
    BY <2>7, <2>8
  <2>11. GetTotalPot(h) = GetTotalPot(g)
    BY <2>6, <2>10 DEF GetTotalPot, PotTotal
  <2>12. Money(h) = Stacks(h) + GetTotalPot(h) /\ Money(g) = Stacks(g) + GetTotalPot(g)
    BY <1>1, MoneyIs
  <2> QED BY <2>9, <2>11, <2>12
<1>6. ASSUME ClearPendingHandResult \/ UNCHANGED vars PROVE Equal
  <2>1. h.seats = g.seats /\ h.sidePots = g.sidePots
    BY <1>1, <1>6 DEF ClearPendingHandResult, vars, Table
  <2> QED BY <1>2, <2>1
<1>7. ASSUME ProcessAutoModePlayer PROVE Turned(g, h)
  BY <1>7, ProcessAutoModePlayerIs
<1>8. ~StartHand
  BY DEF StartHand, CanStart, InHand
<1>9. ~\E p \in Players : SitDown(p)
  BY DEF SitDown, Made
<1>10. ~\E blinds \in Blinds : SetBlinds(blinds)
  BY DEF SetBlinds
<1>11. CASE TableCall
  <2> HIDE DEF g, h, Equal, Lost
  <2> QED BY <1>3, <1>5, <1>6, <1>7, <1>8, <1>9, <1>10, <1>11 DEF TableCall
<1> HIDE DEF g, h, Equal, Lost
<1> QED BY <1>4, <1>6, <1>11 DEF Next

\* When nobody sits down during a hand and small blinds are below big blinds, no call of
\* a running hand loses chips, whatever is bet and whoever folds, but in the two ways
\* the code has to drop them: a leaver is in the hand, or the fold that ends it leaves a
\* pot that none of the others was named in.
THEOREM ChipsStayOnTheTable ==
  ASSUME "SitDown" \notin DuringHand, \A b \in Blinds : b[1] < b[2]
  PROVE  Spec => ChipsConserved
<1>1. IInv /\ Sound(game) /\ (TurnHeld(game) /\ BetsHeld(game) /\ Led(game)) /\ [Next]_vars =>
        [InHand /\ ~RemovePendingLeavers
           /\ ~(\E p \in Players : CashOut(p) \/ \E n \in BuyIns : BuyIn(p, n)) =>
           \/ Money(game') = Money(game)
           \/ /\ Money(game') < Money(game)
              /\ LeaverInHand
                   \/ \E pot \in ToSet(game.sidePots) : Abandoned(pot)]_vars
  BY CallKeepsMoney
<1>2. Spec => []IInv /\ []Sound(game) /\ [](TurnHeld(game) /\ BetsHeld(game) /\ Led(game))
  BY Inductive, SoundInductive, BetsStayLed
<1> QED BY <1>1, <1>2, PTL DEF Spec, ChipsConserved

=============================================================================
