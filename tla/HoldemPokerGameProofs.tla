----------------------- MODULE HoldemPokerGameProofs -----------------------
(***************************************************************************)
(* Theorems about the engine for any number of players and seats, any       *)
(* blinds, buy-ins and bets.  The invariant is proved by following the chain *)
(* of helpers: each lemma says what one operator of HoldemTable.tla makes of *)
(* a table of a running hand.  What a turn leaves, which later theorems need, *)
(* is gathered at the end.                                                   *)
(***************************************************************************)
EXTENDS HoldemProperties, VectorTheorems

\* A seat of a hand is all-in exactly when it has no chips.
SoundSeat == {s \in Seat : s.inHand => (s.allIn <=> s.chips = 0)}

\* A seat with nothing left of a hand.
IdleSeat ==
  {s \in Seat : /\ ~s.inHand /\ ~s.folded /\ ~s.allIn
                /\ s.currentBet = 0 /\ s.totalBetThisHand = 0}

\* A table on which a hand can go on.
HandTable == {g \in Table : g.seats \in Seq(SoundSeat) /\ AreBlindsSet(g)}

\* A table between hands.
IdleTable ==
  {g \in Table : /\ g.stage = "Waiting" /\ g.seats \in Seq(IdleSeat)
                 /\ g.sidePots = <<>> /\ g.community = 0 /\ g.lastBet = 0}

Streets == {"PreFlop", "Flop", "Turn", "River"}

SoundTable == IdleTable \cup {g \in HandTable : g.stage \in Streets}

\* The inductive invariant: what a hand leaves behind is what the next one
\* starts from, and a hand runs only with blinds, so that every pay is a number
\* of chips the seat has.
IInv == game \in SoundTable

-----------------------------------------------------------------------------
(* Seats.                                                                   *)

\* Seats of a table: positions and elements.
LEMMA SeatsAre ==
  ASSUME NEW S, NEW g, g.seats \in Seq(S)
  PROVE  /\ Len(g.seats) \in Nat
         /\ DOMAIN g.seats = 1..Len(g.seats)
         /\ \A i \in DOMAIN g.seats : g.seats[i] \in S
         /\ \A i \in Positions(g) : i + 1 \in DOMAIN g.seats /\ At(g, i) \in S
BY LenProperties, ElementOfSeq DEF Positions, At

\* A loop over the seats.
LEMMA SeatLoop ==
  ASSUME NEW S, NEW R, NEW q \in Seq(R), NEW f,
         f = [i \in DOMAIN q |-> f[i]],
         \A i \in DOMAIN q : f[i] \in S
  PROVE  Vector(f) = f /\ f \in Seq(S) /\ Len(f) = Len(q)
<1>1. Len(q) \in Nat /\ DOMAIN q = 1..Len(q)
  BY LenProperties
<1>2. f \in [1..Len(q) -> S]
  BY <1>1
<1>3. f \in Seq(S) /\ Len(f) = Len(q)
  BY <1>1, <1>2, SeqIntro
<1> QED BY <1>3, VectorIs

\* A pay of at most the stack keeps the seat sound: the four assignments of
\* PutIn set allIn exactly when the stack is used up.
LEMMA PutInSound ==
  ASSUME NEW s \in SoundSeat, NEW pay \in 0..s.chips
  PROVE  PutIn(s, pay) \in SoundSeat
<1>1. s \in Seat /\ s.chips \in Nat /\ (s.inHand => (s.allIn <=> s.chips = 0))
  BY DEF SoundSeat, Seat
<1>2. /\ s.chips - pay \in Nat
      /\ s.currentBet + pay \in Nat
      /\ s.totalBetThisHand + pay \in Nat
  BY <1>1 DEF Seat
<1>3. PutIn(s, pay) \in Seat
  BY <1>1, <1>2 DEF PutIn, Seat
<1>4. /\ PutIn(s, pay).allIn = (s.allIn \/ s.chips = pay)
      /\ PutIn(s, pay).chips = s.chips - pay
      /\ PutIn(s, pay).inHand = s.inHand
  BY <1>1 DEF PutIn, Seat
<1>5. s.inHand => ((s.allIn \/ s.chips = pay) <=> s.chips - pay = 0)
  BY <1>1
<1> QED BY <1>3, <1>4, <1>5 DEF SoundSeat

\* The six assignments of FinishHand leave nothing of the hand on a seat.
LEMMA ClearedSeatIdle ==
  ASSUME NEW s \in Seat
  PROVE  ClearedSeat(s) \in IdleSeat
BY DEF ClearedSeat, IdleSeat, Seat

\* A seat in no hand may be on the table of a hand.
LEMMA IdleIsSound ==
  IdleSeat \subseteq SoundSeat /\ SoundSeat \subseteq Seat
BY DEF IdleSeat, SoundSeat

\* The same for the vector of seats.
LEMMA SoundSeqs ==
  /\ Seq(IdleSeat) \subseteq Seq(SoundSeat)
  /\ Seq(SoundSeat) \subseteq Seq(Seat)
BY IdleIsSound, SeqMonotonic

-----------------------------------------------------------------------------
(* Ending a hand.                                                           *)

\* FinishHand leaves a table between hands, whatever it is called on.
LEMMA FinishHandIdle ==
  ASSUME NEW g \in Table
  PROVE  FinishHand(g) \in IdleTable
<1> DEFINE f == [i \in DOMAIN g.seats |-> ClearedSeat(g.seats[i])]
<1>1. g.seats \in Seq(Seat)
  BY DEF Table
<1>2. \A i \in DOMAIN g.seats : g.seats[i] \in Seat
  BY <1>1, SeatsAre
<1>3. \A i \in DOMAIN g.seats : f[i] \in IdleSeat
  BY <1>2, ClearedSeatIdle
<1>4. Vector(f) = f /\ f \in Seq(IdleSeat)
  <2> HIDE DEF f
  <2>1. f = [i \in DOMAIN g.seats |-> f[i]]
    BY DEF f
  <2> QED BY <1>1, <1>3, <2>1, SeatLoop
<1>6. f \in Seq(Seat)
  BY <1>4, SoundSeqs
<1>7. /\ FinishHand(g) =
           [g EXCEPT !.stage = "Waiting", !.community = 0, !.sidePots = <<>>,
                     !.lastBet = 0, !.lastRaise = 0, !.seats = f]
      /\ <<>> \in Seq(Pot) /\ "Waiting" \in Stages /\ 0 \in Nat
  BY <1>4, EmptySeq DEF FinishHand, Stages
<1> HIDE DEF f
<1>8. FinishHand(g) \in Table
  BY <1>6, <1>7, ZenonT(60) DEF Table
<1>9. /\ FinishHand(g).stage = "Waiting" /\ FinishHand(g).seats = f
      /\ FinishHand(g).sidePots = <<>> /\ FinishHand(g).community = 0
      /\ FinishHand(g).lastBet = 0
  BY <1>7 DEF Table
<1> QED BY <1>4, <1>8, <1>9 DEF IdleTable

-----------------------------------------------------------------------------
(* Walking round the table.                                                 *)

\* A walk that looks for one of the positions in S finds one of them.
LEMMA FirstFromIn ==
  ASSUME NEW R, NEW g, g.seats \in Seq(R), NEW start \in Nat,
         NEW S \in SUBSET Positions(g)
  PROVE  /\ FirstFrom(g, start, S) \in Nat
         /\ S = {} => FirstFrom(g, start, S) = Len(g.seats)
         /\ S # {} => FirstFrom(g, start, S) \in S
<1> DEFINE N == Len(g.seats)
           d(i) == (i - start) % N
<1>1. N \in Nat /\ \A i \in S : i \in Nat /\ i < N
  BY SeatsAre DEF Positions
<1>2. CASE S = {}
  BY <1>1, <1>2 DEF FirstFrom
<1>3. CASE S # {}
  <2>1. N \in Nat \ {0}
    BY <1>1, <1>3
  <2>2. ASSUME NEW i \in S PROVE d(i) \in Nat
    <3>1. i - start \in Int
      BY <1>1
    <3> HIDE DEF N
    <3> QED BY <2>1, <3>1
  <2> DEFINE D == {d(i) : i \in S}
  <2>3. D \in SUBSET Nat /\ D # {}
    <3> HIDE DEF d
    <3> QED BY <1>3, <2>2
  <2>4. PICK m \in D : \A k \in D : m <= k
    <3> HIDE DEF D
    <3> QED BY <2>3, LeastNat
  <2>5. PICK i \in S : m = d(i)
    OBVIOUS
  <2>6. \A j \in S : d(i) <= d(j)
    <3> HIDE DEF d
    <3> QED BY <2>4, <2>5
  <2>7. FirstFrom(g, start, S) \in S
    BY <1>3, <2>6 DEF FirstFrom
  <2> QED BY <1>1, <1>3, <2>7
<1> QED BY <1>2, <1>3

\* NextActiveIndex returns a position or the size of the vector.
LEMMA NextActiveIndexType ==
  ASSUME NEW R, NEW g, g.seats \in Seq(R), NEW start \in Nat
  PROVE  NextActiveIndex(g, start) \in Nat
BY FirstFromIn DEF NextActiveIndex

\* A blind goes to a seat of the hand.
LEMMA BlindPosition ==
  ASSUME NEW R, NEW g, g.seats \in Seq(R), NEW start \in Nat
  PROVE  /\ FindNextValidBlindPosition(g, start) \in Nat
         /\ FindNextValidBlindPosition(g, start) \in Positions(g)
              => At(g, FindNextValidBlindPosition(g, start)).inHand
<1> DEFINE S == {i \in Positions(g) : At(g, i).inHand}
<1>1. Len(g.seats) \notin Positions(g)
  BY SeatsAre DEF Positions
<1>2. S \in SUBSET Positions(g)
  OBVIOUS
<1>3. FindNextValidBlindPosition(g, start) = FirstFrom(g, start, S)
  BY DEF FindNextValidBlindPosition
<1>4. \A i \in S : At(g, i).inHand
  OBVIOUS
<1> HIDE DEF S
<1> QED BY <1>1, <1>2, <1>3, <1>4, FirstFromIn

-----------------------------------------------------------------------------
(* Bets.                                                                    *)

\* The largest total of the others is a number of chips, no other seat alive having
\* more: the loop of GetMaxOtherEffectiveTotal starts at 0.
LEMMA OthersType ==
  ASSUME NEW g, g.seats \in Seq(Seat), NEW p
  PROVE  /\ GetMaxOtherEffectiveTotal(g, p) \in Nat
         /\ \A i \in DOMAIN g.seats :
              Alive(g.seats[i]) /\ g.seats[i].playerId # p
              => g.seats[i].currentBet + g.seats[i].chips <= GetMaxOtherEffectiveTotal(g, p)
<1> DEFINE f == [i \in DOMAIN g.seats |-> g.seats[i].currentBet + g.seats[i].chips]
           T == {0} \cup {s.currentBet + s.chips :
                          s \in {t \in ToSet(g.seats) : Alive(t) /\ t.playerId # p}}
<1>1. /\ DOMAIN g.seats = 1..Len(g.seats) /\ Len(g.seats) \in Nat
      /\ \A i \in DOMAIN g.seats : g.seats[i] \in Seat
  BY SeatsAre
<1>2. f \in [DOMAIN g.seats -> Nat] /\ IsFiniteSet(DOMAIN g.seats)
  <2>1. \A s \in Seat : s.currentBet + s.chips \in Nat
    BY DEF Seat
  <2>2. f \in [DOMAIN g.seats -> Nat]
    BY <1>1, <2>1
  <2>3. IsFiniteSet(1..Len(g.seats))
    BY <1>1, FS_Interval
  <2> QED BY <1>1, <2>2, <2>3
<1>3. PICK N \in Nat : \A i \in DOMAIN g.seats : f[i] <= N
  <2> HIDE DEF f
  <2> QED BY <1>2, FunctionIsBounded
<1>4. ASSUME NEW s \in ToSet(g.seats)
      PROVE  s.currentBet + s.chips \in Nat /\ s.currentBet + s.chips <= N
  <2>1. PICK i \in DOMAIN g.seats : s = g.seats[i]
    BY DEF ToSet
  <2>2. f[i] = s.currentBet + s.chips
    BY <2>1
  <2> QED
    <3> HIDE DEF f
    <3> QED BY <1>2, <1>3, <2>2
<1>5. T \in SUBSET Nat /\ T # {} /\ \A k \in T : k <= N
  BY <1>4
<1>6. Max(T) \in T /\ \A k \in T : k <= Max(T)
  <2> HIDE DEF T
  <2> QED BY <1>5, MaxOfBounded
<1>7. Max(T) \in Nat
  <2> HIDE DEF T
  <2> QED BY <1>5, <1>6
<1>8. ASSUME NEW i \in DOMAIN g.seats, Alive(g.seats[i]), g.seats[i].playerId # p
      PROVE  g.seats[i].currentBet + g.seats[i].chips <= Max(T)
  <2>1. g.seats[i].currentBet + g.seats[i].chips \in T
    BY <1>8 DEF ToSet
  <2> HIDE DEF T
  <2> QED BY <1>6, <2>1
<1> QED BY <1>7, <1>8 DEF GetMaxOtherEffectiveTotal

\* A bet is capped between what the seat has in and all it owns.
LEMMA AllowedBounds ==
  ASSUME NEW g, g.seats \in Seq(Seat), NEW s \in Seat
  PROVE  /\ GetMaxAllowedTotalBet(g, s) \in Nat
         /\ s.currentBet <= GetMaxAllowedTotalBet(g, s)
         /\ GetMaxAllowedTotalBet(g, s) <= s.currentBet + s.chips
<1> DEFINE own == s.currentBet + s.chips
           others == GetMaxOtherEffectiveTotal(g, s.playerId)
           m == IF own <= others THEN own ELSE others
<1>1. s.currentBet \in Nat /\ s.chips \in Nat
  BY DEF Seat
<1>2. own \in Nat /\ others \in Nat /\ s.currentBet <= own
  BY <1>1, OthersType
<1>3. GetMaxAllowedTotalBet(g, s) =
        IF others > 0 THEN Max({s.currentBet, Min({own, others})}) ELSE own
  BY DEF GetMaxAllowedTotalBet
<1> HIDE DEF own, others
<1>4. Min({own, others}) = m /\ m \in Nat /\ m <= own
  BY <1>2, MinOfTwo
<1>5. Max({s.currentBet, m}) = IF s.currentBet >= m THEN s.currentBet ELSE m
  <2> HIDE DEF m
  <2> QED BY <1>1, <1>4, MaxOfTwo
<1>6. /\ GetMaxAllowedTotalBet(g, s) \in Nat
      /\ s.currentBet <= GetMaxAllowedTotalBet(g, s)
      /\ GetMaxAllowedTotalBet(g, s) <= own
  <2> HIDE DEF m
  <2>1. CASE others > 0
    <3>1. GetMaxAllowedTotalBet(g, s) = Max({s.currentBet, m})
      BY <1>3, <1>4, <2>1
    <3> QED BY <1>1, <1>2, <1>4, <1>5, <3>1
  <2>2. CASE ~(others > 0)
    BY <1>1, <1>2, <1>3, <2>2
  <2> QED BY <2>1, <2>2
<1> QED BY <1>6 DEF own

\* The amount a legal action puts in is a number of chips the seat has.
LEMMA PayBounds ==
  ASSUME NEW g \in HandTable, NEW s \in Seat, NEW action \in Actions,
         NEW amount \in Int, Legal(g, s, action, amount)
  PROVE  /\ TotalBet(g, s, action, amount) \in Nat
         /\ TotalBet(g, s, action, amount) - s.currentBet \in 0..s.chips
<1> DEFINE allowed == GetMaxAllowedTotalBet(g, s)
           own == s.currentBet + s.chips
<1>1. s.currentBet \in Nat /\ s.chips \in Nat /\ g.lastBet \in Nat
  BY DEF Seat, HandTable, Table
<1>2. allowed \in Nat /\ s.currentBet <= allowed /\ allowed <= own
  BY AllowedBounds DEF HandTable, Table
<1> HIDE DEF allowed
<1>3. \A n \in Nat : s.currentBet <= n /\ n <= own
        => n \in Nat /\ n - s.currentBet \in 0..s.chips
  BY <1>1
<1>4. CASE action = "Bet"
  <2>1. TotalBet(g, s, action, amount) = BetTo(g, s, amount)
    BY <1>4 DEF TotalBet
  <2>2. BetTo(g, s, amount) > s.currentBet
    BY <1>4 DEF Legal
  <2>3. BetTo(g, s, amount) = IF amount <= allowed THEN amount ELSE allowed
    BY <1>2, MinOfTwo DEF BetTo, allowed
  <2> QED BY <1>1, <1>2, <1>3, <2>1, <2>2, <2>3
<1>5. CASE action = "Raise"
  <2>1. TotalBet(g, s, action, amount) = RaiseTo(g, s, amount)
    BY <1>5 DEF TotalBet
  <2>2. RaiseTo(g, s, amount) > s.currentBet
    BY <1>5 DEF Legal
  <2>3. g.lastBet + amount \in Int
    BY <1>1
  <2>4. RaiseTo(g, s, amount) =
          IF g.lastBet + amount <= allowed THEN g.lastBet + amount ELSE allowed
    BY <1>2, <2>3, MinOfTwo DEF RaiseTo, allowed
  <2> QED BY <1>1, <1>2, <1>3, <2>1, <2>2, <2>4
<1>6. CASE action = "AllIn"
  <2>1. TotalBet(g, s, action, amount) = AllInTo(g, s)
    BY <1>6 DEF TotalBet
  <2>2. AllInTo(g, s) = IF own <= allowed THEN own ELSE allowed
    BY <1>1, <1>2, MinOfTwo DEF AllInTo, allowed
  <2> QED BY <1>1, <1>2, <1>3, <2>1, <2>2
<1>7. CASE action = "CheckCall"
  <2> DEFINE d == g.lastBet - s.currentBet
             toCall == IF 0 >= d THEN 0 ELSE d
  <2>1. TotalBet(g, s, action, amount) = CallTo(g, s)
    BY <1>7 DEF TotalBet
  <2>2. Max({0, d}) = toCall
    <3>1. d \in Int
      BY <1>1
    <3> HIDE DEF d
    <3> QED BY <3>1, MaxOfTwo
  <2>3. toCall \in Nat
    BY <1>1
  <2>4. CallTo(g, s) = s.currentBet + Min({s.chips, toCall})
    BY <2>2 DEF CallTo
  <2> HIDE DEF toCall
  <2>5. Min({s.chips, toCall}) = IF s.chips <= toCall THEN s.chips ELSE toCall
    BY <1>1, <2>3, MinOfTwo
  <2> QED BY <1>1, <1>3, <2>1, <2>3, <2>4, <2>5
<1>8. CASE action = "Fold"
  <2>1. TotalBet(g, s, action, amount) = s.currentBet
    BY <1>8 DEF TotalBet
  <2> QED BY <1>1, <1>3, <2>1
<1> QED BY <1>4, <1>5, <1>6, <1>7, <1>8 DEF Actions

\* Whatever the action, the seat that acts stays sound.
LEMMA MovedSound ==
  ASSUME NEW s \in SoundSeat, NEW action, NEW total, total - s.currentBet \in 0..s.chips
  PROVE  Moved(s, action, total) \in SoundSeat
<1> DEFINE t == PutIn(s, total - s.currentBet)
<1>1. t \in SoundSeat
  BY PutInSound
<1>2. (action = "Fold") \in BOOLEAN
  OBVIOUS
<1> HIDE DEF t
<1>3. [t EXCEPT !.folded = action = "Fold", !.actedThisRound = TRUE] \in SoundSeat
  BY <1>1, <1>2 DEF SoundSeat, Seat
<1> QED BY <1>3 DEF Moved, t

\* A raise takes the other seats their actedThisRound and nothing else.
LEMMA ReopenedSound ==
  ASSUME NEW s \in SoundSeat, NEW raised
  PROVE  Reopened(s, raised) \in SoundSeat
<1> DEFINE b == s.actedThisRound /\ ~(raised /\ Alive(s) /\ ~s.allIn)
<1>1. b \in BOOLEAN
  OBVIOUS
<1>2. Reopened(s, raised) = [s EXCEPT !.actedThisRound = b]
  BY DEF Reopened
<1> HIDE DEF b
<1> QED BY <1>1, <1>2 DEF SoundSeat, Seat

\* RecordLastAction changes nothing a hand depends on.
LEMMA RecordLastActionHand ==
  ASSUME NEW g \in HandTable, NEW p \in Players, NEW action \in Actions, NEW n \in Nat
  PROVE  /\ RecordLastAction(g, p, action, n) \in HandTable
         /\ RecordLastAction(g, p, action, n).stage = g.stage
<1> DEFINE last == [playerId |-> p, action |-> action, amount |-> n]
           r == [g EXCEPT !.lastAction = last]
<1>1. last \in LastAction
  BY DEF LastAction
<1> HIDE DEF last
<1>2. r \in Table
  BY <1>1, Zenon DEF HandTable, Table
<1>3. /\ r.seats = g.seats /\ r.stage = g.stage
      /\ r.smallBlind = g.smallBlind /\ r.bigBlind = g.bigBlind
  BY DEF HandTable, Table
<1>4. RecordLastAction(g, p, action, n) = r
  BY DEF RecordLastAction, last
<1> HIDE DEF r
<1> QED BY <1>2, <1>3, <1>4 DEF HandTable, AreBlindsSet

\* The branches of HandleAction keep _lastBet and _lastRaise natural: a raise
\* that reopens the betting is at least the one before.
LEMMA LastBetRaiseType ==
  ASSUME NEW g \in HandTable, NEW action, NEW total \in Nat
  PROVE  /\ LastBetAfter(g, action, total) \in Nat
         /\ LastRaiseAfter(g, action, total) \in Nat
<1>1. /\ g.lastBet \in Nat /\ g.lastRaise \in Nat
      /\ g.bigBlind \in Nat /\ g.bigBlind > 0
  BY DEF HandTable, Table, AreBlindsSet
<1>2. Max({g.lastBet, total}) \in Nat /\ Max({g.bigBlind, total}) \in Nat
  BY <1>1, MaxOfTwo
<1>3. Reopens(g, action, total) /\ g.lastBet # 0 => total - g.lastBet \in Nat
  BY <1>1 DEF Reopens
<1> QED BY <1>1, <1>2, <1>3 DEF LastBetAfter, LastRaiseAfter

\* A legal action leaves a table on which the hand can go on.
LEMMA PlayedHand ==
  ASSUME NEW g \in HandTable, g.actingIndex \in Positions(g),
         NEW action \in Actions, NEW amount \in Int,
         Legal(g, At(g, g.actingIndex), action, amount)
  PROVE  /\ Played(g, action, amount) \in HandTable
         /\ Played(g, action, amount).stage = g.stage
<1> DEFINE i == g.actingIndex + 1
           s == g.seats[i]
           total == TotalBet(g, s, action, amount)
           raised == Reopens(g, action, total)
           f == [j \in DOMAIN g.seats |-> IF j = i THEN Moved(s, action, total)
                                          ELSE Reopened(g.seats[j], raised)]
           r == [g EXCEPT !.seats = f,
                          !.lastBet = LastBetAfter(g, action, total),
                          !.lastRaise = LastRaiseAfter(g, action, total)]
<1>1. /\ g.seats \in Seq(SoundSeat)
      /\ \A j \in DOMAIN g.seats : g.seats[j] \in SoundSeat
      /\ i \in DOMAIN g.seats /\ s = At(g, g.actingIndex)
  BY SeatsAre DEF HandTable, At
<1>2. s \in SoundSeat /\ s \in Seat /\ s.playerId \in Players
  BY <1>1 DEF SoundSeat, Seat
<1>3. total \in Nat /\ total - s.currentBet \in 0..s.chips
  BY <1>1, <1>2, PayBounds
<1> HIDE DEF total, raised
<1>4. \A j \in DOMAIN g.seats : f[j] \in SoundSeat
  <2>1. Moved(s, action, total) \in SoundSeat
    BY <1>2, <1>3, MovedSound
  <2>2. \A j \in DOMAIN g.seats : Reopened(g.seats[j], raised) \in SoundSeat
    BY <1>1, ReopenedSound
  <2> HIDE DEF s, i
  <2> QED BY <2>1, <2>2
<1>5. Vector(f) = f /\ f \in Seq(SoundSeat)
  <2>1. f = [j \in DOMAIN g.seats |-> f[j]]
    OBVIOUS
  <2> HIDE DEF f
  <2> QED BY <1>1, <1>4, <2>1, SeatLoop
<1>6. f \in Seq(Seat)
  BY <1>5, SoundSeqs
<1>7. /\ LastBetAfter(g, action, total) \in Nat
      /\ LastRaiseAfter(g, action, total) \in Nat
  BY <1>3, LastBetRaiseType
<1>8. r \in HandTable /\ r.stage = g.stage
  <2> HIDE DEF f
  <2>1. r \in Table
    BY <1>6, <1>7, Zenon DEF HandTable, Table
  <2>2. /\ r.seats = f /\ r.stage = g.stage
        /\ r.smallBlind = g.smallBlind /\ r.bigBlind = g.bigBlind
    BY DEF HandTable, Table
  <2> HIDE DEF r
  <2> QED BY <1>5, <2>1, <2>2 DEF HandTable, AreBlindsSet
<1>9. Played(g, action, amount)
        = RecordLastAction(r, s.playerId, action, total - s.currentBet)
  BY <1>5 DEF Played, total, raised
<1>10. total - s.currentBet \in Nat
  BY <1>2, <1>3 DEF Seat
<1> HIDE DEF r, s
<1> QED BY <1>2, <1>8, <1>9, <1>10, RecordLastActionHand

\* A seat that plays itself leaves a table on which the hand can go on.
LEMMA AutoPlayedHand ==
  ASSUME NEW g \in HandTable, g.actingIndex \in Positions(g)
  PROVE  AutoPlayed(g) \in HandTable /\ AutoPlayed(g).stage = g.stage
<1> DEFINE i == g.actingIndex + 1
           s == At(g, g.actingIndex)
           folds == g.lastBet > s.currentBet
           t == [s EXCEPT !.folded = folds, !.actedThisRound = TRUE]
           q == [g.seats EXCEPT ![i] = t]
           r == [g EXCEPT !.seats = q]
<1>1. /\ g.seats \in Seq(SoundSeat) /\ i \in 1..Len(g.seats)
      /\ DOMAIN g.seats = 1..Len(g.seats)
      /\ s = g.seats[i] /\ s \in SoundSeat
  BY SeatsAre DEF HandTable, At
<1>2. folds \in BOOLEAN
  <2> HIDE DEF s
  <2> QED OBVIOUS
<1> HIDE DEF folds
<1>3. t \in SoundSeat
  <2> HIDE DEF s
  <2> QED BY <1>1, <1>2 DEF SoundSeat, Seat
<1>4. q \in Seq(SoundSeat)
  <2> HIDE DEF t, i
  <2> QED BY <1>1, <1>3, ExceptSeq
<1>5. q \in Seq(Seat)
  BY <1>4, SoundSeqs
<1>6. r \in HandTable /\ r.stage = g.stage
  <2> HIDE DEF q
  <2>1. r \in Table
    BY <1>5, Zenon DEF HandTable, Table
  <2>2. /\ r.seats = q /\ r.stage = g.stage
        /\ r.smallBlind = g.smallBlind /\ r.bigBlind = g.bigBlind
    BY DEF HandTable, Table
  <2> HIDE DEF r
  <2> QED BY <1>4, <2>1, <2>2 DEF HandTable, AreBlindsSet
<1>7. AutoPlayed(g)
        = RecordLastAction(r, s.playerId, IF folds THEN "Fold" ELSE "CheckCall", 0)
  <2>1. r = [g EXCEPT !.seats[i].folded = folds, !.seats[i].actedThisRound = TRUE]
    <3>1. [g.seats EXCEPT ![i].folded = folds, ![i].actedThisRound = TRUE] = q
      BY <1>1
    <3> QED BY <3>1
  <2> QED BY <2>1 DEF AutoPlayed, folds
<1>8. (IF folds THEN "Fold" ELSE "CheckCall") \in Actions
  BY DEF Actions
<1>9. s.playerId \in Players
  <2> HIDE DEF s
  <2> QED BY <1>1 DEF SoundSeat, Seat
<1> HIDE DEF r, s
<1> QED BY <1>6, <1>9, <1>7, <1>8, RecordLastActionHand

-----------------------------------------------------------------------------
(* Collecting the bets.                                                     *)

\* A bet adds no negative amount to a layer.
LEMMA ShareType ==
  ASSUME NEW bet \in Nat, NEW below \in Nat, NEW level \in Nat
  PROVE  Share(bet, below, level) \in Nat
<1> DEFINE d == (IF bet <= level THEN bet ELSE level) - below
<1>1. d \in Int
  OBVIOUS
<1>2. Share(bet, below, level) = Max({0, d})
  BY MinOfTwo DEF Share
<1> HIDE DEF d
<1> QED BY <1>1, <1>2, MaxOfTwo

\* The sorted bets of CollectBetsToSidePots are positive.
LEMMA BetLevelsType ==
  ASSUME NEW g, g.seats \in Seq(Seat)
  PROVE  BetLevels(g) \in SUBSET Nat
<1>1. \A i \in DOMAIN g.seats : g.seats[i] \in Seat
  BY SeatsAre
<1>2. \A i \in DOMAIN g.seats : g.seats[i].currentBet \in Nat
  BY <1>1 DEF Seat
<1> QED BY <1>2 DEF BetLevels, Contributors

\* A layer is a pot: the sum of what the bets add to it, and players.
LEMMA LayerType ==
  ASSUME NEW g, g.seats \in Seq(Seat), NEW below \in Nat, NEW level \in Nat
  PROVE  Layer(g, below, level) \in Pot
<1> DEFINE f == [i \in DOMAIN g.seats |->
                   IF i \in Contributors(g)
                   THEN Share(g.seats[i].currentBet, below, level) ELSE 0]
           e == {g.seats[i].playerId : i \in
                  {j \in Contributors(g) :
                     g.seats[j].currentBet > below /\ ~g.seats[j].folded}}
<1>1. /\ Len(g.seats) \in Nat /\ DOMAIN g.seats = 1..Len(g.seats)
      /\ \A i \in DOMAIN g.seats : g.seats[i] \in Seat
  BY SeatsAre
<1>2. \A i \in DOMAIN g.seats :
        g.seats[i].currentBet \in Nat /\ g.seats[i].playerId \in Players
  BY <1>1 DEF Seat
<1>3. f \in [1..Len(g.seats) -> Nat]
  <2>1. \A i \in DOMAIN g.seats : Share(g.seats[i].currentBet, below, level) \in Nat
    BY <1>2, ShareType
  <2> QED BY <1>1, <2>1
<1>4. SumSeq(f) \in Nat
  <2> HIDE DEF f
  <2>1. f \in Seq(Nat)
    BY <1>1, <1>3, SeqIntro
  <2> QED BY <2>1, SumSeqType
<1>5. e \in SUBSET Players
  BY <1>2 DEF Contributors
<1>6. Layer(g, below, level) = [amount |-> SumSeq(f), eligible |-> e]
  BY DEF Layer
<1> HIDE DEF f, e
<1> QED BY <1>4, <1>5, <1>6 DEF Pot

\* What the loop over the bets carries from one pass to the next.
LoopState == [level : Nat, pots : Seq(Pot)]

\* One pass of the loop of CollectBetsToSidePots.
LEMMA AddLayerType ==
  ASSUME NEW g, g.seats \in Seq(Seat), NEW acc \in LoopState
  PROVE  AddLayer(g, acc) \in LoopState
<1> DEFINE higher == {l \in BetLevels(g) : l > acc.level}
           level == Min(higher)
           pot == Layer(g, acc.level, level)
<1>1. acc.level \in Nat /\ acc.pots \in Seq(Pot)
  BY DEF LoopState
<1>2. higher \in SUBSET Nat
  BY BetLevelsType
<1>3. CASE higher = {}
  BY <1>3 DEF AddLayer
<1>4. CASE higher # {}
  <2>1. level \in Nat
    <3> HIDE DEF higher
    <3> QED BY <1>2, <1>4, MinOfNats
  <2> HIDE DEF level
  <2>2. pot \in Pot
    BY <1>1, <2>1, LayerType
  <2>3. Append(acc.pots, pot) \in Seq(Pot)
    <3> HIDE DEF pot
    <3> QED BY <1>1, <2>2, AppendProperties
  <2>4. AddLayer(g, acc) =
          [level |-> level, pots |-> IF pot.eligible = {} THEN acc.pots
                                     ELSE Append(acc.pots, pot)]
    BY <1>4 DEF AddLayer, level
  <2> HIDE DEF pot
  <2> QED BY <1>1, <2>1, <2>3, <2>4 DEF LoopState
<1> QED BY <1>3, <1>4

\* The passes of the loop of CollectBetsToSidePots: f[n] is what n of them leave.
IsLoop(g, f) ==
  /\ f[0] = [level |-> 0, pots |-> g.sidePots]
  /\ \A n \in 1..Len(g.seats) : f[n] = AddLayer(g, f[n - 1])
  /\ Layers(g) = f[Len(g.seats)].pots

\* There are such passes, one for each seat.
LEMMA LayersLoop ==
  ASSUME NEW g \in Table
  PROVE  \E f : IsLoop(g, f)
<1> DEFINE N == Len(g.seats)
           first == [level |-> 0, pots |-> g.sidePots]
           Loop(f) == f = [n \in 0..N |-> IF n = 0 THEN first
                                          ELSE AddLayer(g, f[n - 1])]
           pass == CHOOSE f : Loop(f)
           step == [n \in 1..N |-> [t \in LoopState |-> AddLayer(g, t)]]
<1>1. N \in Nat /\ g.seats \in Seq(Seat)
  BY SeatsAre DEF Table
<1>2. first \in LoopState /\ \A t \in LoopState : AddLayer(g, t) \in LoopState
  <2>1. g.sidePots \in Seq(Pot)
    BY DEF Table
  <2> QED BY <1>1, <2>1, AddLayerType DEF LoopState
<1> HIDE DEF N, first
<1>3. \E f : Loop(f)
  <2>1. step \in [1..N -> [LoopState -> LoopState]]
    BY <1>2
  <2>2. PICK f \in [0..N -> LoopState] : IsRecursion(f, N, first, step)
    <3> HIDE DEF step
    <3> QED BY <1>1, <1>2, <2>1, RecursionExists
  <2>3. ASSUME NEW n \in 0..N, n # 0 PROVE step[n][f[n - 1]] = AddLayer(g, f[n - 1])
    <3>1. n \in 1..N /\ n - 1 \in 0..N
      BY <1>1, <2>3
    <3>2. f[n - 1] \in LoopState
      BY <3>1
    <3> QED BY <3>1, <3>2
  <2>4. Loop(f)
    <3> HIDE DEF step
    <3> QED BY <2>2, <2>3 DEF IsRecursion
  <2> HIDE DEF Loop
  <2> QED BY <2>4
<1>4. Loop(pass)
  <2> HIDE DEF Loop
  <2> QED BY <1>3
<1>5. Layers(g) = pass[N].pots
  BY DEF Layers, N, first
<1> HIDE DEF pass
<1>6. pass[0] = first /\ \A n \in 1..N : pass[n] = AddLayer(g, pass[n - 1])
  <2>1. 0 \in 0..N /\ \A n \in 1..N : n \in 0..N /\ n # 0
    BY <1>1
  <2> QED BY <1>4, <2>1
<1>7. IsLoop(g, pass)
  BY <1>5, <1>6 DEF IsLoop, N, first
<1> QED BY <1>7

\* What holds of the pots before the loop of CollectBetsToSidePots and is kept by
\* every pass, which may count the passes, holds of the pots it leaves.
LEMMA LayersReach ==
  ASSUME NEW g \in Table, NEW T,
         [level |-> 0, pots |-> g.sidePots] \in T[0],
         \A n \in 1..Len(g.seats) : \A acc \in T[n - 1] : AddLayer(g, acc) \in T[n]
  PROVE  \E acc \in T[Len(g.seats)] : Layers(g) = acc.pots
<1> DEFINE N == Len(g.seats)
<1>1. N \in Nat
  BY SeatsAre DEF Table
<1>2. PICK f : IsLoop(g, f)
  BY LayersLoop
<1> DEFINE P == {n \in 0..N : f[n] \in T[n]}
<1>3. 0 \in P
  BY <1>1, <1>2 DEF IsLoop
<1>4. ASSUME NEW n \in 1..N, n - 1 \in P PROVE n \in P
  <2>1. n \in 0..N
    BY <1>1
  <2> QED BY <1>2, <1>4, <2>1 DEF IsLoop
<1>5. \A n \in 1..N : n - 1 \in P => n \in P
  BY <1>4
<1> HIDE DEF P
<1>6. \A n \in 0..N : n \in P
  <2> HIDE DEF N
  <2> QED BY <1>1, <1>3, <1>5, IntervalInduction
<1>7. f[N] \in T[N]
  BY <1>1, <1>6 DEF P
<1> QED BY <1>2, <1>7 DEF IsLoop

\* The same of what every pass keeps.
LEMMA LayersKeep ==
  ASSUME NEW g \in Table, NEW S, [level |-> 0, pots |-> g.sidePots] \in S,
         \A acc \in S : AddLayer(g, acc) \in S
  PROVE  \E acc \in S : Layers(g) = acc.pots
<1> DEFINE N == Len(g.seats)
           T == [n \in 0..N |-> S]
<1>1. N \in Nat
  BY SeatsAre DEF Table
<1>2. T[0] = S /\ T[N] = S /\ \A n \in 1..N : T[n] = S /\ T[n - 1] = S
  BY <1>1
<1> HIDE DEF T
<1> QED BY <1>2, LayersReach

\* The loop of CollectBetsToSidePots makes pots.
LEMMA LayersType ==
  ASSUME NEW g \in Table
  PROVE  Layers(g) \in Seq(Pot)
<1>1. g.seats \in Seq(Seat) /\ g.sidePots \in Seq(Pot)
  BY DEF Table
<1>2. [level |-> 0, pots |-> g.sidePots] \in LoopState
  BY <1>1 DEF LoopState
<1>3. \A acc \in LoopState : AddLayer(g, acc) \in LoopState
  BY <1>1, AddLayerType
<1>4. \E acc \in LoopState : Layers(g) = acc.pots
  BY <1>2, <1>3, LayersKeep
<1> QED BY <1>4 DEF LoopState

\* CollectBetsToSidePots takes the bets off the seats and leaves the hand on.
LEMMA CollectHand ==
  ASSUME NEW g \in HandTable
  PROVE  /\ CollectBetsToSidePots(g) \in HandTable
         /\ CollectBetsToSidePots(g).stage = g.stage
         /\ Len(CollectBetsToSidePots(g).seats) = Len(g.seats)
<1> DEFINE f == [i \in DOMAIN g.seats |-> [g.seats[i] EXCEPT !.currentBet = 0]]
           r == [g EXCEPT !.sidePots = Layers(g), !.seats = f]
<1>1. g.seats \in Seq(SoundSeat) /\ g \in Table
  BY DEF HandTable
<1>2. \A i \in DOMAIN g.seats : f[i] \in SoundSeat
  <2>1. \A s \in SoundSeat : [s EXCEPT !.currentBet = 0] \in SoundSeat
    BY DEF SoundSeat, Seat
  <2> QED BY <1>1, <2>1, SeatsAre
<1>3. Vector(f) = f /\ f \in Seq(SoundSeat) /\ Len(f) = Len(g.seats)
  <2>1. f = [i \in DOMAIN g.seats |-> f[i]]
    OBVIOUS
  <2> HIDE DEF f
  <2> QED BY <1>1, <1>2, <2>1, SeatLoop
<1>4. f \in Seq(Seat) /\ Layers(g) \in Seq(Pot)
  BY <1>1, <1>3, SoundSeqs, LayersType
<1>5. r \in HandTable /\ r.stage = g.stage /\ r.seats = f
  <2> HIDE DEF f
  <2>1. r \in Table
    BY <1>1, <1>4, Zenon DEF Table
  <2>2. /\ r.seats = f /\ r.stage = g.stage
        /\ r.smallBlind = g.smallBlind /\ r.bigBlind = g.bigBlind
    BY <1>1 DEF Table
  <2> HIDE DEF r
  <2> QED BY <1>3, <2>1, <2>2 DEF HandTable, AreBlindsSet
<1>6. CollectBetsToSidePots(g) = IF BetLevels(g) = {} THEN g ELSE r
  BY <1>3 DEF CollectBetsToSidePots
<1> HIDE DEF r, f
<1> QED BY <1>3, <1>5, <1>6

-----------------------------------------------------------------------------
(* Paying out.                                                              *)

\* The pots hold a number of chips.
LEMMA PotTotalType ==
  ASSUME NEW g, g.sidePots \in Seq(Pot)
  PROVE  PotTotal(g) \in Nat
<1> DEFINE f == [k \in DOMAIN g.sidePots |-> g.sidePots[k].amount]
<1>1. /\ Len(g.sidePots) \in Nat /\ DOMAIN g.sidePots = 1..Len(g.sidePots)
      /\ \A k \in DOMAIN g.sidePots : g.sidePots[k].amount \in Nat
  <2>1. /\ Len(g.sidePots) \in Nat /\ DOMAIN g.sidePots = 1..Len(g.sidePots)
        /\ \A k \in DOMAIN g.sidePots : g.sidePots[k] \in Pot
    BY LenProperties, ElementOfSeq
  <2> QED BY <2>1 DEF Pot
<1>2. f \in Seq(Nat)
  <2>1. f \in [1..Len(g.sidePots) -> Nat]
    BY <1>1
  <2> HIDE DEF f
  <2> QED BY <1>1, <2>1, SeqIntro
<1> HIDE DEF f
<1> QED BY <1>2, SumSeqType DEF PotTotal, f

\* And so do the pots with the bets still on the seats.
LEMMA TotalPotType ==
  ASSUME NEW g \in Table
  PROVE  GetTotalPot(g) \in Nat
<1> DEFINE f == [i \in DOMAIN g.seats |-> g.seats[i].currentBet]
<1>1. g.seats \in Seq(Seat) /\ g.sidePots \in Seq(Pot)
  BY DEF Table
<1>2. /\ Len(g.seats) \in Nat /\ DOMAIN g.seats = 1..Len(g.seats)
      /\ \A i \in DOMAIN g.seats : g.seats[i].currentBet \in Nat
  <2>1. /\ Len(g.seats) \in Nat /\ DOMAIN g.seats = 1..Len(g.seats)
        /\ \A i \in DOMAIN g.seats : g.seats[i] \in Seat
    BY <1>1, SeatsAre
  <2> QED BY <2>1 DEF Seat
<1>3. f \in Seq(Nat)
  <2>1. f \in [1..Len(g.seats) -> Nat]
    BY <1>2
  <2> HIDE DEF f
  <2> QED BY <1>2, <2>1, SeqIntro
<1> HIDE DEF f
<1>4. SumSeq(f) \in Nat /\ PotTotal(g) \in Nat
  BY <1>1, <1>3, SumSeqType, PotTotalType
<1> QED BY <1>4 DEF GetTotalPot, f

\* A winner takes a whole number of chips from a pot, odd chips included.
LEMMA GainType ==
  ASSUME NEW g, g.seats \in Seq(Seat), NEW pot \in Pot, NEW scores,
         NEW i \in DOMAIN g.seats
  PROVE  Gain(g, pot, scores, i) \in Nat
<1> DEFINE W == Winners(g, pot, scores)
           before == {j \in W : FromDealer(g, j) < FromDealer(g, i)}
           n == Cardinality(W)
<1>1. W \in SUBSET (DOMAIN g.seats) /\ IsFiniteSet(DOMAIN g.seats)
  <2>1. W \in SUBSET (DOMAIN g.seats)
    BY DEF Winners, Contenders
  <2>2. DOMAIN g.seats = 1..Len(g.seats) /\ Len(g.seats) \in Nat
    BY SeatsAre
  <2> HIDE DEF W
  <2> QED BY <2>1, <2>2, FS_Interval
<1> HIDE DEF W
<1>2. IsFiniteSet(W)
  BY <1>1, FS_Subset
<1>3. n \in Nat /\ (W # {} => n # 0)
  BY <1>2, FS_CardinalityType, FS_EmptySet
<1>4. pot.amount \in Nat
  BY DEF Pot
<1>5. CASE i \in W
  <2>1. n \in Nat \ {0}
    BY <1>3, <1>5
  <2>2. pot.amount \div n \in Nat
    <3> HIDE DEF n
    <3> QED BY <1>4, <2>1
  <2>3. Gain(g, pot, scores, i) =
          pot.amount \div n + (IF Cardinality(before) < pot.amount % n THEN 1 ELSE 0)
    BY <1>5 DEF Gain, W
  <2> HIDE DEF n, before
  <2> QED BY <2>2, <2>3
<1>6. CASE i \notin W
  BY <1>6 DEF Gain, W
<1> QED BY <1>5, <1>6

\* What a seat wins in all pots.
LEMMA WonType ==
  ASSUME NEW g \in Table, NEW scores, NEW i \in DOMAIN g.seats
  PROVE  Won(g, scores, i) \in Nat
<1> DEFINE f == [k \in DOMAIN g.sidePots |-> Gain(g, g.sidePots[k], scores, i)]
<1>1. g.seats \in Seq(Seat) /\ g.sidePots \in Seq(Pot)
  BY DEF Table
<1>2. /\ Len(g.sidePots) \in Nat /\ DOMAIN g.sidePots = 1..Len(g.sidePots)
      /\ \A k \in DOMAIN g.sidePots : g.sidePots[k] \in Pot
  BY <1>1, LenProperties, ElementOfSeq
<1>3. f \in Seq(Nat)
  <2>1. f \in [1..Len(g.sidePots) -> Nat]
    BY <1>1, <1>2, GainType
  <2> HIDE DEF f
  <2> QED BY <1>2, <2>1, SeqIntro
<1> HIDE DEF f
<1> QED BY <1>3, SumSeqType DEF Won, f

\* The hand result has its type whatever was won.
LEMMA HandResultType ==
  ASSUME NEW g \in Table, NEW showdown \in BOOLEAN, NEW total \in Nat,
         NEW won, \A i \in DOMAIN g.seats : won[i] \in Nat
  PROVE  HandResult(g, showdown, total, won) \in Result
<1> DEFINE P == {[playerId |-> g.seats[i].playerId, folded |-> g.seats[i].folded,
                  chipsWon |-> won[i]] :
                   i \in {j \in DOMAIN g.seats : g.seats[j].inHand}}
<1>1. \A i \in DOMAIN g.seats :
        g.seats[i].playerId \in Players /\ g.seats[i].folded \in BOOLEAN
  <2>1. \A i \in DOMAIN g.seats : g.seats[i] \in Seat
    BY SeatsAre DEF Table
  <2> QED BY <2>1 DEF Seat
<1>2. P \in SUBSET [playerId : Players, folded : BOOLEAN, chipsWon : Nat]
  BY <1>1
<1>3. HandResult(g, showdown, total, won)
        = [isShowdown |-> showdown, totalPot |-> total, players |-> P]
  BY DEF HandResult
<1> HIDE DEF P
<1> QED BY <1>2, <1>3 DEF Result

\* The seats of g with their winnings.
LEMMA PaidSeats ==
  ASSUME NEW g \in Table, NEW won, \A i \in DOMAIN g.seats : won[i] \in Nat
  PROVE  LET f == [i \in DOMAIN g.seats |-> [g.seats[i] EXCEPT !.chips = @ + won[i]]]
         IN  Vector(f) = f /\ f \in Seq(Seat)
<1> DEFINE f == [i \in DOMAIN g.seats |-> [g.seats[i] EXCEPT !.chips = @ + won[i]]]
<1>1. \A i \in DOMAIN g.seats : f[i] \in Seat
  <2>1. \A s \in Seat, n \in Nat : [s EXCEPT !.chips = @ + n] \in Seat
    BY DEF Seat
  <2> QED BY <2>1, SeatsAre DEF Table
<1>2. f = [i \in DOMAIN g.seats |-> f[i]] /\ g.seats \in Seq(Seat)
  BY DEF Table
<1>3. Vector(f) = f /\ f \in Seq(Seat)
  <2> HIDE DEF f
  <2> QED BY <1>1, <1>2, SeatLoop
<1> QED BY <1>3

\* DistributePots leaves a table, whatever the hands are worth.
LEMMA DistributePotsTable ==
  ASSUME NEW g \in Table, NEW scores
  PROVE  DistributePots(g, scores) \in Table
<1> DEFINE w == [i \in DOMAIN g.seats |-> Won(g, scores, i)]
           f == [i \in DOMAIN g.seats |-> [g.seats[i] EXCEPT !.chips = @ + w[i]]]
           result == HandResult(g, TRUE, PotTotal(g), w)
<1>1. g.seats \in Seq(Seat) /\ g.sidePots \in Seq(Pot)
  BY DEF Table
<1>2. \A i \in DOMAIN g.seats : w[i] \in Nat
  BY WonType
<1>3. Vector(w) = w
  <2>1. w = [i \in DOMAIN g.seats |-> w[i]]
    OBVIOUS
  <2> HIDE DEF w
  <2> QED BY <1>1, <1>2, <2>1, SeatLoop
<1> HIDE DEF w
<1>4. Vector(f) = f /\ f \in Seq(Seat)
  BY <1>2, PaidSeats
<1>5. result \in Result
  BY <1>1, <1>2, PotTotalType, HandResultType
<1>6. DistributePots(g, scores) =
        [g EXCEPT !.seats = f, !.sidePots = <<>>, !.lastHandResult = result,
                  !.hasPendingHandResult = TRUE]
  BY <1>3, <1>4 DEF DistributePots, w
<1>7. <<>> \in Seq(Pot) /\ TRUE \in BOOLEAN
  BY EmptySeq
<1> HIDE DEF f, result
<1> QED BY <1>4, <1>5, <1>6, <1>7, ZenonT(60) DEF Table

\* Whatever the cards, HandleShowdown and FinishHand end the hand.
LEMMA ShowdownEnds ==
  ASSUME NEW g \in HandTable, NEW d \in HandleShowdown(g)
  PROVE  FinishHand(d) \in IdleTable
<1>1. CollectBetsToSidePots(g) \in Table
  BY CollectHand DEF HandTable
<1>2. d \in Table
  BY <1>1, DistributePotsTable DEF HandleShowdown
<1> QED BY <1>2, FinishHandIdle

\* The hand of a single winner ends on a clean table.
LEMMA SingleWinnerEnds ==
  ASSUME NEW g \in HandTable, NEW i \in DOMAIN g.seats
  PROVE  SingleWinner(g, i) \in IdleTable
<1> DEFINE c == CollectBetsToSidePots(g)
           pot == GetTotalPot(c)
           w == [j \in DOMAIN c.seats |-> IF c.seats[j].seatIndex = i - 1 THEN pot ELSE 0]
           t == [c.seats[i] EXCEPT !.chips = @ + pot]
           q == [c.seats EXCEPT ![i] = t]
           result == HandResult(c, FALSE, pot, w)
           r == [c EXCEPT !.seats = q, !.lastHandResult = result,
                          !.hasPendingHandResult = TRUE]
<1>1. c \in Table /\ Len(c.seats) = Len(g.seats)
  BY CollectHand DEF HandTable
<1> HIDE DEF c
<1>2. pot \in Nat
  BY <1>1, TotalPotType
<1> HIDE DEF pot
<1>3. c.seats \in Seq(Seat) /\ g.seats \in Seq(Seat)
  BY <1>1 DEF Table, HandTable
<1>4. i \in 1..Len(c.seats) /\ DOMAIN c.seats = 1..Len(c.seats)
  BY <1>1, <1>3, SeatsAre
<1>5. t \in Seat
  <2>1. c.seats[i] \in Seat
    BY <1>3, <1>4, SeatsAre
  <2> QED BY <1>2, <2>1 DEF Seat
<1> HIDE DEF t
<1>6. q \in Seq(Seat)
  BY <1>3, <1>4, <1>5, ExceptSeq
<1>7. \A j \in DOMAIN c.seats : w[j] \in Nat
  BY <1>2
<1> HIDE DEF w
<1>8. result \in Result /\ TRUE \in BOOLEAN
  BY <1>1, <1>2, <1>7, HandResultType
<1> HIDE DEF q, result
<1>9. r \in Table
  BY <1>1, <1>6, <1>8, Zenon DEF Table
<1>10. SingleWinner(g, i) = FinishHand(r)
  <2>1. r = [c EXCEPT !.seats[i].chips = @ + pot, !.lastHandResult = result,
                      !.hasPendingHandResult = TRUE]
    BY <1>4 DEF q, t
  <2> QED BY <2>1 DEF SingleWinner, c, pot, w, result
<1> HIDE DEF r
<1> QED BY <1>9, <1>10, FinishHandIdle

-----------------------------------------------------------------------------
(* From street to street.                                                   *)

\* Where a handler's chain of helpers may leave a table that was in a hand.
Playable ==
  IdleTable \cup {g \in HandTable : g.stage \in Streets \cup {"Showdown"}}

\* DealCommunity changes the board and the deck only.
LEMMA DealCommunityHand ==
  ASSUME NEW g \in HandTable, NEW count \in Nat
  PROVE  /\ DealCommunity(g, count) \in HandTable
         /\ DealCommunity(g, count).stage = g.stage
<1> DEFINE left == Max({0, g.deck - count})
           r == [g EXCEPT !.community = g.community + count, !.deck = left]
<1>1. g.deck \in Nat /\ g.community \in Nat
  BY DEF HandTable, Table
<1>2. left \in Nat
  <2>1. g.deck - count \in Int
    BY <1>1
  <2> QED BY <2>1, MaxOfTwo
<1>3. g.community + count \in Nat
  BY <1>1
<1> HIDE DEF left
<1>4. r \in Table
  BY <1>2, <1>3, Zenon DEF HandTable, Table
<1>5. /\ r.seats = g.seats /\ r.stage = g.stage
      /\ r.smallBlind = g.smallBlind /\ r.bigBlind = g.bigBlind
  BY DEF HandTable, Table
<1>6. DealCommunity(g, count) = r
  BY DEF DealCommunity, left
<1> HIDE DEF r
<1> QED BY <1>4, <1>5, <1>6 DEF HandTable, AreBlindsSet

\* A change of stage is not a change of the hand.
LEMMA StageHand ==
  ASSUME NEW g \in HandTable, NEW stage \in Stages
  PROVE  /\ [g EXCEPT !.stage = stage] \in HandTable
         /\ [g EXCEPT !.stage = stage].stage = stage
<1> DEFINE r == [g EXCEPT !.stage = stage]
<1>1. r \in Table
  BY Zenon DEF HandTable, Table
<1>2. /\ r.seats = g.seats /\ r.stage = stage
      /\ r.smallBlind = g.smallBlind /\ r.bigBlind = g.bigBlind
  BY DEF HandTable, Table
<1> HIDE DEF r
<1> QED BY <1>1, <1>2 DEF HandTable, AreBlindsSet, r

\* Nor is a change of turn.
LEMMA TurnHand ==
  ASSUME NEW g \in HandTable, NEW index \in Nat
  PROVE  /\ [g EXCEPT !.actingIndex = index] \in HandTable
         /\ [g EXCEPT !.actingIndex = index].stage = g.stage
<1> DEFINE r == [g EXCEPT !.actingIndex = index]
<1>1. r \in Table
  BY Zenon DEF HandTable, Table
<1>2. /\ r.seats = g.seats /\ r.stage = g.stage
      /\ r.smallBlind = g.smallBlind /\ r.bigBlind = g.bigBlind
  BY DEF HandTable, Table
<1> HIDE DEF r
<1> QED BY <1>1, <1>2 DEF HandTable, AreBlindsSet, r

\* ResetBetsForNewRound leaves a table on which the hand can go on.
LEMMA ResetBetsHand ==
  ASSUME NEW g \in HandTable
  PROVE  /\ ResetBetsForNewRound(g) \in HandTable
         /\ ResetBetsForNewRound(g).stage = g.stage
<1> DEFINE f == [i \in DOMAIN g.seats |->
                   [g.seats[i] EXCEPT !.currentBet = 0, !.actedThisRound = FALSE]]
           r == [g EXCEPT !.lastBet = 0, !.lastRaise = g.bigBlind, !.seats = f]
<1>1. g.seats \in Seq(SoundSeat)
  BY DEF HandTable
<1>2. \A i \in DOMAIN g.seats : f[i] \in SoundSeat
  <2>1. \A s \in SoundSeat :
          [s EXCEPT !.currentBet = 0, !.actedThisRound = FALSE] \in SoundSeat
    BY DEF SoundSeat, Seat
  <2> QED BY <1>1, <2>1, SeatsAre
<1>3. Vector(f) = f /\ f \in Seq(SoundSeat)
  <2>1. f = [i \in DOMAIN g.seats |-> f[i]]
    OBVIOUS
  <2> HIDE DEF f
  <2> QED BY <1>1, <1>2, <2>1, SeatLoop
<1>4. f \in Seq(Seat) /\ g.bigBlind \in Nat /\ 0 \in Nat
  <2>1. g.bigBlind \in Int /\ g.bigBlind > 0
    BY DEF HandTable, Table, AreBlindsSet
  <2>2. g.bigBlind \in Nat
    BY <2>1
  <2>3. f \in Seq(Seat)
    BY <1>3, SoundSeqs
  <2> QED BY <2>2, <2>3
<1>5. ResetBetsForNewRound(g) = r
  BY <1>3 DEF ResetBetsForNewRound
<1> HIDE DEF f
<1>6. r \in Table
  BY <1>4, Zenon DEF HandTable, Table
<1>7. /\ r.seats = f /\ r.stage = g.stage
      /\ r.smallBlind = g.smallBlind /\ r.bigBlind = g.bigBlind
  BY DEF HandTable, Table
<1> HIDE DEF r
<1> QED BY <1>3, <1>5, <1>6, <1>7 DEF HandTable, AreBlindsSet

\* The next street is dealt.
LEMMA NewStreetHand ==
  ASSUME NEW g \in HandTable, g.stage \in {"PreFlop", "Flop", "Turn"}
  PROVE  NewStreet(g) \in HandTable /\ NewStreet(g).stage \in Streets
<1> DEFINE m == [g EXCEPT !.stage = NextStreet[g.stage]]
           d == DealCommunity(m, CardsDealt[g.stage])
           n == ResetBetsForNewRound(d)
           next == NextActiveIndex(n, n.dealerIndex + 1)
<1>1. /\ NextStreet[g.stage] \in Streets /\ NextStreet[g.stage] \in Stages
      /\ CardsDealt[g.stage] \in Nat
  BY DEF NextStreet, CardsDealt, Streets, Stages
<1>2. m \in HandTable /\ m.stage = NextStreet[g.stage]
  <2> DEFINE stage == NextStreet[g.stage]
  <2> HIDE DEF stage
  <2>1. stage \in Stages
    BY <1>1 DEF stage
  <2>2. m = [g EXCEPT !.stage = stage]
    BY DEF stage
  <2> QED BY <2>1, <2>2, StageHand DEF stage
<1> HIDE DEF m
<1>3. d \in HandTable /\ d.stage = NextStreet[g.stage]
  BY <1>1, <1>2, DealCommunityHand
<1> HIDE DEF d
<1>4. n \in HandTable /\ n.stage = NextStreet[g.stage]
  BY <1>3, ResetBetsHand
<1> HIDE DEF n
<1>5. next \in Nat
  <2>1. n.seats \in Seq(SoundSeat) /\ n.dealerIndex \in Nat
    BY <1>4 DEF HandTable, Table
  <2>2. n.dealerIndex + 1 \in Nat
    BY <2>1
  <2> QED BY <2>1, <2>2, NextActiveIndexType
<1>6. NewStreet(g) = [n EXCEPT !.actingIndex = next]
  BY DEF NewStreet, n, d, m
<1> HIDE DEF next
<1> QED BY <1>1, <1>4, <1>5, <1>6, TurnHand

\* The next street is dealt, or the hand goes to the showdown.
LEMMA AdvanceStageHand ==
  ASSUME NEW g \in HandTable, g.stage \in Streets
  PROVE  AdvanceStage(g) \in Playable
<1> DEFINE c == CollectBetsToSidePots(g)
<1>1. c \in HandTable /\ c.stage = g.stage
  BY CollectHand
<1>2. CASE g.stage = "River"
  <2>1. AdvanceStage(g) = [c EXCEPT !.stage = "Showdown"]
    BY <1>2 DEF AdvanceStage, NextStreet
  <2> HIDE DEF c
  <2> QED BY <1>1, <2>1, StageHand, ZenonT(60) DEF Playable, Stages
<1>3. CASE g.stage # "River"
  <2>1. g.stage \in {"PreFlop", "Flop", "Turn"}
    BY <1>3 DEF Streets
  <2>2. AdvanceStage(g) = NewStreet(c)
    BY <2>1 DEF AdvanceStage, NextStreet
  <2> HIDE DEF c
  <2> QED BY <1>1, <2>1, <2>2, NewStreetHand DEF Playable
<1> QED BY <1>2, <1>3

\* The turn passes, or the street ends.
LEMMA AdvanceTurnHand ==
  ASSUME NEW g \in HandTable, g.stage \in Streets
  PROVE  AdvanceTurn(g) \in Playable
<1> DEFINE next == NextActiveIndex(g, g.actingIndex + 1)
<1>1. AdvanceStage(g) \in Playable /\ g \in Playable
  BY AdvanceStageHand DEF Playable
<1>2. next \in Nat
  <2>1. g.seats \in Seq(SoundSeat) /\ g.actingIndex + 1 \in Nat
    BY DEF HandTable, Table
  <2> QED BY <2>1, NextActiveIndexType
<1>3. AdvanceTurn(g) \in {g, AdvanceStage(g), [g EXCEPT !.actingIndex = next]}
  BY DEF AdvanceTurn
<1> HIDE DEF next
<1>4. [g EXCEPT !.actingIndex = next] \in Playable
  BY <1>2, TurnHand DEF Playable
<1> QED BY <1>1, <1>3, <1>4

\* ResolveIfNeeded leaves the hand on, ends it or runs it to the showdown.
LEMMA ResolveIfNeededHand ==
  ASSUME NEW g \in HandTable, g.stage \in Streets
  PROVE  \/ ResolveIfNeeded(g) = g
         \/ ResolveIfNeeded(g) \in HandTable /\ ResolveIfNeeded(g).stage = "Showdown"
         \/ ResolveIfNeeded(g) \in IdleTable
<1> DEFINE alive == {i \in DOMAIN g.seats : Alive(g.seats[i])}
           count == Max({0, 5 - g.community})
           d == DealCommunity(g, count)
           winner == CHOOSE i \in alive : TRUE
<1>1. g \in Table /\ g.seats \in Seq(Seat)
  BY DEF HandTable, Table
<1>2. IsFiniteSet(alive) /\ (Cardinality(alive) = 1 => winner \in DOMAIN g.seats)
  <2>1. DOMAIN g.seats = 1..Len(g.seats) /\ Len(g.seats) \in Nat
    BY <1>1, SeatsAre
  <2>2. IsFiniteSet(alive)
    <3>1. alive \subseteq DOMAIN g.seats
      OBVIOUS
    <3>2. IsFiniteSet(DOMAIN g.seats)
      BY <2>1, FS_Interval
    <3> HIDE DEF alive
    <3> QED BY <3>1, <3>2, FS_Subset
  <2>3. Cardinality(alive) = 1 => alive # {}
    BY FS_EmptySet
  <2> QED BY <2>2, <2>3
<1>3. FinishHand(g) \in IdleTable
  BY <1>1, FinishHandIdle
<1>4. Cardinality(alive) = 1 => SingleWinner(g, winner) \in IdleTable
  <2> HIDE DEF alive, winner
  <2> QED BY <1>2, SingleWinnerEnds
<1>5. /\ [d EXCEPT !.stage = "Showdown"] \in HandTable
      /\ [d EXCEPT !.stage = "Showdown"].stage = "Showdown"
  <2>1. 5 - g.community \in Int
    BY DEF HandTable, Table
  <2>2. count \in Nat
    BY <2>1, MaxOfTwo
  <2> HIDE DEF count
  <2>3. d \in HandTable
    BY <2>2, DealCommunityHand
  <2> HIDE DEF d
  <2> QED BY <2>3, StageHand DEF Stages
<1>6. \/ ResolveIfNeeded(g) = FinishHand(g)
      \/ Cardinality(alive) = 1 /\ ResolveIfNeeded(g) = SingleWinner(g, winner)
      \/ ResolveIfNeeded(g) = [d EXCEPT !.stage = "Showdown"]
      \/ ResolveIfNeeded(g) = g
  BY DEF ResolveIfNeeded
<1> HIDE DEF alive, winner, d
<1> QED BY <1>3, <1>4, <1>5, <1>6

\* Every end of HandleAction and of ProcessAutoModePlayer.
LEMMA PlayOnHand ==
  ASSUME NEW g \in HandTable, g.stage \in Streets
  PROVE  PlayOn(g) \in Playable
<1> DEFINE r == ResolveIfNeeded(g)
<1>1. \/ r = g
      \/ r \in HandTable /\ r.stage = "Showdown"
      \/ r \in IdleTable
  BY ResolveIfNeededHand
<1>2. PlayOn(g) = IF r.stage \in {"Waiting", "Showdown"} THEN r ELSE AdvanceTurn(r)
  BY DEF PlayOn
<1>3. AdvanceTurn(g) \in Playable
  BY AdvanceTurnHand
<1>4. g.stage \notin {"Waiting", "Showdown"}
  BY DEF Streets
<1> HIDE DEF r
<1> QED BY <1>1, <1>2, <1>3, <1>4 DEF IdleTable, Playable

\* A handler that returns leaves no table in stage Showdown.
LEMMA OutcomesPlayable ==
  ASSUME NEW g \in Playable, NEW d \in Outcomes(g)
  PROVE  d \in SoundTable
<1>1. CASE g.stage = "Showdown"
  <2>1. g \in HandTable
    BY <1>1 DEF Playable, IdleTable
  <2>2. PICK e \in HandleShowdown(g) : d = FinishHand(e)
    BY <1>1 DEF Outcomes
  <2> QED BY <2>1, <2>2, ShowdownEnds DEF SoundTable
<1>2. CASE g.stage # "Showdown"
  BY <1>2 DEF Outcomes, Playable, SoundTable
<1> QED BY <1>1, <1>2

-----------------------------------------------------------------------------
(* Starting a hand.                                                         *)

\* A blind takes what the seat has of it.
LEMMA PostHand ==
  ASSUME NEW g \in HandTable, NEW i \in Positions(g), NEW blind \in Nat
  PROVE  /\ Post(g, i, blind) \in HandTable
         /\ Post(g, i, blind).stage = g.stage
         /\ Positions(Post(g, i, blind)) = Positions(g)
<1> DEFINE s == At(g, i)
           pay == Min({blind, s.chips})
           t == PutIn(s, pay)
           q == [g.seats EXCEPT ![i + 1] = t]
           r == [g EXCEPT !.seats = q]
<1>1. /\ g.seats \in Seq(SoundSeat) /\ i + 1 \in 1..Len(g.seats)
      /\ s = g.seats[i + 1] /\ s \in SoundSeat
  BY SeatsAre DEF HandTable, At
<1>2. s.playerId \in Players /\ s.chips \in Nat
  BY <1>1 DEF SoundSeat, Seat
<1> HIDE DEF s
<1>3. pay \in 0..s.chips /\ pay \in Nat
  BY <1>2, MinOfTwo
<1> HIDE DEF pay
<1>4. t \in SoundSeat
  BY <1>1, <1>3, PutInSound
<1> HIDE DEF t
<1>5. q \in Seq(SoundSeat) /\ Len(q) = Len(g.seats)
  BY <1>1, <1>4, ExceptSeq
<1>6. q \in Seq(Seat)
  BY <1>5, SoundSeqs
<1>7. Post(g, i, blind) = RecordLastAction(r, s.playerId, "Bet", pay)
  <2>1. q = [g.seats EXCEPT ![i + 1] = PutIn(@, pay)]
    BY <1>1 DEF t
  <2>2. r = [g EXCEPT !.seats[i + 1] = PutIn(@, pay)]
    BY <2>1
  <2> HIDE DEF r
  <2> QED BY <2>2 DEF Post, pay, s
<1> HIDE DEF q
<1>8. r \in Table
  BY <1>6, Zenon DEF HandTable, Table
<1>9. /\ r.seats = q /\ r.stage = g.stage
      /\ r.smallBlind = g.smallBlind /\ r.bigBlind = g.bigBlind
  BY DEF HandTable, Table
<1> HIDE DEF r
<1>10. r \in HandTable
  BY <1>5, <1>8, <1>9 DEF HandTable, AreBlindsSet
<1>11. "Bet" \in Actions
  BY DEF Actions
<1>12. Post(g, i, blind).seats = r.seats
  BY <1>7, <1>8 DEF RecordLastAction, Table
<1>13. /\ Post(g, i, blind) \in HandTable
       /\ Post(g, i, blind).stage = g.stage
  BY <1>2, <1>3, <1>7, <1>9, <1>10, <1>11, RecordLastActionHand
<1>14. Positions(Post(g, i, blind)) = Positions(g)
  BY <1>5, <1>9, <1>12 DEF Positions
<1> QED BY <1>13, <1>14

\* PostBlinds leaves a table on which the hand can go on.
LEMMA PostBlindsHand ==
  ASSUME NEW g \in HandTable
  PROVE  PostBlinds(g) \in HandTable /\ PostBlinds(g).stage = g.stage
<1> DEFINE sb == FindNextValidBlindPosition(g, g.dealerIndex + 1)
           bb == FindNextValidBlindPosition(g, sb + 1)
           small == Post(g, sb, g.smallBlind)
           both == Post(small, bb, g.bigBlind)
           amount == both.lastAction.amount
           r == [both EXCEPT !.lastBet = amount, !.lastRaise = g.bigBlind]
<1>1. PostBlinds(g) = IF {g.dealerIndex, sb, bb} \subseteq Positions(g) THEN r ELSE g
  BY DEF PostBlinds
<1>2. g.smallBlind \in Nat /\ g.bigBlind \in Nat
  <2>1. /\ g.bigBlind \in Int /\ g.bigBlind > 0
        /\ g.smallBlind \in Int /\ g.smallBlind > 0
    BY DEF HandTable, Table, AreBlindsSet
  <2> QED BY <2>1
<1> HIDE DEF sb, bb
<1>3. ASSUME sb \in Positions(g), bb \in Positions(g)
      PROVE  r \in HandTable /\ r.stage = g.stage
  <2>1. small \in HandTable /\ small.stage = g.stage /\ bb \in Positions(small)
    BY <1>2, <1>3, PostHand
  <2> HIDE DEF small
  <2>2. both \in HandTable /\ both.stage = g.stage
    BY <1>2, <2>1, PostHand
  <2> HIDE DEF both
  <2>3. amount \in Nat
    BY <2>2 DEF HandTable, Table, LastAction
  <2> HIDE DEF amount
  <2>4. r \in Table
    BY <1>2, <2>2, <2>3, Zenon DEF HandTable, Table
  <2>5. /\ r.seats = both.seats /\ r.stage = both.stage
        /\ r.smallBlind = both.smallBlind /\ r.bigBlind = both.bigBlind
    BY <2>2 DEF HandTable, Table
  <2> HIDE DEF r
  <2> QED BY <2>2, <2>4, <2>5 DEF HandTable, AreBlindsSet
<1> HIDE DEF r
<1> QED BY <1>1, <1>3

\* Seats are dealt in with at least the big blind, so none of them is all-in.
LEMMA DealtInSound ==
  ASSUME NEW g \in IdleTable, AreBlindsSet(g)
  PROVE  DealtIn(g) \in Seq(SoundSeat)
<1> DEFINE f == [i \in DOMAIN g.seats |->
                  [g.seats[i] EXCEPT
                     !.currentBet = 0, !.totalBetThisHand = 0,
                     !.inHand = IsSeatActive(g, g.seats[i]),
                     !.folded = FALSE, !.allIn = FALSE,
                     !.sittingOut = @ \/ (IsOccupied(g.seats[i])
                                            /\ g.seats[i].chips < g.bigBlind)]]
<1>1. g.seats \in Seq(IdleSeat) /\ g.bigBlind \in Int /\ g.bigBlind > 0
  BY DEF IdleTable, Table, AreBlindsSet
<1>2. ASSUME NEW s \in IdleSeat
      PROVE  [s EXCEPT !.currentBet = 0, !.totalBetThisHand = 0,
                       !.inHand = IsSeatActive(g, s), !.folded = FALSE,
                       !.allIn = FALSE,
                       !.sittingOut = @ \/ (IsOccupied(s) /\ s.chips < g.bigBlind)]
               \in SoundSeat
  <2> DEFINE active == IsSeatActive(g, s)
             out == s.sittingOut \/ (IsOccupied(s) /\ s.chips < g.bigBlind)
  <2>1. active \in BOOLEAN /\ out \in BOOLEAN
    BY DEF IsSeatActive
  <2>2. active => s.chips # 0
    <3>1. active => s.chips >= g.bigBlind
      BY DEF IsSeatActive
    <3> HIDE DEF active
    <3> QED BY <1>1, <3>1
  <2> HIDE DEF active, out
  <2>3. [s EXCEPT !.currentBet = 0, !.totalBetThisHand = 0, !.inHand = active,
                  !.folded = FALSE, !.allIn = FALSE, !.sittingOut = out] \in SoundSeat
    BY <2>1, <2>2 DEF IdleSeat, SoundSeat, Seat
  <2> QED BY <2>3 DEF active, out
<1>3. \A i \in DOMAIN g.seats : f[i] \in SoundSeat
  BY <1>1, <1>2, SeatsAre
<1>4. Vector(f) = f /\ f \in Seq(SoundSeat)
  <2>1. f = [i \in DOMAIN g.seats |-> f[i]]
    OBVIOUS
  <2> HIDE DEF f
  <2> QED BY <1>1, <1>3, <2>1, SeatLoop
<1> QED BY <1>4 DEF DealtIn

\* So does StartHand up to the deal.
LEMMA ButtonMovedHand ==
  ASSUME NEW g \in HandTable
  PROVE  ButtonMoved(g) \in HandTable /\ ButtonMoved(g).stage = g.stage
<1> DEFINE button == FindNextValidBlindPosition(g, g.dealerIndex + 1)
           index == IF button < Len(g.seats) THEN button ELSE g.dealerIndex
           r == [g EXCEPT !.dealerIndex = index]
<1>1. g.seats \in Seq(SoundSeat) /\ g.dealerIndex \in Nat
  BY DEF HandTable, Table
<1>2. index \in Nat
  <2>1. g.dealerIndex + 1 \in Nat
    BY <1>1
  <2>2. button \in Nat
    BY <1>1, <2>1, BlindPosition
  <2> HIDE DEF button
  <2> QED BY <1>1, <2>2
<1> HIDE DEF index
<1>3. r \in Table
  BY <1>2, Zenon DEF HandTable, Table
<1>4. /\ r.seats = g.seats /\ r.stage = g.stage
      /\ r.smallBlind = g.smallBlind /\ r.bigBlind = g.bigBlind
  BY DEF HandTable, Table
<1>5. ButtonMoved(g) = PostBlinds(r)
  BY DEF ButtonMoved, index
<1> HIDE DEF r
<1>6. r \in HandTable
  BY <1>3, <1>4 DEF HandTable, AreBlindsSet
<1> QED BY <1>4, <1>5, <1>6, PostBlindsHand

\* The turn StartHand gives is a position or the size of the vector.
LEMMA FirstToActType ==
  ASSUME NEW g \in HandTable
  PROVE  FirstToAct(g) \in Nat
<1> DEFINE sb == FindNextValidBlindPosition(g, g.dealerIndex + 1)
           bb == FindNextValidBlindPosition(g, sb + 1)
<1>1. g.seats \in Seq(SoundSeat) /\ g.dealerIndex + 1 \in Nat /\ Len(g.seats) \in Nat
  <2>1. g.seats \in Seq(SoundSeat) /\ g.dealerIndex \in Nat
    BY DEF HandTable, Table
  <2> QED BY <2>1, SeatsAre
<1>2. sb \in Nat
  BY <1>1, BlindPosition
<1> HIDE DEF sb
<1>3. sb + 1 \in Nat
  BY <1>2
<1>4. bb \in Nat
  BY <1>1, <1>3, BlindPosition
<1> HIDE DEF bb
<1>5. bb + 1 \in Nat
  BY <1>4
<1>6. NextActiveIndex(g, bb + 1) \in Nat
  BY <1>1, <1>5, NextActiveIndexType
<1>7. FirstToAct(g) = IF bb < Len(g.seats) THEN NextActiveIndex(g, bb + 1)
                      ELSE Len(g.seats)
  BY DEF FirstToAct, bb, sb
<1> QED BY <1>1, <1>6, <1>7

\* A hand starts from a table between hands that has its blinds.
LEMMA HandStartedHand ==
  ASSUME NEW g \in IdleTable, AreBlindsSet(g)
  PROVE  HandStarted(g) \in HandTable /\ HandStarted(g).stage = "PreFlop"
<1> DEFINE dealt == [g EXCEPT !.stage = "PreFlop", !.community = 0,
                              !.sidePots = <<>>, !.seats = DealtIn(g)]
           p == ButtonMoved(dealt)
           inHand == {i \in DOMAIN p.seats : p.seats[i].inHand}
           left == Max({0, DeckSize - 2 * Cardinality(inHand)})
           f == [i \in DOMAIN p.seats |-> [p.seats[i] EXCEPT !.actedThisRound = FALSE]]
           first == FirstToAct(p)
           r == [p EXCEPT !.seats = f, !.deck = left, !.actingIndex = first]
<1>1. dealt \in HandTable /\ dealt.stage = "PreFlop"
  <2> DEFINE q == DealtIn(g)
  <2>1. q \in Seq(SoundSeat) /\ q \in Seq(Seat)
    BY DealtInSound, SoundSeqs
  <2>2. <<>> \in Seq(Pot) /\ "PreFlop" \in Stages /\ 0 \in Nat
    BY EmptySeq DEF Stages
  <2> HIDE DEF q
  <2>3. dealt \in Table
    BY <2>1, <2>2, Zenon DEF IdleTable, Table, q
  <2>4. /\ dealt.seats = q /\ dealt.stage = "PreFlop"
        /\ dealt.smallBlind = g.smallBlind /\ dealt.bigBlind = g.bigBlind
    BY DEF IdleTable, Table, q
  <2> HIDE DEF dealt
  <2> QED BY <2>1, <2>3, <2>4 DEF HandTable, AreBlindsSet
<1> HIDE DEF dealt
<1>2. p \in HandTable /\ p.stage = "PreFlop"
  BY <1>1, ButtonMovedHand
<1> HIDE DEF p
<1>3. p.seats \in Seq(SoundSeat)
  BY <1>2 DEF HandTable
<1>4. left \in Nat
  <2>1. DOMAIN p.seats = 1..Len(p.seats) /\ Len(p.seats) \in Nat
    BY <1>3, SeatsAre
  <2>2. IsFiniteSet(DOMAIN p.seats) /\ inHand \subseteq DOMAIN p.seats
    BY <2>1, FS_Interval
  <2> HIDE DEF inHand
  <2>3. Cardinality(inHand) \in Nat
    BY <2>2, FS_Subset, FS_CardinalityType
  <2>4. DeckSize - 2 * Cardinality(inHand) \in Int
    BY <2>3, TableAssumption
  <2> QED BY <2>4, MaxOfTwo
<1>5. \A i \in DOMAIN p.seats : f[i] \in SoundSeat
  <2>1. \A s \in SoundSeat : [s EXCEPT !.actedThisRound = FALSE] \in SoundSeat
    BY DEF SoundSeat, Seat
  <2> QED BY <1>3, <2>1, SeatsAre
<1>6. Vector(f) = f /\ f \in Seq(SoundSeat)
  <2>1. f = [i \in DOMAIN p.seats |-> f[i]]
    OBVIOUS
  <2> HIDE DEF f
  <2> QED BY <1>3, <1>5, <2>1, SeatLoop
<1>7. f \in Seq(Seat)
  BY <1>6, SoundSeqs
<1>8. first \in Nat
  BY <1>2, FirstToActType
<1>9. HandStarted(g) = r
  BY <1>6 DEF HandStarted, p, dealt
<1> HIDE DEF f, left, first
<1>10. r \in Table
  BY <1>2, <1>4, <1>7, <1>8, Zenon DEF HandTable, Table
<1>11. /\ r.seats = f /\ r.stage = p.stage
       /\ r.smallBlind = p.smallBlind /\ r.bigBlind = p.bigBlind
  BY <1>2 DEF HandTable, Table
<1> HIDE DEF r
<1> QED BY <1>2, <1>6, <1>9, <1>10, <1>11 DEF HandTable, AreBlindsSet

-----------------------------------------------------------------------------
(* The calls.                                                               *)

\* A call that changes one seat, and no hand field of a seat that is in no hand.
LEMMA SeatReplaced ==
  ASSUME NEW g \in SoundTable, NEW i \in DOMAIN g.seats, NEW t,
         g.seats[i] \in IdleSeat => t \in IdleSeat,
         g.seats[i] \in SoundSeat => t \in SoundSeat
  PROVE  [g EXCEPT !.seats[i] = t] \in SoundTable
<1> DEFINE q == [g.seats EXCEPT ![i] = t]
           r == [g EXCEPT !.seats = q]
<1>1. g \in Table
  BY DEF SoundTable, IdleTable, HandTable
<1>2. r = [g EXCEPT !.seats[i] = t]
  OBVIOUS
<1>3. CASE g \in IdleTable
  <2>1. g.seats \in Seq(IdleSeat)
    BY <1>3 DEF IdleTable
  <2>2. i \in 1..Len(g.seats) /\ g.seats[i] \in IdleSeat
    BY <2>1, SeatsAre
  <2>3. q \in Seq(IdleSeat)
    BY <2>1, <2>2, ExceptSeq
  <2>4. q \in Seq(Seat)
    BY <2>3, SoundSeqs
  <2> HIDE DEF q
  <2>5. r \in Table
    BY <1>1, <2>4, Zenon DEF Table
  <2>6. /\ r.seats = q /\ r.stage = g.stage /\ r.sidePots = g.sidePots
        /\ r.community = g.community /\ r.lastBet = g.lastBet
    BY <1>1 DEF Table
  <2> HIDE DEF r
  <2>7. r \in IdleTable
    BY <1>3, <2>3, <2>5, <2>6 DEF IdleTable
  <2> QED BY <1>2, <2>7 DEF SoundTable
<1>4. CASE g \in HandTable /\ g.stage \in Streets
  <2>1. g.seats \in Seq(SoundSeat)
    BY <1>4 DEF HandTable
  <2>2. i \in 1..Len(g.seats) /\ g.seats[i] \in SoundSeat
    BY <2>1, SeatsAre
  <2>3. q \in Seq(SoundSeat)
    BY <2>1, <2>2, ExceptSeq
  <2>4. q \in Seq(Seat)
    BY <2>3, SoundSeqs
  <2> HIDE DEF q
  <2>5. r \in Table
    BY <1>1, <2>4, Zenon DEF Table
  <2>6. /\ r.seats = q /\ r.stage = g.stage
        /\ r.smallBlind = g.smallBlind /\ r.bigBlind = g.bigBlind
    BY <1>1 DEF Table
  <2> HIDE DEF r
  <2>7. r \in HandTable /\ r.stage \in Streets
    BY <1>4, <2>3, <2>5, <2>6 DEF HandTable, AreBlindsSet
  <2> QED BY <1>2, <2>7 DEF SoundTable
<1> QED BY <1>3, <1>4 DEF SoundTable

\* A seat that is looked up by its player is on the table.
LEMMA PositionOfSeated ==
  ASSUME IInv, NEW p \in Seated
  PROVE  /\ PositionOf(p) \in DOMAIN game.seats
         /\ SeatOf(p) = game.seats[PositionOf(p)]
         /\ SeatOf(p) \in Seat
<1>1. game.seats \in Seq(Seat)
  BY DEF IInv, SoundTable, IdleTable, HandTable, Table
<1>2. PICK i \in DOMAIN game.seats : game.seats[i].playerId = p
  BY DEF Seated, ToSet
<1>3. PositionOf(p) \in DOMAIN game.seats
  BY <1>2 DEF PositionOf
<1> QED BY <1>1, <1>3, SeatsAre DEF SeatOf

\* SetBlinds, between hands only.
LEMMA SetBlindsKeeps ==
  ASSUME IInv, NEW blinds \in Blinds, SetBlinds(blinds)
  PROVE  IInv'
<1> DEFINE buyin == blinds[2] * BuyinFactor
           r == [game EXCEPT !.smallBlind = blinds[1], !.bigBlind = blinds[2],
                             !.minBuyin = buyin]
<1>1. game \in IdleTable /\ game \in Table
  BY DEF IInv, SoundTable, SetBlinds, InHand, IdleTable, Streets
<1>2. blinds[1] \in Int /\ blinds[2] \in Int /\ blinds[2] > 0 /\ BuyinFactor \in Nat
  BY GameAssumption, TableAssumption DEF SetBlinds
<1>3. buyin \in Nat
  <2> DEFINE b == blinds[2]
  <2>1. b \in Nat /\ BuyinFactor \in Nat
    BY <1>2
  <2> HIDE DEF b
  <2>2. b * BuyinFactor \in Nat
    BY <2>1
  <2> QED BY <2>2 DEF b
<1>4. game' = r
  BY DEF SetBlinds
<1> HIDE DEF buyin
<1>5. r \in Table
  BY <1>1, <1>2, <1>3, Zenon DEF Table
<1>6. /\ r.seats = game.seats /\ r.stage = game.stage /\ r.sidePots = game.sidePots
      /\ r.community = game.community /\ r.lastBet = game.lastBet
  BY <1>1 DEF Table
<1> HIDE DEF r
<1> QED BY <1>1, <1>4, <1>5, <1>6 DEF IInv, SoundTable, IdleTable

\* BuyIn and CashOut change the stack of a seat that is in no hand.
LEMMA BuyInKeeps ==
  ASSUME IInv, NEW p \in Players, NEW amount \in BuyIns, BuyIn(p, amount)
  PROVE  IInv'
<1> DEFINE s == SeatOf(p)
           chips == s.chips + amount
           out == s.sittingOut /\ chips < game.bigBlind
           t == [s EXCEPT !.chips = chips, !.sittingOut = out]
<1>1. /\ PositionOf(p) \in DOMAIN game.seats
      /\ s = game.seats[PositionOf(p)] /\ s \in Seat
  BY PositionOfSeated DEF BuyIn
<1>2. amount \in Nat
  <2>1. game.minBuyin \in Nat /\ amount \in Int /\ amount >= game.minBuyin
    BY GameAssumption DEF BuyIn, IInv, SoundTable, IdleTable, HandTable, Table
  <2> QED BY <2>1
<1>3. game' = [game EXCEPT !.seats[PositionOf(p)] = t]
  <2>1. game' = [game EXCEPT !.seats[PositionOf(p)].chips = chips,
                             !.seats[PositionOf(p)].sittingOut = @ /\ chips < game.bigBlind]
    BY DEF BuyIn
  <2>2. [game.seats EXCEPT ![PositionOf(p)].chips = chips,
                           ![PositionOf(p)].sittingOut = @ /\ chips < game.bigBlind]
          = [game.seats EXCEPT ![PositionOf(p)] = t]
    BY <1>1
  <2> QED BY <2>1, <2>2
<1>4. ~s.inHand /\ out \in BOOLEAN
  BY <1>1 DEF BuyIn, Seat
<1>5. chips \in Nat
  <2>1. s.chips \in Nat
    BY <1>1 DEF Seat
  <2> QED BY <1>2, <2>1
<1> HIDE DEF s, chips, out
<1>6. (s \in IdleSeat => t \in IdleSeat) /\ (s \in SoundSeat => t \in SoundSeat)
  BY <1>1, <1>4, <1>5 DEF IdleSeat, SoundSeat, Seat
<1> HIDE DEF t
<1> QED BY <1>1, <1>3, <1>6, SeatReplaced DEF IInv

\* CashOut, for a seat in no hand.
LEMMA CashOutKeeps ==
  ASSUME IInv, NEW p \in Players, CashOut(p)
  PROVE  IInv'
<1> DEFINE s == SeatOf(p)
           t == [s EXCEPT !.chips = 0, !.sittingOut = TRUE]
<1>1. /\ PositionOf(p) \in DOMAIN game.seats
      /\ s = game.seats[PositionOf(p)] /\ s \in Seat /\ ~s.inHand
  BY PositionOfSeated DEF CashOut
<1>2. game' = [game EXCEPT !.seats[PositionOf(p)] = t]
  <2>1. [game.seats EXCEPT ![PositionOf(p)].chips = 0,
                           ![PositionOf(p)].sittingOut = TRUE]
          = [game.seats EXCEPT ![PositionOf(p)] = t]
    BY <1>1
  <2> QED BY <2>1 DEF CashOut
<1> HIDE DEF s
<1>3. (s \in IdleSeat => t \in IdleSeat) /\ (s \in SoundSeat => t \in SoundSeat)
  BY <1>1 DEF IdleSeat, SoundSeat, Seat
<1> HIDE DEF t
<1> QED BY <1>1, <1>2, <1>3, SeatReplaced DEF IInv

\* The calls that set the flags of a seat.
LEMMA FlagsKeep ==
  ASSUME IInv, NEW p \in Players, StandUp(p) \/ SitBack(p) \/ MarkPendingLeave(p)
  PROVE  IInv'
<1> DEFINE s == SeatOf(p)
           i == PositionOf(p)
<1>1. p \in Seated
  BY DEF StandUp, SitBack, MarkPendingLeave
<1>2. i \in DOMAIN game.seats /\ s = game.seats[i] /\ s \in Seat
  BY <1>1, PositionOfSeated
<1>3. s.inHand \in BOOLEAN /\ s.autoMode \in BOOLEAN
  BY <1>2 DEF Seat
<1>4. CASE StandUp(p)
  <2> DEFINE auto == s.autoMode \/ s.inHand
             t == [s EXCEPT !.sittingOut = TRUE, !.autoMode = auto]
  <2>1. game' = [game EXCEPT !.seats[i] = t]
    <3>1. [game.seats EXCEPT ![i].sittingOut = TRUE, ![i].autoMode = @ \/ s.inHand]
            = [game.seats EXCEPT ![i] = t]
      BY <1>2
    <3> QED BY <1>4, <3>1 DEF StandUp
  <2>2. auto \in BOOLEAN
    BY <1>3
  <2> HIDE DEF s, i, auto
  <2>3. (s \in IdleSeat => t \in IdleSeat) /\ (s \in SoundSeat => t \in SoundSeat)
    BY <1>2, <2>2 DEF IdleSeat, SoundSeat, Seat
  <2> HIDE DEF t
  <2> QED BY <1>2, <2>1, <2>3, SeatReplaced DEF IInv
<1>5. CASE SitBack(p)
  <2> DEFINE t == [s EXCEPT !.sittingOut = FALSE, !.autoMode = FALSE]
  <2>1. game' = [game EXCEPT !.seats[i] = t]
    <3>1. [game.seats EXCEPT ![i].sittingOut = FALSE, ![i].autoMode = FALSE]
            = [game.seats EXCEPT ![i] = t]
      BY <1>2
    <3> QED BY <1>5, <3>1 DEF SitBack
  <2> HIDE DEF s, i
  <2>2. (s \in IdleSeat => t \in IdleSeat) /\ (s \in SoundSeat => t \in SoundSeat)
    BY <1>2 DEF IdleSeat, SoundSeat, Seat
  <2> HIDE DEF t
  <2> QED BY <1>2, <2>1, <2>2, SeatReplaced DEF IInv
<1>6. CASE MarkPendingLeave(p)
  <2> DEFINE t == [s EXCEPT !.pendingLeave = TRUE, !.autoMode = TRUE]
  <2>1. game' = [game EXCEPT !.seats[i] = t]
    <3>1. [game.seats EXCEPT ![i].pendingLeave = TRUE, ![i].autoMode = TRUE]
            = [game.seats EXCEPT ![i] = t]
      BY <1>2
    <3> QED BY <1>6, <3>1 DEF MarkPendingLeave
  <2> HIDE DEF s, i
  <2>2. (s \in IdleSeat => t \in IdleSeat) /\ (s \in SoundSeat => t \in SoundSeat)
    BY <1>2 DEF IdleSeat, SoundSeat, Seat
  <2> HIDE DEF t
  <2> QED BY <1>2, <2>1, <2>2, SeatReplaced DEF IInv
<1> QED BY <1>4, <1>5, <1>6

\* A call that changes who is seated.
LEMMA SeatsReplaced ==
  ASSUME NEW g \in SoundTable, NEW q, NEW acting \in Nat, NEW dealer \in Nat,
         g.seats \in Seq(IdleSeat) => q \in Seq(IdleSeat),
         g.seats \in Seq(SoundSeat) => q \in Seq(SoundSeat)
  PROVE  [g EXCEPT !.seats = q, !.actingIndex = acting, !.dealerIndex = dealer]
           \in SoundTable
<1> DEFINE r == [g EXCEPT !.seats = q, !.actingIndex = acting, !.dealerIndex = dealer]
<1>1. g \in Table
  BY DEF SoundTable, IdleTable, HandTable
<1>2. q \in Seq(Seat)
  BY SoundSeqs DEF SoundTable, IdleTable, HandTable
<1>3. r \in Table
  BY <1>1, <1>2, Zenon DEF Table
<1>4. /\ r.seats = q /\ r.stage = g.stage /\ r.sidePots = g.sidePots
      /\ r.community = g.community /\ r.lastBet = g.lastBet
      /\ r.smallBlind = g.smallBlind /\ r.bigBlind = g.bigBlind
  BY <1>1 DEF Table
<1> HIDE DEF r
<1>5. g \in IdleTable => r \in IdleTable
  BY <1>3, <1>4 DEF IdleTable
<1>6. g \in HandTable /\ g.stage \in Streets => r \in HandTable /\ r.stage \in Streets
  BY <1>3, <1>4 DEF HandTable, AreBlindsSet
<1> QED BY <1>5, <1>6 DEF SoundTable, r

\* The types the calls on seats need.
LEMMA TableTypes ==
  ASSUME IInv
  PROVE  /\ game \in Table /\ game.seats \in Seq(Seat)
         /\ game.actingIndex \in Nat /\ game.dealerIndex \in Nat
         /\ Len(game.seats) \in Nat
<1>1. game \in Table
  BY DEF IInv, SoundTable, IdleTable, HandTable
<1>2. game.seats \in Seq(Seat)
  BY <1>1 DEF Table
<1> QED BY <1>1, <1>2, SeatsAre DEF Table

\* The newcomer is inserted somewhere.
LEMMA SeatingType ==
  ASSUME NEW S, NEW seats \in Seq(S), NEW seat \in S
  PROVE  Seating(seats, seat) \in Seq(S)
<1> DEFINE below == {i \in DOMAIN seats : seats[i].seatIndex < seat.seatIndex}
           n == Cardinality(below)
<1>1. /\ Len(seats) \in Nat /\ DOMAIN seats = 1..Len(seats)
      /\ \A i \in 1..Len(seats) : seats[i] \in S
  BY LenProperties, ElementOfSeq
<1>2. n \in Nat /\ n <= Len(seats)
  <2>1. IsFiniteSet(1..Len(seats)) /\ Cardinality(1..Len(seats)) = Len(seats)
    <3>1. \A m \in Nat : IsFiniteSet(1..m) /\ Cardinality(1..m) = m
      <4> SUFFICES ASSUME NEW m \in Nat
                   PROVE  IsFiniteSet(1..m) /\ Cardinality(1..m) = m
        OBVIOUS
      <4>1. 1 \in Int /\ m \in Int /\ (1 > m => m = 0) /\ m - 1 + 1 = m
        OBVIOUS
      <4> QED BY <4>1, FS_Interval
    <3> QED BY <1>1, <3>1
  <2>2. below \subseteq 1..Len(seats)
    BY <1>1
  <2> HIDE DEF below
  <2>3. IsFiniteSet(below) /\ Cardinality(below) <= Cardinality(1..Len(seats))
    BY <2>1, <2>2, FS_Subset
  <2>4. Cardinality(below) \in Nat
    BY <2>3, FS_CardinalityType
  <2> QED BY <2>1, <2>3, <2>4
<1> HIDE DEF n
<1>3. SubSeq(seats, 1, n) \in Seq(S) /\ SubSeq(seats, n + 1, Len(seats)) \in Seq(S)
  <2>1. \A i \in 1..n : seats[i] \in S
    BY <1>1, <1>2
  <2>2. \A i \in n + 1..Len(seats) : seats[i] \in S
    BY <1>1, <1>2
  <2> QED BY <1>1, <1>2, <2>1, <2>2, SubSeqProperties
<1>4. SubSeq(seats, 1, n) \o <<seat>> \in Seq(S)
  BY <1>3, ConcatProperties
<1>5. Seating(seats, seat)
        = SubSeq(seats, 1, n) \o <<seat>> \o SubSeq(seats, n + 1, Len(seats))
  BY DEF Seating, n
<1> QED BY <1>3, <1>4, <1>5, ConcatProperties

\* SitDown, at any time: a newcomer is in no hand.
LEMMA SitDownKeeps ==
  ASSUME IInv, NEW p \in Players, SitDown(p)
  PROVE  IInv'
<1> DEFINE free == (0 .. MaxSeats - 1) \ {s.seatIndex : s \in ToSet(game.seats)}
           seat == NewSeat(p, Min(free))
           q == Seating(game.seats, seat)
<1>1. game' = [game EXCEPT !.seats = q] /\ free # {}
  BY DEF SitDown
<1>2. seat \in IdleSeat
  <2>1. free \in SUBSET Nat /\ free \subseteq 0 .. MaxSeats - 1
    BY TableAssumption
  <2> HIDE DEF free
  <2>2. Min(free) \in 0 .. MaxSeats - 1
    BY <1>1, <2>1, MinOfNats
  <2> QED BY <2>2 DEF NewSeat, IdleSeat, Seat
<1> HIDE DEF seat
<1>3. /\ game.seats \in Seq(IdleSeat) => q \in Seq(IdleSeat)
      /\ game.seats \in Seq(SoundSeat) => q \in Seq(SoundSeat)
  BY <1>2, IdleIsSound, SeatingType
<1> HIDE DEF q
<1>4. game' = [game EXCEPT !.seats = q, !.actingIndex = game.actingIndex,
                           !.dealerIndex = game.dealerIndex]
  BY <1>1, TableTypes DEF Table
<1> QED BY <1>3, <1>4, TableTypes, SeatsReplaced DEF IInv

\* RemovePendingLeavers, at any time: those who stay are as they were.
LEMMA RemovePendingLeaversKeeps ==
  ASSUME IInv, RemovePendingLeavers
  PROVE  IInv'
<1> DEFINE gone == {i \in DOMAIN game.seats : Leaves(game.seats[i])}
           kept == Erase(game.seats, gone)
<1>1. \A S : game.seats \in Seq(S) => kept \in Seq(S)
  <2>1. ASSUME NEW S, game.seats \in Seq(S) PROVE kept \in Seq(S)
    <3>1. \A n \in 1..Len(game.seats) : n \notin gone => game.seats[n] \in S
      BY <2>1, ElementOfSeq
    <3> HIDE DEF gone
    <3> QED BY <2>1, <3>1, EraseType
  <2> QED BY <2>1
<1> HIDE DEF gone, kept
<1>2. kept \in Seq(Seat)
  BY <1>1, TableTypes
<1>3. Len(kept) \in Nat /\ DOMAIN kept = 1..Len(kept) /\ (kept # <<>> => Len(kept) # 0)
  BY <1>2, SeatsAre, LenProperties, EmptySeq
<1>4. \A T \in SUBSET DOMAIN kept : T # {} => Min(T) - 1 \in Nat /\ Max(T) - 1 \in Nat
  <2>1. ASSUME NEW T \in SUBSET DOMAIN kept, T # {}
        PROVE  Min(T) - 1 \in Nat /\ Max(T) - 1 \in Nat
    <3>1. T \in SUBSET Nat /\ \A k \in T : k <= Len(kept) /\ k >= 1
      BY <1>3
    <3>2. Min(T) \in T /\ Max(T) \in T
      BY <1>3, <2>1, <3>1, MinOfNats, MaxOfBounded
    <3> QED BY <3>1, <3>2
  <2> QED BY <2>1
<1>5. ActingIn(kept) \in Nat
  <2> DEFINE same == IF game.actingIndex \in Positions(game)
                     THEN {i \in DOMAIN kept :
                             kept[i].playerId = At(game, game.actingIndex).playerId}
                     ELSE {}
  <2>1. same \in SUBSET DOMAIN kept
    OBVIOUS
  <2>2. ActingIn(kept) = IF same = {} THEN 0 ELSE Min(same) - 1
    BY DEF ActingIn
  <2> HIDE DEF same
  <2> QED BY <1>4, <2>1, <2>2
<1>6. DealerIn(kept) \in Nat
  <2> DEFINE behind == {i \in DOMAIN kept :
                          kept[i].seatIndex <= At(game, game.dealerIndex).seatIndex}
  <2>1. behind \in SUBSET DOMAIN kept
    OBVIOUS
  <2>2. \/ DealerIn(kept) = 0
        \/ behind # {} /\ DealerIn(kept) = Max(behind) - 1
        \/ kept # <<>> /\ DealerIn(kept) = Len(kept) - 1
    BY DEF DealerIn
  <2> HIDE DEF behind
  <2> QED BY <1>3, <1>4, <2>1, <2>2
<1>7. game' = [game EXCEPT !.seats = kept, !.actingIndex = ActingIn(kept),
                           !.dealerIndex = DealerIn(kept)]
  BY DEF RemovePendingLeavers, kept, gone
<1> QED BY <1>1, <1>5, <1>6, <1>7, SeatsReplaced DEF IInv

\* ClearPendingHandResult, at any time.
LEMMA ClearPendingHandResultKeeps ==
  ASSUME IInv, ClearPendingHandResult
  PROVE  IInv'
<1> DEFINE r == [game EXCEPT !.hasPendingHandResult = FALSE]
<1>1. game' = r /\ FALSE \in BOOLEAN
  BY DEF ClearPendingHandResult
<1>2. r \in Table
  BY <1>1, TableTypes, Zenon DEF Table
<1>3. /\ r.seats = game.seats /\ r.stage = game.stage /\ r.sidePots = game.sidePots
      /\ r.community = game.community /\ r.lastBet = game.lastBet
      /\ r.smallBlind = game.smallBlind /\ r.bigBlind = game.bigBlind
  BY TableTypes DEF Table
<1> HIDE DEF r
<1>4. game \in IdleTable => r \in IdleTable
  BY <1>2, <1>3 DEF IdleTable
<1>5. game \in HandTable /\ game.stage \in Streets => r \in HandTable /\ r.stage \in Streets
  BY <1>2, <1>3 DEF HandTable, AreBlindsSet
<1> QED BY <1>1, <1>4, <1>5 DEF IInv, SoundTable

\* StartHand.
LEMMA StartHandKeeps ==
  ASSUME IInv, StartHand
  PROVE  IInv'
<1>1. game \in IdleTable /\ AreBlindsSet(game)
  BY DEF IInv, SoundTable, StartHand, CanStart, Streets
<1>2. HandStarted(game) \in HandTable /\ HandStarted(game).stage = "PreFlop"
  BY <1>1, HandStartedHand
<1> QED BY <1>2 DEF StartHand, IInv, SoundTable, Streets

\* HandleAction, every branch to the end of the chain of helpers.
LEMMA HandleActionKeeps ==
  ASSUME IInv, NEW p \in Players, NEW action \in Actions, NEW amount \in Int,
         HandleAction(p, action, amount)
  PROVE  IInv'
<1> DEFINE r == Played(game, action, amount)
<1>1. game \in HandTable /\ game.stage \in Streets
  BY DEF IInv, SoundTable, IdleTable, HandleAction, InHand
<1>2. r \in HandTable /\ r.stage \in Streets
  BY <1>1, PlayedHand DEF HandleAction
<1>3. game' \in Outcomes(PlayOn(r))
  BY DEF HandleAction
<1> HIDE DEF r
<1> QED BY <1>2, <1>3, PlayOnHand, OutcomesPlayable DEF IInv

\* ProcessAutoModePlayer.
LEMMA ProcessAutoModePlayerKeeps ==
  ASSUME IInv, ProcessAutoModePlayer
  PROVE  IInv'
<1> DEFINE index == IF game.actingIndex >= Len(game.seats) THEN 0 ELSE game.actingIndex
           g == [game EXCEPT !.actingIndex = index]
           r == AutoPlayed(g)
<1>1. game \in HandTable /\ game.stage \in Streets /\ game.seats # <<>>
  BY DEF IInv, SoundTable, IdleTable, ProcessAutoModePlayer, InHand
<1>2. index \in Nat /\ index < Len(game.seats)
  <2>1. Len(game.seats) # 0
    BY <1>1, TableTypes, EmptySeq
  <2> QED BY <2>1, TableTypes
<1>3. game' = g \/ game' \in Outcomes(PlayOn(r))
  BY DEF ProcessAutoModePlayer
<1> HIDE DEF index
<1>4. g \in HandTable /\ g.stage \in Streets
  BY <1>1, <1>2, TurnHand
<1>5. g.actingIndex \in Positions(g)
  <2>1. g.actingIndex = index /\ g.seats = game.seats
    BY TableTypes DEF Table
  <2> HIDE DEF g
  <2> QED BY <1>2, <2>1, TableTypes DEF Positions
<1> HIDE DEF g
<1>6. r \in HandTable /\ r.stage \in Streets
  BY <1>4, <1>5, AutoPlayedHand
<1> HIDE DEF r
<1> QED BY <1>3, <1>4, <1>6, PlayOnHand, OutcomesPlayable DEF IInv, SoundTable

-----------------------------------------------------------------------------
(* The theorems.                                                            *)

\* A new table is a table between hands.
LEMMA InitHolds == Init => IInv
<1> SUFFICES ASSUME Init PROVE game \in IdleTable
  BY DEF IInv, SoundTable
<1>1. /\ <<>> \in Seq(Seat) /\ <<>> \in Seq(Pot) /\ <<>> \in Seq(IdleSeat)
      /\ DeckSize \in Nat
  BY EmptySeq, TableAssumption
<1>2. NoAction \in LastAction /\ NoResult \in Result /\ "Waiting" \in Stages
  BY DEF NoAction, LastAction, Actions, NoResult, Result, Stages
<1>3. game \in Table
  BY <1>1, <1>2 DEF Init, Table
<1> QED BY <1>1, <1>3 DEF Init, IdleTable

\* Every call preserves the invariant.
LEMMA NextKeeps == IInv /\ [Next]_vars => IInv'
<1> SUFFICES ASSUME IInv, [Next]_vars PROVE IInv'
  OBVIOUS
<1>1. CASE TakeTurn
  <2>1. {"CheckCall", "AllIn", "Fold", "Bet", "Raise"} \subseteq Actions /\ 0 \in Int
    BY DEF Actions
  <2>2. PICK p \in Players :
          \/ \E action \in {"CheckCall", "AllIn", "Fold"} : HandleAction(p, action, 0)
          \/ \E action \in {"Bet", "Raise"}, amount \in Amounts :
               HandleAction(p, action, amount)
    BY <1>1 DEF TakeTurn
  <2>3. CASE \E action \in {"CheckCall", "AllIn", "Fold"} : HandleAction(p, action, 0)
    BY <2>1, <2>3, HandleActionKeeps
  <2>4. CASE \E action \in {"Bet", "Raise"}, amount \in Amounts :
               HandleAction(p, action, amount)
    BY <2>1, <2>4, HandleActionKeeps, GameAssumption
  <2> QED BY <2>2, <2>3, <2>4
<1>2. CASE TableCall
  <2>1. ASSUME NEW blinds \in Blinds, SetBlinds(blinds) PROVE IInv'
    BY <2>1, SetBlindsKeeps
  <2>2. ASSUME NEW p \in Players, SitDown(p) PROVE IInv'
    BY <2>2, SitDownKeeps
  <2>3. ASSUME NEW p \in Players, NEW amount \in BuyIns, BuyIn(p, amount) PROVE IInv'
    BY <2>3, BuyInKeeps
  <2>4. ASSUME NEW p \in Players, StandUp(p) \/ SitBack(p) \/ MarkPendingLeave(p)
        PROVE  IInv'
    BY <2>4, FlagsKeep
  <2>5. ASSUME NEW p \in Players, CashOut(p) PROVE IInv'
    BY <2>5, CashOutKeeps
  <2> QED
    BY <1>2, <2>1, <2>2, <2>3, <2>4, <2>5, RemovePendingLeaversKeeps,
       ClearPendingHandResultKeeps, StartHandKeeps, ProcessAutoModePlayerKeeps
       DEF TableCall
<1>3. CASE UNCHANGED vars
  BY <1>3 DEF vars, IInv
<1> QED BY <1>1, <1>2, <1>3 DEF Next

\* Every call preserves the inductive invariant.
THEOREM Inductive == Spec => []IInv
BY InitHolds, NextKeeps, PTL DEF Spec

\* The members keep their types, no stack, bet or pot is ever negative, and no
\* call returns in the middle of a showdown.
THEOREM TypeCorrect == Spec => []TypeOK
<1>1. IInv => TypeOK
  BY DEF IInv, SoundTable, IdleTable, HandTable, Streets, TypeOK
<1> QED BY <1>1, Inductive, PTL

\* A seat of the hand is all-in exactly when its chips are gone, whatever is bet,
\* bought or posted.
THEOREM AllInExactlyWhenBroke == Spec => []AllInIffBroke
<1>1. ASSUME IInv PROVE AllInIffBroke
  <2>1. game.seats \in Seq(SoundSeat)
    BY <1>1, SoundSeqs DEF IInv, SoundTable, IdleTable, HandTable
  <2>2. \A s \in ToSet(game.seats) : s \in SoundSeat
    BY <2>1, SeatsAre DEF ToSet
  <2> QED BY <2>2 DEF AllInIffBroke, SoundSeat
<1> QED BY <1>1, Inductive, PTL

\* However a hand ends, the table is clean for the next one.
THEOREM HandsLeaveNothing == Spec => []NothingLeftOver
<1>1. ASSUME IInv PROVE NothingLeftOver
  <2>1. SUFFICES ASSUME ~InHand PROVE NothingLeftOver
    BY DEF NothingLeftOver
  <2>2. game \in IdleTable
    BY <1>1, <2>1 DEF IInv, SoundTable, Streets, InHand
  <2>3. game.seats \in Seq(IdleSeat)
    BY <2>2 DEF IdleTable
  <2>4. \A s \in ToSet(game.seats) : s \in IdleSeat
    BY <2>3, SeatsAre DEF ToSet
  <2> QED BY <2>2, <2>4 DEF NothingLeftOver, IdleTable, IdleSeat
<1> QED BY <1>1, Inductive, PTL

-----------------------------------------------------------------------------
(* A hand: who sits where, whose turn it is, what is bet, who owns the pots *)
(* and what is on the board.  A call is a chain of helpers, so it is said,   *)
(* helper by helper, which members change and which do not; PlayOnCases then *)
(* says what a whole turn can leave.                                         *)

\* The same chair and the same player.
SamePlace(s, t) == t.seatIndex = s.seatIndex /\ t.playerId = s.playerId

\* And still, or still not, a seat of the hand.
SameHand(s, t) == SamePlace(s, t) /\ t.inHand = s.inHand

\* A table with the same players in the same chairs and the button where it was.
SamePlaces(g, h) ==
  /\ Len(h.seats) = Len(g.seats) /\ DOMAIN h.seats = DOMAIN g.seats
  /\ \A i \in DOMAIN g.seats : SamePlace(g.seats[i], h.seats[i])
  /\ h.dealerIndex = g.dealerIndex

\* With the same seats dealt in.
SameHands(g, h) ==
  SamePlaces(g, h) /\ \A i \in DOMAIN g.seats : SameHand(g.seats[i], h.seats[i])

\* The members no helper of a turn assigns.
SameBlinds(g, h) == h.smallBlind = g.smallBlind /\ h.bigBlind = g.bigBlind

\* The last action and the last result, which few helpers assign.
SameResult(g, h) ==
  h.lastHandResult = g.lastHandResult /\ h.hasPendingHandResult = g.hasPendingHandResult
SameNews(g, h) == SameResult(g, h) /\ h.lastAction = g.lastAction

\* A seat that is alive and can still bet.
Live(s) == Alive(s) /\ ~s.allIn

-----------------------------------------------------------------------------
(* What the helpers change.                                                 *)

\* FinishHand clears every seat and moves nobody.
LEMMA FinishHandIs ==
  ASSUME NEW g \in Table
  PROVE  LET h == FinishHand(g)
         IN  /\ Len(h.seats) = Len(g.seats) /\ DOMAIN h.seats = DOMAIN g.seats
             /\ \A i \in DOMAIN g.seats : h.seats[i] = ClearedSeat(g.seats[i])
             /\ h.stage = "Waiting" /\ h.sidePots = <<>>
             /\ h.dealerIndex = g.dealerIndex /\ h.actingIndex = g.actingIndex
             /\ SameBlinds(g, h) /\ SameNews(g, h)
<1> DEFINE f == [i \in DOMAIN g.seats |-> ClearedSeat(g.seats[i])]
<1>1. g.seats \in Seq(Seat)
  BY DEF Table
<1>2. Vector(f) = f /\ Len(f) = Len(g.seats) /\ DOMAIN f = DOMAIN g.seats
  <2>1. \A i \in DOMAIN g.seats : f[i] \in IdleSeat
    BY <1>1, SeatsAre, ClearedSeatIdle
  <2>2. f = [i \in DOMAIN g.seats |-> f[i]] /\ DOMAIN f = DOMAIN g.seats
    OBVIOUS
  <2> HIDE DEF f
  <2> QED BY <1>1, <2>1, <2>2, SeatLoop
<1>3. FinishHand(g) = [g EXCEPT !.stage = "Waiting", !.community = 0, !.sidePots = <<>>,
                                !.lastBet = 0, !.lastRaise = 0, !.seats = f]
  BY <1>2 DEF FinishHand
<1>4. \A i \in DOMAIN g.seats : f[i] = ClearedSeat(g.seats[i])
  OBVIOUS
<1> HIDE DEF f
<1> QED BY <1>2, <1>3, <1>4 DEF Table, SameBlinds, SameNews, SameResult

\* DistributePots adds to stacks.
LEMMA DistributePotsIs ==
  ASSUME NEW g \in Table, NEW scores
  PROVE  LET h == DistributePots(g, scores)
         IN  /\ h \in Table
             /\ Len(h.seats) = Len(g.seats) /\ DOMAIN h.seats = DOMAIN g.seats
             /\ \A i \in DOMAIN g.seats :
                  h.seats[i] = [g.seats[i] EXCEPT !.chips = @ + Won(g, scores, i)]
             /\ h.dealerIndex = g.dealerIndex /\ h.actingIndex = g.actingIndex
             /\ SameBlinds(g, h)
<1> DEFINE w == [i \in DOMAIN g.seats |-> Won(g, scores, i)]
           f == [i \in DOMAIN g.seats |-> [g.seats[i] EXCEPT !.chips = @ + w[i]]]
<1>1. g.seats \in Seq(Seat) /\ DistributePots(g, scores) \in Table
  BY DistributePotsTable DEF Table
<1>2. \A i \in DOMAIN g.seats : w[i] \in Nat
  BY WonType
<1>3. Vector(w) = w
  <2>1. w = [i \in DOMAIN g.seats |-> w[i]]
    OBVIOUS
  <2> HIDE DEF w
  <2> QED BY <1>1, <1>2, <2>1, SeatLoop
<1>4. \A i \in DOMAIN g.seats :
        f[i] = [g.seats[i] EXCEPT !.chips = @ + Won(g, scores, i)]
  OBVIOUS
<1>5. Vector(f) = f /\ Len(f) = Len(g.seats) /\ DOMAIN f = DOMAIN g.seats
  <2>1. Vector(f) = f /\ f \in Seq(Seat)
    <3> HIDE DEF w
    <3> QED BY <1>2, PaidSeats
  <2>2. DOMAIN f = DOMAIN g.seats
    OBVIOUS
  <2> HIDE DEF f
  <2> QED BY <2>1, <2>2, <1>1, LenProperties
<1>6. /\ DistributePots(g, scores).seats = f
      /\ DistributePots(g, scores).dealerIndex = g.dealerIndex
      /\ DistributePots(g, scores).actingIndex = g.actingIndex
      /\ DistributePots(g, scores).smallBlind = g.smallBlind
      /\ DistributePots(g, scores).bigBlind = g.bigBlind
  <2>1. DistributePots(g, scores)
         = [g EXCEPT !.seats = f, !.sidePots = <<>>,
                     !.lastHandResult = HandResult(g, TRUE, PotTotal(g), w),
                     !.hasPendingHandResult = TRUE]
    BY <1>3, <1>5 DEF DistributePots
  <2> HIDE DEF f, w
  <2> QED BY <2>1 DEF Table
<1> HIDE DEF f
<1> QED BY <1>1, <1>4, <1>5, <1>6 DEF SameBlinds

\* And it reports what it added.
LEMMA DistributePotsReports ==
  ASSUME NEW g \in Table, NEW scores, NEW won,
         won = [i \in DOMAIN g.seats |-> Won(g, scores, i)]
  PROVE  LET h == DistributePots(g, scores)
         IN  /\ h.lastAction = g.lastAction /\ h.hasPendingHandResult
             /\ h.lastHandResult = HandResult(g, TRUE, PotTotal(g), won)
<1>1. g.seats \in Seq(Seat) /\ \A i \in DOMAIN g.seats : won[i] \in Nat
  BY WonType DEF Table
<1>2. Vector(won) = won
  <2>1. ASSUME NEW v, v = [i \in DOMAIN g.seats |-> v[i]],
               \A i \in DOMAIN g.seats : v[i] \in Nat
        PROVE  Vector(v) = v
    BY <1>1, <2>1, SeatLoop
  <2>2. won = [i \in DOMAIN g.seats |-> won[i]]
    OBVIOUS
  <2> QED BY <1>1, <2>1, <2>2
<1> DEFINE q == Vector([i \in DOMAIN g.seats |-> [g.seats[i] EXCEPT !.chips = @ + won[i]]])
           r == HandResult(g, TRUE, PotTotal(g), won)
<1>3. DistributePots(g, scores)
        = [g EXCEPT !.seats = q, !.sidePots = <<>>, !.lastHandResult = r,
                    !.hasPendingHandResult = TRUE]
  BY <1>2 DEF DistributePots
<1> HIDE DEF q, r
<1>4. /\ DistributePots(g, scores).lastAction = g.lastAction
      /\ DistributePots(g, scores).hasPendingHandResult
      /\ DistributePots(g, scores).lastHandResult = r
  BY <1>3 DEF Table
<1> QED BY <1>4 DEF r

\* CollectBetsToSidePots changes bets and pots, or nothing when there is no bet.
LEMMA CollectIs ==
  ASSUME NEW g \in HandTable
  PROVE  LET c == CollectBetsToSidePots(g)
         IN  /\ c \in HandTable
             /\ Len(c.seats) = Len(g.seats) /\ DOMAIN c.seats = DOMAIN g.seats
             /\ \/ BetLevels(g) = {} /\ c = g
                \/ /\ BetLevels(g) # {} /\ c.sidePots = Layers(g)
                   /\ \A i \in DOMAIN g.seats :
                        c.seats[i] = [g.seats[i] EXCEPT !.currentBet = 0]
             /\ c.stage = g.stage /\ SameBlinds(g, c)
             /\ c.dealerIndex = g.dealerIndex /\ c.actingIndex = g.actingIndex
             /\ c.community = g.community /\ c.deck = g.deck /\ SameNews(g, c)
<1> DEFINE f == [i \in DOMAIN g.seats |-> [g.seats[i] EXCEPT !.currentBet = 0]]
           r == [g EXCEPT !.sidePots = Layers(g), !.seats = f]
<1>1. g.seats \in Seq(SoundSeat) /\ g \in Table
  BY DEF HandTable
<1>2. Vector(f) = f /\ Len(f) = Len(g.seats) /\ DOMAIN f = DOMAIN g.seats
  <2>1. \A s \in SoundSeat : [s EXCEPT !.currentBet = 0] \in SoundSeat
    BY DEF SoundSeat, Seat
  <2>2. \A i \in DOMAIN g.seats : f[i] \in SoundSeat
    BY <1>1, <2>1, SeatsAre
  <2>3. f = [i \in DOMAIN g.seats |-> f[i]] /\ DOMAIN f = DOMAIN g.seats
    OBVIOUS
  <2> HIDE DEF f
  <2> QED BY <1>1, <2>2, <2>3, SeatLoop
<1>3. CollectBetsToSidePots(g) = IF BetLevels(g) = {} THEN g ELSE r
  BY <1>2 DEF CollectBetsToSidePots
<1>4. \A i \in DOMAIN g.seats : f[i] = [g.seats[i] EXCEPT !.currentBet = 0]
  OBVIOUS
<1> HIDE DEF f
<1>5. /\ r.seats = f /\ r.sidePots = Layers(g)
      /\ r.stage = g.stage /\ SameBlinds(g, r)
      /\ r.dealerIndex = g.dealerIndex /\ r.actingIndex = g.actingIndex
      /\ r.community = g.community /\ r.deck = g.deck /\ SameNews(g, r)
  BY <1>1 DEF Table, SameBlinds, SameNews, SameResult
<1> HIDE DEF r
<1>6. CASE BetLevels(g) = {}
  <2>1. CollectBetsToSidePots(g) = g
    BY <1>3, <1>6
  <2> QED BY <1>6, <2>1 DEF SameBlinds, SameNews, SameResult
<1>7. CASE BetLevels(g) # {}
  <2>1. CollectBetsToSidePots(g) = r
    BY <1>3, <1>7
  <2> QED BY <1>2, <1>4, <1>5, <1>7, <2>1, CollectHand
<1> QED BY <1>6, <1>7

\* DealCommunity moves cards.
LEMMA DealCommunityIs ==
  ASSUME NEW g \in HandTable, NEW count \in Nat
  PROVE  LET d == DealCommunity(g, count)
         IN  /\ d \in HandTable
             /\ d.seats = g.seats /\ d.sidePots = g.sidePots
             /\ d.stage = g.stage /\ SameBlinds(g, d)
             /\ d.dealerIndex = g.dealerIndex /\ d.actingIndex = g.actingIndex
             /\ d.community = g.community + count
             /\ d.deck = Max({0, g.deck - count}) /\ SameNews(g, d)
<1>1. DealCommunity(g, count) \in HandTable
  BY DealCommunityHand
<1>2. g \in Table
  BY DEF HandTable
<1> DEFINE left == Max({0, g.deck - count})
           r == [g EXCEPT !.community = g.community + count, !.deck = left]
<1>3. DealCommunity(g, count) = r
  BY DEF DealCommunity
<1> HIDE DEF left
<1>4. /\ r.seats = g.seats /\ r.sidePots = g.sidePots
      /\ r.stage = g.stage /\ SameBlinds(g, r)
      /\ r.dealerIndex = g.dealerIndex /\ r.actingIndex = g.actingIndex
      /\ r.community = g.community + count /\ r.deck = left /\ SameNews(g, r)
  BY <1>2 DEF Table, SameBlinds, SameNews, SameResult
<1> HIDE DEF r
<1> QED BY <1>1, <1>3, <1>4 DEF left

\* ResetBetsForNewRound clears bets and flags of the round.
LEMMA ResetBetsIs ==
  ASSUME NEW g \in HandTable
  PROVE  LET n == ResetBetsForNewRound(g)
         IN  /\ n \in HandTable
             /\ Len(n.seats) = Len(g.seats) /\ DOMAIN n.seats = DOMAIN g.seats
             /\ \A i \in DOMAIN g.seats :
                  n.seats[i] = [g.seats[i] EXCEPT !.currentBet = 0,
                                                  !.actedThisRound = FALSE]
             /\ n.lastBet = 0 /\ n.sidePots = g.sidePots
             /\ n.stage = g.stage /\ SameBlinds(g, n)
             /\ n.dealerIndex = g.dealerIndex
             /\ n.community = g.community /\ n.deck = g.deck
<1> DEFINE f == [i \in DOMAIN g.seats |->
                   [g.seats[i] EXCEPT !.currentBet = 0, !.actedThisRound = FALSE]]
           r == [g EXCEPT !.lastBet = 0, !.lastRaise = g.bigBlind, !.seats = f]
<1>1. g.seats \in Seq(SoundSeat) /\ g \in Table
  BY DEF HandTable
<1>2. Vector(f) = f /\ Len(f) = Len(g.seats) /\ DOMAIN f = DOMAIN g.seats
  <2>1. \A s \in SoundSeat :
          [s EXCEPT !.currentBet = 0, !.actedThisRound = FALSE] \in SoundSeat
    BY DEF SoundSeat, Seat
  <2>2. \A i \in DOMAIN g.seats : f[i] \in SoundSeat
    BY <1>1, <2>1, SeatsAre
  <2>3. f = [i \in DOMAIN g.seats |-> f[i]] /\ DOMAIN f = DOMAIN g.seats
    OBVIOUS
  <2> HIDE DEF f
  <2> QED BY <1>1, <2>2, <2>3, SeatLoop
<1>3. ResetBetsForNewRound(g) = r
  BY <1>2 DEF ResetBetsForNewRound
<1>4. \A i \in DOMAIN g.seats :
        f[i] = [g.seats[i] EXCEPT !.currentBet = 0, !.actedThisRound = FALSE]
  OBVIOUS
<1> HIDE DEF f
<1>5. /\ r.seats = f /\ r.sidePots = g.sidePots /\ r.lastBet = 0
      /\ r.stage = g.stage /\ SameBlinds(g, r)
      /\ r.dealerIndex = g.dealerIndex
      /\ r.community = g.community /\ r.deck = g.deck
  BY <1>1 DEF Table, SameBlinds
<1> HIDE DEF r
<1> QED BY <1>2, <1>3, <1>4, <1>5, ResetBetsHand

\* An assignment to the stage or to the turn changes nothing else.
LEMMA StageIs ==
  ASSUME NEW g \in HandTable, NEW stage \in Stages
  PROVE  LET h == [g EXCEPT !.stage = stage]
         IN  /\ h \in HandTable /\ h.stage = stage
             /\ h.seats = g.seats /\ h.sidePots = g.sidePots /\ SameBlinds(g, h)
             /\ h.dealerIndex = g.dealerIndex /\ h.actingIndex = g.actingIndex
             /\ h.community = g.community /\ h.deck = g.deck /\ SameNews(g, h)
<1>1. g \in Table /\ [g EXCEPT !.stage = stage] \in HandTable
  BY StageHand DEF HandTable
<1> QED BY <1>1 DEF Table, SameBlinds, SameNews, SameResult

\* The turn goes to another seat.
LEMMA TurnIs ==
  ASSUME NEW g \in HandTable, NEW index \in Nat
  PROVE  LET h == [g EXCEPT !.actingIndex = index]
         IN  /\ h \in HandTable /\ h.stage = g.stage
             /\ h.seats = g.seats /\ h.sidePots = g.sidePots /\ SameBlinds(g, h)
             /\ h.dealerIndex = g.dealerIndex /\ h.actingIndex = index
             /\ h.community = g.community /\ h.deck = g.deck
             /\ h.lastBet = g.lastBet
<1>1. g \in Table /\ [g EXCEPT !.actingIndex = index] \in HandTable
  BY TurnHand DEF HandTable
<1> QED BY <1>1 DEF Table, SameBlinds

-----------------------------------------------------------------------------
(* The turn.                                                                *)

\* The search for the next seat finds one when there is one.
LEMMA NextIsLive ==
  ASSUME NEW g, g.seats \in Seq(Seat), NEW start \in Nat
  PROVE  LET k == NextActiveIndex(g, start)
         IN  /\ k \in 0 .. Len(g.seats)
             /\ k < Len(g.seats) => k \in Positions(g) /\ Live(At(g, k))
             /\ (\E i \in DOMAIN g.seats : Live(g.seats[i])) => k < Len(g.seats)
<1> DEFINE S == {i \in Positions(g) : Alive(At(g, i)) /\ ~At(g, i).allIn}
           k == NextActiveIndex(g, start)
<1>1. Len(g.seats) \in Nat /\ DOMAIN g.seats = 1..Len(g.seats)
  BY SeatsAre
<1>2. S \in SUBSET Positions(g) /\ k = FirstFrom(g, start, S)
  BY DEF NextActiveIndex
<1>3. /\ S = {} => k = Len(g.seats)
      /\ S # {} => k \in S
  <2> HIDE DEF S, k
  <2> QED BY <1>2, FirstFromIn
<1>4. \A i \in S : i \in 0 .. Len(g.seats) - 1 /\ i \in Positions(g) /\ Live(At(g, i))
  BY DEF Positions, Live
<1>5. ASSUME NEW i \in DOMAIN g.seats, Live(g.seats[i])
      PROVE  S # {}
  <2>1. i - 1 \in Positions(g) /\ (i - 1) + 1 = i
    BY <1>1 DEF Positions
  <2>2. At(g, i - 1) = g.seats[i]
    BY <2>1 DEF At
  <2>3. i - 1 \in S
    BY <1>5, <2>1, <2>2 DEF Live
  <2> HIDE DEF S
  <2> QED BY <2>3
<1> HIDE DEF S, k
<1>6. CASE S = {}
  BY <1>1, <1>3, <1>5, <1>6 DEF k
<1>7. CASE S # {}
  BY <1>1, <1>3, <1>4, <1>7 DEF k
<1> QED BY <1>6, <1>7

\* A live seat can act and is in the hand.
LEMMA LiveCanAct ==
  ASSUME NEW s
  PROVE  Live(s) => CanAct(s) /\ s.inHand
BY DEF Live, Alive, CanAct

\* A new street: the bets are gone, the board has grown, and the turn is a live
\* seat's if there is one.
LEMMA NewStreetIs ==
  ASSUME NEW g \in HandTable, g.stage \in {"PreFlop", "Flop", "Turn"}
  PROVE  LET n == NewStreet(g)
         IN  /\ n \in HandTable
             /\ Len(n.seats) = Len(g.seats) /\ DOMAIN n.seats = DOMAIN g.seats
             /\ \A i \in DOMAIN g.seats :
                  n.seats[i] = [g.seats[i] EXCEPT !.currentBet = 0,
                                                  !.actedThisRound = FALSE]
             /\ n.lastBet = 0 /\ n.sidePots = g.sidePots
             /\ n.stage = NextStreet[g.stage] /\ SameBlinds(g, n)
             /\ n.dealerIndex = g.dealerIndex
             /\ n.community = g.community + CardsDealt[g.stage]
             /\ n.deck = Max({0, g.deck - CardsDealt[g.stage]})
             /\ n.actingIndex \in 0 .. Len(n.seats)
             /\ (\E i \in DOMAIN g.seats : Live(g.seats[i]))
                  => /\ n.actingIndex \in Positions(n)
                     /\ Live(At(n, n.actingIndex))
<1> DEFINE stage == NextStreet[g.stage]
           cards == CardsDealt[g.stage]
           m == [g EXCEPT !.stage = stage]
           d == DealCommunity(m, cards)
           r == ResetBetsForNewRound(d)
           k == NextActiveIndex(r, r.dealerIndex + 1)
<1>1. NewStreet(g) = [r EXCEPT !.actingIndex = k]
  BY DEF NewStreet
<1>2. stage \in Stages /\ cards \in Nat
  BY DEF NextStreet, CardsDealt, Stages
<1> HIDE DEF stage, cards
<1>3. /\ m \in HandTable /\ m.stage = stage
      /\ m.seats = g.seats /\ m.sidePots = g.sidePots /\ SameBlinds(g, m)
      /\ m.dealerIndex = g.dealerIndex
      /\ m.community = g.community /\ m.deck = g.deck
  BY <1>2, StageIs
<1> HIDE DEF m
<1>4. /\ d \in HandTable /\ d.stage = stage
      /\ d.seats = g.seats /\ d.sidePots = g.sidePots /\ SameBlinds(g, d)
      /\ d.dealerIndex = g.dealerIndex
      /\ d.community = g.community + cards /\ d.deck = Max({0, g.deck - cards})
  BY <1>2, <1>3, DealCommunityIs DEF SameBlinds
<1> HIDE DEF d
<1>5. /\ r \in HandTable /\ r.stage = stage
      /\ Len(r.seats) = Len(g.seats) /\ DOMAIN r.seats = DOMAIN g.seats
      /\ \A i \in DOMAIN g.seats :
           r.seats[i] = [g.seats[i] EXCEPT !.currentBet = 0, !.actedThisRound = FALSE]
      /\ r.lastBet = 0 /\ r.sidePots = g.sidePots /\ SameBlinds(g, r)
      /\ r.dealerIndex = g.dealerIndex
      /\ r.community = g.community + cards /\ r.deck = Max({0, g.deck - cards})
  <2>1. /\ r \in HandTable /\ r.stage = d.stage
        /\ Len(r.seats) = Len(d.seats) /\ DOMAIN r.seats = DOMAIN d.seats
        /\ \A i \in DOMAIN d.seats :
             r.seats[i] = [d.seats[i] EXCEPT !.currentBet = 0, !.actedThisRound = FALSE]
        /\ r.lastBet = 0 /\ r.sidePots = d.sidePots /\ SameBlinds(d, r)
        /\ r.dealerIndex = d.dealerIndex
        /\ r.community = d.community /\ r.deck = d.deck
    BY <1>4, ResetBetsIs
  <2> HIDE DEF r
  <2>2. SameBlinds(g, r)
    BY <1>4, <2>1 DEF SameBlinds
  <2> QED BY <1>4, <2>1, <2>2
<1> HIDE DEF r
<1>6. r.seats \in Seq(Seat) /\ r.dealerIndex + 1 \in Nat /\ g.seats \in Seq(Seat)
  <2>1. r \in Table /\ g \in Table
    BY <1>5 DEF HandTable
  <2>2. r.dealerIndex \in Nat
    BY <2>1 DEF Table
  <2>3. r.seats \in Seq(Seat) /\ g.seats \in Seq(Seat)
    BY <2>1 DEF Table
  <2> QED BY <2>2, <2>3
<1>7. /\ k \in 0 .. Len(r.seats) /\ k \in Nat
      /\ k < Len(r.seats) => k \in Positions(r) /\ Live(At(r, k))
      /\ (\E i \in DOMAIN r.seats : Live(r.seats[i])) => k < Len(r.seats)
  <2>1. Len(r.seats) \in Nat
    BY <1>6, SeatsAre
  <2>2. /\ k \in 0 .. Len(r.seats)
        /\ k < Len(r.seats) => k \in Positions(r) /\ Live(At(r, k))
        /\ (\E i \in DOMAIN r.seats : Live(r.seats[i])) => k < Len(r.seats)
    BY <1>6, NextIsLive
  <2> QED BY <2>1, <2>2
<1> HIDE DEF k
<1>8. ASSUME NEW i \in DOMAIN g.seats, Live(g.seats[i])
      PROVE  Live(r.seats[i])
  <2>1. g.seats[i] \in Seat
    BY <1>6, SeatsAre
  <2> QED BY <1>5, <1>8, <2>1 DEF Live, Alive, IsOccupied, Seat
<1> DEFINE n == [r EXCEPT !.actingIndex = k]
<1>9. /\ n \in HandTable /\ n.stage = stage
      /\ n.seats = r.seats /\ n.sidePots = r.sidePots /\ SameBlinds(r, n)
      /\ n.dealerIndex = r.dealerIndex /\ n.actingIndex = k
      /\ n.community = r.community /\ n.deck = r.deck /\ n.lastBet = r.lastBet
  <2>1. /\ n \in HandTable /\ n.stage = r.stage
        /\ n.seats = r.seats /\ n.sidePots = r.sidePots /\ SameBlinds(r, n)
        /\ n.dealerIndex = r.dealerIndex /\ n.actingIndex = k
        /\ n.community = r.community /\ n.deck = r.deck /\ n.lastBet = r.lastBet
    BY <1>5, <1>7, TurnIs, ZenonT(60)
  <2> QED BY <1>5, <2>1
<1>10. n = NewStreet(g)
  BY <1>1
<1> HIDE DEF n
<1>11. (\E i \in DOMAIN g.seats : Live(g.seats[i]))
         => k \in Positions(n) /\ Live(At(n, k))
  BY <1>5, <1>7, <1>8, <1>9 DEF Positions, At
<1>12. SameBlinds(g, n)
  BY <1>5, <1>9 DEF SameBlinds
<1> QED BY <1>5, <1>7, <1>9, <1>10, <1>11, <1>12 DEF stage, cards

-----------------------------------------------------------------------------
(* What is left of a hand after a seat has acted.                           *)

AliveSeats(g) == {i \in DOMAIN g.seats : Alive(g.seats[i])}
TwoAlive(g) == \E i, j \in AliveSeats(g) : i # j

\* The turn goes to the seat at k, and another one has not acted on this street.
Passes(g, k) ==
  /\ k = NextActiveIndex(g, g.actingIndex + 1)
  /\ \E m \in DOMAIN g.seats : Live(g.seats[m]) /\ ~g.seats[m].actedThisRound

\* ResolveIfNeeded ends the hand, runs it to the showdown, or leaves it to a seat
\* that can still bet.
LEMMA ResolveCases ==
  ASSUME NEW g \in HandTable
  PROVE  LET h == ResolveIfNeeded(g)
         IN  \/ AliveSeats(g) = {} /\ h = FinishHand(g)
             \/ \E i \in DOMAIN g.seats : AliveSeats(g) = {i} /\ h = SingleWinner(g, i)
             \/ \E n \in Nat : h = [DealCommunity(g, n) EXCEPT !.stage = "Showdown"]
             \/ h = g /\ TwoAlive(g) /\ \E i \in DOMAIN g.seats : Live(g.seats[i])
<1> DEFINE alive     == AliveSeats(g)
           withChips == {i \in alive : g.seats[i].chips > 0}
           noMoreBets ==
             \/ \A i \in alive : g.seats[i].allIn
             \/ /\ Cardinality(withChips) = 1
                /\ \A i \in withChips : g.seats[i].currentBet >= g.lastBet
           count == Max({0, 5 - g.community})
<1>1. IsFiniteSet(alive) /\ Cardinality(alive) \in Nat
  <2>1. g.seats \in Seq(Seat)
    BY DEF HandTable, Table
  <2>2. IsFiniteSet(DOMAIN g.seats)
    BY <2>1, SeatsAre, FS_Interval
  <2>3. alive \in SUBSET DOMAIN g.seats
    BY DEF AliveSeats
  <2> HIDE DEF alive
  <2> QED BY <2>2, <2>3, FS_Subset, FS_CardinalityType
<1>2. count \in Nat
  <2>1. 5 - g.community \in Int
    BY DEF HandTable, Table
  <2> QED BY <2>1, MaxOfTwo
<1>3. ResolveIfNeeded(g) =
        CASE alive = {} -> FinishHand(g)
          [] Cardinality(alive) = 1 -> SingleWinner(g, CHOOSE i \in alive : TRUE)
          [] Cardinality(alive) > 1 /\ noMoreBets ->
               [DealCommunity(g, count) EXCEPT !.stage = "Showdown"]
          [] OTHER -> g
  BY DEF ResolveIfNeeded, AliveSeats
<1>4. \A i \in alive : i \in DOMAIN g.seats /\ Alive(g.seats[i])
  BY DEF AliveSeats
<1> HIDE DEF alive, count
<1>5. CASE alive = {}
  BY <1>1, <1>3, <1>5, FS_EmptySet DEF alive
<1>6. CASE Cardinality(alive) = 1
  <2>1. PICK i : alive = {i}
    BY <1>1, <1>6, FS_Singleton
  <2>2. alive # {} /\ (CHOOSE j \in alive : TRUE) = i
    BY <2>1
  <2> QED BY <1>3, <1>4, <1>6, <2>1, <2>2 DEF alive
<1>7. CASE Cardinality(alive) > 1 /\ noMoreBets
  <2>1. alive # {}
    BY <1>7, FS_EmptySet
  <2>2. ResolveIfNeeded(g) = [DealCommunity(g, count) EXCEPT !.stage = "Showdown"]
    BY <1>1, <1>3, <1>7, <2>1
  <2> QED BY <1>2, <2>2
<1>8. CASE Cardinality(alive) > 1 /\ ~noMoreBets
  <2>1. alive # {}
    BY <1>8, FS_EmptySet
  <2>2. ResolveIfNeeded(g) = g
    BY <1>1, <1>3, <1>8, <2>1
  <2>3. PICK i \in alive : ~g.seats[i].allIn
    BY <1>8
  <2>4. \E j \in alive : j # i
    <3>1. ASSUME \A j \in alive : j = i PROVE FALSE
      <4>1. alive = {i}
        BY <3>1
      <4>2. Cardinality({i}) = 1
        BY FS_Singleton
      <4> QED BY <1>8, <4>1, <4>2
    <3> QED BY <3>1
  <2> QED BY <1>4, <2>2, <2>3, <2>4 DEF Live, TwoAlive, alive
<1>9. Cardinality(alive) = 0 => alive = {}
  BY <1>1, FS_EmptySet
<1> QED BY <1>1, <1>5, <1>6, <1>7, <1>8, <1>9

\* After ResolveIfNeeded has left the hand on, the turn passes to a live seat, a
\* new street is dealt, or the river is over.
LEMMA TurnCases ==
  ASSUME NEW g \in HandTable, g.stage \in Streets, \E i \in DOMAIN g.seats : Live(g.seats[i])
  PROVE  LET h == AdvanceTurn(g)
             c == CollectBetsToSidePots(g)
         IN  \/ \E k \in Positions(g) :
                  Live(At(g, k)) /\ Passes(g, k) /\ h = [g EXCEPT !.actingIndex = k]
             \/ g.stage \in {"PreFlop", "Flop", "Turn"} /\ h = NewStreet(c)
             \/ g.stage = "River" /\ h = [c EXCEPT !.stage = "Showdown"]
<1> DEFINE next == NextActiveIndex(g, g.actingIndex + 1)
           c == CollectBetsToSidePots(g)
<1>1. g.seats \in Seq(Seat) /\ g.actingIndex + 1 \in Nat
  <2>1. g.actingIndex \in Nat /\ g.seats \in Seq(Seat)
    BY DEF HandTable, Table
  <2> QED BY <2>1
<1>2. next \in Positions(g) /\ Live(At(g, next))
  BY <1>1, NextIsLive
<1>3. \/ AdvanceTurn(g) = AdvanceStage(g)
      \/ /\ AdvanceTurn(g) = [g EXCEPT !.actingIndex = next]
         /\ \E m \in DOMAIN g.seats : Live(g.seats[m]) /\ ~g.seats[m].actedThisRound
  <2>1. g.stage # "Waiting" /\ g.seats # <<>>
    BY DEF Streets
  <2> DEFINE betting == {s \in ToSet(g.seats) : Alive(s) /\ ~s.allIn}
  <2>2. betting # {} /\ \A s \in betting : \E m \in DOMAIN g.seats : g.seats[m] = s /\ Live(s)
    BY DEF ToSet, Live
  <2>3. CASE \A s \in betting : s.actedThisRound
    <3>1. AllBetsMatched(g) /\ AllActivePlayersActed(g)
      BY <2>2, <2>3 DEF AllBetsMatched, AllActivePlayersActed
    <3> QED BY <2>1, <3>1 DEF AdvanceTurn
  <2>4. CASE \E s \in betting : ~s.actedThisRound
    <3>1. \E m \in DOMAIN g.seats : Live(g.seats[m]) /\ ~g.seats[m].actedThisRound
      <4> HIDE DEF betting
      <4> QED BY <2>2, <2>4
    <3>2. AdvanceTurn(g) \in {AdvanceStage(g), [g EXCEPT !.actingIndex = next]}
      BY <2>1 DEF AdvanceTurn
    <3> QED BY <3>1, <3>2
  <2> QED BY <2>3, <2>4
<1>4. \/ g.stage \in {"PreFlop", "Flop", "Turn"} /\ AdvanceStage(g) = NewStreet(c)
      \/ g.stage = "River" /\ AdvanceStage(g) = [c EXCEPT !.stage = "Showdown"]
  BY DEF AdvanceStage, NextStreet, Streets
<1>5. next = NextActiveIndex(g, g.actingIndex + 1)
  OBVIOUS
<1> HIDE DEF next, c
<1> QED BY <1>2, <1>3, <1>4, <1>5 DEF c, Passes

\* The showdown is played on a table that has the seats and pots of g, or those
\* after its bets were collected.
ShowdownOf(g, d) ==
  /\ d \in HandTable /\ d.stage = "Showdown"
  /\ d.dealerIndex = g.dealerIndex /\ d.actingIndex = g.actingIndex
  /\ SameBlinds(g, d) /\ SameNews(g, d)
  /\ \/ d.seats = g.seats /\ d.sidePots = g.sidePots
     \/ /\ d.seats = CollectBetsToSidePots(g).seats
        /\ d.sidePots = CollectBetsToSidePots(g).sidePots

\* Everything a turn can leave, once the seat that acted has done its part.
LEMMA PlayOnCases ==
  ASSUME NEW g \in HandTable, g.stage \in Streets, NEW h \in Outcomes(PlayOn(g))
  PROVE  \/ AliveSeats(g) = {} /\ h = FinishHand(g)
         \/ \E i \in DOMAIN g.seats : AliveSeats(g) = {i} /\ h = SingleWinner(g, i)
         \/ \E d : \E scores \in Scores : ShowdownOf(g, d)
              /\ h = FinishHand(DistributePots(CollectBetsToSidePots(d), scores))
         \/ \E k \in Positions(g) :
              /\ TwoAlive(g) /\ Passes(g, k)
              /\ Live(At(g, k)) /\ h = [g EXCEPT !.actingIndex = k]
         \/ /\ g.stage \in {"PreFlop", "Flop", "Turn"} /\ TwoAlive(g)
            /\ \E i \in DOMAIN g.seats : Live(g.seats[i])
            /\ h = NewStreet(CollectBetsToSidePots(g))
<1> DEFINE r == ResolveIfNeeded(g)
           c == CollectBetsToSidePots(g)
<1>1. ASSUME NEW d, d.stage = "Showdown", h \in Outcomes(d)
      PROVE  \E scores \in Scores : h = FinishHand(DistributePots(CollectBetsToSidePots(d), scores))
  BY <1>1 DEF Outcomes, HandleShowdown
<1>2. ASSUME NEW d, d.stage # "Showdown", h \in Outcomes(d)
      PROVE  h = d
  BY <1>2 DEF Outcomes
<1>3. PlayOn(g) = IF r.stage \in {"Waiting", "Showdown"} THEN r ELSE AdvanceTurn(r)
  BY DEF PlayOn
<1>4. "Showdown" \in Stages /\ g.stage \notin {"Waiting", "Showdown"}
  BY DEF Stages, Streets
<1>5. CASE AliveSeats(g) = {} /\ r = FinishHand(g)
  <2>1. FinishHand(g).stage = "Waiting"
    BY FinishHandIs DEF HandTable
  <2>2. PlayOn(g) = FinishHand(g)
    BY <1>3, <1>5, <2>1
  <2> QED BY <1>2, <1>5, <2>1, <2>2
<1>6. ASSUME NEW i \in DOMAIN g.seats, AliveSeats(g) = {i}, r = SingleWinner(g, i)
      PROVE  h = SingleWinner(g, i)
  <2>1. SingleWinner(g, i).stage = "Waiting"
    BY SingleWinnerEnds DEF IdleTable
  <2>2. PlayOn(g) = SingleWinner(g, i)
    BY <1>3, <1>6, <2>1
  <2> QED BY <1>2, <2>1, <2>2
<1>7. ASSUME NEW n \in Nat, r = [DealCommunity(g, n) EXCEPT !.stage = "Showdown"]
      PROVE  ShowdownOf(g, r) /\ PlayOn(g) = r
  <2> DEFINE d == DealCommunity(g, n)
  <2>1. /\ d \in HandTable /\ d.seats = g.seats /\ d.sidePots = g.sidePots
        /\ d.dealerIndex = g.dealerIndex /\ d.actingIndex = g.actingIndex
        /\ SameBlinds(g, d) /\ SameNews(g, d)
    BY DealCommunityIs
  <2>2. r = [d EXCEPT !.stage = "Showdown"]
    BY <1>7
  <2> HIDE DEF d, r
  <2>3. /\ r \in HandTable /\ r.stage = "Showdown"
        /\ r.seats = d.seats /\ r.sidePots = d.sidePots /\ SameBlinds(d, r) /\ SameNews(d, r)
        /\ r.dealerIndex = d.dealerIndex /\ r.actingIndex = d.actingIndex
    BY <1>4, <2>1, <2>2, StageIs
  <2> QED BY <1>3, <2>1, <2>3 DEF ShowdownOf, SameBlinds, SameNews, SameResult
<1>8. ASSUME r = g, NEW i \in DOMAIN g.seats, Live(g.seats[i])
      PROVE  \/ \E d : \E scores \in Scores : ShowdownOf(g, d)
                  /\ h = FinishHand(DistributePots(CollectBetsToSidePots(d), scores))
             \/ \E k \in Positions(g) :
                  Live(At(g, k)) /\ Passes(g, k) /\ h = [g EXCEPT !.actingIndex = k]
             \/ g.stage \in {"PreFlop", "Flop", "Turn"} /\ h = NewStreet(c)
  <2> DEFINE t == AdvanceTurn(g)
  <2>1. PlayOn(g) = t
    BY <1>3, <1>4, <1>8
  <2>2. \/ \E k \in Positions(g) :
              Live(At(g, k)) /\ Passes(g, k) /\ t = [g EXCEPT !.actingIndex = k]
        \/ g.stage \in {"PreFlop", "Flop", "Turn"} /\ t = NewStreet(c)
        \/ g.stage = "River" /\ t = [c EXCEPT !.stage = "Showdown"]
    BY <1>8, TurnCases
  <2>3. /\ c \in HandTable /\ c.stage = g.stage /\ SameBlinds(g, c) /\ SameNews(g, c)
        /\ c.dealerIndex = g.dealerIndex /\ c.actingIndex = g.actingIndex
    BY CollectIs
  <2> HIDE DEF t, c
  <2>4. ASSUME NEW k \in Positions(g), Live(At(g, k)), t = [g EXCEPT !.actingIndex = k]
        PROVE  h = t
    <3>1. k \in Nat
      <4>1. g.seats \in Seq(Seat)
        BY DEF HandTable, Table
      <4> QED BY <4>1, SeatsAre DEF Positions
    <3>2. t.stage = g.stage
      BY <2>4, <3>1, TurnIs
    <3> QED BY <1>2, <1>4, <2>1, <3>2
  <2>5. ASSUME g.stage \in {"PreFlop", "Flop", "Turn"}, t = NewStreet(c)
        PROVE  h = t
    <3>1. t.stage = NextStreet[g.stage]
      BY <2>3, <2>5, NewStreetIs
    <3>2. t.stage # "Showdown"
      BY <2>5, <3>1 DEF NextStreet
    <3> QED BY <1>2, <2>1, <3>2
  <2>6. ASSUME t = [c EXCEPT !.stage = "Showdown"]
        PROVE  ShowdownOf(g, t)
    <3>1. /\ t \in HandTable /\ t.stage = "Showdown"
          /\ t.seats = c.seats /\ t.sidePots = c.sidePots /\ SameBlinds(c, t) /\ SameNews(c, t)
          /\ t.dealerIndex = c.dealerIndex /\ t.actingIndex = c.actingIndex
      BY <1>4, <2>3, <2>6, StageIs
    <3> QED BY <2>3, <3>1 DEF ShowdownOf, SameBlinds, SameNews, SameResult, c
  <2>7. ASSUME ShowdownOf(g, t)
        PROVE  \E scores \in Scores : h = FinishHand(DistributePots(CollectBetsToSidePots(t), scores))
    BY <1>1, <2>1, <2>7 DEF ShowdownOf
  <2> QED BY <2>2, <2>4, <2>5, <2>6, <2>7
<1>9. \/ AliveSeats(g) = {} /\ r = FinishHand(g)
      \/ \E i \in DOMAIN g.seats : AliveSeats(g) = {i} /\ r = SingleWinner(g, i)
      \/ \E n \in Nat : r = [DealCommunity(g, n) EXCEPT !.stage = "Showdown"]
      \/ r = g /\ TwoAlive(g) /\ \E i \in DOMAIN g.seats : Live(g.seats[i])
  BY ResolveCases
<1>10. ASSUME ShowdownOf(g, r), PlayOn(g) = r
       PROVE  \E scores \in Scores : h = FinishHand(DistributePots(CollectBetsToSidePots(r), scores))
  BY <1>1, <1>10 DEF ShowdownOf
<1> HIDE DEF r
<1> QED BY <1>5, <1>6, <1>7, <1>8, <1>9, <1>10 DEF c

-----------------------------------------------------------------------------
(* What the seat that acts does.                                            *)

\* The seat at i pays, and no other seat, pot or card is touched; what is to call
\* afterwards is what was to call or what the seat has in.
Acted(g, h, i, pay) ==
  /\ h \in HandTable /\ h.stage = g.stage
  /\ SameHands(g, h) /\ h.actingIndex = g.actingIndex /\ SameBlinds(g, h)
  /\ h.sidePots = g.sidePots /\ h.community = g.community /\ h.deck = g.deck
  /\ i \in DOMAIN g.seats /\ g.seats[i].inHand /\ pay \in 0 .. g.seats[i].chips
  /\ h.seats[i].chips = g.seats[i].chips - pay
  /\ h.seats[i].currentBet = g.seats[i].currentBet + pay
  /\ h.seats[i].totalBetThisHand = g.seats[i].totalBetThisHand + pay
  /\ \A j \in DOMAIN g.seats : j # i =>
       \E b \in BOOLEAN : h.seats[j] = [g.seats[j] EXCEPT !.actedThisRound = b]
  /\ h.lastBet >= g.lastBet
  /\ g.seats[i].currentBet <= g.lastBet => h.seats[i].currentBet <= h.lastBet
  /\ h.lastBet \in {g.lastBet, h.seats[i].currentBet}
  /\ SameResult(g, h)
  /\ h.seats[i].folded => /\ h.lastAction.playerId = g.seats[i].playerId
                          /\ h.lastAction.action = "Fold"

\* What is to call after an action.
LEMMA LastBetAfterBounds ==
  ASSUME NEW g \in HandTable, NEW s \in Seat, NEW action \in Actions,
         NEW total \in Nat, total - s.currentBet \in 0..s.chips,
         action = "CheckCall" => total = CallTo(g, s),
         action = "Fold" => total = s.currentBet
  PROVE  LET last == LastBetAfter(g, action, total)
         IN  /\ last >= g.lastBet /\ last \in {g.lastBet, total}
             /\ s.currentBet <= g.lastBet => total <= last
<1>1. g.lastBet \in Nat /\ s.currentBet \in Nat /\ s.chips \in Nat
  BY DEF HandTable, Table, Seat
<1>2. CASE action \in {"Bet", "Raise", "AllIn"}
  <2>1. LastBetAfter(g, action, total) = IF g.lastBet >= total THEN g.lastBet ELSE total
    BY <1>1, <1>2, MaxOfTwo DEF LastBetAfter
  <2> QED BY <1>1, <2>1
<1>3. CASE action = "CheckCall"
  <2>1. LastBetAfter(g, action, total) = g.lastBet
    BY <1>3 DEF LastBetAfter
  <2> DEFINE toCall == Max({0, g.lastBet - s.currentBet})
  <2>2. toCall \in Nat /\ (s.currentBet <= g.lastBet => s.currentBet + toCall <= g.lastBet)
    <3>1. g.lastBet - s.currentBet \in Int
      BY <1>1
    <3>2. toCall = IF 0 >= g.lastBet - s.currentBet THEN 0 ELSE g.lastBet - s.currentBet
      BY <3>1, MaxOfTwo
    <3> HIDE DEF toCall
    <3> QED BY <1>1, <3>2
  <2> HIDE DEF toCall
  <2>3. Min({s.chips, toCall}) <= toCall /\ Min({s.chips, toCall}) \in Int
    BY <1>1, <2>2, MinOfTwo
  <2>4. total = s.currentBet + Min({s.chips, toCall})
    BY <1>3 DEF CallTo, toCall
  <2>5. s.currentBet <= g.lastBet => total <= g.lastBet
    BY <1>1, <2>2, <2>3, <2>4
  <2> QED BY <1>1, <2>1, <2>5
<1>4. CASE action = "Fold"
  <2>1. LastBetAfter(g, action, total) = g.lastBet
    BY <1>4 DEF LastBetAfter
  <2> QED BY <1>1, <1>4, <2>1
<1> QED BY <1>2, <1>3, <1>4 DEF Actions

\* What Played assigns.
LEMMA PlayedIs ==
  ASSUME NEW g \in HandTable, g.actingIndex \in Positions(g),
         NEW action \in Actions, NEW amount \in Int,
         CanAct(At(g, g.actingIndex)),
         Legal(g, At(g, g.actingIndex), action, amount)
  PROVE  LET i == g.actingIndex + 1
             s == g.seats[i]
             total == TotalBet(g, s, action, amount)
             h == Played(g, action, amount)
         IN  /\ h \in HandTable /\ h.stage = g.stage
             /\ i \in DOMAIN g.seats /\ s \in SoundSeat /\ s.inHand
             /\ total \in Nat /\ total - s.currentBet \in 0..s.chips
             /\ Len(h.seats) = Len(g.seats) /\ DOMAIN h.seats = DOMAIN g.seats
             /\ h.seats[i] = Moved(s, action, total)
             /\ \A j \in DOMAIN g.seats : j # i =>
                  h.seats[j] = Reopened(g.seats[j], Reopens(g, action, total))
             /\ h.lastBet = LastBetAfter(g, action, total)
             /\ h.actingIndex = g.actingIndex /\ h.dealerIndex = g.dealerIndex
             /\ SameBlinds(g, h) /\ h.sidePots = g.sidePots
             /\ h.community = g.community /\ h.deck = g.deck /\ SameResult(g, h)
             /\ h.lastAction.playerId = s.playerId /\ h.lastAction.action = action
<1> DEFINE i == g.actingIndex + 1
           s == g.seats[i]
           total == TotalBet(g, s, action, amount)
           raised == Reopens(g, action, total)
           pay == total - s.currentBet
           f == [j \in DOMAIN g.seats |-> IF j = i THEN Moved(s, action, total)
                                          ELSE Reopened(g.seats[j], raised)]
           last == LastBetAfter(g, action, total)
           h == Played(g, action, amount)
<1>1. /\ g.seats \in Seq(SoundSeat) /\ g \in Table
      /\ \A j \in DOMAIN g.seats : g.seats[j] \in SoundSeat
      /\ i \in DOMAIN g.seats /\ s = At(g, g.actingIndex)
  BY SeatsAre DEF HandTable, At
<1>2. s \in SoundSeat /\ s \in Seat /\ s.inHand
  BY <1>1 DEF SoundSeat, CanAct
<1>3. total \in Nat /\ pay \in 0..s.chips
  BY <1>1, <1>2, PayBounds
<1>5. h \in HandTable /\ h.stage = g.stage
  BY PlayedHand
<1> HIDE DEF total, raised
<1>6. Vector(f) = f /\ Len(f) = Len(g.seats) /\ DOMAIN f = DOMAIN g.seats
  <2>1. Moved(s, action, total) \in SoundSeat
    BY <1>2, <1>3, MovedSound
  <2>2. \A j \in DOMAIN g.seats : Reopened(g.seats[j], raised) \in SoundSeat
    BY <1>1, ReopenedSound
  <2>3. \A j \in DOMAIN g.seats : f[j] \in SoundSeat
    <3> HIDE DEF s, i
    <3> QED BY <2>1, <2>2
  <2>4. f = [j \in DOMAIN g.seats |-> f[j]] /\ DOMAIN f = DOMAIN g.seats
    OBVIOUS
  <2> HIDE DEF f
  <2> QED BY <1>1, <2>3, <2>4, SeatLoop, ZenonT(60)
<1>7. /\ h.seats = f /\ h.lastBet = last
      /\ h.actingIndex = g.actingIndex /\ h.dealerIndex = g.dealerIndex
      /\ SameBlinds(g, h) /\ h.sidePots = g.sidePots
      /\ h.community = g.community /\ h.deck = g.deck /\ SameResult(g, h)
      /\ h.lastAction.playerId = s.playerId /\ h.lastAction.action = action
  <2> DEFINE r == [g EXCEPT !.seats = f, !.lastBet = last,
                            !.lastRaise = LastRaiseAfter(g, action, total)]
  <2>1. h = RecordLastAction(r, s.playerId, action, total - s.currentBet)
    BY <1>6 DEF Played, total, raised
  <2>2. /\ r.seats = f /\ r.lastBet = last
        /\ r.actingIndex = g.actingIndex /\ r.dealerIndex = g.dealerIndex
        /\ SameBlinds(g, r) /\ r.sidePots = g.sidePots
        /\ r.community = g.community /\ r.deck = g.deck /\ SameResult(g, r)
        /\ DOMAIN r = DOMAIN g
    <3> HIDE DEF f, last
    <3> QED BY <1>1 DEF Table, SameBlinds, SameResult
  <2> HIDE DEF r, f, last, h
  <2>3. "lastAction" \in DOMAIN r
    BY <1>1, <2>2 DEF Table
  <2> QED BY <2>1, <2>2, <2>3 DEF RecordLastAction, SameBlinds, SameResult
<1>8. /\ h.seats[i] = Moved(s, action, total)
      /\ \A j \in DOMAIN g.seats : j # i => h.seats[j] = Reopened(g.seats[j], raised)
  <2> HIDE DEF h, i, s
  <2> QED BY <1>1, <1>7
<1> HIDE DEF f, last, h, i, s, pay
<1>9. total \in Nat /\ total - s.currentBet \in 0..s.chips
  BY <1>3 DEF pay
<1>10. Len(h.seats) = Len(g.seats) /\ DOMAIN h.seats = DOMAIN g.seats
  BY <1>6, <1>7
<1> QED BY <1>1, <1>2, <1>5, <1>7, <1>8, <1>9, <1>10 DEF h, i, s, total, raised, last

\* A legal action is such a payment.
LEMMA PlayedActs ==
  ASSUME NEW g \in HandTable, g.actingIndex \in Positions(g),
         NEW action \in Actions, NEW amount \in Int,
         CanAct(At(g, g.actingIndex)),
         Legal(g, At(g, g.actingIndex), action, amount)
  PROVE  \E pay : Acted(g, Played(g, action, amount), g.actingIndex + 1, pay)
<1> DEFINE i == g.actingIndex + 1
           s == g.seats[i]
           total == TotalBet(g, s, action, amount)
           raised == Reopens(g, action, total)
           pay == total - s.currentBet
           last == LastBetAfter(g, action, total)
           h == Played(g, action, amount)
<1>1. /\ g.seats \in Seq(SoundSeat) /\ g \in Table
      /\ \A j \in DOMAIN g.seats : g.seats[j] \in SoundSeat
      /\ i \in DOMAIN g.seats /\ s = At(g, g.actingIndex)
  BY SeatsAre DEF HandTable, At
<1>2. s \in SoundSeat /\ s \in Seat /\ s.inHand
  BY <1>1 DEF SoundSeat, CanAct
<1>3. total \in Nat /\ pay \in 0..s.chips
  BY <1>1, <1>2, PayBounds
<1>4. /\ last >= g.lastBet /\ last \in {g.lastBet, total}
      /\ s.currentBet <= g.lastBet => total <= last
  <2>1. /\ action = "CheckCall" => total = CallTo(g, s)
        /\ action = "Fold" => total = s.currentBet
    BY DEF TotalBet
  <2> HIDE DEF total, s, i
  <2> QED BY <1>2, <1>3, <2>1, LastBetAfterBounds DEF pay
<1>5. h \in HandTable /\ h.stage = g.stage
  BY PlayedHand
<1>7. /\ Len(h.seats) = Len(g.seats) /\ DOMAIN h.seats = DOMAIN g.seats
      /\ h.lastBet = last
      /\ h.actingIndex = g.actingIndex /\ h.dealerIndex = g.dealerIndex
      /\ SameBlinds(g, h) /\ h.sidePots = g.sidePots
      /\ h.community = g.community /\ h.deck = g.deck /\ SameResult(g, h)
      /\ h.lastAction.playerId = s.playerId /\ h.lastAction.action = action
  BY PlayedIs
<1>8. /\ h.seats[i] = Moved(s, action, total)
      /\ \A j \in DOMAIN g.seats : j # i => h.seats[j] = Reopened(g.seats[j], raised)
  BY PlayedIs
<1> HIDE DEF total, raised, last, h
<1>9. \A j \in DOMAIN g.seats : j # i =>
        \E b \in BOOLEAN : h.seats[j] = [g.seats[j] EXCEPT !.actedThisRound = b]
  <2>1. \A t \in SoundSeat : \E b \in BOOLEAN :
          Reopened(t, raised) = [t EXCEPT !.actedThisRound = b]
    BY DEF Reopened
  <2> QED BY <1>1, <1>8, <2>1
<1>10. LET t == h.seats[i]
       IN  /\ SameHand(s, t)
           /\ t.chips = s.chips - pay /\ t.currentBet = s.currentBet + pay
           /\ t.totalBetThisHand = s.totalBetThisHand + pay
           /\ t.folded <=> action = "Fold"
  <2> HIDE DEF i, s, pay
  <2> DEFINE t == PutIn(s, pay)
  <2>1. h.seats[i] = [t EXCEPT !.folded = action = "Fold", !.actedThisRound = TRUE]
    BY <1>8 DEF Moved, pay
  <2>2. /\ t.seatIndex = s.seatIndex /\ t.playerId = s.playerId /\ t.inHand = s.inHand
        /\ t.chips = s.chips - pay /\ t.currentBet = s.currentBet + pay
        /\ t.totalBetThisHand = s.totalBetThisHand + pay
        /\ DOMAIN t = DOMAIN s
    BY <1>2 DEF PutIn, Seat
  <2> HIDE DEF t
  <2> QED BY <1>2, <2>1, <2>2 DEF Seat, SameHand, SamePlace
<1>11. h.seats[i].currentBet = total
  <2>1. s.currentBet \in Nat
    BY <1>2 DEF Seat
  <2> HIDE DEF s, i
  <2> QED BY <1>3, <1>10, <2>1 DEF pay
<1>12. SameHands(g, h)
  <2>1. \A j \in DOMAIN g.seats : SameHand(g.seats[j], h.seats[j])
    <3>1. \A t \in SoundSeat, b \in BOOLEAN :
            SameHand(t, [t EXCEPT !.actedThisRound = b])
      BY DEF SoundSeat, Seat, SameHand, SamePlace
    <3>2. SameHand(g.seats[i], h.seats[i])
      BY <1>10
    <3>3. ASSUME NEW j \in DOMAIN g.seats, j # i
          PROVE  SameHand(g.seats[j], h.seats[j])
      <4>1. PICK b \in BOOLEAN : h.seats[j] = [g.seats[j] EXCEPT !.actedThisRound = b]
        BY <1>9, <3>3
      <4>2. g.seats[j] \in SoundSeat
        BY <1>1
      <4> QED BY <3>1, <4>1, <4>2
    <3> HIDE DEF i
    <3> QED BY <3>2, <3>3
  <2> QED BY <1>7, <2>1 DEF SameHands, SamePlaces, SameHand
<1>13. Acted(g, h, i, pay)
  <2> HIDE DEF i, pay, s
  <2> QED BY <1>1, <1>2, <1>3, <1>4, <1>5, <1>7, <1>9, <1>10, <1>11, <1>12 DEF Acted, s
<1> QED BY <1>13 DEF h

\* What AutoPlayed assigns.
LEMMA AutoPlayedIs ==
  ASSUME NEW g \in HandTable, g.actingIndex \in Positions(g),
         CanAct(At(g, g.actingIndex))
  PROVE  LET i == g.actingIndex + 1
             s == g.seats[i]
             folds == g.lastBet > s.currentBet
             h == AutoPlayed(g)
         IN  /\ h \in HandTable /\ h.stage = g.stage
             /\ i \in DOMAIN g.seats /\ s \in SoundSeat /\ s.inHand
             /\ Len(h.seats) = Len(g.seats) /\ DOMAIN h.seats = DOMAIN g.seats
             /\ h.seats[i] = [s EXCEPT !.folded = folds, !.actedThisRound = TRUE]
             /\ \A j \in DOMAIN g.seats : j # i => h.seats[j] = g.seats[j]
             /\ h.lastBet = g.lastBet
             /\ h.actingIndex = g.actingIndex /\ h.dealerIndex = g.dealerIndex
             /\ SameBlinds(g, h) /\ h.sidePots = g.sidePots
             /\ h.community = g.community /\ h.deck = g.deck /\ SameResult(g, h)
             /\ h.lastAction.playerId = s.playerId
             /\ h.lastAction.action = IF folds THEN "Fold" ELSE "CheckCall"
<1> DEFINE i == g.actingIndex + 1
           s == g.seats[i]
           folds == g.lastBet > s.currentBet
           t == [s EXCEPT !.folded = folds, !.actedThisRound = TRUE]
           q == [g.seats EXCEPT ![i] = t]
           r == [g EXCEPT !.seats = q]
           h == AutoPlayed(g)
<1>1. /\ g.seats \in Seq(SoundSeat) /\ g \in Table
      /\ \A j \in DOMAIN g.seats : g.seats[j] \in SoundSeat
      /\ i \in DOMAIN g.seats /\ s = At(g, g.actingIndex)
      /\ DOMAIN g.seats = 1..Len(g.seats)
  BY SeatsAre DEF HandTable, At
<1>2. s \in SoundSeat /\ s \in Seat /\ s.inHand
  BY <1>1 DEF SoundSeat, CanAct
<1>3. h \in HandTable /\ h.stage = g.stage
  BY AutoPlayedHand
<1>4. r = [g EXCEPT !.seats[i].folded = folds, !.seats[i].actedThisRound = TRUE]
  <2>1. [g.seats EXCEPT ![i].folded = folds, ![i].actedThisRound = TRUE] = q
    BY <1>1
  <2> QED BY <2>1
<1>5. h = RecordLastAction(r, s.playerId, IF folds THEN "Fold" ELSE "CheckCall", 0)
  <2> HIDE DEF r
  <2> QED BY <1>1, <1>4 DEF AutoPlayed
<1>6. /\ q[i] = t /\ \A j \in DOMAIN g.seats : j # i => q[j] = g.seats[j]
      /\ DOMAIN q = DOMAIN g.seats /\ Len(q) = Len(g.seats)
  <2>1. folds \in BOOLEAN
    <3> HIDE DEF s
    <3> QED OBVIOUS
  <2> HIDE DEF folds, s
  <2>2. t \in SoundSeat
    BY <1>2, <2>1 DEF SoundSeat, Seat
  <2> HIDE DEF t, i
  <2> QED BY <1>1, <2>2, ExceptSeq
<1>7. /\ t.seatIndex = s.seatIndex /\ t.playerId = s.playerId /\ t.inHand = s.inHand
      /\ t.chips = s.chips /\ t.currentBet = s.currentBet
      /\ t.totalBetThisHand = s.totalBetThisHand /\ t.folded = folds
  <2> HIDE DEF folds, s
  <2> QED BY <1>2 DEF Seat
<1> HIDE DEF t, q
<1>8. /\ h.seats = q /\ h.lastBet = g.lastBet
      /\ h.actingIndex = g.actingIndex /\ h.dealerIndex = g.dealerIndex
      /\ SameBlinds(g, h) /\ h.sidePots = g.sidePots
      /\ h.community = g.community /\ h.deck = g.deck /\ SameResult(g, h)
      /\ h.lastAction.playerId = s.playerId
      /\ h.lastAction.action = IF folds THEN "Fold" ELSE "CheckCall"
  <2>1. /\ r.seats = q /\ r.lastBet = g.lastBet
        /\ r.actingIndex = g.actingIndex /\ r.dealerIndex = g.dealerIndex
        /\ SameBlinds(g, r) /\ r.sidePots = g.sidePots
        /\ r.community = g.community /\ r.deck = g.deck /\ SameResult(g, r)
        /\ DOMAIN r = DOMAIN g
    BY <1>1 DEF Table, SameBlinds, SameResult
  <2> HIDE DEF r, h, folds
  <2>2. "lastAction" \in DOMAIN r
    BY <1>1, <2>1 DEF Table
  <2> QED BY <1>5, <2>1, <2>2 DEF RecordLastAction, SameBlinds, SameResult
<1> HIDE DEF h, r, folds
<1>9. /\ h.seats[i] = t /\ Len(h.seats) = Len(g.seats) /\ DOMAIN h.seats = DOMAIN g.seats
      /\ \A j \in DOMAIN g.seats : j # i => h.seats[j] = g.seats[j]
  BY <1>6, <1>8
<1> HIDE DEF h, r, folds, i, s
<1> QED BY <1>1, <1>2, <1>3, <1>8, <1>9 DEF t, h, i, s, folds

\* A seat that plays itself acts and pays nothing.
LEMMA AutoPlayedActs ==
  ASSUME NEW g \in HandTable, g.actingIndex \in Positions(g),
         CanAct(At(g, g.actingIndex))
  PROVE  Acted(g, AutoPlayed(g), g.actingIndex + 1, 0)
<1> DEFINE i == g.actingIndex + 1
           s == g.seats[i]
           folds == g.lastBet > s.currentBet
           t == [s EXCEPT !.folded = folds, !.actedThisRound = TRUE]
           h == AutoPlayed(g)
<1>1. /\ g.seats \in Seq(SoundSeat) /\ g \in Table
      /\ \A j \in DOMAIN g.seats : g.seats[j] \in SoundSeat
      /\ i \in DOMAIN g.seats /\ s = At(g, g.actingIndex)
  BY SeatsAre DEF HandTable, At
<1>2. s \in SoundSeat /\ s \in Seat /\ s.inHand
  BY <1>1, SMTT(30) DEF SoundSeat, CanAct
<1>3. h \in HandTable /\ h.stage = g.stage
  BY AutoPlayedHand
<1>6. /\ h.seats[i] = t /\ \A j \in DOMAIN g.seats : j # i => h.seats[j] = g.seats[j]
      /\ Len(h.seats) = Len(g.seats) /\ DOMAIN h.seats = DOMAIN g.seats
  BY AutoPlayedIs, ZenonT(60)
<1>7. /\ t.seatIndex = s.seatIndex /\ t.playerId = s.playerId /\ t.inHand = s.inHand
      /\ t.chips = s.chips /\ t.currentBet = s.currentBet
      /\ t.totalBetThisHand = s.totalBetThisHand /\ t.folded = folds
  <2> HIDE DEF folds, s
  <2> QED BY <1>2 DEF Seat
<1> HIDE DEF t
<1>8. /\ h.lastBet = g.lastBet
      /\ h.actingIndex = g.actingIndex /\ h.dealerIndex = g.dealerIndex
      /\ SameBlinds(g, h) /\ h.sidePots = g.sidePots
      /\ h.community = g.community /\ h.deck = g.deck /\ SameResult(g, h)
      /\ h.lastAction.playerId = s.playerId
      /\ h.lastAction.action = IF folds THEN "Fold" ELSE "CheckCall"
  BY AutoPlayedIs
<1> HIDE DEF h, folds
<1>9. s.chips \in Nat /\ s.currentBet \in Nat /\ s.totalBetThisHand \in Nat
      /\ g.lastBet \in Nat
  BY <1>1, <1>2 DEF Seat, Table
<1>10. \A j \in DOMAIN g.seats : j # i =>
         \E b \in BOOLEAN : h.seats[j] = [g.seats[j] EXCEPT !.actedThisRound = b]
  <2>1. \A u \in SoundSeat : u.actedThisRound \in BOOLEAN
                             /\ u = [u EXCEPT !.actedThisRound = u.actedThisRound]
    BY DEF SoundSeat, Seat
  <2> QED BY <1>1, <1>6, <2>1
<1>11. SameHands(g, h)
  <2>1. \A j \in DOMAIN g.seats : SameHand(g.seats[j], h.seats[j])
    BY <1>6, <1>7, <1>8 DEF SameHand, SamePlace
  <2> QED BY <1>6, <1>8, <2>1 DEF SameHands, SamePlaces, SameHand
<1>12. Acted(g, h, i, 0)
  <2> HIDE DEF i, s
  <2>1. 0 \in 0..s.chips /\ s.chips - 0 = s.chips /\ s.currentBet + 0 = s.currentBet
        /\ s.totalBetThisHand + 0 = s.totalBetThisHand /\ g.lastBet >= g.lastBet
    BY <1>9
  <2> QED BY <1>1, <1>2, <1>3, <1>6, <1>7, <1>8, <1>10, <1>11, <2>1 DEF Acted, s
<1> QED BY <1>12 DEF h

\* The last one alive gets what is on the table, and the hand is over.
LEMMA SingleWinnerIs ==
  ASSUME NEW g \in HandTable, NEW i \in DOMAIN g.seats
  PROVE  LET h == SingleWinner(g, i)
             c == CollectBetsToSidePots(g)
         IN  /\ SamePlaces(g, h) /\ h.stage = "Waiting" /\ h.sidePots = <<>>
             /\ h.actingIndex = g.actingIndex /\ SameBlinds(g, h)
             /\ \A j \in DOMAIN g.seats :
                  h.seats[j].chips = g.seats[j].chips + IF j = i THEN GetTotalPot(c) ELSE 0
<1> DEFINE c == CollectBetsToSidePots(g)
           pot == GetTotalPot(c)
           w == [j \in DOMAIN c.seats |-> IF c.seats[j].seatIndex = i - 1 THEN pot ELSE 0]
           t == [c.seats[i] EXCEPT !.chips = @ + pot]
           q == [c.seats EXCEPT ![i] = t]
           result == HandResult(c, FALSE, pot, w)
           r == [c EXCEPT !.seats = q, !.lastHandResult = result,
                          !.hasPendingHandResult = TRUE]
<1>1. c \in HandTable /\ Len(c.seats) = Len(g.seats) /\ DOMAIN c.seats = DOMAIN g.seats
      /\ SameBlinds(g, c) /\ c.dealerIndex = g.dealerIndex /\ c.actingIndex = g.actingIndex
  BY CollectIs
<1>2. \A j \in DOMAIN g.seats :
        SamePlace(g.seats[j], c.seats[j]) /\ c.seats[j].chips = g.seats[j].chips
  <2>1. \A j \in DOMAIN g.seats : g.seats[j] \in Seat
    <3>1. g.seats \in Seq(Seat)
      BY DEF HandTable, Table
    <3> QED BY <3>1, SeatsAre
  <2>2. \A s \in Seat : LET z == [s EXCEPT !.currentBet = 0]
                        IN  SamePlace(s, z) /\ z.chips = s.chips
    BY DEF Seat, SamePlace
  <2>3. \/ c = g
        \/ \A j \in DOMAIN g.seats : c.seats[j] = [g.seats[j] EXCEPT !.currentBet = 0]
    BY CollectIs
  <2> HIDE DEF c
  <2> QED BY <2>1, <2>2, <2>3 DEF SamePlace
<1>3. SingleWinner(g, i) = FinishHand(r)
  <2>1. r = [c EXCEPT !.seats[i].chips = @ + pot, !.lastHandResult = result,
                      !.hasPendingHandResult = TRUE]
    OBVIOUS
  <2> HIDE DEF r
  <2> QED BY <2>1 DEF SingleWinner
<1> HIDE DEF c
<1>4. c \in Table /\ c.seats \in Seq(Seat) /\ c.seats[i] \in Seat /\ pot \in Nat
  <2>1. c \in Table
    BY <1>1 DEF HandTable
  <2>2. c.seats \in Seq(Seat)
    BY <2>1 DEF Table
  <2> QED BY <1>1, <2>1, <2>2, SeatsAre, TotalPotType
<1>5. /\ t \in Seat /\ SamePlace(c.seats[i], t)
      /\ t.chips = c.seats[i].chips + pot
  <2> DEFINE s == c.seats[i]
  <2>1. s \in Seat /\ s.chips \in Nat
    BY <1>4 DEF Seat
  <2> HIDE DEF s, pot
  <2>2. s.chips + pot \in Nat
    BY <1>4, <2>1
  <2>3. t = [s EXCEPT !.chips = s.chips + pot]
    BY DEF s
  <2> QED BY <2>1, <2>2, <2>3 DEF Seat, SamePlace, s
<1> HIDE DEF t
<1>6. /\ q \in Seq(Seat) /\ Len(q) = Len(c.seats) /\ DOMAIN q = DOMAIN c.seats
      /\ q[i] = t /\ \A j \in DOMAIN c.seats : j # i => q[j] = c.seats[j]
  <2>1. i \in 1..Len(c.seats) /\ DOMAIN c.seats = 1..Len(c.seats)
    BY <1>1, <1>4, SeatsAre
  <2> QED BY <1>4, <1>5, <2>1, ExceptSeq
<1> HIDE DEF q
<1>7. result \in Result
  <2>1. \A j \in DOMAIN c.seats : w[j] \in Nat
    BY <1>4
  <2> HIDE DEF w, pot
  <2> QED BY <1>4, <2>1, HandResultType
<1> HIDE DEF result
<1>8. r \in Table
  BY <1>4, <1>6, <1>7, Zenon DEF Table
<1>9. r.seats = q /\ r.dealerIndex = c.dealerIndex /\ r.actingIndex = c.actingIndex
      /\ SameBlinds(c, r)
  BY <1>4 DEF Table, SameBlinds
<1> HIDE DEF r
<1> DEFINE h == FinishHand(r)
<1>10. /\ Len(h.seats) = Len(q) /\ DOMAIN h.seats = DOMAIN q
       /\ \A j \in DOMAIN q : h.seats[j] = ClearedSeat(q[j])
       /\ h.stage = "Waiting" /\ h.sidePots = <<>>
       /\ h.dealerIndex = r.dealerIndex /\ h.actingIndex = r.actingIndex
       /\ SameBlinds(r, h)
  BY <1>8, <1>9, FinishHandIs
<1>11. h = SingleWinner(g, i)
  BY <1>3
<1> HIDE DEF h
<1>12. \A s \in Seat : SamePlace(s, ClearedSeat(s)) /\ ClearedSeat(s).chips = s.chips
  BY DEF Seat, SamePlace, ClearedSeat
<1>13. \A j \in DOMAIN q : SamePlace(q[j], h.seats[j]) /\ h.seats[j].chips = q[j].chips
  <2>1. \A j \in DOMAIN q : q[j] \in Seat
    BY <1>4, <1>5, <1>6, SeatsAre
  <2> QED BY <1>10, <1>12, <2>1
<1>14. \A j \in DOMAIN g.seats :
         /\ SamePlace(g.seats[j], h.seats[j])
         /\ h.seats[j].chips = g.seats[j].chips + IF j = i THEN pot ELSE 0
  <2> SUFFICES ASSUME NEW j \in DOMAIN g.seats
               PROVE  /\ SamePlace(g.seats[j], h.seats[j])
                      /\ h.seats[j].chips = g.seats[j].chips + IF j = i THEN pot ELSE 0
    OBVIOUS
  <2>1. c.seats[j] \in Seat /\ c.seats[j].chips \in Nat
    <3>1. c.seats[j] \in Seat
      BY <1>1, <1>4, SeatsAre
    <3> QED BY <3>1 DEF Seat
  <2> HIDE DEF pot
  <2> QED BY <1>1, <1>2, <1>5, <1>6, <1>13, <2>1 DEF SamePlace
<1>15. SamePlaces(g, h)
  BY <1>1, <1>6, <1>9, <1>10, <1>14 DEF SamePlaces
<1>16. SameBlinds(g, h) /\ h.actingIndex = g.actingIndex
  BY <1>1, <1>9, <1>10 DEF SameBlinds
<1> QED BY <1>10, <1>11, <1>14, <1>15, <1>16 DEF c

-----------------------------------------------------------------------------
(* How a hand begins.                                                       *)

\* Walking on from a seat, every other seat comes before that one.
LEMMA FirstFromOther ==
  ASSUME NEW R, NEW g, g.seats \in Seq(R), NEW S \in SUBSET Positions(g),
         NEW s \in Positions(g), NEW t \in S, t # s
  PROVE  FirstFrom(g, s + 1, S) \in S /\ FirstFrom(g, s + 1, S) # s
<1> DEFINE N == Len(g.seats)
           k == FirstFrom(g, s + 1, S)
           d(i) == (i - (s + 1)) % N
<1>1. N \in Nat /\ Positions(g) = 0..N - 1
  BY SeatsAre DEF Positions
<1>2. s \in Nat /\ s < N /\ t \in Nat /\ t < N /\ N \in Nat \ {0} /\ s + 1 \in Nat
  <2>1. s \in 0..N - 1 /\ t \in 0..N - 1
    BY <1>1
  <2> HIDE DEF N
  <2> QED BY <1>1, <2>1
<1>3. k \in S
  <2> HIDE DEF k, N
  <2> QED BY <1>2, FirstFromIn DEF k
<1> HIDE DEF N
<1>4. d(t) < N - 1
  <2> DEFINE a == t - (s + 1)
  <2>1. a \in Int /\ a < N - 1 /\ a >= -N /\ a # -1
    BY <1>2
  <2> HIDE DEF a
  <2>2. CASE a >= 0
    <3>1. a % N = a
      BY <1>2, <2>1, <2>2
    <3> QED BY <2>1, <3>1 DEF a
  <2>3. CASE a < 0
    <3>1. a % N = a + N
      BY <1>2, <2>1, <2>3
    <3>2. a + N < N - 1
      BY <1>2, <2>1, <2>3
    <3> QED BY <3>1, <3>2 DEF a
  <2> QED BY <2>1, <2>2, <2>3
<1>5. d(s) = N - 1
  <2>1. s - (s + 1) = -1
    BY <1>2
  <2>2. (-1) % N = -1 + N
    BY <1>2
  <2> QED BY <1>2, <2>1, <2>2
<1>6. k # s
  <2>1. SUFFICES ASSUME k = s PROVE FALSE
    OBVIOUS
  <2>2. PICK m \in S : \A j \in S : d(m) <= d(j)
    <3> DEFINE D == {d(i) : i \in S}
    <3>1. \A i \in S : i - (s + 1) \in Int
      BY <1>1, <1>2
    <3>2. \A i \in S : d(i) \in Nat
      BY <1>2, <3>1
    <3> HIDE DEF d
    <3>3. D \in SUBSET Nat /\ D # {}
      BY <3>2
    <3> HIDE DEF D
    <3>4. PICK n \in D : \A e \in D : n <= e
      BY <3>3, LeastNat
    <3> QED BY <3>4 DEF D
  <2>3. \A j \in S : d(k) <= d(j)
    <3>1. k = CHOOSE i \in S : \A j \in S : d(i) <= d(j)
      BY DEF FirstFrom, N
    <3> HIDE DEF d, k
    <3> QED BY <2>2, <3>1
  <2>4. d(s) <= d(t)
    <3> HIDE DEF d, k
    <3> QED BY <2>1, <2>3
  <2>5. d(t) \in Int
    <3>1. t - (s + 1) \in Int
      BY <1>2
    <3> QED BY <1>2, <3>1
  <2> HIDE DEF d
  <2> QED BY <1>2, <1>4, <1>5, <2>4, <2>5
<1> QED BY <1>3, <1>6

\* How far from the turn at index a the i-th of N seats is, the seat at a being the
\* first.
RankFrom(a, N, i) == IF i > a THEN i - a ELSE i - a + N

\* The i-th seat has its turn before the j-th.
Before(g, i, j) ==
  RankFrom(g.actingIndex, Len(g.seats), i) < RankFrom(g.actingIndex, Len(g.seats), j)

\* The walk of FirstFrom meets the seats in this order, and the seat before its start
\* last.
LEMMA WalkOrder ==
  ASSUME NEW N \in Nat, NEW a \in 0..N - 1, NEW m \in 0..N - 1, m # a
  PROVE  /\ RankFrom(a, N, m + 1) \in 2..N
         /\ (m - (a + 1)) % N = RankFrom(a, N, m + 1) - 2
<1> DEFINE b == m - (a + 1)
<1>1. N > 0 /\ b \in Int /\ b < N /\ b >= -N /\ b # -1
  OBVIOUS
<1> HIDE DEF b
<1>2. CASE b >= 0
  <2>1. b % N = b
    BY <1>1, <1>2
  <2>2. RankFrom(a, N, m + 1) = b + 2 /\ b + 2 \in 2..N
    BY <1>2 DEF RankFrom, b
  <2> QED BY <1>1, <2>1, <2>2 DEF b
<1>3. CASE b < 0
  <2>1. b % N = b + N
    BY <1>1, <1>3
  <2>2. RankFrom(a, N, m + 1) = b + N + 2 /\ b + N + 2 \in 2..N
    BY <1>3, <1>1 DEF RankFrom, b
  <2> QED BY <1>1, <2>1, <2>2 DEF b
<1> QED BY <1>1, <1>2, <1>3

\* The turn passes from a to k: whoever is not before k stays in the order they were,
\* and a comes last.
LEMMA TurnOrder ==
  ASSUME NEW N \in Nat, NEW a \in 0..N - 1, NEW k \in 0..N - 1, k # a
  PROVE  /\ RankFrom(k, N, a + 1) = N + 2 - RankFrom(a, N, k + 1)
         /\ \A m \in 0..N - 1 :
              m # a /\ RankFrom(a, N, k + 1) <= RankFrom(a, N, m + 1)
              => RankFrom(k, N, m + 1) = RankFrom(a, N, m + 1) + 1 - RankFrom(a, N, k + 1)
BY DEF RankFrom

\* The first of the positions in S that the walk from a meets.
FirstAfter(g, a, S, k) ==
  /\ k \in S
  /\ \A m \in S \ {a} : RankFrom(a, Len(g.seats), k + 1) <= RankFrom(a, Len(g.seats), m + 1)

\* FirstFrom finds it when there is one that is not a.
LEMMA FirstFromIsFirst ==
  ASSUME NEW R, NEW g, g.seats \in Seq(R), NEW S \in SUBSET Positions(g),
         NEW a \in Positions(g), NEW t \in S, t # a
  PROVE  LET k == FirstFrom(g, a + 1, S)
         IN  k # a /\ FirstAfter(g, a, S, k)
<1> DEFINE N == Len(g.seats)
           k == FirstFrom(g, a + 1, S)
           d(i) == (i - (a + 1)) % N
<1>1. N \in Nat /\ Positions(g) = 0..N - 1
  BY SeatsAre DEF Positions
<1>2. k \in S /\ k # a
  BY FirstFromOther
<1>3. \A m \in S : d(k) <= d(m)
  <2>1. PICK m \in S : \A j \in S : d(m) <= d(j)
    <3> DEFINE D == {d(i) : i \in S}
    <3>1. N \in Nat \ {0} /\ \A i \in S : i - (a + 1) \in Int
      BY <1>1
    <3>2. \A i \in S : d(i) \in Nat
      <4> HIDE DEF N
      <4> QED BY <3>1
    <3> HIDE DEF d
    <3>3. D \in SUBSET Nat /\ D # {}
      BY <3>2
    <3> HIDE DEF D
    <3>4. PICK n \in D : \A e \in D : n <= e
      BY <3>3, LeastNat
    <3> QED BY <3>4 DEF D
  <2>2. k = CHOOSE i \in S : \A j \in S : d(i) <= d(j)
    BY DEF FirstFrom
  <2> HIDE DEF d, k
  <2> QED BY <2>1, <2>2
<1> HIDE DEF k, N
<1>4. ASSUME NEW m \in S \ {a} PROVE RankFrom(a, N, k + 1) <= RankFrom(a, N, m + 1)
  <2>1. d(k) <= d(m)
    BY <1>3
  <2>2. k \in 0..N - 1 /\ m \in 0..N - 1 /\ a \in 0..N - 1
    BY <1>1, <1>2
  <2>3. /\ RankFrom(a, N, k + 1) \in 2..N /\ d(k) = RankFrom(a, N, k + 1) - 2
        /\ RankFrom(a, N, m + 1) \in 2..N /\ d(m) = RankFrom(a, N, m + 1) - 2
    BY <1>1, <1>2, <2>2, WalkOrder
  <2> HIDE DEF d
  <2> QED BY <1>1, <2>1, <2>3
<1> QED BY <1>2, <1>4 DEF FirstAfter, N, k

\* What the order of turns becomes when the turn goes from a to the first of S.
LEMMA OrderAfter ==
  ASSUME NEW R, NEW g, g.seats \in Seq(R), NEW a \in Positions(g),
         NEW S \in SUBSET Positions(g), NEW k, k # a, FirstAfter(g, a, S, k),
         NEW h, Len(h.seats) = Len(g.seats), h.actingIndex = k
  PROVE  /\ \A m \in S \ {a} : Before(h, m + 1, a + 1)
         /\ \A m, n \in S \ {a} :
              RankFrom(a, Len(g.seats), m + 1) < RankFrom(a, Len(g.seats), n + 1)
              => Before(h, m + 1, n + 1)
<1> DEFINE N == Len(g.seats)
           p == RankFrom(a, N, k + 1)
<1>1. N \in Nat /\ Positions(g) = 0..N - 1
  BY SeatsAre DEF Positions
<1>2. k \in 0..N - 1 /\ a \in 0..N - 1 /\ S \subseteq 0..N - 1
  BY <1>1 DEF FirstAfter
<1>3. \A m \in S \ {a} : p <= RankFrom(a, N, m + 1)
  BY DEF FirstAfter
<1>4. \A i, j : Before(h, i, j) <=> RankFrom(k, N, i) < RankFrom(k, N, j)
  BY DEF Before
<1> HIDE DEF N
<1>5. p \in 2..N
  BY <1>1, <1>2, WalkOrder
<1>6. \A m \in S \ {a} : RankFrom(a, N, m + 1) \in 2..N
  BY <1>1, <1>2, WalkOrder
<1>7. /\ RankFrom(k, N, a + 1) = N + 2 - p
      /\ \A m \in S \ {a} : RankFrom(k, N, m + 1) = RankFrom(a, N, m + 1) + 1 - p
  BY <1>1, <1>2, <1>3, TurnOrder
<1> HIDE DEF p
<1>8. \A m \in S \ {a} : Before(h, m + 1, a + 1)
  BY <1>1, <1>4, <1>5, <1>6, <1>7
<1>9. ASSUME NEW m \in S \ {a}, NEW n \in S \ {a},
             RankFrom(a, N, m + 1) < RankFrom(a, N, n + 1)
      PROVE  Before(h, m + 1, n + 1)
  BY <1>1, <1>4, <1>5, <1>6, <1>7, <1>9
<1> QED BY <1>8, <1>9 DEF N

\* One seat pays a blind.
Posted(g, h, i, pay) ==
  /\ h \in HandTable
  /\ Len(h.seats) = Len(g.seats) /\ DOMAIN h.seats = DOMAIN g.seats
  /\ i \in DOMAIN g.seats /\ h.seats[i] = PutIn(g.seats[i], pay)
  /\ \A j \in DOMAIN g.seats : j # i => h.seats[j] = g.seats[j]
  /\ h.stage = g.stage /\ h.sidePots = g.sidePots /\ SameBlinds(g, h)
  /\ h.community = g.community /\ h.dealerIndex = g.dealerIndex
  /\ h.lastAction.amount = pay

\* Post takes a blind from one seat.
LEMMA PostIs ==
  ASSUME NEW g \in HandTable, NEW i \in Positions(g), NEW blind \in Nat
  PROVE  Posted(g, Post(g, i, blind), i + 1, Min({blind, g.seats[i + 1].chips}))
<1> DEFINE s == At(g, i)
           pay == Min({blind, s.chips})
           t == PutIn(s, pay)
           q == [g.seats EXCEPT ![i + 1] = t]
           r == [g EXCEPT !.seats = q]
           h == Post(g, i, blind)
<1>1. /\ g.seats \in Seq(SoundSeat) /\ g \in Table /\ i + 1 \in 1..Len(g.seats)
      /\ s = g.seats[i + 1] /\ s \in SoundSeat /\ DOMAIN g.seats = 1..Len(g.seats)
  BY SeatsAre DEF HandTable, At
<1>2. s.playerId \in Players /\ s.chips \in Nat
  BY <1>1 DEF SoundSeat, Seat
<1> HIDE DEF s
<1>3. pay \in 0..s.chips /\ pay \in Nat
  BY <1>2, MinOfTwo
<1> HIDE DEF pay
<1>4. t \in SoundSeat
  BY <1>1, <1>3, PutInSound
<1>5. h = RecordLastAction(r, s.playerId, "Bet", pay)
  <2>1. q = [g.seats EXCEPT ![i + 1] = PutIn(@, pay)]
    BY <1>1
  <2>2. r = [g EXCEPT !.seats[i + 1] = PutIn(@, pay)]
    BY <2>1
  <2> HIDE DEF r
  <2> QED BY <2>2 DEF Post, pay, s
<1> HIDE DEF t
<1>6. /\ q[i + 1] = t /\ \A j \in DOMAIN g.seats : j # i + 1 => q[j] = g.seats[j]
      /\ DOMAIN q = DOMAIN g.seats /\ Len(q) = Len(g.seats)
  BY <1>1, <1>4, ExceptSeq
<1> HIDE DEF q
<1>7. /\ h.seats = q /\ h.stage = g.stage /\ h.sidePots = g.sidePots
      /\ SameBlinds(g, h) /\ h.community = g.community
      /\ h.dealerIndex = g.dealerIndex /\ h.lastAction.amount = pay
  <2>1. /\ r.seats = q /\ r.stage = g.stage /\ r.sidePots = g.sidePots
        /\ SameBlinds(g, r) /\ r.community = g.community
        /\ r.dealerIndex = g.dealerIndex /\ "lastAction" \in DOMAIN r
    BY <1>1 DEF Table, SameBlinds
  <2> HIDE DEF r, h
  <2> QED BY <1>5, <2>1 DEF RecordLastAction, SameBlinds
<1>8. h \in HandTable
  BY PostHand
<1> HIDE DEF h, r
<1>9. i + 1 \in DOMAIN g.seats /\ g.seats[i + 1] = s
  BY <1>1
<1> QED BY <1>6, <1>7, <1>8, <1>9 DEF h, t, pay, Posted

\* DealtIn deals in the seats that can pay the big blind.
LEMMA DealtInIs ==
  ASSUME NEW g \in IdleTable, AreBlindsSet(g)
  PROVE  LET q == DealtIn(g)
         IN  /\ Len(q) = Len(g.seats) /\ DOMAIN q = DOMAIN g.seats
             /\ \A i \in DOMAIN g.seats :
                  LET s == g.seats[i]
                  IN  /\ SamePlace(s, q[i]) /\ q[i].chips = s.chips
                      /\ q[i].inHand = IsSeatActive(g, s)
                      /\ q[i].pendingLeave = s.pendingLeave
                      /\ q[i].currentBet = 0 /\ q[i].totalBetThisHand = 0
                      /\ ~q[i].folded /\ ~q[i].allIn
<1> DEFINE f == [i \in DOMAIN g.seats |->
                  [g.seats[i] EXCEPT
                     !.currentBet = 0, !.totalBetThisHand = 0,
                     !.inHand = IsSeatActive(g, g.seats[i]),
                     !.folded = FALSE, !.allIn = FALSE,
                     !.sittingOut = @ \/ (IsOccupied(g.seats[i])
                                            /\ g.seats[i].chips < g.bigBlind)]]
           q == DealtIn(g)
<1>1. g.seats \in Seq(IdleSeat) /\ q \in Seq(SoundSeat)
  BY DealtInSound DEF IdleTable
<1>2. q = Vector(f)
  BY DEF DealtIn
<1>3. /\ Len(q) = Len(g.seats) /\ DOMAIN q = DOMAIN g.seats
      /\ \A i \in DOMAIN g.seats : q[i] = f[i]
  <2>1. Vector(f) = f /\ Len(f) = Len(g.seats)
    <3>1. f = [i \in DOMAIN g.seats |-> f[i]]
      OBVIOUS
    <3> DEFINE Dealt == {f[j] : j \in DOMAIN g.seats}
    <3>2. \A i \in DOMAIN g.seats : f[i] \in Dealt
      OBVIOUS
    <3> HIDE DEF f, Dealt
    <3> QED BY <1>1, <3>1, <3>2, SeatLoop
  <2>2. DOMAIN f = DOMAIN g.seats
    OBVIOUS
  <2> HIDE DEF f
  <2> QED BY <1>2, <2>1, <2>2
<1> HIDE DEF q
<1>4. ASSUME NEW i \in DOMAIN g.seats
      PROVE  LET s == g.seats[i]
             IN  /\ SamePlace(s, q[i]) /\ q[i].chips = s.chips
                 /\ q[i].inHand = IsSeatActive(g, s)
                 /\ q[i].pendingLeave = s.pendingLeave
                 /\ q[i].currentBet = 0 /\ q[i].totalBetThisHand = 0
                 /\ ~q[i].folded /\ ~q[i].allIn
  <2> DEFINE s == g.seats[i]
             active == IsSeatActive(g, s)
             out == s.sittingOut \/ (IsOccupied(s) /\ s.chips < g.bigBlind)
  <2>1. q[i] = [s EXCEPT !.currentBet = 0, !.totalBetThisHand = 0, !.inHand = active,
                         !.folded = FALSE, !.allIn = FALSE, !.sittingOut = out]
    BY <1>3
  <2>2. s \in Seat
    <3>1. s \in IdleSeat
      BY <1>1, SeatsAre
    <3> HIDE DEF s
    <3> QED BY <3>1 DEF IdleSeat
  <2> HIDE DEF s, active, out
  <2>3. /\ SamePlace(s, q[i]) /\ q[i].chips = s.chips /\ q[i].inHand = active
        /\ q[i].pendingLeave = s.pendingLeave
        /\ q[i].currentBet = 0 /\ q[i].totalBetThisHand = 0
        /\ ~q[i].folded /\ ~q[i].allIn
    BY <2>1, <2>2 DEF Seat, SamePlace
  <2> QED BY <2>3, SMTT(30) DEF s, active
<1> HIDE DEF f
<1> QED BY <1>3, <1>4 DEF q

\* With a seat of the hand at x, a blind goes to a seat of the hand, and with x
\* elsewhere not to the seat before the walk.
LEMMA BlindSeat ==
  ASSUME NEW R, NEW g, g.seats \in Seq(R), NEW x \in Positions(g), At(g, x).inHand
  PROVE  /\ \A start \in Nat :
              LET k == FindNextValidBlindPosition(g, start)
              IN  k \in Positions(g) /\ At(g, k).inHand
         /\ \A s \in Positions(g) :
              x # s => FindNextValidBlindPosition(g, s + 1) # s
<1> DEFINE S == {i \in Positions(g) : At(g, i).inHand}
<1>1. S \in SUBSET Positions(g) /\ x \in S
  OBVIOUS
<1>2. \A start : FindNextValidBlindPosition(g, start) = FirstFrom(g, start, S)
  BY DEF FindNextValidBlindPosition
<1>3. \A i \in S : i \in Positions(g) /\ At(g, i).inHand
  OBVIOUS
<1> HIDE DEF S
<1>4. \A start \in Nat : FirstFrom(g, start, S) \in S
  BY <1>1, FirstFromIn
<1>5. \A s \in Positions(g) : x # s => FirstFrom(g, s + 1, S) # s
  BY <1>1, FirstFromOther
<1> QED BY <1>2, <1>3, <1>4, <1>5

\* Where StartHand finds the seat that posts the big blind.
BigBlindAt(g) ==
  FindNextValidBlindPosition(g, FindNextValidBlindPosition(g, g.dealerIndex + 1) + 1)

\* With two seats dealt in, two different seats post the blinds.
LEMMA PostBlindsIs ==
  ASSUME NEW g \in HandTable, g.dealerIndex \in Positions(g),
         NEW x \in Positions(g), NEW y \in Positions(g), x # y,
         At(g, x).inHand, At(g, y).inHand
  PROVE  LET h == PostBlinds(g)
         IN  /\ h \in HandTable
             /\ Len(h.seats) = Len(g.seats) /\ DOMAIN h.seats = DOMAIN g.seats
             /\ h.stage = g.stage /\ h.sidePots = g.sidePots /\ SameBlinds(g, h)
             /\ h.community = g.community /\ h.dealerIndex = g.dealerIndex
             /\ \E sb, bb \in DOMAIN g.seats :
                  /\ sb # bb /\ g.seats[sb].inHand /\ g.seats[bb].inHand
                  /\ h.seats[sb] = PutIn(g.seats[sb], Min({g.smallBlind, g.seats[sb].chips}))
                  /\ h.seats[bb] = PutIn(g.seats[bb], Min({g.bigBlind, g.seats[bb].chips}))
                  /\ \A i \in DOMAIN g.seats : i \notin {sb, bb} => h.seats[i] = g.seats[i]
                  /\ h.lastBet = Min({g.bigBlind, g.seats[bb].chips})
                  /\ bb = BigBlindAt(g) + 1
<1> DEFINE sb == FindNextValidBlindPosition(g, g.dealerIndex + 1)
           bb == FindNextValidBlindPosition(g, sb + 1)
           small == Post(g, sb, g.smallBlind)
           both == Post(small, bb, g.bigBlind)
           amount == both.lastAction.amount
           r == [both EXCEPT !.lastBet = amount, !.lastRaise = g.bigBlind]
           h == PostBlinds(g)
<1>1. g.seats \in Seq(Seat) /\ g.dealerIndex + 1 \in Nat
  <2>1. g \in Table
    BY DEF HandTable
  <2>2. g.dealerIndex \in Nat /\ g.seats \in Seq(Seat)
    BY <2>1 DEF Table
  <2> QED BY <2>2
<1>2. \A i \in Positions(g) : i \in Nat /\ i + 1 \in DOMAIN g.seats /\ At(g, i) = g.seats[i + 1]
  <2>1. Len(g.seats) \in Nat /\ DOMAIN g.seats = 1..Len(g.seats)
    BY <1>1, SeatsAre
  <2> QED BY <2>1 DEF Positions, At
<1>3. g.smallBlind \in Nat /\ g.bigBlind \in Nat
  <2>1. /\ g.bigBlind \in Int /\ g.bigBlind > 0
        /\ g.smallBlind \in Int /\ g.smallBlind > 0
    BY DEF HandTable, Table, AreBlindsSet
  <2> QED BY <2>1
<1>4. sb \in Positions(g) /\ At(g, sb).inHand
  BY <1>1, BlindSeat
<1> HIDE DEF sb
<1>5. bb \in Positions(g) /\ At(g, bb).inHand /\ bb # sb
  <2>1. sb + 1 \in Nat
    BY <1>2, <1>4
  <2>2. bb \in Positions(g) /\ At(g, bb).inHand
    BY <1>1, <2>1, BlindSeat
  <2>3. x # sb => bb # sb
    BY <1>1, <1>4, BlindSeat
  <2>4. y # sb => bb # sb
    BY <1>1, <1>4, BlindSeat
  <2> QED BY <2>2, <2>3, <2>4
<1> HIDE DEF bb
<1>6. h = r /\ bb = BigBlindAt(g)
  BY <1>4, <1>5 DEF PostBlinds, BigBlindAt, sb, bb
<1> HIDE DEF h
<1>7. Posted(g, small, sb + 1, Min({g.smallBlind, g.seats[sb + 1].chips}))
  BY <1>3, <1>4, PostIs
<1> HIDE DEF small
<1>8. small \in HandTable /\ bb \in Positions(small) /\ bb + 1 # sb + 1
  BY <1>2, <1>4, <1>5, <1>7 DEF Positions, Posted
<1>9. Posted(small, both, bb + 1, Min({g.bigBlind, small.seats[bb + 1].chips}))
  BY <1>3, <1>8, PostIs
<1> HIDE DEF both
<1>10. both \in Table /\ h \in HandTable
  BY <1>9, PostBlindsHand DEF HandTable, h, Posted
<1>11. /\ h.seats = both.seats /\ h.stage = both.stage /\ h.sidePots = both.sidePots
       /\ SameBlinds(both, h) /\ h.community = both.community
       /\ h.dealerIndex = both.dealerIndex /\ h.lastBet = amount
  <2> HIDE DEF amount
  <2> QED BY <1>6, <1>10 DEF Table, SameBlinds
<1> HIDE DEF amount, r
<1>12. small.seats[bb + 1] = g.seats[bb + 1]
  BY <1>7, <1>8, <1>9 DEF Posted
<1>13. /\ g.seats[sb + 1].inHand /\ g.seats[bb + 1].inHand
       /\ h.seats[sb + 1] = PutIn(g.seats[sb + 1], Min({g.smallBlind, g.seats[sb + 1].chips}))
       /\ h.seats[bb + 1] = PutIn(g.seats[bb + 1], Min({g.bigBlind, g.seats[bb + 1].chips}))
       /\ \A i \in DOMAIN g.seats : i \notin {sb + 1, bb + 1} => h.seats[i] = g.seats[i]
       /\ h.lastBet = Min({g.bigBlind, g.seats[bb + 1].chips})
  <2>1. g.seats[sb + 1].inHand /\ g.seats[bb + 1].inHand
    BY <1>2, <1>4, <1>5
  <2>2. h.seats[sb + 1] = small.seats[sb + 1]
    BY <1>7, <1>8, <1>9, <1>11 DEF Posted
  <2>3. h.seats[bb + 1] = PutIn(g.seats[bb + 1], Min({g.bigBlind, g.seats[bb + 1].chips}))
    BY <1>9, <1>11, <1>12 DEF Posted
  <2>4. \A i \in DOMAIN g.seats : i \notin {sb + 1, bb + 1} => h.seats[i] = g.seats[i]
    BY <1>7, <1>9, <1>11 DEF Posted
  <2>5. h.lastBet = Min({g.bigBlind, g.seats[bb + 1].chips})
    BY <1>9, <1>11, <1>12 DEF Posted, amount
  <2> QED BY <1>7, <2>1, <2>2, <2>3, <2>4, <2>5 DEF Posted
<1>14. /\ Len(h.seats) = Len(g.seats) /\ DOMAIN h.seats = DOMAIN g.seats
       /\ h.stage = g.stage /\ h.sidePots = g.sidePots /\ SameBlinds(g, h)
       /\ h.community = g.community /\ h.dealerIndex = g.dealerIndex
  BY <1>7, <1>9, <1>11 DEF SameBlinds, Posted
<1> QED BY <1>6, <1>7, <1>8, <1>9, <1>10, <1>13, <1>14 DEF h, Posted

\* Two tables with the same seats dealt in have the same blinds to post.
LEMMA SameBigBlind ==
  ASSUME NEW g, NEW h, Len(h.seats) = Len(g.seats), h.dealerIndex = g.dealerIndex,
         \A i \in Positions(g) : At(h, i).inHand = At(g, i).inHand
  PROVE  BigBlindAt(h) = BigBlindAt(g)
<1> DEFINE S == {i \in Positions(g) : At(g, i).inHand}
<1>1. {i \in Positions(h) : At(h, i).inHand} = S
  BY DEF Positions
<1>2. \A start : FindNextValidBlindPosition(h, start) = FindNextValidBlindPosition(g, start)
  <2> HIDE DEF S
  <2>1. \A start : FirstFrom(h, start, S) = FirstFrom(g, start, S)
    BY DEF FirstFrom
  <2> QED BY <1>1, <2>1 DEF FindNextValidBlindPosition, S
<1> QED BY <1>2 DEF BigBlindAt

\* The first turn is that of the first live seat after the big blind, which comes
\* last.
LEMMA FirstTurn ==
  ASSUME NEW g \in HandTable, BigBlindAt(g) \in Positions(g),
         NEW x \in DOMAIN g.seats, Live(g.seats[x]), x # BigBlindAt(g) + 1,
         NEW h, Len(h.seats) = Len(g.seats), h.actingIndex = FirstToAct(g),
         NEW k \in DOMAIN g.seats, Live(g.seats[k]), k # BigBlindAt(g) + 1
  PROVE  Before(h, k, BigBlindAt(g) + 1)
<1> DEFINE a == BigBlindAt(g)
           S == {i \in Positions(g) : Alive(At(g, i)) /\ ~At(g, i).allIn}
<1>1. g.seats \in Seq(Seat)
  BY DEF HandTable, Table
<1>2. Len(g.seats) \in Nat /\ DOMAIN g.seats = 1..Len(g.seats)
  BY <1>1, SeatsAre
<1>3. a \in Nat /\ a < Len(g.seats)
  BY <1>2 DEF Positions
<1>4. h.actingIndex = FirstFrom(g, a + 1, S)
  BY <1>3 DEF FirstToAct, NextActiveIndex, BigBlindAt
<1>5. /\ x - 1 \in Positions(g) /\ k - 1 \in Positions(g)
      /\ (x - 1) + 1 = x /\ (k - 1) + 1 = k
  BY <1>2 DEF Positions
<1>6. x - 1 \in S /\ k - 1 \in S
  BY <1>5 DEF At, Live
<1>7. S \in SUBSET Positions(g) /\ a \in Positions(g) /\ x - 1 # a /\ k - 1 # a
  BY <1>2, <1>3, <1>5
<1> HIDE DEF S, a
<1>8. h.actingIndex # a /\ FirstAfter(g, a, S, h.actingIndex)
  BY <1>1, <1>4, <1>6, <1>7, FirstFromIsFirst
<1>9. \A m \in S \ {a} : Before(h, m + 1, a + 1)
  BY <1>1, <1>7, <1>8, OrderAfter
<1>10. Before(h, (k - 1) + 1, a + 1)
  BY <1>6, <1>7, <1>9
<1> QED BY <1>5, <1>10 DEF a

\* The betting opens: nobody has acted, folded or left, everybody can pay the big
\* blind, and unless its seat is all-in it is the last to act.
Opens(h, bb) ==
  /\ \A i \in DealtSeats(h) :
       LET s == h.seats[i]
       IN  /\ ~s.pendingLeave /\ ~s.folded /\ ~s.actedThisRound
           /\ s.currentBet + s.chips >= h.lastBet
  /\ (\A i \in DealtSeats(h) : ~h.seats[i].allIn)
       => \A k \in DealtSeats(h) \ {bb} : Before(h, k, bb)

\* A hand has begun: two seats posted the blinds, and the turn is a live seat's.
Started(g, h) ==
  /\ h \in HandTable /\ h.stage = "PreFlop" /\ h.sidePots = <<>> /\ h.community = 0
  /\ Len(h.seats) = Len(g.seats) /\ DOMAIN h.seats = DOMAIN g.seats /\ SameBlinds(g, h)
  /\ h.dealerIndex \in Positions(h) /\ h.actingIndex \in 0 .. Len(h.seats)
  /\ h.deck = Max({0, DeckSize - 2 * Cardinality(DealtSeats(h))})
  /\ h.lastBet = h.bigBlind
  /\ \A i \in DOMAIN g.seats : SamePlace(g.seats[i], h.seats[i])
  /\ \E sb, bb \in DealtSeats(h) :
       /\ sb # bb
       /\ \A i \in DOMAIN g.seats :
            LET blind == IF i = sb THEN Min({h.smallBlind, g.seats[i].chips})
                         ELSE IF i = bb THEN h.bigBlind ELSE 0
            IN  /\ h.seats[i].chips = g.seats[i].chips - blind
                /\ h.seats[i].currentBet = blind /\ h.seats[i].totalBetThisHand = blind
       /\ Opens(h, bb)
  /\ h.smallBlind < h.bigBlind =>
       h.actingIndex \in Positions(h) /\ Live(At(h, h.actingIndex))

\* The table as StartHand deals it.
LEMMA DealtTable ==
  ASSUME NEW g \in IdleTable, AreBlindsSet(g)
  PROVE  LET d == [g EXCEPT !.stage = "PreFlop", !.community = 0,
                            !.sidePots = <<>>, !.seats = DealtIn(g)]
         IN  /\ d \in HandTable /\ d.seats = DealtIn(g) /\ d.stage = "PreFlop"
             /\ d.community = 0 /\ d.sidePots = <<>>
             /\ SameBlinds(g, d) /\ d.dealerIndex = g.dealerIndex
<1> DEFINE q == DealtIn(g)
           d == [g EXCEPT !.stage = "PreFlop", !.community = 0,
                          !.sidePots = <<>>, !.seats = q]
<1>1. q \in Seq(SoundSeat) /\ q \in Seq(Seat)
  BY DealtInSound, SoundSeqs
<1>2. <<>> \in Seq(Pot) /\ "PreFlop" \in Stages /\ 0 \in Nat
  BY EmptySeq DEF Stages
<1> HIDE DEF q
<1>3. d \in Table
  BY <1>1, <1>2, Zenon DEF IdleTable, Table
<1>4. /\ d.seats = q /\ d.stage = "PreFlop" /\ d.community = 0 /\ d.sidePots = <<>>
      /\ SameBlinds(g, d) /\ d.dealerIndex = g.dealerIndex
  BY DEF IdleTable, Table, SameBlinds
<1>5. d = [g EXCEPT !.stage = "PreFlop", !.community = 0,
                    !.sidePots = <<>>, !.seats = DealtIn(g)]
  BY DEF q
<1> HIDE DEF d
<1>6. d \in HandTable
  BY <1>1, <1>3, <1>4 DEF HandTable, AreBlindsSet, SameBlinds
<1> QED BY <1>4, <1>5, <1>6 DEF q

\* Two seats at least can pay the big blind.
LEMMA TwoActive ==
  ASSUME NEW g \in IdleTable, CanStart(g)
  PROVE  \E x, y \in DOMAIN g.seats :
           /\ x # y
           /\ IsSeatActive(g, g.seats[x]) /\ IsSeatActive(g, g.seats[y])
<1> DEFINE T == {i \in DOMAIN g.seats : IsSeatActive(g, g.seats[i])}
<1>1. Cardinality(T) >= 2
  BY DEF CanStart, ActiveSeatCount
<1>2. IsFiniteSet(T)
  <2>1. g.seats \in Seq(IdleSeat)
    BY DEF IdleTable
  <2>2. DOMAIN g.seats = 1..Len(g.seats) /\ Len(g.seats) \in Nat
    BY <2>1, SeatsAre
  <2>3. IsFiniteSet(DOMAIN g.seats)
    BY <2>2, FS_Interval
  <2>4. T \in SUBSET DOMAIN g.seats
    OBVIOUS
  <2> HIDE DEF T
  <2> QED BY <2>3, <2>4, FS_Subset
<1>3. \E x, y \in T : x # y
  <2> HIDE DEF T
  <2>1. T # {} /\ \A x : T # {x}
    BY <1>1, <1>2, FS_EmptySet, FS_Singleton
  <2> QED BY <2>1
<1> QED BY <1>3

\* The first turn is a live seat's if there is one.
LEMMA FirstToActIs ==
  ASSUME NEW g \in HandTable, NEW x \in DOMAIN g.seats, g.seats[x].inHand
  PROVE  LET k == FirstToAct(g)
         IN  /\ k \in 0 .. Len(g.seats)
             /\ (\E i \in DOMAIN g.seats : Live(g.seats[i]))
                  => k \in Positions(g) /\ Live(At(g, k))
<1> DEFINE sb == FindNextValidBlindPosition(g, g.dealerIndex + 1)
           bb == FindNextValidBlindPosition(g, sb + 1)
           k == FirstToAct(g)
<1>1. g.seats \in Seq(Seat) /\ g.dealerIndex + 1 \in Nat
  <2>1. g \in Table
    BY DEF HandTable
  <2>2. g.dealerIndex \in Nat /\ g.seats \in Seq(Seat)
    BY <2>1 DEF Table
  <2> QED BY <2>2
<1>2. /\ Len(g.seats) \in Nat
      /\ \A i \in Positions(g) : i \in Nat /\ i + 1 \in Nat /\ i < Len(g.seats)
      /\ x - 1 \in Positions(g) /\ At(g, x - 1) = g.seats[x]
  <2>1. Len(g.seats) \in Nat /\ DOMAIN g.seats = 1..Len(g.seats)
    BY <1>1, SeatsAre
  <2>2. x - 1 \in Positions(g) /\ (x - 1) + 1 = x
    BY <2>1 DEF Positions
  <2> QED BY <2>1, <2>2 DEF Positions, At
<1>3. sb \in Positions(g)
  BY <1>1, <1>2, BlindSeat
<1> HIDE DEF sb
<1>4. bb \in Positions(g)
  BY <1>1, <1>2, <1>3, BlindSeat
<1> HIDE DEF bb
<1>5. k = NextActiveIndex(g, bb + 1)
  <2>1. bb < Len(g.seats)
    BY <1>2, <1>4
  <2> QED BY <2>1 DEF FirstToAct, bb, sb
<1> HIDE DEF k
<1>6. /\ k \in 0 .. Len(g.seats)
      /\ k < Len(g.seats) => k \in Positions(g) /\ Live(At(g, k))
      /\ (\E i \in DOMAIN g.seats : Live(g.seats[i])) => k < Len(g.seats)
  <2>1. bb + 1 \in Nat
    BY <1>2, <1>4
  <2> QED BY <1>1, <1>5, <2>1, NextIsLive
<1> QED BY <1>6 DEF k

\* A seat of the hand that paid n, at the end of StartHand.
Dealt(s, z, n) ==
  /\ SamePlace(s, z) /\ z.inHand = s.inHand /\ z.folded = s.folded
  /\ z.pendingLeave = s.pendingLeave /\ z.chips = s.chips - n
  /\ z.currentBet = s.currentBet + n
  /\ z.totalBetThisHand = s.totalBetThisHand + n
  /\ z.allIn = (s.allIn \/ s.chips = n)

\* A seat that pays a blind puts in as much, and has not acted.
LEMMA DealtSeat ==
  ASSUME NEW s \in Seat, NEW n \in Nat, NEW z, z = [PutIn(s, n) EXCEPT !.actedThisRound = FALSE]
  PROVE  Dealt(s, z, n)
BY DEF PutIn, Seat, SamePlace, Dealt

\* Nothing that makes a seat live depends on who has acted.
LEMMA LiveAnyway ==
  ASSUME NEW s \in Seat, NEW z, z = [s EXCEPT !.actedThisRound = FALSE]
  PROVE  (Live(z) <=> Live(s)) /\ Live(s) \in BOOLEAN /\ Live(z) \in BOOLEAN
BY DEF Seat, Live, Alive, IsOccupied

\* StartHand: the button moves, two seats post, and the turn is given.
LEMMA HandStartedIs ==
  ASSUME NEW g \in IdleTable, CanStart(g)
  PROVE  Started(g, HandStarted(g))
<1> DEFINE d == [g EXCEPT !.stage = "PreFlop", !.community = 0,
                          !.sidePots = <<>>, !.seats = DealtIn(g)]
           button == FindNextValidBlindPosition(d, d.dealerIndex + 1)
           b == [d EXCEPT !.dealerIndex = button]
           p == PostBlinds(b)
           left == Max({0, DeckSize - 2 * Cardinality({i \in DOMAIN p.seats : p.seats[i].inHand})})
           first == FirstToAct(p)
           f == [i \in DOMAIN p.seats |-> [p.seats[i] EXCEPT !.actedThisRound = FALSE]]
           h == HandStarted(g)
<1>1. AreBlindsSet(g)
  BY DEF CanStart
<1>2. /\ d \in HandTable /\ d.seats = DealtIn(g) /\ d.stage = "PreFlop"
      /\ d.community = 0 /\ d.sidePots = <<>>
      /\ SameBlinds(g, d) /\ d.dealerIndex = g.dealerIndex
  BY <1>1, DealtTable
<1>3. HandStarted(g) = LET posted == ButtonMoved(d)
                           drawn == 2 * Cardinality({i \in DOMAIN posted.seats : posted.seats[i].inHand})
                       IN  [posted EXCEPT
                             !.seats = Vector([i \in DOMAIN posted.seats |->
                                         [posted.seats[i] EXCEPT !.actedThisRound = FALSE]]),
                             !.deck  = Max({0, DeckSize - drawn}),
                             !.actingIndex = FirstToAct(posted)]
  BY DEF HandStarted
<1> HIDE DEF d
<1>4. /\ Len(d.seats) = Len(g.seats) /\ DOMAIN d.seats = DOMAIN g.seats
      /\ \A i \in DOMAIN g.seats :
           LET s == g.seats[i]
           IN  /\ SamePlace(s, d.seats[i]) /\ d.seats[i].chips = s.chips
               /\ d.seats[i].inHand = IsSeatActive(g, s)
               /\ d.seats[i].pendingLeave = s.pendingLeave
               /\ d.seats[i].currentBet = 0 /\ d.seats[i].totalBetThisHand = 0
               /\ ~d.seats[i].folded /\ ~d.seats[i].allIn
  BY <1>1, <1>2, DealtInIs
<1>5. /\ d \in Table /\ d.seats \in Seq(Seat) /\ Len(d.seats) \in Nat
      /\ DOMAIN d.seats = 1..Len(d.seats) /\ d.dealerIndex + 1 \in Nat
      /\ Positions(d) = 0..Len(d.seats) - 1
  <2>1. d \in Table
    BY <1>2 DEF HandTable
  <2>2. d.dealerIndex \in Nat /\ d.seats \in Seq(Seat)
    BY <2>1 DEF Table
  <2> QED BY <2>1, <2>2, SeatsAre DEF Positions
<1>6. PICK x \in DOMAIN g.seats, y \in DOMAIN g.seats :
        /\ x # y /\ d.seats[x].inHand /\ d.seats[y].inHand
  BY <1>4, TwoActive
<1>7. /\ x - 1 \in Positions(d) /\ y - 1 \in Positions(d) /\ x - 1 # y - 1
      /\ At(d, x - 1) = d.seats[x] /\ At(d, y - 1) = d.seats[y]
  <2>1. x \in 1..Len(d.seats) /\ y \in 1..Len(d.seats)
    BY <1>4, <1>5
  <2>2. x - 1 \in 0..Len(d.seats) - 1 /\ y - 1 \in 0..Len(d.seats) - 1
        /\ x - 1 # y - 1 /\ (x - 1) + 1 = x /\ (y - 1) + 1 = y
    BY <1>5, <1>6, <2>1
  <2> QED BY <1>5, <2>2 DEF At
<1>8. button \in Positions(d)
  BY <1>5, <1>6, <1>7, BlindSeat
<1>9. ButtonMoved(d) = PostBlinds(b)
  <2>1. button < Len(d.seats)
    BY <1>5, <1>8
  <2> QED BY <2>1 DEF ButtonMoved
<1> HIDE DEF button
<1>10. /\ b \in HandTable /\ b.seats = d.seats /\ b.stage = d.stage
       /\ b.sidePots = d.sidePots /\ SameBlinds(d, b) /\ b.community = d.community
       /\ b.dealerIndex = button
  <2>1. button \in Nat
    BY <1>5, <1>8
  <2>2. b \in Table
    BY <1>5, <2>1, Zenon DEF Table
  <2>3. /\ b.seats = d.seats /\ b.stage = d.stage
        /\ b.sidePots = d.sidePots /\ SameBlinds(d, b) /\ b.community = d.community
        /\ b.dealerIndex = button
    BY <1>5 DEF Table, SameBlinds
  <2> HIDE DEF b
  <2>4. b \in HandTable
    BY <1>2, <2>2, <2>3 DEF HandTable, AreBlindsSet, SameBlinds
  <2> QED BY <2>3, <2>4
<1> HIDE DEF b
<1>11. /\ p \in HandTable
       /\ Len(p.seats) = Len(b.seats) /\ DOMAIN p.seats = DOMAIN b.seats
       /\ p.stage = b.stage /\ p.sidePots = b.sidePots /\ SameBlinds(b, p)
       /\ p.community = b.community /\ p.dealerIndex = b.dealerIndex
       /\ \E sb, bb \in DOMAIN b.seats :
            /\ sb # bb /\ b.seats[sb].inHand /\ b.seats[bb].inHand
            /\ p.seats[sb] = PutIn(b.seats[sb], Min({b.smallBlind, b.seats[sb].chips}))
            /\ p.seats[bb] = PutIn(b.seats[bb], Min({b.bigBlind, b.seats[bb].chips}))
            /\ \A i \in DOMAIN b.seats : i \notin {sb, bb} => p.seats[i] = b.seats[i]
            /\ p.lastBet = Min({b.bigBlind, b.seats[bb].chips})
            /\ bb = BigBlindAt(b) + 1
  <2>1. /\ b.dealerIndex \in Positions(b)
        /\ x - 1 \in Positions(b) /\ y - 1 \in Positions(b)
        /\ At(b, x - 1).inHand /\ At(b, y - 1).inHand
    BY <1>6, <1>7, <1>8, <1>10 DEF Positions, At
  <2> QED BY <1>7, <1>10, <2>1, PostBlindsIs
<1>12. h = [p EXCEPT !.seats = Vector(f), !.deck = left, !.actingIndex = first]
  BY <1>3, <1>9
<1> HIDE DEF p
<1>13. PICK sb \in DOMAIN g.seats, bb \in DOMAIN g.seats :
         /\ sb # bb /\ d.seats[sb].inHand /\ d.seats[bb].inHand
         /\ p.seats[sb] = PutIn(d.seats[sb], Min({g.smallBlind, d.seats[sb].chips}))
         /\ p.seats[bb] = PutIn(d.seats[bb], Min({g.bigBlind, d.seats[bb].chips}))
         /\ \A i \in DOMAIN g.seats : i \notin {sb, bb} => p.seats[i] = d.seats[i]
         /\ p.lastBet = Min({g.bigBlind, d.seats[bb].chips})
         /\ bb = BigBlindAt(b) + 1
  <2>1. b.smallBlind = g.smallBlind /\ b.bigBlind = g.bigBlind
        /\ b.seats = d.seats /\ DOMAIN b.seats = DOMAIN g.seats
    BY <1>2, <1>4, <1>10 DEF SameBlinds
  <2>2. PICK s \in DOMAIN b.seats, t \in DOMAIN b.seats :
            /\ s # t /\ b.seats[s].inHand /\ b.seats[t].inHand
            /\ p.seats[s] = PutIn(b.seats[s], Min({b.smallBlind, b.seats[s].chips}))
            /\ p.seats[t] = PutIn(b.seats[t], Min({b.bigBlind, b.seats[t].chips}))
            /\ \A i \in DOMAIN b.seats : i \notin {s, t} => p.seats[i] = b.seats[i]
            /\ p.lastBet = Min({b.bigBlind, b.seats[t].chips})
            /\ t = BigBlindAt(b) + 1
    BY <1>11, Zenon
  <2>3. /\ s # t /\ d.seats[s].inHand /\ d.seats[t].inHand
        /\ p.seats[s] = PutIn(d.seats[s], Min({g.smallBlind, d.seats[s].chips}))
        /\ p.seats[t] = PutIn(d.seats[t], Min({g.bigBlind, d.seats[t].chips}))
        /\ \A i \in DOMAIN g.seats : i \notin {s, t} => p.seats[i] = d.seats[i]
        /\ p.lastBet = Min({g.bigBlind, d.seats[t].chips})
        /\ t = BigBlindAt(b) + 1
    BY <2>1, <2>2, Zenon
  <2> QED BY <2>1, <2>3, Zenon
<1>14. /\ p \in Table /\ p.seats \in Seq(SoundSeat) /\ DOMAIN p.seats = DOMAIN g.seats
       /\ Len(p.seats) = Len(g.seats) /\ \A i \in DOMAIN g.seats : p.seats[i] \in SoundSeat
  <2>1. p.seats \in Seq(SoundSeat)
    BY <1>11 DEF HandTable
  <2> QED BY <1>4, <1>10, <1>11, <2>1, SeatsAre DEF HandTable
<1>15. Vector(f) = f /\ DOMAIN f = DOMAIN g.seats /\ Len(f) = Len(g.seats)
  <2>1. \A s \in SoundSeat : [s EXCEPT !.actedThisRound = FALSE] \in SoundSeat
    BY DEF SoundSeat, Seat
  <2>2. \A i \in DOMAIN p.seats : f[i] \in SoundSeat
    BY <1>14, <2>1
  <2>3. f = [i \in DOMAIN p.seats |-> f[i]] /\ DOMAIN f = DOMAIN p.seats
    OBVIOUS
  <2> HIDE DEF f
  <2> QED BY <1>14, <2>2, <2>3, SeatLoop
<1>16. \A i \in DOMAIN g.seats : f[i] = [p.seats[i] EXCEPT !.actedThisRound = FALSE]
  BY <1>14
<1> HIDE DEF f
<1>17. /\ h.seats = f /\ h.deck = left /\ h.actingIndex = first
       /\ h.stage = p.stage /\ h.sidePots = p.sidePots /\ SameBlinds(p, h)
       /\ h.community = p.community /\ h.dealerIndex = p.dealerIndex
       /\ h.lastBet = p.lastBet
  <2> HIDE DEF left, first, h
  <2> QED BY <1>12, <1>14, <1>15 DEF Table, SameBlinds
<1>18. h \in HandTable
  BY <1>1, HandStartedHand
<1> HIDE DEF h, first
<1>19. SameBlinds(g, h) /\ Positions(h) = Positions(d)
  BY <1>2, <1>4, <1>10, <1>11, <1>15, <1>17 DEF SameBlinds, Positions
<1>20. /\ \A i \in DOMAIN g.seats : d.seats[i] \in Seat /\ g.seats[i] \in Seat
       /\ g.smallBlind \in Int /\ g.bigBlind \in Int
       /\ g.smallBlind > 0 /\ g.bigBlind > 0
  <2>1. g \in Table
    BY DEF IdleTable
  <2>2. g.seats \in Seq(Seat) /\ g.smallBlind \in Int /\ g.bigBlind \in Int
    BY <2>1 DEF Table
  <2> QED BY <1>1, <1>4, <1>5, <2>2, SeatsAre DEF AreBlindsSet
<1>21. \A i \in DOMAIN g.seats : d.seats[i].inHand =>
         d.seats[i].chips >= g.bigBlind /\ ~d.seats[i].pendingLeave
  BY <1>4 DEF IsSeatActive, IsOccupied
<1>22. \A i \in DOMAIN g.seats : d.seats[i].chips \in Nat /\ d.seats[i].inHand \in BOOLEAN
  BY <1>20 DEF Seat
<1> DEFINE small == Min({g.smallBlind, d.seats[sb].chips})
<1>23. /\ Min({g.bigBlind, d.seats[bb].chips}) = g.bigBlind
       /\ small \in Nat /\ small <= g.smallBlind
  BY <1>13, <1>20, <1>21, <1>22, MinOfTwo
<1>25. \A s \in Seat :
         LET z == [s EXCEPT !.actedThisRound = FALSE]
         IN    /\ SamePlace(s, z) /\ z.inHand = s.inHand /\ z.chips = s.chips
              /\ z.currentBet = s.currentBet
              /\ z.totalBetThisHand = s.totalBetThisHand
  BY DEF Seat, SamePlace
<1> HIDE DEF small
\* The two seats that post, and the others.
<1>26. LET s == d.seats[sb]
           z == h.seats[sb]
       IN  /\ SamePlace(s, z) /\ z.inHand = s.inHand /\ z.folded = s.folded
           /\ z.pendingLeave = s.pendingLeave /\ z.chips = s.chips - small
           /\ z.currentBet = s.currentBet + small
           /\ z.totalBetThisHand = s.totalBetThisHand + small
           /\ z.allIn = (s.allIn \/ s.chips = small)
  <2>1. h.seats[sb] = [PutIn(d.seats[sb], small) EXCEPT !.actedThisRound = FALSE]
    BY <1>13, <1>16, <1>17 DEF small
  <2>2. d.seats[sb] \in Seat /\ small \in Nat
    BY <1>20, <1>23
  <2>3. Dealt(d.seats[sb], h.seats[sb], small)
    BY <2>1, <2>2, DealtSeat
  <2> QED BY <2>3 DEF Dealt
<1>27. LET s == d.seats[bb]
           z == h.seats[bb]
       IN  /\ SamePlace(s, z) /\ z.inHand = s.inHand /\ z.chips = s.chips - g.bigBlind
           /\ z.currentBet = s.currentBet + g.bigBlind
           /\ z.totalBetThisHand = s.totalBetThisHand + g.bigBlind
  <2>1. g.bigBlind \in Nat /\ d.seats[bb] \in Seat
    BY <1>20
  <2>2. h.seats[bb] = [PutIn(d.seats[bb], g.bigBlind) EXCEPT !.actedThisRound = FALSE]
    BY <1>13, <1>16, <1>17, <1>23
  <2>3. Dealt(d.seats[bb], h.seats[bb], g.bigBlind)
    BY <2>1, <2>2, DealtSeat
  <2> QED BY <2>3 DEF Dealt
<1>28. \A i \in DOMAIN g.seats : i \notin {sb, bb} =>
         LET s == d.seats[i]
             z == h.seats[i]
         IN  /\ SamePlace(s, z) /\ z.inHand = s.inHand /\ z.chips = s.chips
             /\ z.currentBet = s.currentBet
             /\ z.totalBetThisHand = s.totalBetThisHand
  <2>1. ASSUME NEW i \in DOMAIN g.seats, i \notin {sb, bb}
        PROVE  /\ d.seats[i] \in Seat
               /\ h.seats[i] = [d.seats[i] EXCEPT !.actedThisRound = FALSE]
    BY <1>13, <1>16, <1>17, <1>20, <2>1
  <2> QED BY <1>25, <2>1, Zenon
<1>29. \A i \in DOMAIN g.seats :
         SamePlace(d.seats[i], h.seats[i]) /\ h.seats[i].inHand = d.seats[i].inHand
  BY <1>26, <1>27, <1>28
<1>30. \A i \in DOMAIN g.seats : SamePlace(g.seats[i], h.seats[i])
  BY <1>4, <1>29 DEF SamePlace
<1>31. /\ DOMAIN h.seats = DOMAIN g.seats /\ Len(h.seats) = Len(g.seats)
       /\ sb \in DealtSeats(h) /\ bb \in DealtSeats(h)
  BY <1>13, <1>15, <1>17, <1>29 DEF DealtSeats
<1>32. h.deck = Max({0, DeckSize - 2 * Cardinality(DealtSeats(h))})
  <2>1. \A i \in DOMAIN g.seats : h.seats[i].inHand = p.seats[i].inHand
    <3>1. \A s \in Seat : [s EXCEPT !.actedThisRound = FALSE].inHand = s.inHand
      BY DEF Seat
    <3> QED BY <1>14, <1>16, <1>17, <3>1 DEF SoundSeat
  <2>2. DealtSeats(h) = {i \in DOMAIN p.seats : p.seats[i].inHand}
    BY <1>14, <1>31, <2>1 DEF DealtSeats
  <2> QED BY <1>17, <2>2
<1>33. /\ h.lastBet = h.bigBlind /\ h.stage = "PreFlop" /\ h.sidePots = <<>>
       /\ h.community = 0 /\ h.dealerIndex \in Positions(h)
  BY <1>2, <1>8, <1>10, <1>11, <1>13, <1>17, <1>19, <1>23 DEF SameBlinds
<1>34. \A i \in DOMAIN g.seats :
         LET blind == IF i = sb THEN Min({h.smallBlind, g.seats[i].chips})
                      ELSE IF i = bb THEN h.bigBlind ELSE 0
         IN  /\ h.seats[i].chips = g.seats[i].chips - blind
             /\ h.seats[i].currentBet = blind /\ h.seats[i].totalBetThisHand = blind
  <2>1. \A i \in DOMAIN g.seats :
          /\ d.seats[i].chips = g.seats[i].chips /\ d.seats[i].currentBet = 0
          /\ d.seats[i].totalBetThisHand = 0 /\ g.seats[i].chips \in Nat
    BY <1>4, <1>22
  <2>2. h.smallBlind = g.smallBlind /\ h.bigBlind = g.bigBlind
    BY <1>19 DEF SameBlinds
  <2>3. small = Min({h.smallBlind, g.seats[sb].chips})
    BY <2>1, <2>2 DEF small
  <2>4. CASE TRUE
    <3> SUFFICES ASSUME NEW i \in DOMAIN g.seats
                 PROVE  LET blind == IF i = sb THEN small
                                     ELSE IF i = bb THEN g.bigBlind ELSE 0
                        IN  /\ h.seats[i].chips = g.seats[i].chips - blind
                            /\ h.seats[i].currentBet = blind
                            /\ h.seats[i].totalBetThisHand = blind
      BY <2>2, <2>3
    <3>1. CASE i = sb
      BY <1>23, <1>26, <2>1, <3>1
    <3>2. CASE i # sb /\ i = bb
      BY <1>20, <1>27, <2>1, <3>2
    <3>3. CASE i \notin {sb, bb}
      BY <1>28, <2>1, <3>3
    <3> QED BY <3>1, <3>2, <3>3
  <2> QED BY <2>4
\* The seat with the small blind has chips left when that blind is the smaller.
<1>35. /\ h.actingIndex \in 0 .. Len(h.seats)
       /\ h.smallBlind < h.bigBlind =>
            h.actingIndex \in Positions(h) /\ Live(At(h, h.actingIndex))
  <2>1. p.seats[sb].inHand
    <3>1. \A s \in SoundSeat : [s EXCEPT !.actedThisRound = FALSE].inHand = s.inHand
      BY DEF SoundSeat, Seat
    <3> QED BY <1>13, <1>14, <1>16, <1>17, <1>29, <3>1
  <2>2. /\ first \in 0 .. Len(p.seats)
        /\ (\E i \in DOMAIN p.seats : Live(p.seats[i]))
             => first \in Positions(p) /\ Live(At(p, first))
    BY <1>11, <1>14, <2>1, FirstToActIs DEF first
  <2>3. \A i \in DOMAIN g.seats : Live(h.seats[i]) <=> Live(p.seats[i])
    <3> SUFFICES ASSUME NEW i \in DOMAIN g.seats PROVE Live(h.seats[i]) <=> Live(p.seats[i])
      OBVIOUS
    <3>1. p.seats[i] \in Seat /\ h.seats[i] = [p.seats[i] EXCEPT !.actedThisRound = FALSE]
      BY <1>14, <1>16, <1>17 DEF SoundSeat
    <3> QED BY <3>1, LiveAnyway
  <2>4. ASSUME h.smallBlind < h.bigBlind PROVE Live(h.seats[sb])
    <3>1. d.seats[sb].chips # small
      BY <1>13, <1>19, <1>20, <1>21, <1>22, <1>23, <2>4 DEF SameBlinds
    <3> QED BY <1>4, <1>13, <1>21, <1>26, <3>1 DEF Live, Alive, IsOccupied
  <2>5. Positions(p) = Positions(h)
        /\ \A k \in Positions(p) : k + 1 \in DOMAIN g.seats
    BY <1>14, <1>31, SeatsAre DEF Positions
  <2> HIDE DEF h
  <2> QED BY <1>14, <1>17, <1>31, <2>2, <2>3, <2>4, <2>5 DEF At
\* Who was dealt in.
<1>36. \A i \in DOMAIN g.seats :
         LET s == d.seats[i]
             z == h.seats[i]
         IN  /\ z.folded = s.folded /\ z.pendingLeave = s.pendingLeave
             /\ ~z.actedThisRound /\ z.inHand = s.inHand
             /\ z.currentBet + z.chips = s.chips
  <2> SUFFICES ASSUME NEW i \in DOMAIN g.seats
               PROVE  /\ h.seats[i].folded = d.seats[i].folded
                      /\ h.seats[i].pendingLeave = d.seats[i].pendingLeave
                      /\ ~h.seats[i].actedThisRound /\ h.seats[i].inHand = d.seats[i].inHand
                      /\ h.seats[i].currentBet + h.seats[i].chips = d.seats[i].chips
    OBVIOUS
  <2>1. h.seats[i] = [p.seats[i] EXCEPT !.actedThisRound = FALSE] /\ p.seats[i] \in Seat
    BY <1>14, <1>16, <1>17 DEF SoundSeat
  <2>2. /\ h.seats[i].folded = p.seats[i].folded
        /\ h.seats[i].pendingLeave = p.seats[i].pendingLeave
        /\ ~h.seats[i].actedThisRound
    BY <2>1 DEF Seat
  <2>3. /\ p.seats[i].folded = d.seats[i].folded
        /\ p.seats[i].pendingLeave = d.seats[i].pendingLeave
    <3>1. \A s \in Seat : \A n : /\ PutIn(s, n).folded = s.folded
                                 /\ PutIn(s, n).pendingLeave = s.pendingLeave
      BY DEF PutIn, Seat
    <3>2. d.seats[i] \in Seat
      BY <1>20
    <3> QED BY <1>13, <3>1, <3>2
  <2>4. h.seats[i].currentBet + h.seats[i].chips = d.seats[i].chips
    <3>1. d.seats[i].chips \in Nat /\ d.seats[i].currentBet = 0
      BY <1>4, <1>22
    <3>2. CASE i = sb
      BY <1>23, <1>26, <3>1, <3>2
    <3>3. CASE i = bb
      BY <1>20, <1>27, <3>1, <3>3
    <3>4. CASE i \notin {sb, bb}
      BY <1>28, <3>1, <3>4
    <3> QED BY <3>2, <3>3, <3>4
  <2> QED BY <1>29, <2>2, <2>3, <2>4
<1>37. Opens(h, bb)
  <2>1. \A i \in DealtSeats(h) : i \in DOMAIN g.seats /\ d.seats[i].inHand
    BY <1>31, <1>36 DEF DealtSeats
  <2>2. ASSUME NEW i \in DealtSeats(h)
        PROVE  /\ ~h.seats[i].pendingLeave /\ ~h.seats[i].folded
               /\ ~h.seats[i].actedThisRound
               /\ h.seats[i].currentBet + h.seats[i].chips >= h.lastBet
    <3>1. i \in DOMAIN g.seats /\ ~d.seats[i].pendingLeave /\ ~d.seats[i].folded
          /\ d.seats[i].chips >= g.bigBlind
      BY <1>4, <1>21, <2>1
    <3>2. h.lastBet = g.bigBlind
      BY <1>19, <1>33 DEF SameBlinds
    <3> QED BY <1>36, <3>1, <3>2
  <2>3. ASSUME \A i \in DealtSeats(h) : ~h.seats[i].allIn, NEW k \in DealtSeats(h) \ {bb}
        PROVE  Before(h, k, bb)
    <3>1. ASSUME NEW i \in DealtSeats(h) PROVE i \in DOMAIN p.seats /\ Live(p.seats[i])
      <4>1. i \in DOMAIN p.seats /\ p.seats[i] \in Seat
            /\ h.seats[i] = [p.seats[i] EXCEPT !.actedThisRound = FALSE]
        BY <1>14, <1>16, <1>17, <2>1 DEF SoundSeat
      <4>2. Live(h.seats[i])
        BY <2>2, <2>3 DEF Live, Alive, IsOccupied, DealtSeats
      <4> QED BY <4>1, <4>2, LiveAnyway
    <3>2. BigBlindAt(p) = BigBlindAt(b)
      <4>1. Len(p.seats) = Len(b.seats) /\ p.dealerIndex = b.dealerIndex
        BY <1>11
      <4>2. \A i \in DOMAIN g.seats : p.seats[i].inHand = d.seats[i].inHand
        <5>1. \A s \in SoundSeat : [s EXCEPT !.actedThisRound = FALSE].inHand = s.inHand
          BY DEF SoundSeat, Seat
        <5>2. \A i \in DOMAIN g.seats : h.seats[i].inHand = p.seats[i].inHand
          BY <1>14, <1>16, <1>17, <5>1
        <5> QED BY <1>29, <5>2
      <4>3. \A i \in Positions(b) : At(p, i).inHand = At(b, i).inHand
        <5>1. \A i \in Positions(b) : i + 1 \in DOMAIN g.seats
          BY <1>4, <1>5, <1>10 DEF Positions
        <5> QED BY <1>10, <4>2, <5>1 DEF At
      <4> QED BY <4>1, <4>3, SameBigBlind
    <3>3. bb = BigBlindAt(p) + 1
      BY <1>13, <3>2
    <3>4. BigBlindAt(p) \in Positions(p)
      <4>1. p.dealerIndex + 1 \in Nat /\ p.seats \in Seq(Seat)
        BY <1>14 DEF Table
      <4>2. sb - 1 \in Positions(p) /\ At(p, sb - 1).inHand
        <5>1. Live(p.seats[sb]) /\ sb \in 1..Len(p.seats)
          BY <1>14, <1>31, <3>1, <1>4, <1>5
        <5>2. sb - 1 \in 0..Len(p.seats) - 1 /\ (sb - 1) + 1 = sb
          BY <1>4, <1>5, <1>14, <5>1
        <5> QED BY <5>1, <5>2, LiveCanAct DEF Positions, At
      <4>3. FindNextValidBlindPosition(p, p.dealerIndex + 1) + 1 \in Nat
        <5>1. FindNextValidBlindPosition(p, p.dealerIndex + 1) \in Nat
          BY <4>1, BlindPosition
        <5> QED BY <5>1
      <4> QED BY <4>1, <4>2, <4>3, BlindSeat DEF BigBlindAt
    <3>5. h.actingIndex = FirstToAct(p) /\ Len(h.seats) = Len(p.seats) /\ p \in HandTable
      BY <1>11, <1>14, <1>17, <1>31 DEF first
    <3>6. /\ sb \in DOMAIN p.seats /\ Live(p.seats[sb]) /\ sb # BigBlindAt(p) + 1
          /\ k \in DOMAIN p.seats /\ Live(p.seats[k]) /\ k # BigBlindAt(p) + 1
      BY <1>13, <1>31, <3>1, <3>3
    <3>7. Before(h, k, BigBlindAt(p) + 1)
      BY <3>4, <3>5, <3>6, FirstTurn
    <3> QED BY <3>3, <3>7
  <2> QED BY <2>2, <2>3 DEF Opens
<1> QED BY <1>18, <1>19, <1>30, <1>31, <1>32, <1>33, <1>34, <1>35, <1>37, <1>13 DEF Started, h

=============================================================================
