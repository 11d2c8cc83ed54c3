-------------------------- MODULE HoldemTurnProofs --------------------------
(***************************************************************************)
(* The invariants of a running hand and of the seats around it, for any     *)
(* number of players and seats.  A step is one of a few kinds: a player sits *)
(* down, leavers are removed, a seat is edited, a hand starts, or a seat      *)
(* acts.  The first half shows that every call is a step of one of these     *)
(* kinds and the second half what each invariant makes of each kind.         *)
(***************************************************************************)
EXTENDS HoldemPokerGameProofs

\* The seats in the order of their numbers, nobody seated twice.
InOrder(q) ==
  \A i, j \in DOMAIN q : i < j =>
    q[i].seatIndex < q[j].seatIndex /\ q[i].playerId # q[j].playerId

\* SeatsInOrder, and the button of an empty table is where the first seat will be.
Ordered(g) ==
  /\ InOrder(g.seats)
  /\ g.dealerIndex \in Positions(g) \/ (g.seats = <<>> /\ g.dealerIndex = 0)
  /\ g.actingIndex \in 0 .. Len(g.seats)

\* The members that a call on seats leaves alone.
SameRound(g, h) ==
  /\ h.stage = g.stage /\ h.sidePots = g.sidePots /\ h.lastBet = g.lastBet
  /\ h.community = g.community /\ h.deck = g.deck

-----------------------------------------------------------------------------
(* A player sits down.                                                      *)

\* r is q with the seat s after the first k, where its number puts it.
Inserted(q, s, k, r) ==
  /\ Len(r) = Len(q) + 1 /\ k \in 0 .. Len(q) /\ r[k + 1] = s
  /\ \A i \in 1..k : r[i] = q[i] /\ q[i].seatIndex < s.seatIndex
  /\ \A i \in k + 1 .. Len(q) : r[i + 1] = q[i] /\ s.seatIndex < q[i].seatIndex

\* push_back and sort put the newcomer where its seat number belongs.
LEMMA SeatingIs ==
  ASSUME NEW q \in Seq(Seat), NEW s \in Seat, InOrder(q),
         \A i \in DOMAIN q : q[i].seatIndex # s.seatIndex
  PROVE  \E k : Inserted(q, s, k, Seating(q, s))
<1> DEFINE below == {i \in DOMAIN q : q[i].seatIndex < s.seatIndex}
           n == Cardinality(below)
           N == Len(q)
           first == SubSeq(q, 1, n)
           rest == SubSeq(q, n + 1, N)
           r == Seating(q, s)
<1>1. /\ N \in Nat /\ DOMAIN q = 1..N
      /\ \A i \in 1..N : q[i] \in Seat /\ q[i].seatIndex \in Int
      /\ s.seatIndex \in Int
  <2>1. N \in Nat /\ DOMAIN q = 1..N /\ \A i \in 1..N : q[i] \in Seat
    BY LenProperties, ElementOfSeq
  <2>2. \A t \in Seat : t.seatIndex \in Int
    BY DEF Seat
  <2> QED BY <2>1, <2>2
<1>2. n \in 0..N /\ below = 1..n
  <2>1. below \in SUBSET (1..N)
    BY <1>1
  <2>2. \A i \in below : \A j \in 1..i : j \in below
    BY <1>1 DEF InOrder
  <2> HIDE DEF below
  <2> QED BY <1>1, <2>1, <2>2, InitialPositions
<1>3. \A i \in 1..N : i \in 1..n <=> q[i].seatIndex < s.seatIndex
  <2>1. \A i \in 1..N : i \in below <=> q[i].seatIndex < s.seatIndex
    BY <1>1
  <2> QED BY <1>2, <2>1
<1>4. r = first \o <<s>> \o rest
  BY DEF Seating
<1> HIDE DEF n, r
<1>5. /\ first \in Seq(Seat) /\ Len(first) = n
      /\ \A i \in 1..n : first[i] = q[i]
  <2>1. \A i \in 1..n : q[i] \in Seat
    BY <1>1, <1>2
  <2> QED BY <1>2, <2>1, SubSeqProperties
<1>6. /\ rest \in Seq(Seat) /\ Len(rest) = N - n
      /\ \A i \in 1..N - n : rest[i] = q[n + i]
  <2>1. \A i \in n + 1..N : q[i] \in Seat
    BY <1>1, <1>2
  <2>2. /\ rest \in Seq(Seat) /\ Len(rest) = IF n + 1 <= N THEN N - (n + 1) + 1 ELSE 0
        /\ \A i \in 1 .. N - (n + 1) + 1 : rest[i] = q[n + 1 + i - 1]
    <3> HIDE DEF N
    <3> QED BY <1>1, <1>2, <2>1, SubSeqProperties DEF rest
  <2> HIDE DEF rest, N
  <2>3. Len(rest) = N - n
    BY <1>1, <1>2, <2>2
  <2>4. ASSUME NEW i \in 1..N - n PROVE rest[i] = q[n + i]
    <3>1. i \in 1 .. N - (n + 1) + 1 /\ n + 1 + i - 1 = n + i
      BY <1>1, <1>2
    <3> QED BY <2>2, <3>1
  <2> QED BY <2>2, <2>3, <2>4
<1> HIDE DEF first, rest
<1>7. /\ first \o <<s>> \in Seq(Seat) /\ Len(first \o <<s>>) = n + 1
      /\ (first \o <<s>>)[n + 1] = s
      /\ \A i \in 1..n : (first \o <<s>>)[i] = q[i]
  <2>1. <<s>> \in Seq(Seat) /\ Len(<<s>>) = 1 /\ <<s>>[1] = s
    OBVIOUS
  <2> QED BY <1>2, <1>5, <2>1, ConcatProperties
<1>8. Len(r) = n + 1 + (N - n)
      /\ \A i \in 1 .. n + 1 + (N - n) :
           r[i] = IF i <= n + 1 THEN (first \o <<s>>)[i] ELSE rest[i - (n + 1)]
  BY <1>4, <1>6, <1>7, ConcatProperties
<1>9. Len(r) = N + 1 /\ r[n + 1] = s
  BY <1>1, <1>2, <1>7, <1>8
<1>10. \A i \in 1..n : r[i] = q[i] /\ q[i].seatIndex < s.seatIndex
  <2> SUFFICES ASSUME NEW i \in 1..n PROVE r[i] = q[i] /\ q[i].seatIndex < s.seatIndex
    OBVIOUS
  <2>1. i \in 1..N /\ i \in 1 .. n + 1 + (N - n) /\ i <= n + 1
    BY <1>1, <1>2
  <2> QED BY <1>3, <1>7, <1>8, <2>1
<1>11. \A i \in n + 1 .. N : r[i + 1] = q[i] /\ s.seatIndex < q[i].seatIndex
  <2> SUFFICES ASSUME NEW i \in n + 1 .. N PROVE r[i + 1] = q[i] /\ s.seatIndex < q[i].seatIndex
    OBVIOUS
  <2>1. i \in 1..N /\ i \notin 1..n /\ i + 1 \in 1 .. n + 1 + (N - n) /\ ~(i + 1 <= n + 1)
        /\ i + 1 - (n + 1) \in 1..N - n /\ n + (i + 1 - (n + 1)) = i
    BY <1>1, <1>2
  <2> DEFINE j == i + 1
             m == j - (n + 1)
  <2>2. r[j] = rest[m]
    <3>1. j \in 1 .. n + 1 + (N - n) /\ ~(j <= n + 1)
      BY <2>1
    <3> HIDE DEF j
    <3> QED BY <1>8, <3>1
  <2>3. m \in 1..(N - n) /\ n + m = i
    BY <1>1, <1>2
  <2> HIDE DEF m
  <2>4. r[i + 1] = q[i]
    BY <1>6, <2>2, <2>3
  <2> QED BY <1>1, <1>3, <2>1, <2>4
<1>12. Inserted(q, s, n, r)
  BY <1>2, <1>9, <1>10, <1>11 DEF Inserted
<1> QED BY <1>12 DEF r

\* A newcomer has no chips and is in no hand, and no player or seat number is there twice.
Joined(g, h) ==
  /\ SameRound(g, h) /\ SameBlinds(g, h)
  /\ h.dealerIndex = g.dealerIndex /\ h.actingIndex = g.actingIndex
  /\ \E s \in IdleSeat : \E k :
       /\ s.chips = 0 /\ Inserted(g.seats, s, k, h.seats)
       /\ \A i \in DOMAIN g.seats : g.seats[i].playerId # s.playerId

\* SitDown.
LEMMA SitDownIs ==
  ASSUME IInv, InOrder(game.seats), NEW p \in Players, SitDown(p)
  PROVE  Joined(game, game')
<1> DEFINE taken == {s.seatIndex : s \in ToSet(game.seats)}
           free == (0 .. MaxSeats - 1) \ taken
           seat == NewSeat(p, Min(free))
           q == Seating(game.seats, seat)
           h == [game EXCEPT !.seats = q]
<1>1. game' = h /\ free # {} /\ p \notin Seated
  BY DEF SitDown
<1>2. Min(free) \in free
  <2>1. free \in SUBSET Nat
    BY TableAssumption
  <2> HIDE DEF free
  <2> QED BY <1>1, <2>1, MinOfNats
<1>3. \A i \in DOMAIN game.seats : game.seats[i] \in ToSet(game.seats)
  BY TableTypes, SeatsAre DEF ToSet
<1>4. \A i \in DOMAIN game.seats :
        game.seats[i].seatIndex # Min(free) /\ game.seats[i].playerId # p
  <2>1. \A i \in DOMAIN game.seats : game.seats[i].seatIndex \in taken
    BY <1>3
  <2>2. Min(free) \notin taken
    BY <1>2
  <2> HIDE DEF taken, free
  <2> QED BY <1>1, <1>3, <2>1, <2>2 DEF Seated
<1>5. seat \in IdleSeat /\ seat.seatIndex = Min(free) /\ seat.playerId = p /\ seat.chips = 0
  <2>1. Min(free) \in 0 .. MaxSeats - 1
    BY <1>2
  <2> HIDE DEF free
  <2> QED BY <2>1 DEF NewSeat, IdleSeat, Seat
<1> HIDE DEF seat, free
<1>6. PICK k : Inserted(game.seats, seat, k, q)
  BY <1>4, <1>5, TableTypes, SeatingIs DEF IdleSeat
<1> HIDE DEF q
<1>7. /\ h.seats = q /\ SameRound(game, h) /\ SameBlinds(game, h)
      /\ h.dealerIndex = game.dealerIndex /\ h.actingIndex = game.actingIndex
  BY TableTypes DEF Table, SameRound, SameBlinds
<1> HIDE DEF h
<1> QED BY <1>1, <1>4, <1>5, <1>6, <1>7 DEF Joined

-----------------------------------------------------------------------------
(* Leavers are removed.                                                     *)

\* r is what is left of q, in its order; the k-th seat of r was at place[k].
Kept(q, place, r) ==
  /\ place \in [1 .. Len(r) -> 1 .. Len(q)]
  /\ \A k \in 1 .. Len(r) : r[k] = q[place[k]]
  /\ \A j, k \in 1 .. Len(r) : j < k => place[j] < place[k]
  /\ \A n \in 1 .. Len(q) : ~Leaves(q[n]) => \E k \in 1 .. Len(r) : place[k] = n

\* The turn and the button follow the seats they were at.
Left(g, h) ==
  /\ SameRound(g, h) /\ SameBlinds(g, h)
  /\ h.actingIndex \in 0 .. Len(h.seats)
  /\ h.dealerIndex \in Positions(h) \/ (h.seats = <<>> /\ h.dealerIndex = 0)
  /\ \E place : /\ Kept(g.seats, place, h.seats)
                /\ \A k \in 1 .. Len(h.seats) :
                     /\ place[k] = g.actingIndex + 1 => h.actingIndex = k - 1
                     /\ place[k] = g.dealerIndex + 1 => h.dealerIndex = k - 1

\* What is kept is still in order.
LEMMA KeptInOrder ==
  ASSUME NEW q \in Seq(Seat), InOrder(q), NEW r \in Seq(Seat), NEW place, Kept(q, place, r)
  PROVE  InOrder(r)
<1>1. DOMAIN q = 1..Len(q) /\ DOMAIN r = 1..Len(r)
  BY LenProperties
<1> SUFFICES ASSUME NEW i \in 1..Len(r), NEW j \in 1..Len(r), i < j
             PROVE  r[i].seatIndex < r[j].seatIndex /\ r[i].playerId # r[j].playerId
  BY <1>1 DEF InOrder
<1>2. /\ place[i] \in 1..Len(q) /\ place[j] \in 1..Len(q) /\ place[i] < place[j]
      /\ r[i] = q[place[i]] /\ r[j] = q[place[j]]
  BY DEF Kept
<1> QED BY <1>1, <1>2 DEF InOrder

\* RemovePendingLeavers: the loops that look the turn and the button up again find
\* the seats that stayed.
LEMMA RemovePendingLeaversIs ==
  ASSUME IInv, Ordered(game), RemovePendingLeavers
  PROVE  Left(game, game')
<1> DEFINE gone == {i \in DOMAIN game.seats : Leaves(game.seats[i])}
           kept == Erase(game.seats, gone)
           acting == ActingIn(kept)
           dealer == DealerIn(kept)
           h == [game EXCEPT !.seats = kept, !.actingIndex = acting, !.dealerIndex = dealer]
           N == Len(game.seats)
           M == Len(kept)
<1>1. game' = h
  BY DEF RemovePendingLeavers
<1>2. /\ game \in Table /\ game.seats \in Seq(Seat)
      /\ N \in Nat /\ DOMAIN game.seats = 1..N
      /\ game.actingIndex \in Nat /\ game.dealerIndex \in Nat
  BY TableTypes, LenProperties
<1>3. PICK place : Kept(game.seats, place, kept)
  <2>1. PICK place \in [1 .. Len(kept) -> 1 .. Len(game.seats)] :
          /\ \A k \in 1..Len(kept) : place[k] \notin gone /\ kept[k] = game.seats[place[k]]
          /\ \A j, k \in 1..Len(kept) : j < k => place[j] < place[k]
          /\ \A n \in 1..Len(game.seats) :
               n \notin gone => \E k \in 1..Len(kept) : place[k] = n
    <3> HIDE DEF gone
    <3> QED BY <1>2, EraseIs
  <2>2. \A n \in 1..Len(game.seats) : ~Leaves(game.seats[n]) => n \notin gone
    OBVIOUS
  <2> HIDE DEF gone, kept
  <2> QED BY <2>1, <2>2 DEF Kept
<1>4. kept \in Seq(Seat)
  <2>1. \A n \in 1..Len(game.seats) : n \notin gone => game.seats[n] \in Seat
    BY <1>2, ElementOfSeq
  <2> HIDE DEF gone
  <2> QED BY <1>2, <2>1, EraseType
<1> HIDE DEF gone, kept
<1>5. M \in Nat /\ DOMAIN kept = 1..M /\ (kept # <<>> => M # 0) /\ (kept = <<>> => M = 0)
  BY <1>4, LenProperties, EmptySeq
<1>6. InOrder(game.seats) /\ InOrder(kept)
  BY <1>2, <1>3, <1>4, KeptInOrder DEF Ordered
<1>7. \A k \in 1..M : place[k] \in 1..N /\ kept[k] = game.seats[place[k]] /\ kept[k] \in Seat
  BY <1>3, <1>4, ElementOfSeq DEF Kept
<1>8. \A T \in SUBSET (1..M) : T # {} => Min(T) \in T /\ Max(T) \in T
                                         /\ \A k \in T : k <= Max(T)
  <2> SUFFICES ASSUME NEW T \in SUBSET (1..M), T # {}
               PROVE  Min(T) \in T /\ Max(T) \in T /\ \A k \in T : k <= Max(T)
    OBVIOUS
  <2>1. T \in SUBSET Nat /\ \A k \in T : k <= M
    BY <1>5
  <2> QED BY <1>5, <2>1, MinOfNats, MaxOfBounded
<1>9. /\ acting \in 0..M
      /\ \A k \in 1..M : place[k] = game.actingIndex + 1 => acting = k - 1
  <2> DEFINE same == IF game.actingIndex \in Positions(game)
                     THEN {i \in DOMAIN kept :
                             kept[i].playerId = At(game, game.actingIndex).playerId}
                     ELSE {}
  <2>1. same \in SUBSET (1..M)
    BY <1>5
  <2>2. acting = IF same = {} THEN 0 ELSE Min(same) - 1
    BY DEF ActingIn
  <2>3. ASSUME NEW k \in 1..M, place[k] = game.actingIndex + 1
        PROVE  same = {k}
    <3>1. game.actingIndex \in Positions(game) /\ kept[k] = At(game, game.actingIndex)
      BY <1>2, <1>7, <2>3 DEF Positions, At
    <3>2. \A i \in 1..M : kept[i].playerId = kept[k].playerId => i = k
      BY <1>5, <1>6 DEF InOrder
    <3> QED BY <1>5, <3>1, <3>2
  <2> HIDE DEF same, acting
  <2>4. acting \in 0..M
    <3>1. CASE same = {}
      BY <1>5, <2>2, <3>1
    <3>2. CASE same # {}
      <4>1. Min(same) \in 1..M
        BY <1>8, <2>1, <3>2
      <4> QED BY <1>5, <2>2, <3>2, <4>1
    <3> QED BY <3>1, <3>2
  <2>5. ASSUME NEW k \in 1..M, place[k] = game.actingIndex + 1
        PROVE  acting = k - 1
    <3>1. same = {k}
      BY <2>3, <2>5
    <3>2. Min(same) = k
      BY <1>8, <2>1, <3>1
    <3> QED BY <2>2, <3>1, <3>2
  <2> QED BY <2>4, <2>5
<1>10. /\ (kept = <<>> /\ dealer = 0) \/ dealer \in 0..M - 1
       /\ \A k \in 1..M : place[k] = game.dealerIndex + 1 => dealer = k - 1
  <2> DEFINE number == At(game, game.dealerIndex).seatIndex
             behind == {i \in DOMAIN kept : kept[i].seatIndex <= number}
  <2>1. behind \in SUBSET (1..M)
    BY <1>5
  <2>2. \/ (kept = <<>> \/ game.dealerIndex \notin Positions(game)) /\ dealer = 0
        \/ kept # <<>> /\ behind # {} /\ dealer = Max(behind) - 1
        \/ kept # <<>> /\ behind = {} /\ dealer = M - 1
    BY DEF DealerIn
  <2>3. ASSUME NEW k \in 1..M, place[k] = game.dealerIndex + 1
        PROVE  /\ game.dealerIndex \in Positions(game) /\ kept # <<>>
               /\ k \in behind /\ \A i \in behind : i <= k
    <3>1. game.dealerIndex \in Positions(game) /\ kept[k] = At(game, game.dealerIndex)
      BY <1>2, <1>7, <2>3 DEF Positions, At
    <3>2. \A i \in 1..M : kept[i].seatIndex \in Int
      BY <1>7 DEF Seat
    <3>3. \A i \in 1..M : i > k => kept[k].seatIndex < kept[i].seatIndex
      BY <1>5, <1>6 DEF InOrder
    <3> QED BY <1>5, <3>1, <3>2, <3>3
  <2> HIDE DEF behind, dealer, number
  <2>4. (kept = <<>> /\ dealer = 0) \/ dealer \in 0..M - 1
    <3>1. CASE behind # {}
      <4>1. Max(behind) \in 1..M
        BY <1>8, <2>1, <3>1
      <4> QED BY <1>5, <2>2, <3>1, <4>1
    <3>2. CASE behind = {}
      BY <1>5, <2>2, <3>2
    <3> QED BY <3>1, <3>2
  <2>5. ASSUME NEW k \in 1..M, place[k] = game.dealerIndex + 1
        PROVE  dealer = k - 1
    <3>1. k \in behind /\ \A i \in behind : i <= k
      BY <2>3, <2>5
    <3>2. Max(behind) \in behind /\ k <= Max(behind)
      BY <1>8, <2>1, <3>1
    <3>3. Max(behind) <= k /\ Max(behind) \in 1..M
      BY <2>1, <3>1, <3>2
    <3>4. Max(behind) = k
      BY <1>5, <3>2, <3>3
    <3> QED BY <2>2, <2>3, <2>5, <3>1, <3>4
  <2> QED BY <2>4, <2>5
<1> HIDE DEF acting, dealer
<1>11. /\ h.seats = kept /\ h.actingIndex = acting /\ h.dealerIndex = dealer
       /\ SameRound(game, h) /\ SameBlinds(game, h)
  BY <1>2 DEF Table, SameRound, SameBlinds
<1>12. (h.dealerIndex \in Positions(h)) \/ (h.seats = <<>> /\ h.dealerIndex = 0)
  BY <1>10, <1>11 DEF Positions
<1> HIDE DEF h
<1> QED BY <1>1, <1>3, <1>9, <1>10, <1>11, <1>12 DEF Left

-----------------------------------------------------------------------------
(* A seat is edited.                                                        *)

\* The calls that edit a seat change a stack, between hands, and flags, and undo no
\* mark to leave.
SameSeat(s, t) ==
  /\ SameHand(s, t) /\ t.folded = s.folded /\ t.allIn = s.allIn
  /\ t.actedThisRound = s.actedThisRound /\ (s.pendingLeave => t.pendingLeave)
  /\ t.currentBet = s.currentBet /\ t.totalBetThisHand = s.totalBetThisHand
  /\ s.inHand => t.chips = s.chips

\* They change no other seat and nothing else of a hand; SetBlinds changes the
\* blinds, between hands.
Edited(g, h) ==
  /\ SameRound(g, h) /\ SameHands(g, h) /\ h.actingIndex = g.actingIndex
  /\ \A i \in DOMAIN g.seats : SameSeat(g.seats[i], h.seats[i])
  /\ \/ SameBlinds(g, h)
     \/ /\ g.stage = "Waiting"
        /\ \E b \in Blinds : h.smallBlind = b[1] /\ h.bigBlind = b[2]

\* One seat, p's, has a new stack and new flags.
EditedSeat(g, h, p, chips) ==
  \E i \in DOMAIN g.seats, t \in Seat :
    /\ g.seats[i].playerId = p /\ h = [g EXCEPT !.seats[i] = t]
    /\ SameSeat(g.seats[i], t) /\ t.chips = chips

\* Such a seat keeps its place, and all others everything.
LEMMA EditedSeatIs ==
  ASSUME NEW g \in Table, NEW h, NEW p, NEW chips, EditedSeat(g, h, p, chips)
  PROVE  Edited(g, h)
<1>1. PICK i \in DOMAIN g.seats, t \in Seat :
        h = [g EXCEPT !.seats[i] = t] /\ SameSeat(g.seats[i], t)
  BY DEF EditedSeat
<1>2. g.seats \in Seq(Seat)
  BY DEF Table
<1> DEFINE q == [g.seats EXCEPT ![i] = t]
<1>3. /\ Len(q) = Len(g.seats) /\ DOMAIN q = DOMAIN g.seats
      /\ \A j \in DOMAIN g.seats : q[j] = IF j = i THEN t ELSE g.seats[j]
  BY <1>1, <1>2, LenProperties, ExceptSeq
<1>4. h = [g EXCEPT !.seats = q]
  BY <1>1
<1> HIDE DEF q
<1>5. h.seats = q /\ SameRound(g, h) /\ SameBlinds(g, h)
      /\ h.dealerIndex = g.dealerIndex /\ h.actingIndex = g.actingIndex
  BY <1>4 DEF Table, SameRound, SameBlinds
<1>6. \A j \in DOMAIN g.seats : SameSeat(g.seats[j], h.seats[j])
  BY <1>1, <1>3, <1>5 DEF SameSeat, SameHand, SamePlace
<1> QED BY <1>3, <1>5, <1>6 DEF Edited, SameHands, SamePlaces, SameSeat, SameHand

\* The seat of a seated player.
LEMMA SeatOfSeated ==
  ASSUME IInv, NEW p \in Seated
  PROVE  /\ PositionOf(p) \in DOMAIN game.seats
         /\ SeatOf(p) = game.seats[PositionOf(p)]
         /\ SeatOf(p) \in Seat /\ SeatOf(p).playerId = p
<1>1. PICK i \in DOMAIN game.seats : game.seats[i].playerId = p
  BY DEF Seated, ToSet
<1>2. game.seats[PositionOf(p)].playerId = p
  BY <1>1 DEF PositionOf
<1> QED BY <1>2, PositionOfSeated DEF SeatOf

\* BuyIn adds to a stack that is not in a hand.
LEMMA BuyInIs ==
  ASSUME IInv, NEW p \in Players, NEW amount \in BuyIns, BuyIn(p, amount)
  PROVE  /\ EditedSeat(game, game', p, SeatOf(p).chips + amount)
         /\ amount \in Nat /\ ~SeatOf(p).inHand
<1> DEFINE s == SeatOf(p)
           chips == s.chips + amount
           out == s.sittingOut /\ chips < game.bigBlind
           t == [s EXCEPT !.chips = chips, !.sittingOut = out]
<1>1. /\ PositionOf(p) \in DOMAIN game.seats
      /\ s = game.seats[PositionOf(p)] /\ s \in Seat /\ s.playerId = p
  <2>1. p \in Seated
    BY DEF BuyIn
  <2> QED BY <2>1, SeatOfSeated
<1>2. amount \in Nat
  <2>1. game.minBuyin \in Nat /\ amount \in Int /\ amount >= game.minBuyin
    BY GameAssumption DEF BuyIn, IInv, SoundTable, IdleTable, HandTable, Table
  <2> QED BY <2>1
<1>3. game' = [game EXCEPT !.seats[PositionOf(p)] = t]
  <2>1. game' = [game EXCEPT !.seats[PositionOf(p)].chips = chips,
                             !.seats[PositionOf(p)].sittingOut = @ /\ chips < game.bigBlind]
    BY DEF BuyIn
  <2>2. [game.seats EXCEPT ![PositionOf(p)].chips = chips,
                           ![PositionOf(p)].sittingOut = @ /\ chips < game.bigBlind]
          = [game.seats EXCEPT ![PositionOf(p)] = t]
    BY <1>1
  <2> QED BY <2>1, <2>2
<1>4. ~s.inHand /\ out \in BOOLEAN
  BY <1>1 DEF BuyIn, Seat
<1>5. chips \in Nat
  <2>1. s.chips \in Nat
    BY <1>1 DEF Seat
  <2> QED BY <1>2, <2>1
<1> HIDE DEF s, chips, out
<1>6. t \in Seat /\ SameSeat(s, t) /\ t.chips = chips
  BY <1>1, <1>4, <1>5 DEF Seat, SameSeat, SameHand, SamePlace
<1> HIDE DEF t
<1>7. EditedSeat(game, game', p, chips)
  BY <1>1, <1>3, <1>6, Zenon DEF EditedSeat
<1> QED BY <1>2, <1>4, <1>7 DEF chips, s

\* CashOut empties one.
LEMMA CashOutIs ==
  ASSUME IInv, NEW p \in Players, CashOut(p)
  PROVE  EditedSeat(game, game', p, 0) /\ ~SeatOf(p).inHand
<1> DEFINE s == SeatOf(p)
           t == [s EXCEPT !.chips = 0, !.sittingOut = TRUE]
<1>1. /\ PositionOf(p) \in DOMAIN game.seats
      /\ s = game.seats[PositionOf(p)] /\ s \in Seat /\ s.playerId = p /\ ~s.inHand
  <2>1. p \in Seated /\ ~s.inHand
    BY DEF CashOut
  <2> QED BY <2>1, SeatOfSeated
<1>2. game' = [game EXCEPT !.seats[PositionOf(p)] = t]
  <2>1. [game.seats EXCEPT ![PositionOf(p)].chips = 0,
                           ![PositionOf(p)].sittingOut = TRUE]
          = [game.seats EXCEPT ![PositionOf(p)] = t]
    BY <1>1
  <2> QED BY <2>1 DEF CashOut
<1> HIDE DEF s
<1>3. t \in Seat /\ SameSeat(s, t) /\ t.chips = 0
  BY <1>1 DEF Seat, SameSeat, SameHand, SamePlace
<1> HIDE DEF t
<1>4. EditedSeat(game, game', p, 0)
  BY <1>1, <1>2, <1>3, Zenon DEF EditedSeat
<1> QED BY <1>1, <1>4 DEF s

\* StandUp, SitBack and MarkPendingLeave set flags.
LEMMA FlagsAre ==
  ASSUME IInv, NEW p \in Players, StandUp(p) \/ SitBack(p) \/ MarkPendingLeave(p)
  PROVE  p \in Seated /\ EditedSeat(game, game', p, SeatOf(p).chips)
<1> DEFINE s == SeatOf(p)
           i == PositionOf(p)
<1>1. p \in Seated
  BY DEF StandUp, SitBack, MarkPendingLeave
<1>2. i \in DOMAIN game.seats /\ s = game.seats[i] /\ s \in Seat /\ s.playerId = p
  BY <1>1, SeatOfSeated
<1>3. s.inHand \in BOOLEAN /\ s.autoMode \in BOOLEAN
  BY <1>2 DEF Seat
<1>4. ASSUME NEW t, t \in Seat, SameSeat(s, t), t.chips = s.chips,
             game' = [game EXCEPT !.seats[i] = t]
      PROVE  EditedSeat(game, game', p, s.chips)
  <2> HIDE DEF s, i
  <2> QED BY <1>2, <1>4, Zenon DEF EditedSeat
<1>5. CASE StandUp(p)
  <2> DEFINE auto == s.autoMode \/ s.inHand
             t == [s EXCEPT !.sittingOut = TRUE, !.autoMode = auto]
  <2>1. game' = [game EXCEPT !.seats[i] = t]
    <3>1. [game.seats EXCEPT ![i].sittingOut = TRUE, ![i].autoMode = @ \/ s.inHand]
            = [game.seats EXCEPT ![i] = t]
      BY <1>2
    <3> QED BY <1>5, <3>1 DEF StandUp
  <2>2. auto \in BOOLEAN
    BY <1>3
  <2> HIDE DEF s, i, auto
  <2>3. t \in Seat /\ SameSeat(s, t) /\ t.chips = s.chips
    BY <1>2, <2>2 DEF Seat, SameSeat, SameHand, SamePlace
  <2> HIDE DEF t
  <2> QED BY <1>1, <1>4, <2>1, <2>3 DEF s
<1>6. CASE SitBack(p)
  <2> DEFINE t == [s EXCEPT !.sittingOut = FALSE, !.autoMode = FALSE]
  <2>1. game' = [game EXCEPT !.seats[i] = t]
    <3>1. [game.seats EXCEPT ![i].sittingOut = FALSE, ![i].autoMode = FALSE]
            = [game.seats EXCEPT ![i] = t]
      BY <1>2
    <3> QED BY <1>6, <3>1 DEF SitBack
  <2> HIDE DEF s, i
  <2>2. t \in Seat /\ SameSeat(s, t) /\ t.chips = s.chips
    BY <1>2 DEF Seat, SameSeat, SameHand, SamePlace
  <2> HIDE DEF t
  <2> QED BY <1>1, <1>4, <2>1, <2>2 DEF s
<1>7. CASE MarkPendingLeave(p)
  <2> DEFINE t == [s EXCEPT !.pendingLeave = TRUE, !.autoMode = TRUE]
  <2>1. game' = [game EXCEPT !.seats[i] = t]
    <3>1. [game.seats EXCEPT ![i].pendingLeave = TRUE, ![i].autoMode = TRUE]
            = [game.seats EXCEPT ![i] = t]
      BY <1>2
    <3> QED BY <1>7, <3>1 DEF MarkPendingLeave
  <2> HIDE DEF s, i
  <2>2. t \in Seat /\ SameSeat(s, t) /\ t.chips = s.chips
    BY <1>2 DEF Seat, SameSeat, SameHand, SamePlace
  <2> HIDE DEF t
  <2> QED BY <1>1, <1>4, <2>1, <2>2 DEF s
<1> QED BY <1>5, <1>6, <1>7

\* SetBlinds, between hands.
LEMMA SetBlindsIs ==
  ASSUME IInv, NEW blinds \in Blinds, SetBlinds(blinds)
  PROVE  Edited(game, game')
<1> DEFINE buyin == blinds[2] * BuyinFactor
           h == [game EXCEPT !.smallBlind = blinds[1], !.bigBlind = blinds[2],
                             !.minBuyin = buyin]
<1>1. game.stage = "Waiting" /\ game' = h
  BY DEF SetBlinds, InHand
<1> HIDE DEF buyin
<1>2. /\ h.seats = game.seats /\ SameRound(game, h)
      /\ h.dealerIndex = game.dealerIndex /\ h.actingIndex = game.actingIndex
      /\ h.smallBlind = blinds[1] /\ h.bigBlind = blinds[2]
  BY TableTypes DEF Table, SameRound
<1> HIDE DEF h
<1> QED BY <1>1, <1>2 DEF Edited, SameHands, SamePlaces, SameSeat, SameHand, SamePlace

\* ClearPendingHandResult, and a call that is refused.
LEMMA NothingEdited ==
  ASSUME IInv, ClearPendingHandResult \/ UNCHANGED vars
  PROVE  Edited(game, game')
<1>1. /\ game'.seats = game.seats /\ SameRound(game, game') /\ SameBlinds(game, game')
      /\ game'.dealerIndex = game.dealerIndex /\ game'.actingIndex = game.actingIndex
  <2>1. CASE UNCHANGED vars
    BY <2>1 DEF vars, SameRound, SameBlinds
  <2>2. CASE ClearPendingHandResult
    <3> DEFINE h == [game EXCEPT !.hasPendingHandResult = FALSE]
    <3>1. game' = h
      BY <2>2 DEF ClearPendingHandResult
    <3>2. /\ h.seats = game.seats /\ SameRound(game, h) /\ SameBlinds(game, h)
          /\ h.dealerIndex = game.dealerIndex /\ h.actingIndex = game.actingIndex
      BY TableTypes DEF Table, SameRound, SameBlinds
    <3> HIDE DEF h
    <3> QED BY <3>1, <3>2
  <2> QED BY <2>1, <2>2
<1> QED BY <1>1 DEF Edited, SameHands, SamePlaces, SameSeat, SameHand, SamePlace

-----------------------------------------------------------------------------
(* A seat acts.                                                             *)

\* ProcessAutoModePlayer starts from the first seat when the turn points past the
\* last.
Aimed(g) == [g EXCEPT !.actingIndex = IF @ >= Len(g.seats) THEN 0 ELSE @]

\* The seat whose turn it is has done what HandleAction or ProcessAutoModePlayer does
\* before they call PlayOn.
Acting(a, t) ==
  /\ CanAct(At(a, a.actingIndex))
  /\ \/ t = AutoPlayed(a)
     \/ \E action \in Actions, amount \in Int :
          Legal(a, At(a, a.actingIndex), action, amount) /\ t = Played(a, action, amount)

\* The seat whose turn it is acts and the hand goes on, or it is left to its player.
Turned(g, h) ==
  LET a == Aimed(g)
  IN  /\ g \in HandTable /\ g.stage \in Streets
      /\ a \in HandTable /\ a.actingIndex \in Positions(a)
      /\ \/ h = a
         \/ \E t, pay : /\ Acted(a, t, a.actingIndex + 1, pay) /\ Acting(a, t)
                        /\ h \in Outcomes(PlayOn(t))

\* Aiming moves nothing but the turn, and not that when it points at a seat.
LEMMA AimedIs ==
  ASSUME NEW g \in HandTable
  PROVE  LET a == Aimed(g)
         IN  /\ a \in HandTable /\ a.seats = g.seats /\ SameRound(g, a) /\ SameBlinds(g, a)
             /\ a.dealerIndex = g.dealerIndex
             /\ g.seats # <<>> => a.actingIndex \in Positions(a)
             /\ g.actingIndex \in Positions(g) => a = g
<1> DEFINE index == IF g.actingIndex >= Len(g.seats) THEN 0 ELSE g.actingIndex
           a == [g EXCEPT !.actingIndex = index]
<1>1. /\ g \in Table /\ g.seats \in Seq(Seat) /\ g.actingIndex \in Nat
      /\ Len(g.seats) \in Nat /\ (g.seats # <<>> => Len(g.seats) # 0)
  <2>1. g \in Table
    BY DEF HandTable
  <2>2. g.seats \in Seq(Seat) /\ g.actingIndex \in Nat
    BY <2>1 DEF Table
  <2> QED BY <2>1, <2>2, LenProperties, EmptySeq
<1>2. index \in Nat /\ (g.seats # <<>> => index < Len(g.seats))
  BY <1>1
<1>3. Aimed(g) = a
  BY DEF Aimed
<1>4. g.actingIndex \in Positions(g) => index = g.actingIndex
  BY <1>1 DEF Positions
<1> HIDE DEF index
<1>5. /\ a.seats = g.seats /\ SameRound(g, a) /\ SameBlinds(g, a)
      /\ a.dealerIndex = g.dealerIndex /\ a.actingIndex = index
  BY <1>1 DEF Table, SameRound, SameBlinds
<1>6. index = g.actingIndex => a = g
  BY <1>1 DEF Table
<1>7. a \in HandTable
  BY <1>2, TurnHand
<1> HIDE DEF a
<1>8. g.seats # <<>> => a.actingIndex \in Positions(a)
  BY <1>1, <1>2, <1>5 DEF Positions
<1> QED BY <1>3, <1>4, <1>5, <1>6, <1>7, <1>8

\* HandleAction.
LEMMA HandleActionIs ==
  ASSUME IInv, NEW p \in Players, NEW action \in Actions, NEW amount \in Int,
         HandleAction(p, action, amount)
  PROVE  Turned(game, game')
<1>1. game \in HandTable /\ game.stage \in Streets
  BY DEF IInv, SoundTable, IdleTable, HandleAction, InHand
<1>2. game.actingIndex \in Positions(game) /\ Aimed(game) = game
  BY <1>1, AimedIs DEF HandleAction
<1>3. PICK pay : Acted(game, Played(game, action, amount), game.actingIndex + 1, pay)
  BY <1>1, <1>2, PlayedActs DEF HandleAction
<1>4. /\ game' \in Outcomes(PlayOn(Played(game, action, amount)))
      /\ Acting(game, Played(game, action, amount))
  BY DEF HandleAction, Acting
<1> QED BY <1>1, <1>2, <1>3, <1>4 DEF Turned

\* ProcessAutoModePlayer.
LEMMA ProcessAutoModePlayerIs ==
  ASSUME IInv, ProcessAutoModePlayer
  PROVE  Turned(game, game')
<1> DEFINE a == Aimed(game)
<1>1. game \in HandTable /\ game.stage \in Streets /\ game.seats # <<>>
  BY DEF IInv, SoundTable, IdleTable, ProcessAutoModePlayer, InHand
<1>2. a \in HandTable /\ a.actingIndex \in Positions(a)
  BY <1>1, AimedIs
<1>3. \/ game' = a
      \/ CanAct(At(a, a.actingIndex)) /\ game' \in Outcomes(PlayOn(AutoPlayed(a)))
  BY DEF ProcessAutoModePlayer, Aimed
<1> HIDE DEF a
<1>4. CanAct(At(a, a.actingIndex))
        => Acted(a, AutoPlayed(a), a.actingIndex + 1, 0) /\ Acting(a, AutoPlayed(a))
  BY <1>2, AutoPlayedActs DEF Acting
<1> QED BY <1>1, <1>2, <1>3, <1>4 DEF Turned, a

-----------------------------------------------------------------------------
(* Every step.                                                              *)

\* A step of the table is of one of five kinds.
LEMMA StepKinds ==
  ASSUME IInv, Ordered(game), [Next]_vars
  PROVE  \/ Edited(game, game')
         \/ Made("SitDown") /\ Joined(game, game')
         \/ RemovePendingLeavers /\ Left(game, game')
         \/ game \in IdleTable /\ CanStart(game) /\ Started(game, game')
         \/ Turned(game, game')
<1>1. CASE TakeTurn
  <2>1. {"CheckCall", "AllIn", "Fold", "Bet", "Raise"} \subseteq Actions /\ 0 \in Int
    BY DEF Actions
  <2>2. PICK p \in Players :
          \/ \E action \in {"CheckCall", "AllIn", "Fold"} : HandleAction(p, action, 0)
          \/ \E action \in {"Bet", "Raise"}, amount \in Amounts :
               HandleAction(p, action, amount)
    BY <1>1 DEF TakeTurn
  <2>3. Turned(game, game')
    BY <2>1, <2>2, HandleActionIs, GameAssumption
  <2> QED BY <2>3
<1>2. CASE TableCall
  <2>1. ASSUME NEW blinds \in Blinds, SetBlinds(blinds) PROVE Edited(game, game')
    BY <2>1, SetBlindsIs
  <2>2. ASSUME NEW p \in Players, SitDown(p)
        PROVE  Made("SitDown") /\ Joined(game, game')
    <3>1. Made("SitDown")
      BY <2>2 DEF SitDown
    <3> QED BY <2>2, <3>1, SitDownIs DEF Ordered
  <2>3. ASSUME NEW p \in Players, NEW amount \in BuyIns, BuyIn(p, amount)
        PROVE  Edited(game, game')
    BY <2>3, BuyInIs, EditedSeatIs, TableTypes
  <2>4. ASSUME NEW p \in Players, StandUp(p) \/ SitBack(p) \/ MarkPendingLeave(p)
        PROVE  Edited(game, game')
    BY <2>4, FlagsAre, EditedSeatIs, TableTypes
  <2>5. ASSUME NEW p \in Players, CashOut(p) PROVE Edited(game, game')
    BY <2>5, CashOutIs, EditedSeatIs, TableTypes
  <2>6. ASSUME RemovePendingLeavers PROVE Left(game, game')
    BY <2>6, RemovePendingLeaversIs
  <2>7. ASSUME ClearPendingHandResult PROVE Edited(game, game')
    BY <2>7, NothingEdited
  <2>8. ASSUME StartHand
        PROVE  game \in IdleTable /\ CanStart(game) /\ Started(game, game')
    <3>1. game \in IdleTable /\ CanStart(game) /\ game' = HandStarted(game)
      BY <2>8 DEF IInv, SoundTable, StartHand, CanStart, Streets
    <3> QED BY <3>1, HandStartedIs
  <2>9. ASSUME ProcessAutoModePlayer PROVE Turned(game, game')
    BY <2>9, ProcessAutoModePlayerIs
  <2> QED
    BY <1>2, <2>1, <2>2, <2>3, <2>4, <2>5, <2>6, <2>7, <2>8, <2>9 DEF TableCall
<1>3. CASE UNCHANGED vars
  BY <1>3, NothingEdited
<1> QED BY <1>1, <1>2, <1>3 DEF Next

-----------------------------------------------------------------------------
(* What a turn leaves.                                                      *)

\* However the hand ended: everybody is where they were.
Ended(t, h) ==
  /\ SamePlaces(t, h) /\ h.stage = "Waiting" /\ h.sidePots = <<>>
  /\ SameBlinds(t, h) /\ h.actingIndex = t.actingIndex

\* The turn passes to a live seat, on this street or the next.
GoesOn(t, h) ==
  \/ \E k \in Positions(t) :
       /\ TwoAlive(t) /\ Passes(t, k)
       /\ Live(At(t, k)) /\ h = [t EXCEPT !.actingIndex = k]
  \/ /\ t.stage \in {"PreFlop", "Flop", "Turn"} /\ TwoAlive(t)
     /\ \E i \in DOMAIN t.seats : Live(t.seats[i])
     /\ h = NewStreet(CollectBetsToSidePots(t))

\* Nobody moves when bets are collected, pots are paid or a seat is cleared.
LEMMA PlacesStay ==
  /\ \A g \in HandTable : SameHands(g, CollectBetsToSidePots(g))
  /\ \A g \in Table : \A scores : SamePlaces(g, DistributePots(g, scores))
  /\ \A g \in Table : SamePlaces(g, FinishHand(g))
<1>1. \A s \in Seat : /\ SameHand(s, [s EXCEPT !.currentBet = 0])
                      /\ SamePlace(s, ClearedSeat(s))
                      /\ \A n : SamePlace(s, [s EXCEPT !.chips = @ + n])
  BY DEF Seat, SameHand, SamePlace, ClearedSeat
<1>2. \A g \in Table : \A i \in DOMAIN g.seats : g.seats[i] \in Seat
  BY SeatsAre DEF Table
<1>3. ASSUME NEW g \in HandTable PROVE SameHands(g, CollectBetsToSidePots(g))
  <2> DEFINE c == CollectBetsToSidePots(g)
  <2>1. /\ Len(c.seats) = Len(g.seats) /\ DOMAIN c.seats = DOMAIN g.seats
        /\ c.dealerIndex = g.dealerIndex
        /\ \/ c = g
           \/ \A i \in DOMAIN g.seats : c.seats[i] = [g.seats[i] EXCEPT !.currentBet = 0]
    BY CollectIs
  <2>2. \A i \in DOMAIN g.seats : g.seats[i] \in Seat
    BY <1>2 DEF HandTable
  <2> HIDE DEF c
  <2>3. \A i \in DOMAIN g.seats : SameHand(g.seats[i], c.seats[i])
    <3>1. CASE c = g
      BY <3>1 DEF SameHand, SamePlace
    <3>2. CASE \A i \in DOMAIN g.seats : c.seats[i] = [g.seats[i] EXCEPT !.currentBet = 0]
      BY <1>1, <2>2, <3>2, Zenon
    <3> QED BY <2>1, <3>1, <3>2
  <2> QED BY <2>1, <2>3 DEF SameHands, SamePlaces, SameHand, c
<1>4. ASSUME NEW g \in Table, NEW scores PROVE SamePlaces(g, DistributePots(g, scores))
  <2> DEFINE d == DistributePots(g, scores)
  <2>1. /\ Len(d.seats) = Len(g.seats) /\ DOMAIN d.seats = DOMAIN g.seats
        /\ d.dealerIndex = g.dealerIndex
        /\ \A i \in DOMAIN g.seats :
             d.seats[i] = [g.seats[i] EXCEPT !.chips = @ + Won(g, scores, i)]
    BY DistributePotsIs
  <2> HIDE DEF d
  <2>2. \A i \in DOMAIN g.seats : SamePlace(g.seats[i], d.seats[i])
    <3> SUFFICES ASSUME NEW i \in DOMAIN g.seats PROVE SamePlace(g.seats[i], d.seats[i])
      OBVIOUS
    <3>1. g.seats[i] \in Seat
          /\ d.seats[i] = [g.seats[i] EXCEPT !.chips = @ + Won(g, scores, i)]
      BY <1>2, <2>1
    <3> QED BY <1>1, <3>1 DEF SamePlace, Seat
  <2> QED BY <2>1, <2>2 DEF SamePlaces, d
<1>5. ASSUME NEW g \in Table PROVE SamePlaces(g, FinishHand(g))
  <2> DEFINE d == FinishHand(g)
  <2>1. /\ Len(d.seats) = Len(g.seats) /\ DOMAIN d.seats = DOMAIN g.seats
        /\ d.dealerIndex = g.dealerIndex
        /\ \A i \in DOMAIN g.seats : d.seats[i] = ClearedSeat(g.seats[i])
    BY FinishHandIs
  <2> HIDE DEF d
  <2>2. \A i \in DOMAIN g.seats : SamePlace(g.seats[i], d.seats[i])
    BY <1>1, <1>2, <2>1, Zenon
  <2> QED BY <2>1, <2>2 DEF SamePlaces, d
<1> QED BY <1>3, <1>4, <1>5

\* A turn ends the hand or passes to a live seat.
LEMMA PlayedOn ==
  ASSUME NEW t \in HandTable, t.stage \in Streets, NEW h \in Outcomes(PlayOn(t))
  PROVE  Ended(t, h) \/ GoesOn(t, h)
<1>1. t \in Table
  BY DEF HandTable
<1>2. ASSUME h = FinishHand(t) PROVE Ended(t, h)
  BY <1>1, <1>2, FinishHandIs, PlacesStay DEF Ended
<1>3. ASSUME NEW i \in DOMAIN t.seats, h = SingleWinner(t, i) PROVE Ended(t, h)
  BY <1>3, SingleWinnerIs DEF Ended
<1>4. ASSUME NEW d, NEW scores, ShowdownOf(t, d),
             h = FinishHand(DistributePots(CollectBetsToSidePots(d), scores))
      PROVE  Ended(t, h)
  <2> DEFINE c == CollectBetsToSidePots(d)
             w == DistributePots(c, scores)
  <2>1. /\ d \in HandTable /\ d.dealerIndex = t.dealerIndex
        /\ d.actingIndex = t.actingIndex /\ SameBlinds(t, d)
        /\ d.seats = t.seats \/ d.seats = CollectBetsToSidePots(t).seats
    BY <1>4 DEF ShowdownOf
  <2>2. SamePlaces(t, d)
    <3>1. SameHands(t, CollectBetsToSidePots(t))
      BY PlacesStay
    <3> QED BY <2>1, <3>1 DEF SameHands, SamePlaces, SamePlace
  <2>3. /\ c \in HandTable /\ c \in Table /\ SamePlaces(d, c)
        /\ c.actingIndex = d.actingIndex /\ SameBlinds(d, c)
    BY <2>1, CollectIs, PlacesStay DEF HandTable, SameHands
  <2> HIDE DEF c
  <2>4. /\ w \in Table /\ SamePlaces(c, w)
        /\ w.actingIndex = c.actingIndex /\ SameBlinds(c, w)
    BY <2>3, DistributePotsIs, PlacesStay
  <2>5. h = FinishHand(w)
    BY <1>4 DEF c
  <2> HIDE DEF w
  <2>6. /\ SamePlaces(w, h) /\ h.stage = "Waiting" /\ h.sidePots = <<>>
        /\ h.actingIndex = w.actingIndex /\ SameBlinds(w, h)
    BY <2>4, <2>5, FinishHandIs, PlacesStay
  <2>7. SamePlaces(t, h)
    BY <2>2, <2>3, <2>4, <2>6 DEF SamePlaces, SamePlace
  <2> QED BY <2>1, <2>3, <2>4, <2>6, <2>7 DEF Ended, SameBlinds
<1> QED BY <1>2, <1>3, <1>4, PlayOnCases DEF GoesOn

\* A seat at the beginning of a street.
LEMMA ResetSeat ==
  ASSUME NEW s \in Seat, NEW z, z = [s EXCEPT !.currentBet = 0, !.actedThisRound = FALSE]
  PROVE  SameHand(s, z) /\ z.currentBet = 0
BY DEF Seat, SameHand, SamePlace

\* One helper after the other.
LEMMA SameHandsChain ==
  ASSUME NEW g, NEW c, NEW h, SameHands(g, c), SameHands(c, h)
  PROVE  SameHands(g, h)
BY DEF SameHands, SamePlaces, SameHand, SamePlace

\* A new street begins at a table where nobody has moved, with the turn at a live
\* seat.
LEMMA StreetIs ==
  ASSUME NEW t \in HandTable, t.stage \in {"PreFlop", "Flop", "Turn"},
         \E i \in DOMAIN t.seats : Live(t.seats[i])
  PROVE  LET h == NewStreet(CollectBetsToSidePots(t))
         IN  /\ h \in HandTable /\ SameHands(t, h) /\ SameBlinds(t, h)
             /\ \A i \in DOMAIN t.seats : h.seats[i].currentBet = 0
             /\ h.lastBet = 0 /\ h.sidePots = CollectBetsToSidePots(t).sidePots
             /\ h.stage = NextStreet[t.stage]
             /\ h.community = t.community + CardsDealt[t.stage]
             /\ h.deck = Max({0, t.deck - CardsDealt[t.stage]})
             /\ h.actingIndex \in Positions(h) /\ Live(At(h, h.actingIndex))
<1> DEFINE c == CollectBetsToSidePots(t)
           h == NewStreet(c)
<1>1. /\ c \in HandTable /\ SameHands(t, c) /\ SameBlinds(t, c) /\ c.stage = t.stage
      /\ c.community = t.community /\ c.deck = t.deck
      /\ DOMAIN c.seats = DOMAIN t.seats
      /\ \/ c = t
         \/ \A i \in DOMAIN t.seats : c.seats[i] = [t.seats[i] EXCEPT !.currentBet = 0]
  BY CollectIs, PlacesStay
<1>2. \E i \in DOMAIN c.seats : Live(c.seats[i])
  <2>1. \A s \in Seat : Live(s) => Live([s EXCEPT !.currentBet = 0])
    BY DEF Seat, Live, Alive, IsOccupied
  <2>2. \A i \in DOMAIN t.seats : t.seats[i] \in Seat
    BY SeatsAre DEF HandTable, Table
  <2> HIDE DEF c
  <2>3. PICK i \in DOMAIN t.seats : Live(t.seats[i])
    OBVIOUS
  <2>4. CASE c = t
    BY <2>3, <2>4
  <2>5. CASE \A j \in DOMAIN t.seats : c.seats[j] = [t.seats[j] EXCEPT !.currentBet = 0]
    <3>1. c.seats[i] = [t.seats[i] EXCEPT !.currentBet = 0] /\ t.seats[i] \in Seat
      BY <2>2, <2>3, <2>5
    <3>2. Live(c.seats[i])
      BY <2>1, <2>3, <3>1
    <3> QED BY <1>1, <3>2
  <2> QED BY <1>1, <2>4, <2>5
<1> HIDE DEF c
<1>3. /\ h \in HandTable
      /\ Len(h.seats) = Len(c.seats) /\ DOMAIN h.seats = DOMAIN c.seats
      /\ \A i \in DOMAIN c.seats :
           h.seats[i] = [c.seats[i] EXCEPT !.currentBet = 0, !.actedThisRound = FALSE]
      /\ h.lastBet = 0 /\ h.sidePots = c.sidePots
      /\ h.stage = NextStreet[c.stage] /\ SameBlinds(c, h)
      /\ h.dealerIndex = c.dealerIndex
      /\ h.community = c.community + CardsDealt[c.stage]
      /\ h.deck = Max({0, c.deck - CardsDealt[c.stage]})
      /\ h.actingIndex \in Positions(c) /\ Positions(c) = Positions(h)
      /\ Live(At(h, h.actingIndex))
  BY <1>1, <1>2, NewStreetIs DEF Positions
<1> HIDE DEF h
<1>4. \A i \in DOMAIN c.seats : SameHand(c.seats[i], h.seats[i]) /\ h.seats[i].currentBet = 0
  <2>1. \A i \in DOMAIN c.seats : c.seats[i] \in Seat
    BY <1>1, SeatsAre DEF HandTable, Table
  <2> QED BY <1>3, <2>1, ResetSeat
<1>5. SameHands(t, h)
  <2>1. SameHands(c, h)
    BY <1>3, <1>4 DEF SameHands, SamePlaces, SameHand
  <2> QED BY <1>1, <2>1, SameHandsChain
<1>6. SameBlinds(t, h)
  BY <1>1, <1>3 DEF SameBlinds
<1> QED BY <1>1, <1>3, <1>4, <1>5, <1>6 DEF h, c

-----------------------------------------------------------------------------
(* Seats in order.                                                          *)

\* A turn moves nobody and stays at the table.
LEMMA TurnedPlaces ==
  ASSUME NEW g, NEW h, Turned(g, h)
  PROVE  SamePlaces(g, h) /\ h.actingIndex \in 0 .. Len(h.seats)
<1> DEFINE a == Aimed(g)
<1>1. g \in HandTable /\ a \in HandTable /\ a.actingIndex \in Positions(a)
      /\ g.stage \in Streets /\ a.stage = g.stage
  BY AimedIs DEF Turned, SameRound
<1>2. SamePlaces(g, a)
  BY <1>1, AimedIs DEF SamePlaces, SamePlace
<1>3. \/ h = a
      \/ \E t, pay : Acted(a, t, a.actingIndex + 1, pay) /\ h \in Outcomes(PlayOn(t))
  BY DEF Turned
<1> HIDE DEF a
<1>4. Len(a.seats) \in Nat /\ Positions(a) = 0..Len(a.seats) - 1
  BY <1>1, SeatsAre DEF HandTable, Positions
<1>5. CASE h = a
  BY <1>1, <1>2, <1>4, <1>5
<1>6. CASE \E t, pay : Acted(a, t, a.actingIndex + 1, pay) /\ h \in Outcomes(PlayOn(t))
  <2>1. PICK t, pay : Acted(a, t, a.actingIndex + 1, pay) /\ h \in Outcomes(PlayOn(t))
    BY <1>6
  <2>2. /\ t \in HandTable /\ t.stage \in Streets /\ SamePlaces(a, t)
        /\ t.actingIndex = a.actingIndex /\ Len(t.seats) = Len(a.seats)
        /\ Positions(t) = Positions(a)
    BY <1>1, <2>1 DEF Acted, SameHands, SamePlaces, Positions
  <2>3. CASE Ended(t, h)
    BY <1>1, <1>2, <1>4, <2>2, <2>3 DEF Ended, SamePlaces, SamePlace
  <2>4. CASE GoesOn(t, h)
    <3>1. SamePlaces(t, h) /\ h.actingIndex \in 0..Len(h.seats) - 1
      <4>1. CASE \E k \in Positions(t) : Live(At(t, k)) /\ h = [t EXCEPT !.actingIndex = k]
        <5>1. PICK k \in Positions(t) : h = [t EXCEPT !.actingIndex = k]
          BY <4>1
        <5>2. k \in Nat
          BY <1>4, <2>2
        <5>3. h.seats = t.seats /\ h.dealerIndex = t.dealerIndex /\ h.actingIndex = k
          BY <2>2, <5>1, <5>2, TurnIs
        <5> QED BY <5>3 DEF SamePlaces, SamePlace, Positions
      <4>2. CASE /\ t.stage \in {"PreFlop", "Flop", "Turn"}
                 /\ \E i \in DOMAIN t.seats : Live(t.seats[i])
                 /\ h = NewStreet(CollectBetsToSidePots(t))
        BY <2>2, <4>2, StreetIs DEF SameHands, Positions
      <4> QED BY <2>4, <4>1, <4>2 DEF GoesOn
    <3>2. Len(h.seats) = Len(a.seats)
      BY <2>2, <3>1 DEF SamePlaces
    <3> QED BY <1>2, <1>4, <2>2, <3>1, <3>2 DEF SamePlaces, SamePlace
  <2> QED BY <2>1, <2>2, <2>3, <2>4, PlayedOn
<1> QED BY <1>3, <1>5, <1>6

\* The same players in the same chairs are in the same order.
LEMMA SamePlacesOrdered ==
  ASSUME NEW g, InOrder(g.seats), NEW h, DOMAIN h.seats = DOMAIN g.seats,
         \A i \in DOMAIN g.seats : SamePlace(g.seats[i], h.seats[i])
  PROVE  InOrder(h.seats)
BY DEF InOrder, SamePlace

\* The newcomer's number and name are new.
LEMMA InsertedInOrder ==
  ASSUME NEW q \in Seq(Seat), InOrder(q), NEW s \in Seat, NEW k,
         NEW r \in Seq(Seat), Inserted(q, s, k, r),
         \A i \in DOMAIN q : q[i].playerId # s.playerId
  PROVE  InOrder(r)
<1>1. /\ Len(q) \in Nat /\ DOMAIN q = 1..Len(q) /\ DOMAIN r = 1..Len(q) + 1
      /\ k \in 0..Len(q) /\ Len(r) = Len(q) + 1
      /\ \A i \in 1..Len(q) : q[i].seatIndex \in Int
      /\ s.seatIndex \in Int
  <2>1. \A t \in Seat : t.seatIndex \in Int
    BY DEF Seat
  <2> QED BY <2>1, LenProperties, ElementOfSeq DEF Inserted
<1> DEFINE at(i) == IF i <= k THEN q[i] ELSE IF i = k + 1 THEN s ELSE q[i - 1]
<1>2. \A i \in DOMAIN r : r[i] = at(i)
  <2> SUFFICES ASSUME NEW i \in DOMAIN r PROVE r[i] = at(i)
    OBVIOUS
  <2>1. CASE i <= k
    BY <1>1, <2>1 DEF Inserted
  <2>2. CASE i = k + 1
    BY <1>1, <2>2 DEF Inserted
  <2>3. CASE i > k + 1
    <3>1. i - 1 \in k + 1 .. Len(q) /\ (i - 1) + 1 = i
      BY <1>1, <2>3
    <3>2. r[(i - 1) + 1] = q[i - 1]
      BY <3>1 DEF Inserted
    <3> QED BY <1>1, <2>3, <3>1, <3>2
  <2> QED BY <1>1, <2>1, <2>2, <2>3
<1>3. /\ \A i \in 1..k : q[i].seatIndex < s.seatIndex
      /\ \A i \in k + 1 .. Len(q) : s.seatIndex < q[i].seatIndex
  BY DEF Inserted
<1> SUFFICES ASSUME NEW i \in DOMAIN r, NEW j \in DOMAIN r, i < j
             PROVE  at(i).seatIndex < at(j).seatIndex /\ at(i).playerId # at(j).playerId
  BY <1>2 DEF InOrder
<1>4. /\ i \in Int /\ j \in Int /\ 1 <= i /\ j <= Len(q) + 1
  BY <1>1
<1>5. CASE j <= k
  <2>1. i \in 1..Len(q) /\ j \in 1..Len(q) /\ i <= k
    BY <1>1, <1>4, <1>5
  <2> QED BY <1>1, <1>5, <2>1 DEF InOrder
<1>6. CASE j = k + 1
  <2>1. i \in 1..k /\ i <= k /\ ~(j <= k) /\ i \in 1..Len(q)
    BY <1>1, <1>4, <1>6
  <2> QED BY <1>1, <1>3, <1>6, <2>1
<1>7. CASE j > k + 1 /\ i <= k
  <2>1. i \in 1..Len(q) /\ j - 1 \in 1..Len(q) /\ i < j - 1 /\ ~(j <= k) /\ j # k + 1
    BY <1>1, <1>4, <1>7
  <2> QED BY <1>1, <1>7, <2>1 DEF InOrder
<1>8. CASE j > k + 1 /\ i = k + 1
  <2>1. ~(i <= k) /\ j - 1 \in k + 1 .. Len(q) /\ j - 1 \in 1..Len(q) /\ ~(j <= k) /\ j # k + 1
    BY <1>1, <1>4, <1>8
  <2> QED BY <1>1, <1>3, <1>8, <2>1
<1>9. CASE j > k + 1 /\ i > k + 1
  <2>1. /\ ~(i <= k) /\ i # k + 1 /\ ~(j <= k) /\ j # k + 1
        /\ i - 1 \in 1..Len(q) /\ j - 1 \in 1..Len(q) /\ i - 1 < j - 1
    BY <1>1, <1>4, <1>9
  <2> QED BY <1>1, <2>1 DEF InOrder
<1> QED BY <1>1, <1>4, <1>5, <1>6, <1>7, <1>8, <1>9

\* Every call keeps the seats in order and the button at one of them.
LEMMA OrderedKept ==
  ASSUME IInv, Ordered(game), [Next]_vars
  PROVE  Ordered(game')
<1> DEFINE g == game
           h == game'
<1>1. /\ g.seats \in Seq(Seat) /\ h.seats \in Seq(Seat)
      /\ Len(g.seats) \in Nat /\ Len(h.seats) \in Nat
      /\ DOMAIN g.seats = 1..Len(g.seats) /\ DOMAIN h.seats = 1..Len(h.seats)
      /\ (g.seats = <<>> => Len(g.seats) = 0) /\ (Len(h.seats) = 0 => h.seats = <<>>)
  <2>1. g.seats \in Seq(Seat)
    BY TableTypes
  <2>2. h.seats \in Seq(Seat)
    <3>1. IInv'
      BY NextKeeps
    <3> QED BY <3>1, SoundSeqs DEF IInv, SoundTable, IdleTable, HandTable
  <2> QED BY <2>1, <2>2, LenProperties, EmptySeq
<1>2. /\ InOrder(g.seats)
      /\ g.dealerIndex \in 0..Len(g.seats) - 1 \/ (g.seats = <<>> /\ g.dealerIndex = 0)
      /\ g.actingIndex \in 0..Len(g.seats)
  BY DEF Ordered, Positions
<1>3. \/ Edited(g, h) \/ Joined(g, h) \/ Left(g, h) \/ Started(g, h) \/ Turned(g, h)
  BY StepKinds
<1> HIDE DEF g, h
<1> SUFFICES /\ InOrder(h.seats)
             /\ h.dealerIndex \in 0..Len(h.seats) - 1 \/ (h.seats = <<>> /\ h.dealerIndex = 0)
             /\ h.actingIndex \in 0..Len(h.seats)
  BY DEF Ordered, Positions, h
<1>4. ASSUME SamePlaces(g, h), h.actingIndex \in 0..Len(h.seats)
      PROVE  /\ InOrder(h.seats)
             /\ h.dealerIndex \in 0..Len(h.seats) - 1 \/ (h.seats = <<>> /\ h.dealerIndex = 0)
             /\ h.actingIndex \in 0..Len(h.seats)
  <2>1. InOrder(h.seats)
    BY <1>2, <1>4, SamePlacesOrdered DEF SamePlaces
  <2> QED BY <1>1, <1>2, <1>4, <2>1 DEF SamePlaces
<1>5. CASE Edited(g, h)
  <2>1. SamePlaces(g, h) /\ h.actingIndex = g.actingIndex
    BY <1>5 DEF Edited, SameHands
  <2>2. h.actingIndex \in 0..Len(h.seats)
    BY <1>2, <2>1 DEF SamePlaces
  <2> QED BY <1>4, <2>1, <2>2
<1>6. CASE Joined(g, h)
  <2>1. PICK s, k :
          /\ s \in IdleSeat /\ Inserted(g.seats, s, k, h.seats)
          /\ \A i \in DOMAIN g.seats : g.seats[i].playerId # s.playerId
    BY <1>6 DEF Joined
  <2>2. InOrder(h.seats)
    BY <1>1, <1>2, <2>1, InsertedInOrder DEF IdleSeat
  <2>3. /\ h.dealerIndex = g.dealerIndex /\ h.actingIndex = g.actingIndex
        /\ Len(h.seats) = Len(g.seats) + 1
    BY <1>6, <2>1 DEF Joined, Inserted
  <2> QED BY <1>1, <1>2, <2>2, <2>3
<1>7. CASE Left(g, h)
  <2>1. PICK place : Kept(g.seats, place, h.seats)
    BY <1>7 DEF Left
  <2>2. InOrder(h.seats)
    BY <1>1, <1>2, <2>1, KeptInOrder
  <2> QED BY <1>7, <2>2 DEF Left, Positions
<1>8. CASE Started(g, h)
  <2>1. InOrder(h.seats)
    BY <1>2, <1>8, SamePlacesOrdered DEF Started
  <2> QED BY <1>8, <2>1 DEF Started, Positions
<1>9. CASE Turned(g, h)
  BY <1>4, <1>9, TurnedPlaces
<1> QED BY <1>3, <1>5, <1>6, <1>7, <1>8, <1>9

\* A new table has no seats.
LEMMA InitOrdered == Init => Ordered(game)
BY DEF Init, Ordered, InOrder, Positions

LEMMA OrderedInductive == Spec => []Ordered(game)
<1>1. IInv /\ Ordered(game) /\ [Next]_vars => Ordered(game)'
  BY OrderedKept
<1> QED BY <1>1, InitOrdered, Inductive, PTL DEF Spec

\* The seats stay sorted by number with no player seated twice, and the button and
\* the turn stay at the table, whatever calls are made and in whatever order.
THEOREM SeatsStayInOrder == Spec => []SeatsInOrder
<1>1. Ordered(game) => SeatsInOrder
  BY DEF Ordered, InOrder, SeatsInOrder
<1> QED BY <1>1, OrderedInductive, PTL

\* The seats before and after leavers are removed.
LEMMA RemovedSeats ==
  ASSUME IInv, Ordered(game), RemovePendingLeavers
  PROVE  /\ game.seats \in Seq(Seat) /\ game'.seats \in Seq(Seat)
         /\ Len(game.seats) \in Nat /\ Len(game'.seats) \in Nat
         /\ DOMAIN game.seats = 1..Len(game.seats) /\ DOMAIN game'.seats = 1..Len(game'.seats)
         /\ \A k \in 1..Len(game'.seats) : At(game', k - 1) = game'.seats[k]
<1>1. game.seats \in Seq(Seat)
  BY TableTypes
<1>2. game'.seats \in Seq(Seat)
  <2>1. IInv'
    BY RemovePendingLeaversKeeps
  <2> QED BY <2>1, SoundSeqs DEF IInv, SoundTable, IdleTable, HandTable
<1>3. /\ Len(game.seats) \in Nat /\ Len(game'.seats) \in Nat
      /\ DOMAIN game.seats = 1..Len(game.seats) /\ DOMAIN game'.seats = 1..Len(game'.seats)
  BY <1>1, <1>2, LenProperties
<1>4. ASSUME NEW k \in 1..Len(game'.seats) PROVE At(game', k - 1) = game'.seats[k]
  <2>1. (k - 1) + 1 = k
    BY <1>3
  <2> QED BY <2>1 DEF At
<1> QED BY <1>1, <1>2, <1>3, <1>4

\* The seat of the player to act is kept, being in the hand, and found again.
LEMMA TurnStep ==
  ASSUME IInv, Ordered(game), RemovePendingLeavers, TurnIsLive, InHand
  PROVE  ActingPlayer(game') = ActingPlayer(game)
<1> DEFINE q == game.seats
           r == game'.seats
           n == game.actingIndex + 1
<1>1. PICK place :
        /\ Kept(q, place, r)
        /\ \A k \in 1 .. Len(r) :
             place[k] = game.actingIndex + 1 => game'.actingIndex = k - 1
  BY RemovePendingLeaversIs DEF Left
<1>2. n \in 1..Len(q) /\ ~Leaves(q[n]) /\ ActingPlayer(game) = q[n].playerId
  <2>1. game.actingIndex \in 0..Len(q) - 1 /\ q[n].inHand
    BY DEF TurnIsLive, Positions, At, CanAct
  <2> QED BY <2>1, RemovedSeats DEF Leaves, ActingPlayer, At
<1>3. PICK k \in 1..Len(r) : place[k] = n
  <2> HIDE DEF n
  <2> QED BY <1>1, <1>2 DEF Kept
<1>4. game'.actingIndex = k - 1 /\ r[k] = q[n]
  BY <1>1, <1>3 DEF Kept
<1> QED BY <1>2, <1>4, RemovedSeats DEF ActingPlayer

\* When leavers are removed the turn stays with the player of the hand it was with.
THEOREM TurnStaysWithPlayer == Spec => TurnSurvivesRemoval
<1>1. ASSUME IInv, Ordered(game)
      PROVE  [RemovePendingLeavers /\ TurnIsLive /\ InHand =>
                ActingPlayer(game') = ActingPlayer(game)]_vars
  BY <1>1, TurnStep
<1>2. Spec => []IInv /\ []Ordered(game)
  BY Inductive, OrderedInductive
<1> QED BY <1>1, <1>2, PTL DEF TurnSurvivesRemoval

\* Going round the table from one seat number back to another.
LEMMA BehindIs ==
  ASSUME NEW from \in 0..MaxSeats - 1, NEW number \in 0..MaxSeats - 1
  PROVE  Behind(number, from) = IF number <= from THEN from - number
                                ELSE from - number + MaxSeats
<1> DEFINE M == MaxSeats
           d == from - number
<1>1. M \in Nat
  BY TableAssumption
<1>2. M > 0 /\ d \in Int /\ d < M /\ d > -M /\ (number <= from <=> d >= 0)
  BY <1>1
<1> HIDE DEF M, d
<1>3. CASE d >= 0
  <2>1. d % M = d
    BY <1>1, <1>2, <1>3
  <2> QED BY <1>2, <1>3, <2>1 DEF Behind, M, d
<1>4. CASE d < 0
  <2>1. d % M = d + M
    BY <1>1, <1>2, <1>4
  <2> QED BY <1>2, <1>4, <2>1 DEF Behind, M, d
<1> QED BY <1>2, <1>3, <1>4

\* DealerIn takes the highest seat number at or below the button's, and the highest
\* of all when there is none.
LEMMA ButtonStep ==
  ASSUME IInv, Ordered(game), RemovePendingLeavers, NEW s \in ToSet(game'.seats)
  PROVE  Behind(ButtonNumber(game'), ButtonNumber(game)) <= Behind(s.seatIndex, ButtonNumber(game))
<1> DEFINE q == game.seats
           r == game'.seats
           number == ButtonNumber(game)
           behind == {i \in 1..Len(r) : r[i].seatIndex <= number}
<1>1. /\ q \in Seq(Seat) /\ r \in Seq(Seat) /\ Len(q) \in Nat /\ Len(r) \in Nat
      /\ DOMAIN q = 1..Len(q) /\ DOMAIN r = 1..Len(r)
      /\ \A k \in 1..Len(r) : At(game', k - 1) = r[k]
  BY RemovedSeats
<1>2. \A k \in 1..Len(r) : r[k].seatIndex \in 0..MaxSeats - 1
  <2>1. \A k \in 1..Len(r) : r[k] \in Seat
    BY <1>1, ElementOfSeq
  <2> QED BY <2>1 DEF Seat
<1>3. \A i, j \in 1..Len(r) : i < j => r[i].seatIndex < r[j].seatIndex
  <2>1. Ordered(game)'
    BY OrderedKept DEF Next, TableCall
  <2> QED BY <1>1, <2>1 DEF Ordered, InOrder
<1>4. PICK k \in 1..Len(r) : s = r[k]
  BY <1>1 DEF ToSet
<1>5. game.dealerIndex \in Positions(game) /\ number \in 0..MaxSeats - 1
  <2>1. PICK place : Kept(q, place, r)
    BY RemovePendingLeaversIs DEF Left
  <2>2. place[k] \in 1..Len(q)
    BY <1>4, <2>1 DEF Kept
  <2>3. q # <<>>
    BY <1>1, <2>2, EmptySeq
  <2>4. game.dealerIndex \in 0..Len(q) - 1
    BY <2>3 DEF Ordered, Positions
  <2>5. q[game.dealerIndex + 1] \in Seat
    BY <1>1, <2>4, ElementOfSeq
  <2> QED BY <2>4, <2>5 DEF Positions, ButtonNumber, At, Seat
<1>6. game'.dealerIndex = IF behind # {} THEN Max(behind) - 1 ELSE Len(r) - 1
  <2>1. r # <<>>
    BY <1>1, <1>4, EmptySeq
  <2>2. game'.dealerIndex = DealerIn(r)
    BY TableTypes DEF RemovePendingLeavers, Table
  <2> QED BY <1>1, <1>5, <2>1, <2>2 DEF DealerIn, ButtonNumber
<1> HIDE DEF q, r, number, behind
<1>7. \E m \in 1..Len(r) :
        /\ game'.dealerIndex = m - 1
        /\ IF r[m].seatIndex <= number
           THEN \A i \in 1..Len(r) : r[i].seatIndex <= number => i <= m
           ELSE m = Len(r) /\ \A i \in 1..Len(r) : r[i].seatIndex > number
  <2>1. CASE behind # {}
    <3>1. behind \in SUBSET Nat /\ \A i \in behind : i <= Len(r)
      BY <1>1 DEF behind
    <3>2. Max(behind) \in behind /\ \A i \in behind : i <= Max(behind)
      BY <1>1, <2>1, <3>1, MaxOfBounded
    <3> QED BY <1>6, <2>1, <3>2 DEF behind
  <2>2. CASE behind = {}
    <3>1. \A i \in 1..Len(r) : ~(r[i].seatIndex <= number)
      BY <2>2 DEF behind
    <3>2. Len(r) \in 1..Len(r) /\ ~(r[Len(r)].seatIndex <= number)
      BY <1>1, <3>1
    <3>3. \A i \in 1..Len(r) : r[i].seatIndex > number
      BY <1>2, <1>5, <3>1
    <3> QED BY <1>6, <2>2, <3>2, <3>3
  <2> QED BY <2>1, <2>2
<1>8. PICK m \in 1..Len(r) :
        /\ game'.dealerIndex = m - 1
        /\ IF r[m].seatIndex <= number
           THEN \A i \in 1..Len(r) : r[i].seatIndex <= number => i <= m
           ELSE m = Len(r) /\ \A i \in 1..Len(r) : r[i].seatIndex > number
  BY <1>7
<1> DEFINE there == r[m].seatIndex
           other == r[k].seatIndex
<1>9. there \in 0..MaxSeats - 1 /\ other \in 0..MaxSeats - 1
  BY <1>2
<1>10. /\ there <= number /\ other <= number => other <= there
       /\ there > number => other > number /\ other <= there
  <2>1. /\ there <= number /\ other <= number => k <= m
        /\ there > number => other > number /\ k <= m
    <3>1. number \in Nat /\ there \in Nat /\ Len(r) \in Nat
      BY <1>1, <1>5, <1>9
    <3>2. CASE there <= number
      <4>1. other <= number => k <= m
        BY <1>8, <3>2
      <4> QED BY <3>1, <3>2, <4>1
    <3>3. CASE ~(there <= number)
      <4>1. m = Len(r) /\ other > number
        BY <1>8, <3>3
      <4> HIDE DEF there, other
      <4> QED BY <3>1, <3>3, <4>1
    <3> QED BY <3>2, <3>3
  <2>2. k <= m => other <= there
    <3>1. k < m => other < there
      BY <1>3
    <3> QED BY <1>1, <1>9, <3>1
  <2> QED BY <2>1, <2>2
<1>11. ButtonNumber(game') = there
  <2>1. At(game', game'.dealerIndex) = r[m]
    BY <1>1, <1>8, Zenon
  <2> QED BY <2>1 DEF ButtonNumber
<1> HIDE DEF there, other
<1>12. Behind(there, number) <= Behind(other, number)
  <2>1. MaxSeats \in Nat
    BY TableAssumption
  <2>2. Behind(there, number) = IF there <= number THEN number - there
                                                   ELSE number - there + MaxSeats
    BY <1>5, <1>9, BehindIs
  <2>3. Behind(other, number) = IF other <= number THEN number - other
                                                   ELSE number - other + MaxSeats
    BY <1>5, <1>9, BehindIs
  <2> QED BY <1>5, <1>9, <1>10, <2>1, <2>2, <2>3
<1> QED BY <1>4, <1>11, <1>12 DEF number, other

\* The button goes to the first seat kept at or behind the one it was at.
THEOREM ButtonFallsToTheSeatBehind == Spec => ButtonFallsBack
<1>1. ASSUME IInv, Ordered(game)
      PROVE  [RemovePendingLeavers =>
                \A s \in ToSet(game'.seats) :
                  Behind(ButtonNumber(game'), ButtonNumber(game))
                    <= Behind(s.seatIndex, ButtonNumber(game))]_vars
  BY <1>1, ButtonStep
<1>2. Spec => []IInv /\ []Ordered(game)
  BY Inductive, OrderedInductive
<1> QED BY <1>1, <1>2, PTL DEF ButtonFallsBack

-----------------------------------------------------------------------------
(* The turn.                                                                *)

\* The turn of a running hand is with a seat that may act, and blinds that are set
\* come from Blinds.
TurnHeld(g) ==
  /\ g.stage # "Waiting" => g.actingIndex \in Positions(g) /\ CanAct(At(g, g.actingIndex))
  /\ AreBlindsSet(g) => g.smallBlind < g.bigBlind

\* A turn passes to a seat that may act or ends the hand.
LEMMA TurnedHolds ==
  ASSUME NEW g, NEW h, Turned(g, h), TurnHeld(g)
  PROVE  TurnHeld(h)
<1>1. /\ g \in HandTable /\ g.stage \in Streets
      /\ g.actingIndex \in Positions(g) /\ g.smallBlind < g.bigBlind
  BY DEF Turned, TurnHeld, HandTable, Streets
<1>2. \/ h = g
      \/ \E t, pay : Acted(g, t, g.actingIndex + 1, pay) /\ h \in Outcomes(PlayOn(t))
  <2>1. Aimed(g) = g
    BY <1>1, AimedIs
  <2> QED BY <2>1 DEF Turned
<1>3. CASE \E t, pay : Acted(g, t, g.actingIndex + 1, pay) /\ h \in Outcomes(PlayOn(t))
  <2>1. PICK t, pay : Acted(g, t, g.actingIndex + 1, pay) /\ h \in Outcomes(PlayOn(t))
    BY <1>3
  <2>2. t \in HandTable /\ t.stage \in Streets /\ SameBlinds(g, t)
    BY <1>1, <2>1 DEF Acted
  <2>3. CASE Ended(t, h)
    BY <1>1, <2>2, <2>3 DEF Ended, TurnHeld, SameBlinds
  <2>4. CASE \E k \in Positions(t) : Live(At(t, k)) /\ h = [t EXCEPT !.actingIndex = k]
    <3>1. PICK k \in Positions(t) : Live(At(t, k)) /\ h = [t EXCEPT !.actingIndex = k]
      BY <2>4
    <3>2. k \in Nat
      BY <2>2, SeatsAre DEF Positions, HandTable
    <3>3. h.seats = t.seats /\ h.actingIndex = k /\ SameBlinds(t, h)
      BY <2>2, <3>1, <3>2, TurnIs
    <3>4. h.actingIndex \in Positions(h) /\ CanAct(At(h, h.actingIndex))
      BY <3>1, <3>3, LiveCanAct DEF Positions, At
    <3> QED BY <1>1, <2>2, <3>3, <3>4 DEF TurnHeld, SameBlinds
  <2>5. CASE /\ t.stage \in {"PreFlop", "Flop", "Turn"}
             /\ \E i \in DOMAIN t.seats : Live(t.seats[i])
             /\ h = NewStreet(CollectBetsToSidePots(t))
    <3>1. /\ h.actingIndex \in Positions(h) /\ Live(At(h, h.actingIndex))
          /\ SameBlinds(t, h)
      BY <2>2, <2>5, StreetIs
    <3> QED BY <1>1, <2>2, <3>1, LiveCanAct DEF TurnHeld, SameBlinds
  <2> QED BY <2>1, <2>2, <2>3, <2>4, <2>5, PlayedOn DEF GoesOn
<1> QED BY <1>2, <1>3

\* Every other step leaves the turn where it is, gives it to a live seat, or is
\* made between hands.
LEMMA TurnHeldKept ==
  ASSUME IInv, Ordered(game), TurnHeld(game), [Next]_vars,
         "SitDown" \notin DuringHand, \A b \in Blinds : b[1] < b[2]
  PROVE  TurnHeld(game')
<1> DEFINE g == game
           h == game'
<1>1. /\ g.seats \in Seq(Seat) /\ h.seats \in Seq(Seat)
      /\ Len(g.seats) \in Nat /\ Len(h.seats) \in Nat
      /\ DOMAIN g.seats = 1..Len(g.seats) /\ DOMAIN h.seats = 1..Len(h.seats)
  <2>1. g.seats \in Seq(Seat)
    BY TableTypes
  <2>2. h.seats \in Seq(Seat)
    <3>1. IInv'
      BY NextKeeps
    <3> QED BY <3>1, SoundSeqs DEF IInv, SoundTable, IdleTable, HandTable
  <2> QED BY <2>1, <2>2, LenProperties
<1>2. \/ Edited(g, h) \/ (g.stage = "Waiting" /\ Joined(g, h))
      \/ Left(g, h) \/ Started(g, h) \/ Turned(g, h)
  BY StepKinds DEF Made, InHand
<1>3. TurnHeld(g) /\ Ordered(g)
  OBVIOUS
<1> HIDE DEF g, h
<1> SUFFICES TurnHeld(h)
  BY DEF h
<1>4. CASE Edited(g, h)
  <2>1. /\ h.stage = g.stage /\ h.actingIndex = g.actingIndex
        /\ DOMAIN h.seats = DOMAIN g.seats /\ Len(h.seats) = Len(g.seats)
        /\ \A i \in DOMAIN g.seats : SameSeat(g.seats[i], h.seats[i])
    BY <1>4 DEF Edited, SameRound, SameHands, SamePlaces
  <2>2. \A i \in DOMAIN g.seats : CanAct(g.seats[i]) => CanAct(h.seats[i])
    BY <2>1 DEF SameSeat, SameHand, CanAct
  <2>3. g.actingIndex \in Positions(g) =>
          h.actingIndex \in Positions(h) /\ g.actingIndex + 1 \in DOMAIN g.seats
    BY <1>1, <2>1 DEF Positions
  <2>4. AreBlindsSet(h) => h.smallBlind < h.bigBlind
    <3>1. CASE SameBlinds(g, h)
      BY <1>3, <3>1 DEF SameBlinds, TurnHeld, AreBlindsSet
    <3>2. CASE \E b \in Blinds : h.smallBlind = b[1] /\ h.bigBlind = b[2]
      BY <3>2
    <3> QED BY <1>4, <3>1, <3>2 DEF Edited
  <2> QED BY <1>3, <2>1, <2>2, <2>3, <2>4 DEF TurnHeld, At
<1>5. CASE g.stage = "Waiting" /\ Joined(g, h)
  BY <1>3, <1>5 DEF Joined, SameRound, SameBlinds, TurnHeld, AreBlindsSet
<1>6. CASE Left(g, h)
  <2>1. PICK place :
          /\ Kept(g.seats, place, h.seats)
          /\ \A k \in 1 .. Len(h.seats) :
               place[k] = g.actingIndex + 1 => h.actingIndex = k - 1
    BY <1>6 DEF Left
  <2>2. h.stage = g.stage /\ SameBlinds(g, h)
    BY <1>6 DEF Left, SameRound
  <2>3. ASSUME g.stage # "Waiting"
        PROVE  h.actingIndex \in Positions(h) /\ CanAct(At(h, h.actingIndex))
    <3> DEFINE n == g.actingIndex + 1
    <3>1. n \in 1..Len(g.seats) /\ CanAct(g.seats[n])
      BY <1>1, <1>3, <2>3 DEF TurnHeld, Positions, At
    <3>2. ~Leaves(g.seats[n])
      BY <3>1 DEF Leaves, CanAct
    <3>3. PICK k \in 1..Len(h.seats) : place[k] = n
      <4> HIDE DEF n
      <4> QED BY <2>1, <3>1, <3>2 DEF Kept
    <3>4. h.actingIndex = k - 1 /\ h.seats[k] = g.seats[n] /\ (k - 1) + 1 = k
      BY <1>1, <2>1, <3>3 DEF Kept
    <3>5. At(h, h.actingIndex) = g.seats[n]
      BY <3>4 DEF At
    <3>6. h.actingIndex \in Positions(h)
      BY <1>1, <3>4 DEF Positions
    <3> QED BY <3>1, <3>5, <3>6
  <2> QED BY <1>3, <2>2, <2>3 DEF TurnHeld, SameBlinds, AreBlindsSet
<1>7. CASE Started(g, h)
  <2>1. h.smallBlind < h.bigBlind
    BY <1>3, <1>7 DEF Started, HandTable, SameBlinds, TurnHeld, AreBlindsSet
  <2>2. h.actingIndex \in Positions(h) /\ Live(At(h, h.actingIndex))
    BY <1>7, <2>1 DEF Started
  <2> QED BY <2>1, <2>2, LiveCanAct DEF TurnHeld
<1>8. CASE Turned(g, h)
  BY <1>3, <1>8, TurnedHolds
<1> QED BY <1>2, <1>4, <1>5, <1>6, <1>7, <1>8

\* When nobody sits down during a hand and small blinds are below big blinds, the
\* place to act is that of a seat that may act: the walks that pass the turn on end
\* the hand where they find no seat, and neither a removal nor a flag loses it.
\* Without the first condition a newcomer shifts the vector under the turn; without
\* the second both blinds can be all-in, and StartHand does not look for that.
THEOREM TurnStaysLive ==
  ASSUME "SitDown" \notin DuringHand, \A b \in Blinds : b[1] < b[2]
  PROVE  Spec => []TurnIsLive
<1>1. Init => TurnHeld(game)
  BY DEF Init, TurnHeld, AreBlindsSet
<1>2. IInv /\ Ordered(game) /\ TurnHeld(game) /\ [Next]_vars => TurnHeld(game)'
  BY TurnHeldKept
<1>3. TurnHeld(game) => TurnIsLive
  BY DEF TurnHeld, TurnIsLive, InHand
<1> QED BY <1>1, <1>2, <1>3, Inductive, OrderedInductive, PTL DEF Spec

-----------------------------------------------------------------------------
(* What is to call.                                                         *)

\* No bet is above lastBet, one bet reaches it, and bets are made by seats of the
\* hand only, so that the highest is never on a seat that is removed.
BetsHeld(g) ==
  /\ g.stage # "Waiting" =>
       /\ \A i \in DOMAIN g.seats : /\ g.seats[i].currentBet <= g.lastBet
                                    /\ g.seats[i].currentBet # 0 => g.seats[i].inHand
       /\ g.lastBet # 0 => \E i \in DOMAIN g.seats : g.seats[i].currentBet = g.lastBet
  /\ AreBlindsSet(g) => g.smallBlind <= g.bigBlind

\* The members BetsHeld is about, of a table.
LEMMA BetTypes ==
  ASSUME NEW g \in Table
  PROVE  /\ g.seats \in Seq(Seat) /\ Len(g.seats) \in Nat /\ DOMAIN g.seats = 1..Len(g.seats)
         /\ g.lastBet \in Nat /\ g.smallBlind \in Int /\ g.bigBlind \in Int
         /\ \A i \in DOMAIN g.seats : /\ g.seats[i] \in Seat
                                      /\ g.seats[i].currentBet \in Nat
                                      /\ g.seats[i].chips \in Nat
<1>1. g.seats \in Seq(Seat) /\ g.lastBet \in Nat /\ g.smallBlind \in Int /\ g.bigBlind \in Int
  BY DEF Table
<1>2. \A s \in Seat : s.currentBet \in Nat /\ s.chips \in Nat
  BY DEF Seat
<1> QED BY <1>1, <1>2, SeatsAre

\* The seat that acts raises lastBet with its bet.
LEMMA ActedHolds ==
  ASSUME NEW g \in HandTable, NEW t, NEW i, NEW pay, Acted(g, t, i, pay),
         g.stage # "Waiting", BetsHeld(g)
  PROVE  BetsHeld(t)
<1>1. /\ g \in Table /\ t \in Table /\ t \in HandTable
      /\ SameBlinds(g, t) /\ DOMAIN t.seats = DOMAIN g.seats
      /\ \A j \in DOMAIN g.seats : t.seats[j].inHand = g.seats[j].inHand
  BY DEF Acted, HandTable, SameHands, SamePlaces, SameHand
<1>2. \A j \in DOMAIN g.seats : j # i => t.seats[j].currentBet = g.seats[j].currentBet
  <2>1. \A s \in Seat, b \in BOOLEAN : [s EXCEPT !.actedThisRound = b].currentBet = s.currentBet
    BY DEF Seat
  <2>2. \A j \in DOMAIN g.seats : j # i =>
          \E b \in BOOLEAN : t.seats[j] = [g.seats[j] EXCEPT !.actedThisRound = b]
    BY DEF Acted
  <2> QED BY <1>1, <2>1, <2>2, BetTypes
<1>3. /\ i \in DOMAIN g.seats /\ g.seats[i].inHand /\ pay \in Nat
      /\ t.seats[i].currentBet = g.seats[i].currentBet + pay
      /\ t.lastBet >= g.lastBet
      /\ g.seats[i].currentBet <= g.lastBet => t.seats[i].currentBet <= t.lastBet
      /\ t.lastBet \in {g.lastBet, t.seats[i].currentBet}
  BY <1>1, BetTypes DEF Acted
<1>4. /\ g.lastBet \in Nat /\ t.lastBet \in Nat
      /\ \A j \in DOMAIN g.seats : g.seats[j].currentBet \in Nat /\ t.seats[j].currentBet \in Nat
  BY <1>1, BetTypes
<1>5. /\ \A j \in DOMAIN g.seats : /\ g.seats[j].currentBet <= g.lastBet
                                   /\ g.seats[j].currentBet # 0 => g.seats[j].inHand
      /\ g.lastBet # 0 => \E j \in DOMAIN g.seats : g.seats[j].currentBet = g.lastBet
      /\ g.smallBlind <= g.bigBlind
  BY DEF BetsHeld, HandTable
<1>6. \A j \in DOMAIN t.seats : /\ t.seats[j].currentBet <= t.lastBet
                                /\ t.seats[j].currentBet # 0 => t.seats[j].inHand
  BY <1>1, <1>2, <1>3, <1>4, <1>5
<1>7. ASSUME t.lastBet # 0
      PROVE  \E j \in DOMAIN t.seats : t.seats[j].currentBet = t.lastBet
  <2>1. CASE t.lastBet = t.seats[i].currentBet
    BY <1>1, <1>3, <2>1
  <2>2. CASE t.lastBet = g.lastBet
    <3>1. PICK j \in DOMAIN g.seats : g.seats[j].currentBet = g.lastBet
      BY <1>5, <1>7, <2>2
    <3>2. CASE j = i
      BY <1>1, <1>3, <1>4, <1>5, <2>2, <3>1, <3>2
    <3>3. CASE j # i
      BY <1>1, <1>2, <2>2, <3>1, <3>3
    <3> QED BY <3>2, <3>3
  <2> QED BY <1>3, <2>1, <2>2
<1> QED BY <1>1, <1>5, <1>6, <1>7 DEF BetsHeld, SameBlinds

\* A turn keeps the bets below lastBet.
LEMMA TurnedBets ==
  ASSUME NEW g, NEW h, Turned(g, h), BetsHeld(g)
  PROVE  BetsHeld(h)
<1> DEFINE a == Aimed(g)
<1>1. /\ g \in HandTable /\ a \in HandTable /\ a.seats = g.seats
      /\ SameRound(g, a) /\ SameBlinds(g, a) /\ g.stage \in Streets
      /\ \/ h = a
         \/ \E t, pay : Acted(a, t, a.actingIndex + 1, pay) /\ h \in Outcomes(PlayOn(t))
  BY AimedIs DEF Turned
<1> HIDE DEF a
<1>2. BetsHeld(a) /\ a.stage \in Streets /\ a.stage # "Waiting"
  BY <1>1 DEF BetsHeld, SameRound, SameBlinds, AreBlindsSet, Streets
<1>3. CASE \E t, pay : Acted(a, t, a.actingIndex + 1, pay) /\ h \in Outcomes(PlayOn(t))
  <2>1. PICK t, pay : Acted(a, t, a.actingIndex + 1, pay) /\ h \in Outcomes(PlayOn(t))
    BY <1>3
  <2>2. t \in HandTable /\ t.stage = a.stage /\ BetsHeld(t)
    <3>1. BetsHeld(t)
      BY <1>1, <1>2, <2>1, ActedHolds
    <3> QED BY <2>1, <3>1 DEF Acted
  <2>3. CASE Ended(t, h)
    BY <2>2, <2>3 DEF Ended, BetsHeld, SameBlinds, AreBlindsSet
  <2>4. CASE \E k \in Positions(t) : Live(At(t, k)) /\ h = [t EXCEPT !.actingIndex = k]
    <3>1. PICK k \in Positions(t) : h = [t EXCEPT !.actingIndex = k]
      BY <2>4
    <3>2. k \in Nat
      BY <2>2, SeatsAre DEF Positions, HandTable
    <3>3. h.seats = t.seats /\ h.lastBet = t.lastBet /\ h.stage = t.stage /\ SameBlinds(t, h)
      BY <2>2, <3>1, <3>2, TurnIs
    <3> QED BY <2>2, <3>3 DEF BetsHeld, SameBlinds, AreBlindsSet
  <2>5. CASE /\ t.stage \in {"PreFlop", "Flop", "Turn"}
             /\ \E i \in DOMAIN t.seats : Live(t.seats[i])
             /\ h = NewStreet(CollectBetsToSidePots(t))
    <3>1. /\ SameHands(t, h) /\ SameBlinds(t, h) /\ h.lastBet = 0
          /\ \A i \in DOMAIN t.seats : h.seats[i].currentBet = 0
      BY <2>2, <2>5, StreetIs
    <3> QED BY <2>2, <3>1 DEF BetsHeld, SameHands, SamePlaces, SameBlinds, AreBlindsSet
  <2> QED BY <1>2, <2>1, <2>2, <2>3, <2>4, <2>5, PlayedOn DEF GoesOn
<1> QED BY <1>1, <1>2, <1>3

\* The blinds are the first bets, and the big one is what is to call.
LEMMA StartedBets ==
  ASSUME NEW g \in Table, NEW h, Started(g, h), h.smallBlind <= h.bigBlind
  PROVE  BetsHeld(h)
<1>1. /\ h \in Table /\ h.smallBlind > 0 /\ h.bigBlind > 0 /\ h.lastBet = h.bigBlind
      /\ DOMAIN h.seats = DOMAIN g.seats
  BY DEF Started, HandTable, AreBlindsSet
<1>2. PICK sb \in DealtSeats(h), bb \in DealtSeats(h) :
        /\ sb # bb
        /\ \A i \in DOMAIN g.seats :
             h.seats[i].currentBet = IF i = sb THEN Min({h.smallBlind, g.seats[i].chips})
                                     ELSE IF i = bb THEN h.bigBlind ELSE 0
  BY DEF Started
<1>3. /\ sb \in DOMAIN h.seats /\ bb \in DOMAIN h.seats
      /\ h.seats[sb].inHand /\ h.seats[bb].inHand
  BY DEF DealtSeats
<1>4. h.smallBlind \in Int /\ h.bigBlind \in Int /\ g.seats[sb].chips \in Nat
  BY <1>1, <1>3, BetTypes
<1>5. Min({h.smallBlind, g.seats[sb].chips}) <= h.bigBlind
  BY <1>1, <1>4, MinOfTwo
<1>6. \A i \in DOMAIN h.seats : /\ h.seats[i].currentBet <= h.lastBet
                                /\ h.seats[i].currentBet # 0 => h.seats[i].inHand
  <2> SUFFICES ASSUME NEW i \in DOMAIN h.seats
               PROVE  /\ h.seats[i].currentBet <= h.lastBet
                      /\ h.seats[i].currentBet # 0 => h.seats[i].inHand
    OBVIOUS
  <2>1. h.seats[i].currentBet = IF i = sb THEN Min({h.smallBlind, g.seats[sb].chips})
                                ELSE IF i = bb THEN h.bigBlind ELSE 0
    BY <1>1, <1>2
  <2>2. CASE i = sb
    BY <1>1, <1>3, <1>5, <2>1, <2>2
  <2>3. CASE i # sb /\ i = bb
    BY <1>1, <1>3, <1>4, <2>1, <2>3
  <2>4. CASE i # sb /\ i # bb
    BY <1>1, <1>4, <2>1, <2>4
  <2> QED BY <2>2, <2>3, <2>4
<1>7. h.seats[bb].currentBet = h.lastBet
  BY <1>1, <1>2, <1>3
<1> QED BY <1>3, <1>6, <1>7 DEF BetsHeld

\* Every seat of the new vector is the newcomer's or an old one, and every old one
\* is there.
LEMMA InsertedFrom ==
  ASSUME NEW q, Len(q) \in Nat, NEW s, NEW k, NEW r, Inserted(q, s, k, r),
         NEW j \in 1 .. Len(r)
  PROVE  \/ j <= k /\ j \in 1..Len(q) /\ r[j] = q[j]
         \/ j = k + 1 /\ r[j] = s
         \/ j > k + 1 /\ j - 1 \in 1..Len(q) /\ r[j] = q[j - 1]
<1>1. k \in 0..Len(q) /\ Len(r) = Len(q) + 1
  BY DEF Inserted
<1>2. CASE j <= k
  BY <1>1, <1>2 DEF Inserted
<1>3. CASE j = k + 1
  BY <1>3 DEF Inserted
<1>4. CASE j > k + 1
  <2>1. j - 1 \in k + 1 .. Len(q) /\ (j - 1) + 1 = j
    BY <1>1, <1>4
  <2>2. r[(j - 1) + 1] = q[j - 1]
    BY <2>1 DEF Inserted
  <2> QED BY <1>1, <1>4, <2>1, <2>2
<1> QED BY <1>1, <1>2, <1>3, <1>4

\* Where the seats stand after one was put in between.
LEMMA InsertedTo ==
  ASSUME NEW q, Len(q) \in Nat, NEW s, NEW k, NEW r, Inserted(q, s, k, r),
         NEW i \in 1 .. Len(q)
  PROVE  LET j == IF i <= k THEN i ELSE i + 1
         IN  j \in 1..Len(r) /\ r[j] = q[i]
<1>1. k \in 0..Len(q) /\ Len(r) = Len(q) + 1
  BY DEF Inserted
<1>2. CASE i <= k
  BY <1>1, <1>2 DEF Inserted
<1>3. CASE ~(i <= k)
  <2>1. i \in k + 1 .. Len(q)
    BY <1>1, <1>3
  <2> QED BY <1>1, <1>3, <2>1 DEF Inserted
<1> QED BY <1>2, <1>3

\* Every call keeps the bets below lastBet.
LEMMA BetsHeldKept ==
  ASSUME IInv, Ordered(game), BetsHeld(game), [Next]_vars,
         \A b \in Blinds : b[1] <= b[2]
  PROVE  BetsHeld(game')
<1> DEFINE g == game
           h == game'
<1>1. /\ g \in Table /\ h \in Table
      /\ Len(g.seats) \in Nat /\ Len(h.seats) \in Nat
      /\ DOMAIN g.seats = 1..Len(g.seats) /\ DOMAIN h.seats = 1..Len(h.seats)
  <2>1. g \in Table
    BY TableTypes
  <2>2. h \in Table
    <3>1. IInv'
      BY NextKeeps
    <3> QED BY <3>1 DEF IInv, SoundTable, IdleTable, HandTable
  <2> QED BY <2>1, <2>2, BetTypes
<1>2. \/ Edited(g, h) \/ Joined(g, h) \/ Left(g, h) \/ Started(g, h) \/ Turned(g, h)
  BY StepKinds
<1>3. BetsHeld(g)
  OBVIOUS
<1> HIDE DEF g, h
<1> SUFFICES BetsHeld(h)
  BY DEF h
<1>4. CASE Edited(g, h)
  <2>1. /\ h.stage = g.stage /\ h.lastBet = g.lastBet /\ DOMAIN h.seats = DOMAIN g.seats
        /\ \A i \in DOMAIN g.seats : /\ h.seats[i].currentBet = g.seats[i].currentBet
                                     /\ h.seats[i].inHand = g.seats[i].inHand
    BY <1>4 DEF Edited, SameRound, SameHands, SamePlaces, SameSeat, SameHand
  <2>2. AreBlindsSet(h) => h.smallBlind <= h.bigBlind
    <3>1. CASE SameBlinds(g, h)
      BY <1>3, <3>1 DEF SameBlinds, BetsHeld, AreBlindsSet
    <3>2. CASE \E b \in Blinds : h.smallBlind = b[1] /\ h.bigBlind = b[2]
      BY <3>2
    <3> QED BY <1>4, <3>1, <3>2 DEF Edited
  <2> QED BY <1>3, <2>1, <2>2 DEF BetsHeld
<1>5. CASE Joined(g, h)
  <2>1. PICK s, k : s \in IdleSeat /\ Inserted(g.seats, s, k, h.seats)
    BY <1>5 DEF Joined
  <2>2. s.currentBet = 0 /\ k \in 0..Len(g.seats) /\ h.stage = g.stage /\ h.lastBet = g.lastBet
        /\ SameBlinds(g, h) /\ h.seats[k + 1] = s /\ Len(h.seats) = Len(g.seats) + 1
    BY <1>5, <2>1 DEF Joined, SameRound, IdleSeat, Inserted
  <2>3. ASSUME NEW j \in DOMAIN h.seats
        PROVE  h.seats[j] = s \/ \E i \in DOMAIN g.seats : h.seats[j] = g.seats[i]
    <3>1. j \in 1..Len(h.seats) /\ Len(g.seats) \in Nat /\ DOMAIN g.seats = 1..Len(g.seats)
      BY <1>1
    <3>2. \/ j <= k /\ j \in 1..Len(g.seats) /\ h.seats[j] = g.seats[j]
          \/ j = k + 1 /\ h.seats[j] = s
          \/ j > k + 1 /\ j - 1 \in 1..Len(g.seats) /\ h.seats[j] = g.seats[j - 1]
      BY <2>1, <3>1, InsertedFrom
    <3> QED BY <3>1, <3>2
  <2>4. ASSUME NEW i \in DOMAIN g.seats
        PROVE  \E j \in DOMAIN h.seats : h.seats[j] = g.seats[i]
    <3>1. /\ i \in 1..Len(g.seats) /\ DOMAIN h.seats = 1..Len(h.seats)
          /\ Len(g.seats) \in Nat
      BY <1>1
    <3> DEFINE j == IF i <= k THEN i ELSE i + 1
    <3>2. j \in 1..Len(h.seats) /\ h.seats[j] = g.seats[i]
      BY <2>1, <3>1, InsertedTo
    <3> QED BY <3>1, <3>2
  <2>5. g.lastBet \in Nat
    BY <1>1, BetTypes
  <2>6. AreBlindsSet(h) => h.smallBlind <= h.bigBlind
    BY <1>3, <2>2 DEF BetsHeld, SameBlinds, AreBlindsSet
  <2>7. ASSUME h.stage # "Waiting"
        PROVE  /\ \A j \in DOMAIN h.seats :
                    /\ h.seats[j].currentBet <= h.lastBet
                    /\ h.seats[j].currentBet # 0 => h.seats[j].inHand
               /\ h.lastBet # 0 => \E j \in DOMAIN h.seats : h.seats[j].currentBet = h.lastBet
    <3>1. /\ \A i \in DOMAIN g.seats :
               /\ g.seats[i].currentBet <= g.lastBet
               /\ g.seats[i].currentBet # 0 => g.seats[i].inHand
          /\ g.lastBet # 0 => \E i \in DOMAIN g.seats : g.seats[i].currentBet = g.lastBet
      BY <1>3, <2>2, <2>7 DEF BetsHeld
    <3>2. ASSUME NEW j \in DOMAIN h.seats
          PROVE  /\ h.seats[j].currentBet <= h.lastBet
                 /\ h.seats[j].currentBet # 0 => h.seats[j].inHand
      BY <2>2, <2>3, <2>5, <3>1
    <3> QED BY <2>2, <2>4, <3>1, <3>2
  <2> QED BY <2>6, <2>7 DEF BetsHeld
<1>6. CASE Left(g, h)
  <2>1. PICK place : Kept(g.seats, place, h.seats)
    BY <1>6 DEF Left
  <2>2. h.stage = g.stage /\ h.lastBet = g.lastBet /\ SameBlinds(g, h)
    BY <1>6 DEF Left, SameRound
  <2>3. \A j \in DOMAIN h.seats : \E i \in DOMAIN g.seats : h.seats[j] = g.seats[i]
    BY <1>1, <2>1 DEF Kept
  <2>4. \A i \in DOMAIN g.seats : g.seats[i].inHand =>
          \E j \in DOMAIN h.seats : h.seats[j] = g.seats[i]
    BY <1>1, <2>1 DEF Kept, Leaves
  <2> QED BY <1>3, <2>2, <2>3, <2>4 DEF BetsHeld, SameBlinds, AreBlindsSet
<1>7. CASE Started(g, h)
  <2>1. h.smallBlind <= h.bigBlind
    BY <1>3, <1>7 DEF Started, HandTable, SameBlinds, BetsHeld, AreBlindsSet
  <2> QED BY <1>1, <1>7, <2>1, StartedBets
<1>8. CASE Turned(g, h)
  BY <1>3, <1>8, TurnedBets
<1> QED BY <1>2, <1>4, <1>5, <1>6, <1>7, <1>8

\* What every call, raise and cap is computed from is the largest bet on the table,
\* provided that no small blind is above its big blind (SetBlinds takes such a pair,
\* and StartHand then sets lastBet below the first bet).
THEOREM LastBetStaysHighest ==
  ASSUME \A b \in Blinds : b[1] <= b[2]
  PROVE  Spec => []LastBetIsHighest
<1>1. Init => BetsHeld(game)
  BY DEF Init, BetsHeld, AreBlindsSet
<1>2. IInv /\ Ordered(game) /\ BetsHeld(game) /\ [Next]_vars => BetsHeld(game)'
  BY BetsHeldKept
<1>3. ASSUME IInv, BetsHeld(game) PROVE LastBetIsHighest
  <2> SUFFICES ASSUME InHand
               PROVE  game.lastBet = Max({0} \cup {s.currentBet : s \in ToSet(game.seats)})
    BY DEF LastBetIsHighest
  <2> DEFINE T == {0} \cup {s.currentBet : s \in ToSet(game.seats)}
  <2>1. /\ game \in Table /\ game.lastBet \in Nat /\ ToSet(game.seats) \subseteq Seat
        /\ \A i \in DOMAIN game.seats : game.seats[i].currentBet <= game.lastBet
        /\ game.lastBet # 0 =>
             \E i \in DOMAIN game.seats : game.seats[i].currentBet = game.lastBet
    BY <1>3, TableTypes, BetTypes DEF BetsHeld, InHand, ToSet
  <2>2. \A n \in T : n \in Nat /\ n <= game.lastBet
    BY <2>1, BetTypes DEF ToSet
  <2>3. game.lastBet \in T
    BY <2>1 DEF ToSet
  <2> HIDE DEF T
  <2>4. Max(T) \in T /\ \A n \in T : n <= Max(T)
    <3>1. T \in SUBSET Nat /\ T # {}
      BY <2>2, <2>3
    <3> QED BY <2>1, <2>2, <3>1, MaxOfBounded
  <2>5. game.lastBet = Max(T)
    BY <2>1, <2>2, <2>3, <2>4
  <2> QED BY <2>5 DEF T
<1> QED BY <1>1, <1>2, <1>3, Inductive, OrderedInductive, PTL DEF Spec

-----------------------------------------------------------------------------
(* Who holds the highest bet.                                               *)

\* Nobody dealt in is leaving.
NoLeaver(g) == \A i \in DOMAIN g.seats : g.seats[i].inHand => ~g.seats[i].pendingLeave

\* The seats that contend for the pots, and those that can still bet.
InPlay(g)  == {i \in DOMAIN g.seats : g.seats[i].inHand /\ ~g.seats[i].folded}
Betting(g) == {i \in DOMAIN g.seats : CanAct(g.seats[i])}

\* Nobody who contends has acted or is all-in, everybody can call, and l is last.
Unopened(g, l) ==
  \A k \in InPlay(g) :
    /\ ~g.seats[k].actedThisRound /\ ~g.seats[k].allIn
    /\ g.seats[k].currentBet + g.seats[k].chips >= g.lastBet
    /\ k # l => Before(g, k, l)

\* The seat at l has the highest bet and nothing more to do, unless it is raised or
\* all before it fold.
Leads(g, l) ==
  /\ l \in InPlay(g) /\ g.seats[l].currentBet = g.lastBet
  /\ g.seats[l].actedThisRound \/ g.seats[l].allIn \/ Unopened(g, l)

\* The highest bet is never left to a seat that has folded: the turn is with a seat
\* that has not acted, those that have come after those that have not, and a seat that
\* contends leads, so that it has no turn before somebody raises it.
Led(g) ==
  g.stage # "Waiting" /\ NoLeaver(g) =>
    /\ ~At(g, g.actingIndex).actedThisRound
    /\ \A k, m \in Betting(g) :
         g.seats[k].actedThisRound /\ ~g.seats[m].actedThisRound => Before(g, m, k)
    /\ g.lastBet = 0 \/ \E l : Leads(g, l)
    /\ \E k, l \in InPlay(g) : k # l

\* The order of turns is that of the vector from the seat to act on, and then that of
\* the seats before it.
LEMMA BeforeIs ==
  ASSUME NEW g, NEW N \in Nat, Len(g.seats) = N, NEW a \in 0..N - 1, g.actingIndex = a
  PROVE  /\ \A i, j \in 1..N :
              Before(g, i, j) <=> \/ i > a /\ j <= a
                                  \/ (i > a <=> j > a) /\ i < j
         /\ \A i \in 1..N : ~Before(g, i, a + 1)
         /\ \A j \in 1..N : j # a + 1 => Before(g, a + 1, j)
<1>1. \A i, j \in 1..N :
        RankFrom(a, N, i) < RankFrom(a, N, j) <=> \/ i > a /\ j <= a
                                                  \/ (i > a <=> j > a) /\ i < j
  BY DEF RankFrom
<1>2. /\ \A i \in 1..N : ~(RankFrom(a, N, i) < RankFrom(a, N, a + 1))
      /\ \A j \in 1..N : j # a + 1 => RankFrom(a, N, a + 1) < RankFrom(a, N, j)
  BY DEF RankFrom
<1> QED BY <1>1, <1>2 DEF Before

\* What an action does to the other seats: nothing, or it takes the live ones their
\* actedThisRound.
LEMMA ReopenedIs ==
  ASSUME NEW s \in Seat, NEW raised \in BOOLEAN, NEW z, z = Reopened(s, raised)
  PROVE  /\ z.inHand = s.inHand /\ z.folded = s.folded /\ z.allIn = s.allIn
         /\ z.pendingLeave = s.pendingLeave
         /\ z.currentBet = s.currentBet /\ z.chips = s.chips
         /\ ~raised => z.actedThisRound = s.actedThisRound
         /\ raised /\ Live(s) => ~z.actedThisRound
<1> DEFINE b == s.actedThisRound /\ ~(raised /\ Alive(s) /\ ~s.allIn)
<1>1. z = [s EXCEPT !.actedThisRound = b]
  BY DEF Reopened
<1>2. ~raised => b = s.actedThisRound
  BY DEF Seat
<1>3. raised /\ Live(s) => ~b
  BY DEF Live
<1> HIDE DEF b
<1>4. /\ z.inHand = s.inHand /\ z.folded = s.folded /\ z.allIn = s.allIn
      /\ z.pendingLeave = s.pendingLeave /\ z.actedThisRound = b
      /\ z.currentBet = s.currentBet /\ z.chips = s.chips
  BY <1>1 DEF Seat
<1> QED BY <1>2, <1>3, <1>4

\* The seat at i has acted.  It has what is to call; or it has folded, or could not
\* call, and has changed nothing for the others.
Answered(g, t, i) ==
  /\ Len(t.seats) = Len(g.seats) /\ DOMAIN t.seats = DOMAIN g.seats
  /\ t.actingIndex = g.actingIndex /\ i \in DOMAIN g.seats
  /\ t.seats[i].actedThisRound /\ t.seats[i].inHand
  /\ t.seats[i].pendingLeave = g.seats[i].pendingLeave
  /\ \E raised \in BOOLEAN :
       /\ \A j \in DOMAIN g.seats : j # i => t.seats[j] = Reopened(g.seats[j], raised)
       /\ \/ ~t.seats[i].folded /\ t.seats[i].currentBet = t.lastBet
          \/ /\ ~raised /\ t.lastBet = g.lastBet
             /\ \/ t.seats[i].folded
                \/ g.seats[i].currentBet + g.seats[i].chips < g.lastBet

\* Somebody else, who is alive, has what is to call, if there is a bet.
Faced(g, i) ==
  g.lastBet = 0 \/ \E l \in DOMAIN g.seats :
                     /\ Alive(g.seats[l]) /\ g.seats[l].currentBet = g.lastBet
                     /\ g.seats[l].playerId # g.seats[i].playerId

\* No seat may bet more than another one can call, but all may call: a seat that is
\* held below the highest bet has no more chips.
LEMMA HeldBelow ==
  ASSUME NEW g, g.seats \in Seq(Seat), g.lastBet \in Nat, NEW i \in DOMAIN g.seats,
         Faced(g, i), GetMaxAllowedTotalBet(g, g.seats[i]) < g.lastBet
  PROVE  g.seats[i].currentBet + g.seats[i].chips < g.lastBet
<1> DEFINE s == g.seats[i]
           p == s.playerId
           own == s.currentBet + s.chips
           others == GetMaxOtherEffectiveTotal(g, p)
           allowed == GetMaxAllowedTotalBet(g, s)
<1>1. /\ s \in Seat /\ s.currentBet \in Nat /\ s.chips \in Nat
      /\ \A j \in DOMAIN g.seats : /\ g.seats[j] \in Seat /\ g.seats[j].currentBet \in Nat
                                   /\ g.seats[j].chips \in Nat
  <2>1. \A j \in DOMAIN g.seats : g.seats[j] \in Seat
    BY SeatsAre
  <2> QED BY <2>1 DEF Seat
<1>2. allowed \in Nat /\ s.currentBet <= allowed /\ others \in Nat
  BY <1>1, AllowedBounds, OthersType
<1>3. PICK l \in DOMAIN g.seats :
        Alive(g.seats[l]) /\ g.seats[l].currentBet = g.lastBet /\ g.seats[l].playerId # p
  <2>1. g.lastBet # 0
    BY <1>2
  <2> QED BY <2>1 DEF Faced
<1>4. others >= g.lastBet
  <2>1. g.seats[l].currentBet + g.seats[l].chips <= others
    BY <1>3, OthersType
  <2> QED BY <1>1, <1>2, <1>3, <2>1
<1>5. allowed = IF others > 0 THEN Max({s.currentBet, Min({own, others})}) ELSE own
  BY DEF GetMaxAllowedTotalBet
<1> DEFINE m == IF own <= others THEN own ELSE others
<1>6. own \in Nat /\ allowed < g.lastBet
  BY <1>1, SMTT(30) DEF allowed
<1> HIDE DEF others, allowed, own, s
<1>7. Min({own, others}) = m /\ m \in Nat
  BY <1>2, <1>6, MinOfTwo
<1>8. Max({s.currentBet, m}) = IF s.currentBet >= m THEN s.currentBet ELSE m
  <2> HIDE DEF m
  <2> QED BY <1>1, <1>7, MaxOfTwo
<1>9. allowed = IF others > 0 THEN (IF s.currentBet >= m THEN s.currentBet ELSE m) ELSE own
  <2> HIDE DEF m
  <2> QED BY <1>5, <1>7, <1>8
<1>10. own < g.lastBet
  BY <1>1, <1>2, <1>4, <1>6, <1>9
<1> QED BY <1>10 DEF own, s
\* A legal action ends at what is to call then; or it is a fold or takes all the seat
\* may bet, less than a call, and neither raises nor reopens the betting.
LEMMA TotalAnswers ==
  ASSUME NEW g \in HandTable, NEW i \in DOMAIN g.seats, NEW action \in Actions,
         NEW amount \in Int, Legal(g, g.seats[i], action, amount),
         Faced(g, i), g.seats[i].currentBet <= g.lastBet
  PROVE  LET s == g.seats[i]
             total == TotalBet(g, s, action, amount)
         IN  \/ action # "Fold" /\ total = LastBetAfter(g, action, total)
             \/ /\ ~Reopens(g, action, total) /\ LastBetAfter(g, action, total) = g.lastBet
                /\ action = "Fold" \/ s.currentBet + s.chips < g.lastBet
<1> DEFINE s == g.seats[i]
           total == TotalBet(g, s, action, amount)
           last == LastBetAfter(g, action, total)
           raised == Reopens(g, action, total)
           allowed == GetMaxAllowedTotalBet(g, s)
           own == s.currentBet + s.chips
<1>1. g.seats \in Seq(Seat) /\ g.lastBet \in Nat /\ g.lastRaise \in Nat
  BY DEF HandTable, Table
<1>2. s \in Seat /\ s.currentBet \in Nat /\ s.chips \in Nat /\ s.currentBet <= g.lastBet
  <2>1. s \in Seat
    BY <1>1, SeatsAre
  <2> QED BY <2>1 DEF Seat
<1>3. /\ allowed \in Nat /\ s.currentBet <= allowed /\ allowed <= own
      /\ allowed < g.lastBet => own < g.lastBet
  BY <1>1, <1>2, AllowedBounds, HeldBelow
<1>4. total \in Nat /\ own \in Nat
  BY <1>2, PayBounds
<1>5. Legal(g, s, action, amount)
  OBVIOUS
<1> HIDE DEF s, own, allowed
<1> SUFFICES \/ action # "Fold" /\ total = last
             \/ ~raised /\ last = g.lastBet /\ (action = "Fold" \/ own < g.lastBet)
  BY DEF own, s
<1>6. CASE action \in {"Bet", "Raise", "AllIn"}
  <2>1. last = IF g.lastBet >= total THEN g.lastBet ELSE total
    <3> HIDE DEF total
    <3> QED BY <1>1, <1>4, <1>6, MaxOfTwo DEF LastBetAfter
  <2>2. total >= g.lastBet => total = last
    BY <1>1, <1>4, <2>1
  <2>3. total < g.lastBet => ~raised /\ last = g.lastBet
    <3>1. total < g.lastBet => total - g.lastBet < g.lastRaise /\ g.lastBet # 0
      BY <1>1, <1>4
    <3>2. total < g.lastBet => ~raised
      <4> HIDE DEF total
      <4> QED BY <1>1, <1>4, <3>1 DEF Reopens
    <3> QED BY <1>1, <1>4, <2>1, <3>2
  <2>4. total < g.lastBet => own < g.lastBet
    <3>1. CASE action = "Bet"
      <4>1. g.lastBet <= 0
        BY <1>5, <3>1 DEF Legal
      <4> QED BY <1>1, <1>4, <4>1
    <3>2. CASE action = "Raise"
      <4> DEFINE raise == RaiseTo(g, s, amount)
      <4>1. total = raise
        BY <3>2 DEF TotalBet
      <4>2. raise = allowed \/ raise - g.lastBet > 0
        BY <1>5, <3>2 DEF Legal, allowed
      <4> HIDE DEF total, raise
      <4> QED BY <1>1, <1>3, <1>4, <4>1, <4>2
    <3>3. CASE action = "AllIn"
      <4>1. total = AllInTo(g, s)
        BY <3>3 DEF TotalBet
      <4>2. AllInTo(g, s) = IF own <= allowed THEN own ELSE allowed
        BY <1>3, <1>4, MinOfTwo DEF AllInTo, own, allowed
      <4> HIDE DEF total
      <4> QED BY <1>1, <1>3, <1>4, <4>1, <4>2
    <3> QED BY <1>6, <3>1, <3>2, <3>3
  <2>5. total >= g.lastBet \/ total < g.lastBet
    BY <1>1, <1>4
  <2> QED BY <1>6, <2>2, <2>3, <2>4, <2>5
<1>7. CASE action = "CheckCall"
  <2>1. last = g.lastBet /\ ~raised
    BY <1>7 DEF LastBetAfter, Reopens
  <2> DEFINE d == g.lastBet - s.currentBet
  <2>2. d \in Nat
    BY <1>1, <1>2
  <2>3. total = s.currentBet + Min({s.chips, Max({0, d})})
    BY <1>7 DEF TotalBet, CallTo
  <2>4. Max({0, d}) = d
    <3> HIDE DEF d
    <3>1. Max({0, d}) = IF 0 >= d THEN 0 ELSE d
      BY <2>2, MaxOfTwo
    <3> QED BY <2>2, <3>1
  <2>5. total = s.currentBet + (IF s.chips <= d THEN s.chips ELSE d)
    <3> HIDE DEF d, total
    <3>1. Min({s.chips, d}) = IF s.chips <= d THEN s.chips ELSE d
      BY <1>2, <2>2, MinOfTwo
    <3> QED BY <2>3, <2>4, <3>1
  <2>6. total = g.lastBet \/ own < g.lastBet
    <3> HIDE DEF total
    <3> QED BY <1>1, <1>2, <2>5 DEF own
  <2> QED BY <1>7, <2>1, <2>6
<1>8. CASE action = "Fold"
  BY <1>8 DEF LastBetAfter, Reopens
<1> QED BY <1>6, <1>7, <1>8 DEF Actions

\* What a legal action does.
LEMMA PlayedAnswers ==
  ASSUME NEW g \in HandTable, g.actingIndex \in Positions(g),
         NEW action \in Actions, NEW amount \in Int,
         CanAct(At(g, g.actingIndex)),
         Legal(g, At(g, g.actingIndex), action, amount),
         Faced(g, g.actingIndex + 1), At(g, g.actingIndex).currentBet <= g.lastBet
  PROVE  Answered(g, Played(g, action, amount), g.actingIndex + 1)
<1> DEFINE i == g.actingIndex + 1
           s == g.seats[i]
           total == TotalBet(g, s, action, amount)
           last == LastBetAfter(g, action, total)
           raised == Reopens(g, action, total)
           t == Played(g, action, amount)
<1>1. /\ i \in DOMAIN g.seats /\ s \in SoundSeat /\ s.inHand
      /\ total \in Nat /\ total - s.currentBet \in 0..s.chips
      /\ Len(t.seats) = Len(g.seats) /\ DOMAIN t.seats = DOMAIN g.seats
      /\ t.seats[i] = Moved(s, action, total)
      /\ \A j \in DOMAIN g.seats : j # i => t.seats[j] = Reopened(g.seats[j], raised)
      /\ t.lastBet = last /\ t.actingIndex = g.actingIndex
  BY PlayedIs
<1>2. \/ action # "Fold" /\ total = last
      \/ ~raised /\ last = g.lastBet /\ (action = "Fold" \/ s.currentBet + s.chips < g.lastBet)
  <2>1. Legal(g, s, action, amount) /\ s.currentBet <= g.lastBet
    BY DEF At
  <2> HIDE DEF s
  <2> QED BY <1>1, <2>1, TotalAnswers DEF s
<1>3. raised \in BOOLEAN
  BY DEF Reopens
<1> HIDE DEF total, last, raised, t, i, s
<1>4. LET z == t.seats[i]
      IN  /\ z.actedThisRound /\ z.inHand /\ z.pendingLeave = s.pendingLeave
          /\ z.currentBet = total /\ (z.folded <=> action = "Fold")
  <2> DEFINE pay == total - s.currentBet
             u == PutIn(s, pay)
             z == [u EXCEPT !.folded = action = "Fold", !.actedThisRound = TRUE]
  <2>1. s.currentBet \in Nat /\ s \in Seat
    BY <1>1 DEF SoundSeat, Seat
  <2>2. s.currentBet + pay = total
    BY <1>1, <2>1
  <2> HIDE DEF pay
  <2>3. /\ u.inHand = s.inHand /\ u.pendingLeave = s.pendingLeave
        /\ u.currentBet = total /\ DOMAIN u = DOMAIN s
    BY <2>1, <2>2 DEF PutIn, Seat
  <2> HIDE DEF u
  <2>4. /\ z.inHand = s.inHand /\ z.pendingLeave = s.pendingLeave
        /\ z.currentBet = total /\ z.actedThisRound /\ (z.folded <=> action = "Fold")
    BY <2>1, <2>3 DEF Seat
  <2>5. t.seats[i] = z
    BY <1>1 DEF Moved, u, pay
  <2> HIDE DEF z
  <2> QED BY <1>1, <2>4, <2>5
<1>5. Answered(g, t, i)
  <2>1. \/ ~t.seats[i].folded /\ t.seats[i].currentBet = t.lastBet
        \/ /\ ~raised /\ t.lastBet = g.lastBet
           /\ t.seats[i].folded \/ g.seats[i].currentBet + g.seats[i].chips < g.lastBet
    BY <1>1, <1>2, <1>4 DEF s
  <2>2. t.seats[i].pendingLeave = g.seats[i].pendingLeave
    BY <1>4 DEF s
  <2> QED BY <1>1, <1>3, <1>4, <2>1, <2>2 DEF Answered
<1> QED BY <1>5 DEF t, i

\* What a seat that plays itself does.
LEMMA AutoPlayedAnswers ==
  ASSUME NEW g \in HandTable, g.actingIndex \in Positions(g),
         CanAct(At(g, g.actingIndex)), At(g, g.actingIndex).currentBet <= g.lastBet
  PROVE  Answered(g, AutoPlayed(g), g.actingIndex + 1)
<1> DEFINE i == g.actingIndex + 1
           s == g.seats[i]
           folds == g.lastBet > s.currentBet
           t == AutoPlayed(g)
<1>1. /\ i \in DOMAIN g.seats /\ s \in SoundSeat /\ s.inHand
      /\ Len(t.seats) = Len(g.seats) /\ DOMAIN t.seats = DOMAIN g.seats
      /\ t.seats[i] = [s EXCEPT !.folded = folds, !.actedThisRound = TRUE]
      /\ \A j \in DOMAIN g.seats : j # i => t.seats[j] = g.seats[j]
      /\ t.lastBet = g.lastBet /\ t.actingIndex = g.actingIndex
  BY AutoPlayedIs
<1>2. s \in Seat /\ s.currentBet \in Nat /\ g.lastBet \in Nat /\ s.currentBet <= g.lastBet
  BY <1>1 DEF SoundSeat, Seat, HandTable, Table, At
<1> HIDE DEF s
<1>3. folds \/ s.currentBet = g.lastBet
  BY <1>2
<1> HIDE DEF folds, t, i
<1>4. LET z == t.seats[i]
      IN  /\ z.actedThisRound /\ z.inHand /\ z.pendingLeave = s.pendingLeave
          /\ z.currentBet = s.currentBet /\ (z.folded = folds)
  BY <1>1, <1>2 DEF Seat
<1>5. \A j \in DOMAIN g.seats : j # i => t.seats[j] = Reopened(g.seats[j], FALSE)
  <2>1. \A z \in Seat : z = Reopened(z, FALSE)
    BY DEF Seat, Reopened
  <2>2. \A j \in DOMAIN g.seats : g.seats[j] \in Seat
    BY SeatsAre DEF HandTable, Table
  <2> QED BY <1>1, <2>1, <2>2
<1>6. Answered(g, t, i)
  <2>1. \/ ~t.seats[i].folded /\ t.seats[i].currentBet = t.lastBet
        \/ ~FALSE /\ t.lastBet = g.lastBet /\ t.seats[i].folded
    BY <1>1, <1>2, <1>3, <1>4 DEF folds
  <2>2. t.seats[i].pendingLeave = g.seats[i].pendingLeave
    BY <1>4 DEF s
  <2> QED BY <1>1, <1>4, <1>5, <2>1, <2>2 DEF Answered
<1> QED BY <1>6, SMTT(30) DEF t, i
\* In a hand that nobody leaves, whoever contends is alive.
LEMMA NoLeaverAlive ==
  ASSUME NEW g, NoLeaver(g), NEW i \in DOMAIN g.seats
  PROVE  /\ i \in InPlay(g) <=> Alive(g.seats[i])
         /\ i \in Betting(g) <=> Live(g.seats[i])
BY DEF NoLeaver, InPlay, Betting, Alive, Live, CanAct, IsOccupied

\* The leader is never the seat to act.
LEMMA LeaderWaits ==
  ASSUME NEW g \in HandTable, g.stage # "Waiting", g.actingIndex \in Positions(g),
         CanAct(At(g, g.actingIndex)), Led(g), NoLeaver(g), NEW l, Leads(g, l)
  PROVE  l # g.actingIndex + 1
<1> DEFINE i == g.actingIndex + 1
<1>1. /\ ~g.seats[i].actedThisRound /\ ~g.seats[i].allIn
      /\ \E k, m \in InPlay(g) : k # m
  BY DEF Led, At, CanAct
<1>2. /\ Len(g.seats) \in Nat /\ DOMAIN g.seats = 1..Len(g.seats)
      /\ g.actingIndex \in 0..Len(g.seats) - 1
  BY SeatsAre DEF HandTable, Positions
<1>3. \A k \in DOMAIN g.seats : ~Before(g, k, i)
  BY <1>2, BeforeIs
<1> HIDE DEF i
<1> SUFFICES ASSUME l = i PROVE FALSE
  BY DEF i
<1>4. Unopened(g, i)
  BY <1>1 DEF Leads
<1>5. \A k \in InPlay(g) : k # i => Before(g, k, i) /\ k \in DOMAIN g.seats
  BY <1>4 DEF Unopened, InPlay
<1> QED BY <1>1, <1>3, <1>5

\* So the seat to act faces a bet of somebody else.
LEMMA LedFaces ==
  ASSUME NEW g \in HandTable, g.stage # "Waiting", g.actingIndex \in Positions(g),
         CanAct(At(g, g.actingIndex)), InOrder(g.seats), Led(g), NoLeaver(g)
  PROVE  Faced(g, g.actingIndex + 1)
<1> DEFINE i == g.actingIndex + 1
<1>1. /\ Len(g.seats) \in Nat /\ DOMAIN g.seats = 1..Len(g.seats) /\ i \in DOMAIN g.seats
  BY SeatsAre DEF HandTable
<1>2. CASE g.lastBet # 0
  <2>1. PICK l : Leads(g, l)
    BY <1>2 DEF Led
  <2>2. l # i
    BY <2>1, LeaderWaits
  <2>3. l \in DOMAIN g.seats /\ Alive(g.seats[l]) /\ g.seats[l].currentBet = g.lastBet
    BY <2>1, NoLeaverAlive DEF Leads, InPlay
  <2> HIDE DEF i
  <2>4. l < i \/ i < l
    BY <1>1, <2>2, <2>3
  <2>5. g.seats[l].playerId # g.seats[i].playerId
    BY <1>1, <2>3, <2>4 DEF InOrder
  <2> QED BY <2>3, <2>5 DEF Faced, i
<1> QED BY <1>2 DEF Faced

\* A seat that acts marks nobody, and takes no mark away.
LEMMA ActingKeepsMarks ==
  ASSUME NEW g \in HandTable, g.actingIndex \in Positions(g), NEW t, Acting(g, t)
  PROVE  /\ DOMAIN t.seats = DOMAIN g.seats
         /\ \A j \in DOMAIN g.seats : /\ t.seats[j].pendingLeave = g.seats[j].pendingLeave
                                      /\ t.seats[j].inHand = g.seats[j].inHand
<1> DEFINE i == g.actingIndex + 1
           s == g.seats[i]
<1>1. \A j \in DOMAIN g.seats : g.seats[j] \in Seat
  BY SeatsAre DEF HandTable, Table
<1>2. CASE t = AutoPlayed(g)
  <2> DEFINE folds == g.lastBet > s.currentBet
  <2>1. /\ i \in DOMAIN g.seats /\ DOMAIN t.seats = DOMAIN g.seats
        /\ t.seats[i] = [s EXCEPT !.folded = folds, !.actedThisRound = TRUE]
        /\ \A j \in DOMAIN g.seats : j # i => t.seats[j] = g.seats[j]
    BY <1>2, AutoPlayedIs DEF Acting
  <2> HIDE DEF folds, i
  <2>2. t.seats[i].pendingLeave = s.pendingLeave /\ t.seats[i].inHand = s.inHand
    BY <1>1, <2>1 DEF Seat
  <2> QED BY <2>1, <2>2
<1>3. CASE \E action \in Actions, amount \in Int :
             Legal(g, At(g, g.actingIndex), action, amount) /\ t = Played(g, action, amount)
  <2>1. PICK action \in Actions, amount \in Int :
          Legal(g, At(g, g.actingIndex), action, amount) /\ t = Played(g, action, amount)
    BY <1>3
  <2> DEFINE total == TotalBet(g, s, action, amount)
             raised == Reopens(g, action, total)
  <2>2. /\ i \in DOMAIN g.seats /\ DOMAIN t.seats = DOMAIN g.seats
        /\ t.seats[i] = Moved(s, action, total)
        /\ \A j \in DOMAIN g.seats : j # i => t.seats[j] = Reopened(g.seats[j], raised)
    BY <2>1, PlayedIs DEF Acting
  <2>3. raised \in BOOLEAN
    BY DEF Reopens
  <2> HIDE DEF total, raised, i
  <2>4. ASSUME NEW j \in DOMAIN g.seats, j # i
        PROVE  /\ t.seats[j].pendingLeave = g.seats[j].pendingLeave
               /\ t.seats[j].inHand = g.seats[j].inHand
    BY <1>1, <2>2, <2>3, <2>4, ReopenedIs
  <2>5. t.seats[i].pendingLeave = s.pendingLeave /\ t.seats[i].inHand = s.inHand
    <3> DEFINE u == PutIn(s, total - s.currentBet)
    <3>1. /\ u.inHand = s.inHand /\ u.pendingLeave = s.pendingLeave /\ DOMAIN u = DOMAIN s
      BY <1>1, <2>2 DEF PutIn, Seat
    <3>2. t.seats[i] = [u EXCEPT !.folded = action = "Fold", !.actedThisRound = TRUE]
      BY <2>2 DEF Moved
    <3> HIDE DEF u
    <3> QED BY <1>1, <2>2, <3>1, <3>2 DEF Seat
  <2> QED BY <2>2, <2>4, <2>5
<1> QED BY <1>2, <1>3 DEF Acting

\* The table when the seat to act has done so and its turn has not yet passed.
BetsSettled(t) ==
  NoLeaver(t) =>
    /\ At(t, t.actingIndex).actedThisRound
    /\ \A k, m \in Betting(t) \ {t.actingIndex + 1} :
         t.seats[k].actedThisRound /\ ~t.seats[m].actedThisRound => Before(t, m, k)
    /\ t.lastBet = 0 \/ \E l : Leads(t, l)

\* The seat that acts leads, folds or cannot call, and then the leader still leads.
LEMMA AnsweredSettles ==
  ASSUME NEW g \in HandTable, g.stage # "Waiting", g.actingIndex \in Positions(g),
         CanAct(At(g, g.actingIndex)), Led(g), NoLeaver(g),
         NEW t, Answered(g, t, g.actingIndex + 1)
  PROVE  BetsSettled(t)
<1> DEFINE i == g.actingIndex + 1
<1>1. \A j \in DOMAIN g.seats : g.seats[j] \in Seat
  BY SeatsAre DEF HandTable, Table
<1>2. PICK raised \in BOOLEAN :
        /\ \A j \in DOMAIN g.seats : j # i => t.seats[j] = Reopened(g.seats[j], raised)
        /\ \/ ~t.seats[i].folded /\ t.seats[i].currentBet = t.lastBet
           \/ /\ ~raised /\ t.lastBet = g.lastBet
              /\ \/ t.seats[i].folded
                 \/ g.seats[i].currentBet + g.seats[i].chips < g.lastBet
  BY DEF Answered
<1>3. /\ Len(t.seats) = Len(g.seats) /\ DOMAIN t.seats = DOMAIN g.seats
      /\ t.actingIndex = g.actingIndex /\ i \in DOMAIN g.seats
      /\ t.seats[i].actedThisRound /\ t.seats[i].inHand
      /\ t.seats[i].pendingLeave = g.seats[i].pendingLeave
  BY DEF Answered
<1>4. ASSUME NEW j \in DOMAIN g.seats, j # i
      PROVE  LET s == g.seats[j]
                 z == t.seats[j]
             IN  /\ z.inHand = s.inHand /\ z.folded = s.folded /\ z.allIn = s.allIn
                 /\ z.pendingLeave = s.pendingLeave
                 /\ z.currentBet = s.currentBet /\ z.chips = s.chips
                 /\ ~raised => z.actedThisRound = s.actedThisRound
                 /\ raised /\ Live(s) => ~z.actedThisRound
  <2>1. t.seats[j] = Reopened(g.seats[j], raised) /\ g.seats[j] \in Seat
    BY <1>1, <1>2, <1>4
  <2> HIDE DEF i
  <2> QED BY <2>1, ReopenedIs
<1>5. At(t, t.actingIndex).actedThisRound
  BY <1>3 DEF At
<1>6. /\ \A k, m \in Betting(g) :
           g.seats[k].actedThisRound /\ ~g.seats[m].actedThisRound => Before(g, m, k)
      /\ g.lastBet = 0 \/ \E l : Leads(g, l)
  BY DEF Led
<1>7. \A l : Leads(g, l) => l # i
  BY LeaderWaits
<1>8. i \in InPlay(g)
  BY <1>3 DEF InPlay, At, CanAct
<1>9. t.actingIndex + 1 = i
  BY <1>3
<1> HIDE DEF i
<1>10. ASSUME NEW k \in Betting(t) \ {i}, NEW m \in Betting(t) \ {i},
              t.seats[k].actedThisRound, ~t.seats[m].actedThisRound
       PROVE  Before(t, m, k)
  <2>1. /\ k \in DOMAIN g.seats /\ k # i /\ m \in DOMAIN g.seats /\ m # i
        /\ k \in Betting(g) /\ m \in Betting(g)
    BY <1>3, <1>4 DEF Betting, CanAct
  <2>2. ~raised
    BY <1>4, <1>10, <2>1, NoLeaverAlive
  <2>3. Before(g, m, k)
    BY <1>4, <1>6, <1>10, <2>1, <2>2
  <2> QED BY <1>3, <2>3 DEF Before
<1>11. t.lastBet = 0 \/ \E l : Leads(t, l)
  <2>1. CASE ~t.seats[i].folded /\ t.seats[i].currentBet = t.lastBet
    <3>1. Leads(t, i)
      BY <1>3, <2>1 DEF Leads, InPlay
    <3> QED BY <3>1
  <2>2. CASE /\ ~raised /\ t.lastBet = g.lastBet
             /\ \/ t.seats[i].folded
                \/ g.seats[i].currentBet + g.seats[i].chips < g.lastBet
    <3>1. CASE g.lastBet # 0
      <4>1. PICK l : Leads(g, l)
        BY <1>6, <3>1
      <4>2. l # i /\ l \in InPlay(g) /\ l \in DOMAIN g.seats
        BY <1>7, <4>1 DEF Leads, InPlay
      <4>3. l \in InPlay(t) /\ t.seats[l].currentBet = t.lastBet
        BY <1>3, <1>4, <2>2, <4>1, <4>2 DEF InPlay, Leads
      <4>4. CASE g.seats[l].actedThisRound \/ g.seats[l].allIn
        <5>1. t.seats[l].actedThisRound \/ t.seats[l].allIn
          BY <1>4, <2>2, <4>2, <4>4
        <5> QED BY <4>3, <5>1 DEF Leads
      <4>5. CASE Unopened(g, l)
        <5>1. /\ g.seats[i].currentBet + g.seats[i].chips >= g.lastBet
              /\ g.seats[i].currentBet \in Nat /\ g.seats[i].chips \in Nat /\ g.lastBet \in Nat
          BY <1>1, <1>3, <1>8, <4>5 DEF Unopened, Seat, HandTable, Table
        <5>2. t.seats[i].folded
          BY <2>2, <5>1
        <5>3. ASSUME NEW k \in InPlay(t)
              PROVE  /\ ~t.seats[k].actedThisRound /\ ~t.seats[k].allIn
                     /\ t.seats[k].currentBet + t.seats[k].chips >= t.lastBet
                     /\ k # l => Before(t, k, l)
          <6>1. k # i /\ k \in DOMAIN g.seats
            BY <1>3, <5>2 DEF InPlay
          <6>2. k \in InPlay(g)
            BY <1>3, <1>4, <6>1 DEF InPlay
          <6>3. /\ ~g.seats[k].actedThisRound /\ ~g.seats[k].allIn
                /\ g.seats[k].currentBet + g.seats[k].chips >= g.lastBet
                /\ k # l => Before(g, k, l)
            BY <4>5, <6>2 DEF Unopened
          <6>4. k # l => Before(t, k, l)
            BY <1>3, <6>3 DEF Before
          <6> QED BY <1>4, <2>2, <6>1, <6>3, <6>4
        <5>4. Unopened(t, l)
          BY <5>3 DEF Unopened
        <5> QED BY <4>3, <5>4 DEF Leads
      <4> QED BY <4>1, <4>4, <4>5 DEF Leads
    <3> QED BY <2>2, <3>1
  <2> QED BY <1>2, <2>1, <2>2
<1> QED BY <1>5, <1>9, <1>10, <1>11 DEF BetsSettled

\* Whatever the seat does.
LEMMA ActingSettles ==
  ASSUME NEW g \in HandTable, g.stage # "Waiting", g.actingIndex \in Positions(g),
         InOrder(g.seats), BetsHeld(g), Led(g), NEW t, Acting(g, t)
  PROVE  BetsSettled(t)
<1> SUFFICES ASSUME NoLeaver(t) PROVE BetsSettled(t)
  BY DEF BetsSettled
<1>1. NoLeaver(g)
  BY ActingKeepsMarks DEF NoLeaver
<1>2. CanAct(At(g, g.actingIndex))
  BY DEF Acting
<1>3. Faced(g, g.actingIndex + 1)
  BY <1>1, <1>2, LedFaces
<1>4. At(g, g.actingIndex).currentBet <= g.lastBet
  <2>1. g.actingIndex + 1 \in DOMAIN g.seats
    BY SeatsAre DEF HandTable
  <2> QED BY <2>1 DEF BetsHeld, At
<1>5. Answered(g, t, g.actingIndex + 1)
  <2>1. CASE t = AutoPlayed(g)
    BY <1>2, <1>4, <2>1, AutoPlayedAnswers
  <2>2. CASE \E action \in Actions, amount \in Int :
               Legal(g, At(g, g.actingIndex), action, amount) /\ t = Played(g, action, amount)
    BY <1>2, <1>3, <1>4, <2>2, PlayedAnswers
  <2> QED BY <2>1, <2>2 DEF Acting
<1> QED BY <1>1, <1>2, <1>5, AnsweredSettles
\* The turn passes to the first that has not acted, and the leader, if its place still
\* matters, is the last in the new order too.
LEMMA PassedLed ==
  ASSUME NEW t \in HandTable, t.actingIndex \in Positions(t), BetsSettled(t), TwoAlive(t),
         NEW k \in Positions(t), Passes(t, k), NEW h, h = [t EXCEPT !.actingIndex = k]
  PROVE  Led(h)
<1> DEFINE a == t.actingIndex
           i == a + 1
           S == {n \in Positions(t) : Alive(At(t, n)) /\ ~At(t, n).allIn}
<1>1. /\ Len(t.seats) \in Nat /\ DOMAIN t.seats = 1..Len(t.seats)
      /\ t.seats \in Seq(SoundSeat) /\ k \in Nat
  BY SeatsAre DEF HandTable, Positions
<1>2. h.seats = t.seats /\ h.lastBet = t.lastBet /\ h.actingIndex = k
  BY <1>1, TurnIs
<1> SUFFICES ASSUME NoLeaver(h) PROVE Led(h)
  BY DEF Led
<1>3. NoLeaver(t) /\ InPlay(h) = InPlay(t) /\ Betting(h) = Betting(t)
  BY <1>2 DEF NoLeaver, InPlay, Betting
<1>4. /\ t.seats[i].actedThisRound
      /\ \A x, y \in Betting(t) \ {i} :
           t.seats[x].actedThisRound /\ ~t.seats[y].actedThisRound => Before(t, y, x)
      /\ t.lastBet = 0 \/ \E l : Leads(t, l)
  BY <1>3 DEF BetsSettled, At
<1>5. \A x \in Betting(t) : x \in DOMAIN t.seats /\ x - 1 \in S /\ (x - 1) + 1 = x
  <2> SUFFICES ASSUME NEW x \in Betting(t)
               PROVE  x \in DOMAIN t.seats /\ x - 1 \in S /\ (x - 1) + 1 = x
    OBVIOUS
  <2>1. x \in DOMAIN t.seats
    BY DEF Betting
  <2>2. x - 1 \in Positions(t) /\ (x - 1) + 1 = x
    BY <1>1, <2>1 DEF Positions
  <2>3. Live(t.seats[x])
    BY <1>3, <2>1, NoLeaverAlive
  <2> QED BY <2>1, <2>2, <2>3 DEF At, Live
<1>6. PICK m \in Betting(t) : ~t.seats[m].actedThisRound
  BY <1>3, NoLeaverAlive DEF Passes
<1>7. k # a /\ FirstAfter(t, a, S, k)
  <2>1. S \in SUBSET Positions(t)
    OBVIOUS
  <2>2. k = FirstFrom(t, a + 1, S)
    BY DEF Passes, NextActiveIndex
  <2>3. m - 1 \in S /\ m - 1 # a
    BY <1>4, <1>5, <1>6
  <2> HIDE DEF S, a
  <2> QED BY <1>1, <2>1, <2>2, <2>3, FirstFromIsFirst DEF a
<1>8. /\ \A n \in S \ {a} : Before(h, n + 1, a + 1)
      /\ \A n, p \in S \ {a} :
           RankFrom(a, Len(t.seats), n + 1) < RankFrom(a, Len(t.seats), p + 1)
           => Before(h, n + 1, p + 1)
  <2>1. S \in SUBSET Positions(t) /\ Len(h.seats) = Len(t.seats)
    BY <1>2
  <2> HIDE DEF S, a
  <2> QED BY <1>1, <1>2, <1>7, <2>1, OrderAfter DEF a
<1>9. k + 1 \in Betting(t) /\ k + 1 # i
  <2>1. k \in S
    BY <1>7 DEF FirstAfter
  <2>2. k + 1 \in DOMAIN t.seats /\ k + 1 # a + 1
    BY <1>1, <1>7 DEF Positions
  <2> QED BY <1>3, <2>1, <2>2, NoLeaverAlive DEF At, Live
<1>10. \A x \in Betting(t) \ {i} : x # i /\ x - 1 \in S \ {a} /\ (x - 1) + 1 = x
  BY <1>1, <1>5
<1> HIDE DEF S
<1>11. \A x \in Betting(t) \ {i} : Before(h, x, i) /\ ~Before(t, x, k + 1)
  <2> SUFFICES ASSUME NEW x \in Betting(t) \ {i}
               PROVE  Before(h, x, i) /\ ~Before(t, x, k + 1)
    OBVIOUS
  <2>1. x - 1 \in S \ {a} /\ (x - 1) + 1 = x
    BY <1>10
  <2>2. Before(h, x, i)
    BY <1>8, <2>1
  <2>3. RankFrom(a, Len(t.seats), k + 1) <= RankFrom(a, Len(t.seats), x)
    BY <1>7, <2>1 DEF FirstAfter
  <2>4. RankFrom(a, Len(t.seats), k + 1) \in Int /\ RankFrom(a, Len(t.seats), x) \in Int
    <3>1. x \in Int /\ k + 1 \in Int /\ a \in Int
      BY <1>1, <1>5 DEF Positions
    <3> HIDE DEF a
    <3> QED BY <1>1, <3>1 DEF RankFrom
  <2>5. ~Before(t, x, k + 1)
    <3> DEFINE u == RankFrom(a, Len(t.seats), k + 1)
               v == RankFrom(a, Len(t.seats), x)
    <3>1. u <= v /\ u \in Int /\ v \in Int
      BY <2>3, <2>4
    <3> HIDE DEF u, v
    <3>2. ~(v < u)
      BY <3>1
    <3> QED BY <3>2 DEF Before, u, v
  <2> QED BY <2>2, <2>5
<1>12. \A x, y \in Betting(t) \ {i} : Before(t, x, y) => Before(h, x, y)
  <2> SUFFICES ASSUME NEW x \in Betting(t) \ {i}, NEW y \in Betting(t) \ {i}, Before(t, x, y)
               PROVE  Before(h, x, y)
    OBVIOUS
  <2>1. /\ x - 1 \in S \ {a} /\ (x - 1) + 1 = x
        /\ y - 1 \in S \ {a} /\ (y - 1) + 1 = y
    BY <1>10
  <2>2. RankFrom(a, Len(t.seats), x) < RankFrom(a, Len(t.seats), y)
    BY DEF Before
  <2> QED BY <1>8, <2>1, <2>2
<1> HIDE DEF i
<1>13. ~At(h, h.actingIndex).actedThisRound
  <2> SUFFICES ASSUME t.seats[k + 1].actedThisRound PROVE FALSE
    BY <1>2 DEF At
  <2>1. m # i
    BY <1>4, <1>6
  <2>2. Before(t, m, k + 1)
    BY <1>4, <1>6, <1>9, <2>1
  <2> QED BY <1>6, <1>11, <2>1, <2>2
<1>14. ASSUME NEW x \in Betting(h), NEW y \in Betting(h),
              h.seats[x].actedThisRound, ~h.seats[y].actedThisRound
       PROVE  Before(h, y, x)
  <2>1. x \in Betting(t) /\ y \in Betting(t) \ {i}
    BY <1>2, <1>3, <1>4, <1>14
  <2>2. CASE x = i
    BY <1>11, <2>1, <2>2
  <2>3. CASE x # i
    <3>1. Before(t, y, x)
      BY <1>2, <1>4, <1>14, <2>1, <2>3
    <3> QED BY <1>12, <2>1, <2>3, <3>1
  <2> QED BY <2>2, <2>3
<1>15. h.lastBet = 0 \/ \E l : Leads(h, l)
  <2>1. CASE t.lastBet # 0
    <3>1. PICK l : Leads(t, l)
      BY <1>4, <2>1
    <3>2. CASE Unopened(t, l)
      <4>1. l \in InPlay(t)
        BY <3>1 DEF Leads
      <4>2. \A x \in InPlay(t) : x \in Betting(t) /\ x # i
        BY <1>4, <3>2 DEF Unopened, InPlay, Betting, CanAct
      <4>3. ASSUME NEW x \in InPlay(h), x # l PROVE Before(h, x, l)
        <5>1. Before(t, x, l)
          BY <1>3, <3>2, <4>3 DEF Unopened
        <5> QED BY <1>3, <1>12, <4>1, <4>2, <4>3, <5>1
      <4>4. Unopened(h, l)
        BY <1>2, <1>3, <3>2, <4>3 DEF Unopened
      <4> QED BY <1>2, <1>3, <3>1, <4>4 DEF Leads
    <3>3. CASE t.seats[l].actedThisRound \/ t.seats[l].allIn
      BY <1>2, <1>3, <3>1, <3>3 DEF Leads
    <3> QED BY <3>1, <3>2, <3>3 DEF Leads
  <2> QED BY <1>2, <2>1
<1>16. \E x, y \in InPlay(h) : x # y
  BY <1>3, NoLeaverAlive DEF TwoAlive, AliveSeats
<1> QED BY <1>13, <1>14, <1>15, <1>16 DEF Led

\* On a new street there is no bet and nobody has acted.
LEMMA StreetLed ==
  ASSUME NEW t \in HandTable, t.stage \in {"PreFlop", "Flop", "Turn"}, TwoAlive(t),
         \E i \in DOMAIN t.seats : Live(t.seats[i]),
         NEW h, h = NewStreet(CollectBetsToSidePots(t))
  PROVE  Led(h)
<1> DEFINE c == CollectBetsToSidePots(t)
<1>1. /\ c \in HandTable /\ c.stage = t.stage /\ DOMAIN c.seats = DOMAIN t.seats
      /\ \/ c = t
         \/ \A i \in DOMAIN t.seats : c.seats[i] = [t.seats[i] EXCEPT !.currentBet = 0]
  BY CollectIs
<1> HIDE DEF c
<1>2. /\ DOMAIN h.seats = DOMAIN c.seats /\ h.lastBet = 0
      /\ \A i \in DOMAIN c.seats :
           h.seats[i] = [c.seats[i] EXCEPT !.currentBet = 0, !.actedThisRound = FALSE]
  BY <1>1, NewStreetIs DEF c
<1>3. h.actingIndex \in Positions(h) /\ h \in HandTable
  BY StreetIs
<1>4. ASSUME NEW i \in DOMAIN t.seats
      PROVE  /\ h.seats[i].folded = t.seats[i].folded /\ h.seats[i].inHand = t.seats[i].inHand
             /\ ~h.seats[i].actedThisRound
  <2> DEFINE d == c.seats[i]
  <2>1. t.seats[i] \in Seat /\ d \in Seat
    BY <1>1, SeatsAre DEF HandTable, Table
  <2>2. d = t.seats[i] \/ d = [t.seats[i] EXCEPT !.currentBet = 0]
    BY <1>1
  <2>3. h.seats[i] = [d EXCEPT !.currentBet = 0, !.actedThisRound = FALSE]
    BY <1>1, <1>2
  <2> HIDE DEF d
  <2>4. d.folded = t.seats[i].folded /\ d.inHand = t.seats[i].inHand
    BY <2>1, <2>2 DEF Seat
  <2> QED BY <2>1, <2>3, <2>4 DEF Seat
<1>5. ~At(h, h.actingIndex).actedThisRound
  <2>1. h.actingIndex + 1 \in DOMAIN h.seats
    BY <1>3, SeatsAre DEF HandTable
  <2> QED BY <1>1, <1>2, <1>4, <2>1 DEF At
<1>6. \A k \in Betting(h) : ~h.seats[k].actedThisRound
  BY <1>1, <1>2, <1>4 DEF Betting
<1>7. \E k, l \in InPlay(h) : k # l
  <2>1. AliveSeats(t) \subseteq InPlay(h)
    BY <1>1, <1>2, <1>4 DEF AliveSeats, Alive, InPlay
  <2> QED BY <2>1 DEF TwoAlive
<1> QED BY <1>2, <1>5, <1>6, <1>7 DEF Led

\* A turn leaves a hand in which somebody leads, or none.
LEMMA TurnedLed ==
  ASSUME NEW g, NEW h, Turned(g, h), InOrder(g.seats), TurnHeld(g), BetsHeld(g), Led(g)
  PROVE  Led(h)
<1>1. /\ g \in HandTable /\ g.stage \in Streets /\ g.stage # "Waiting"
      /\ g.actingIndex \in Positions(g)
  BY DEF Turned, TurnHeld, Streets
<1>2. \/ h = g
      \/ \E t, pay : /\ Acted(g, t, g.actingIndex + 1, pay) /\ Acting(g, t)
                     /\ h \in Outcomes(PlayOn(t))
  <2>1. Aimed(g) = g
    BY <1>1, AimedIs
  <2> QED BY <2>1 DEF Turned
<1>3. CASE \E t, pay : /\ Acted(g, t, g.actingIndex + 1, pay) /\ Acting(g, t)
                       /\ h \in Outcomes(PlayOn(t))
  <2>1. PICK t, pay : /\ Acted(g, t, g.actingIndex + 1, pay) /\ Acting(g, t)
                      /\ h \in Outcomes(PlayOn(t))
    BY <1>3
  <2>2. /\ t \in HandTable /\ t.stage \in Streets
        /\ Len(t.seats) = Len(g.seats) /\ t.actingIndex = g.actingIndex
    BY <1>1, <2>1 DEF Acted, SameHands, SamePlaces
  <2>3. BetsSettled(t) /\ t.actingIndex \in Positions(t)
    BY <1>1, <2>1, <2>2, ActingSettles DEF Positions
  <2>4. CASE Ended(t, h)
    BY <2>4 DEF Ended, Led
  <2>5. CASE GoesOn(t, h)
    BY <2>2, <2>3, <2>5, PassedLed, StreetLed DEF GoesOn
  <2> QED BY <2>1, <2>2, <2>4, <2>5, PlayedOn
<1> QED BY <1>2, <1>3
\* A hand opens with the big blind, which speaks last unless it is all-in.
LEMMA StartedLed ==
  ASSUME NEW g \in Table, NEW h, Started(g, h), h.smallBlind < h.bigBlind
  PROVE  Led(h)
<1>1. /\ h \in HandTable /\ DOMAIN h.seats = DOMAIN g.seats
      /\ h.actingIndex \in Positions(h) /\ Live(At(h, h.actingIndex))
      /\ h.lastBet = h.bigBlind
  BY DEF Started
<1>2. PICK sb \in DealtSeats(h), bb \in DealtSeats(h) :
        /\ sb # bb
        /\ \A i \in DOMAIN g.seats :
             LET blind == IF i = sb THEN Min({h.smallBlind, g.seats[i].chips})
                          ELSE IF i = bb THEN h.bigBlind ELSE 0
             IN  /\ h.seats[i].chips = g.seats[i].chips - blind
                 /\ h.seats[i].currentBet = blind /\ h.seats[i].totalBetThisHand = blind
        /\ Opens(h, bb)
  BY DEF Started
<1>3. /\ \A i \in DOMAIN h.seats : h.seats[i] \in SoundSeat
      /\ h.smallBlind > 0 /\ h.bigBlind > 0 /\ h.smallBlind \in Int /\ h.bigBlind \in Int
      /\ \A i \in DOMAIN g.seats : g.seats[i].chips \in Nat
  <2>1. \A i \in DOMAIN h.seats : h.seats[i] \in SoundSeat
    BY <1>1, SeatsAre DEF HandTable
  <2>2. \A i \in DOMAIN g.seats : g.seats[i] \in Seat
    BY SeatsAre DEF Table
  <2> QED BY <1>1, <2>1, <2>2 DEF HandTable, Table, AreBlindsSet, Seat
<1>4. /\ bb \in DOMAIN h.seats /\ sb \in DOMAIN h.seats
      /\ h.seats[bb].currentBet = h.lastBet
  BY <1>1, <1>2 DEF DealtSeats
<1>5. \A i \in DealtSeats(h) :
        LET s == h.seats[i]
        IN  /\ ~s.pendingLeave /\ ~s.folded /\ ~s.actedThisRound
            /\ s.currentBet + s.chips >= h.lastBet
  BY <1>2 DEF Opens
<1>6. \A i \in DealtSeats(h) \ {bb} : ~h.seats[i].allIn
  <2> SUFFICES ASSUME NEW i \in DealtSeats(h) \ {bb} PROVE ~h.seats[i].allIn
    OBVIOUS
  <2> DEFINE s == h.seats[i]
  <2>1. /\ s \in SoundSeat /\ s.inHand /\ s.currentBet + s.chips >= h.bigBlind
        /\ s.currentBet \in Nat /\ s.chips \in Nat
    BY <1>1, <1>3, <1>5 DEF DealtSeats, SoundSeat, Seat
  <2>2. s.currentBet <= h.smallBlind
    <3>1. CASE i = sb
      <4>1. s.currentBet = Min({h.smallBlind, g.seats[i].chips}) /\ g.seats[i].chips \in Nat
        BY <1>1, <1>2, <1>3, <3>1 DEF DealtSeats
      <4>2. Min({h.smallBlind, g.seats[i].chips}) <= h.smallBlind
        BY <1>3, <4>1, MinOfTwo
      <4> QED BY <4>1, <4>2
    <3>2. CASE i # sb
      <4>1. s.currentBet = 0
        BY <1>1, <1>2, <3>2 DEF DealtSeats
      <4> QED BY <1>3, <4>1
    <3> QED BY <3>1, <3>2
  <2>3. s.chips # 0
    <3> HIDE DEF s
    <3> QED BY <1>3, <2>1, <2>2
  <2> QED BY <2>1, <2>3 DEF SoundSeat
<1>7. InPlay(h) = DealtSeats(h) /\ Betting(h) \subseteq DealtSeats(h)
  BY <1>5 DEF InPlay, Betting, DealtSeats, CanAct
<1>8. Leads(h, bb)
  <2>1. CASE h.seats[bb].allIn
    BY <1>2, <1>4, <1>7, <2>1 DEF Leads
  <2>2. CASE ~h.seats[bb].allIn
    <3>1. \A i \in DealtSeats(h) : ~h.seats[i].allIn
      BY <1>6, <2>2
    <3>2. \A k \in DealtSeats(h) \ {bb} : Before(h, k, bb)
      BY <1>2, <3>1 DEF Opens
    <3>3. Unopened(h, bb)
      BY <1>5, <1>7, <3>1, <3>2 DEF Unopened
    <3> QED BY <1>2, <1>4, <1>7, <3>3 DEF Leads
  <2> QED BY <2>1, <2>2
<1>9. ~At(h, h.actingIndex).actedThisRound
  <2>1. h.actingIndex + 1 \in DealtSeats(h)
    BY <1>1, SeatsAre, LiveCanAct DEF HandTable, DealtSeats, At
  <2> QED BY <1>5, <2>1 DEF At
<1> QED BY <1>2, <1>5, <1>7, <1>8, <1>9 DEF Led

\* A removal takes no seat of the hand, and leaves the others and the turn in order.
LEMMA LeftLed ==
  ASSUME NEW g \in Table, NEW h \in Table, Left(g, h), TurnHeld(g), Led(g)
  PROVE  Led(h)
<1> SUFFICES ASSUME h.stage # "Waiting", NoLeaver(h) PROVE Led(h)
  BY DEF Led
<1>1. PICK place :
        /\ Kept(g.seats, place, h.seats)
        /\ \A k \in 1 .. Len(h.seats) :
             place[k] = g.actingIndex + 1 => h.actingIndex = k - 1
  BY DEF Left
<1>2. h.stage = g.stage /\ h.lastBet = g.lastBet
  BY DEF Left, SameRound
<1> DEFINE N == Len(g.seats)
           M == Len(h.seats)
           a == g.actingIndex
<1>3. /\ N \in Nat /\ M \in Nat /\ DOMAIN g.seats = 1..N /\ DOMAIN h.seats = 1..M
  BY SeatsAre DEF Table
<1>4. /\ place \in [1..M -> 1..N]
      /\ \A k \in 1..M : h.seats[k] = g.seats[place[k]]
      /\ \A j, k \in 1..M : j < k => place[j] < place[k]
      /\ \A n \in 1..N : g.seats[n].inHand => \E k \in 1..M : place[k] = n
  BY <1>1, <1>3 DEF Kept, Leaves
<1>5. a \in 0..N - 1 /\ CanAct(g.seats[a + 1]) /\ a + 1 \in 1..N
  BY <1>2, <1>3 DEF TurnHeld, Positions, At
<1> HIDE DEF N, M, a
<1>6. PICK b \in 1..M : place[b] = a + 1
  BY <1>4, <1>5 DEF CanAct
<1>7. h.actingIndex = b - 1 /\ b - 1 \in 0..M - 1 /\ (b - 1) + 1 = b
  BY <1>1, <1>3, <1>6 DEF M, a
<1>8. \A j, k \in 1..M : /\ place[j] \in 1..N
                         /\ j < k <=> place[j] < place[k]
                         /\ j > b - 1 <=> place[j] > a
                         /\ j <= b - 1 <=> place[j] <= a
  <2>1. \A j, k \in 1..M : place[j] \in 1..N /\ place[k] \in 1..N
    BY <1>4
  <2>2. \A j, k \in 1..M : j < k <=> place[j] < place[k]
    <3>1. \A j, k \in 1..M : j < k \/ j = k \/ k < j
      BY <1>3
    <3> QED BY <1>3, <1>4, <2>1, <3>1
  <2>3. \A j \in 1..M : j > b - 1 <=> place[j] > a
    <3> SUFFICES ASSUME NEW j \in 1..M PROVE j > b - 1 <=> place[j] > a
      OBVIOUS
    <3>1. j < b <=> place[j] < a + 1
      BY <1>6, <2>2
    <3>2. place[j] \in Int /\ a \in Int /\ j \in Int /\ b \in Int
      BY <1>3, <1>5, <2>1
    <3> QED BY <3>1, <3>2
  <2>4. \A j \in 1..M : /\ j <= b - 1 <=> ~(j > b - 1)
                        /\ place[j] <= a <=> ~(place[j] > a)
    BY <1>3, <1>5, <2>1
  <2> QED BY <2>1, <2>2, <2>3, <2>4
<1>9. \A j, k \in 1..M : Before(h, j, k) <=> Before(g, place[j], place[k])
  <2>1. \A j, k \in 1..M :
          Before(h, j, k) <=> \/ j > b - 1 /\ k <= b - 1
                              \/ (j > b - 1 <=> k > b - 1) /\ j < k
    <3> DEFINE d == b - 1
    <3>1. d \in 0..M - 1 /\ h.actingIndex = d /\ Len(h.seats) = M
      BY <1>7 DEF M
    <3>2. M \in Nat
      BY <1>3
    <3> HIDE DEF d, M
    <3>3. \A j, k \in 1..M :
            Before(h, j, k) <=> \/ j > d /\ k <= d
                                \/ (j > d <=> k > d) /\ j < k
      BY <3>1, <3>2, BeforeIs
    <3> QED BY <3>3 DEF d
  <2>2. \A j, k \in 1..N :
          Before(g, j, k) <=> \/ j > a /\ k <= a
                              \/ (j > a <=> k > a) /\ j < k
    <3>1. Len(g.seats) = N /\ g.actingIndex = a
      BY DEF N, a
    <3> QED BY <1>3, <1>5, <3>1, BeforeIs, SMTT(30)
  <2> QED BY <1>8, <2>1, <2>2
<1>10. NoLeaver(g)
  <2> SUFFICES ASSUME NEW n \in 1..N, g.seats[n].inHand PROVE ~g.seats[n].pendingLeave
    BY <1>3 DEF NoLeaver
  <2>1. PICK k \in 1..M : place[k] = n
    BY <1>4
  <2>2. h.seats[k] = g.seats[n]
    BY <1>4, <2>1
  <2> QED BY <1>3, <2>2 DEF NoLeaver
<1>11. /\ \A k \in InPlay(h) : place[k] \in InPlay(g) /\ k \in 1..M
       /\ \A n \in InPlay(g) : \E k \in InPlay(h) : place[k] = n
       /\ \A k \in Betting(h) : place[k] \in Betting(g) /\ k \in 1..M
  BY <1>3, <1>4 DEF InPlay, Betting
<1>12. /\ ~g.seats[a + 1].actedThisRound
       /\ \A k, m \in Betting(g) :
            g.seats[k].actedThisRound /\ ~g.seats[m].actedThisRound => Before(g, m, k)
       /\ g.lastBet = 0 \/ \E l : Leads(g, l)
       /\ \E k, l \in InPlay(g) : k # l
  BY <1>2, <1>10 DEF Led, At, a
<1>13. ~At(h, h.actingIndex).actedThisRound
  BY <1>4, <1>6, <1>7, <1>12 DEF At
<1>14. \A k, m \in Betting(h) :
         h.seats[k].actedThisRound /\ ~h.seats[m].actedThisRound => Before(h, m, k)
  BY <1>4, <1>9, <1>11, <1>12
<1>15. h.lastBet = 0 \/ \E l : Leads(h, l)
  <2>1. CASE g.lastBet # 0
    <3>1. PICK n : Leads(g, n)
      BY <1>12, <2>1
    <3>2. PICK l \in InPlay(h) : place[l] = n
      BY <1>11, <3>1 DEF Leads
    <3>3. h.seats[l] = g.seats[n] /\ l \in 1..M
      BY <1>4, <1>11, <3>2
    <3>4. Unopened(g, n) => Unopened(h, l)
      <4> SUFFICES ASSUME Unopened(g, n), NEW k \in InPlay(h)
                   PROVE  /\ ~h.seats[k].actedThisRound /\ ~h.seats[k].allIn
                          /\ h.seats[k].currentBet + h.seats[k].chips >= h.lastBet
                          /\ k # l => Before(h, k, l)
        BY DEF Unopened
      <4>1. place[k] \in InPlay(g) /\ k \in 1..M /\ h.seats[k] = g.seats[place[k]]
        BY <1>4, <1>11
      <4>2. k # l => place[k] # n
        <5>1. k # l => k < l \/ l < k
          BY <1>3, <3>3, <4>1
        <5>2. place[k] \in Int /\ place[l] \in Int
          BY <1>3, <1>8, <3>3, <4>1
        <5> QED BY <1>4, <3>2, <3>3, <4>1, <5>1, <5>2
      <4> QED BY <1>2, <1>9, <3>2, <3>3, <4>1, <4>2 DEF Unopened
    <3> QED BY <1>2, <3>1, <3>2, <3>3, <3>4 DEF Leads
  <2> QED BY <1>2, <2>1
<1>16. \E k, l \in InPlay(h) : k # l
  BY <1>11, <1>12
<1> QED BY <1>13, <1>14, <1>15, <1>16 DEF Led

\* The calls on a seat change nothing that counts, but marks.
LEMMA EditedLed ==
  ASSUME NEW g \in Table, NEW h, Edited(g, h), TurnHeld(g), Led(g)
  PROVE  Led(h)
<1> SUFFICES ASSUME h.stage # "Waiting", NoLeaver(h) PROVE Led(h)
  BY DEF Led
<1>1. /\ h.stage = g.stage /\ h.lastBet = g.lastBet /\ h.actingIndex = g.actingIndex
      /\ DOMAIN h.seats = DOMAIN g.seats /\ Len(h.seats) = Len(g.seats)
      /\ \A i \in DOMAIN g.seats : SameSeat(g.seats[i], h.seats[i])
  BY DEF Edited, SameRound, SameHands, SamePlaces
<1>2. \A i \in DOMAIN g.seats :
        LET s == g.seats[i]
            z == h.seats[i]
        IN  /\ z.inHand = s.inHand /\ z.folded = s.folded /\ z.allIn = s.allIn
            /\ z.actedThisRound = s.actedThisRound /\ z.currentBet = s.currentBet
            /\ s.inHand => z.chips = s.chips
            /\ s.pendingLeave => z.pendingLeave
  BY <1>1 DEF SameSeat, SameHand
<1>3. NoLeaver(g) /\ InPlay(h) = InPlay(g) /\ Betting(h) = Betting(g)
  BY <1>1, <1>2 DEF NoLeaver, InPlay, Betting, CanAct
<1>4. \A i, j : Before(h, i, j) <=> Before(g, i, j)
  BY <1>1 DEF Before
<1>5. g.actingIndex + 1 \in DOMAIN g.seats
  BY <1>1, SeatsAre DEF Table, TurnHeld
<1>6. ~At(h, h.actingIndex).actedThisRound
  BY <1>1, <1>2, <1>3, <1>5 DEF Led, At
<1>7. \A k, m \in Betting(h) :
        h.seats[k].actedThisRound /\ ~h.seats[m].actedThisRound => Before(h, m, k)
  <2>1. \A k, m \in Betting(g) :
          g.seats[k].actedThisRound /\ ~g.seats[m].actedThisRound => Before(g, m, k)
    BY <1>1, <1>3 DEF Led
  <2>2. Betting(g) \subseteq DOMAIN g.seats
    BY DEF Betting
  <2> QED BY <1>2, <1>3, <1>4, <2>1, <2>2
<1>8. h.lastBet = 0 \/ \E l : Leads(h, l)
  <2>1. g.lastBet = 0 \/ \E l : Leads(g, l)
    BY <1>1, <1>3 DEF Led
  <2>2. ASSUME NEW l, Leads(g, l) PROVE Leads(h, l)
    <3>1. \A k \in InPlay(g) : k \in DOMAIN g.seats /\ g.seats[k].inHand
      BY DEF InPlay
    <3>2. Unopened(g, l) => Unopened(h, l)
      BY <1>1, <1>2, <1>3, <1>4, <3>1 DEF Unopened
    <3> QED BY <1>1, <1>2, <1>3, <2>2, <3>1, <3>2 DEF Leads
  <2> QED BY <1>1, <2>1, <2>2
<1>9. \E k, l \in InPlay(h) : k # l
  BY <1>1, <1>3 DEF Led
<1> QED BY <1>6, <1>7, <1>8, <1>9 DEF Led

\* Every call keeps a leader.
LEMMA LedKept ==
  ASSUME IInv, Ordered(game), TurnHeld(game), TurnHeld(game'), BetsHeld(game), Led(game),
         [Next]_vars, "SitDown" \notin DuringHand
  PROVE  Led(game')
<1> DEFINE g == game
           h == game'
<1>1. g \in Table /\ h \in Table
  <2>1. IInv'
    BY NextKeeps
  <2> QED BY <2>1, TableTypes DEF IInv, SoundTable, IdleTable, HandTable
<1>2. \/ Edited(g, h) \/ (g.stage = "Waiting" /\ Joined(g, h))
      \/ Left(g, h) \/ Started(g, h) \/ Turned(g, h)
  BY StepKinds DEF Made, InHand
<1>3. TurnHeld(g) /\ TurnHeld(h) /\ BetsHeld(g) /\ Led(g) /\ InOrder(g.seats)
  BY DEF Ordered
<1> HIDE DEF g, h
<1> SUFFICES Led(h)
  BY DEF h
<1>4. CASE Edited(g, h)
  BY <1>1, <1>3, <1>4, EditedLed
<1>5. CASE g.stage = "Waiting" /\ Joined(g, h)
  BY <1>5 DEF Joined, SameRound, Led
<1>6. CASE Left(g, h)
  BY <1>1, <1>3, <1>6, LeftLed
<1>7. CASE Started(g, h)
  <2>1. h.smallBlind < h.bigBlind
    BY <1>3, <1>7 DEF Started, HandTable, TurnHeld
  <2> QED BY <1>1, <1>7, <2>1, StartedLed
<1>8. CASE Turned(g, h)
  BY <1>3, <1>8, TurnedLed
<1> QED BY <1>2, <1>4, <1>5, <1>6, <1>7, <1>8

\* When nobody sits down during a hand and small blinds are below big blinds, a seat
\* that contends for the pots has the highest bet as long as nobody who was dealt in
\* leaves: no order of folds, calls and short all-ins leaves it to a seat that has
\* folded, whose chips nobody could win.  The turn is needed to see it: before the
\* first raise the big blind has the highest bet and may still fold, but it is the
\* last to act, and alone by then if all others have folded.
THEOREM BetsStayLed ==
  ASSUME "SitDown" \notin DuringHand, \A b \in Blinds : b[1] < b[2]
  PROVE  Spec => [](TurnHeld(game) /\ BetsHeld(game) /\ Led(game))
<1>1. Init => TurnHeld(game) /\ BetsHeld(game) /\ Led(game)
  BY DEF Init, TurnHeld, BetsHeld, Led, AreBlindsSet
<1>2. \A b \in Blinds : b[1] <= b[2]
  <2>1. \A b \in Blinds : b[1] \in Int /\ b[2] \in Int
    BY GameAssumption
  <2> QED BY <2>1
<1>3. ASSUME IInv, Ordered(game), TurnHeld(game), BetsHeld(game), Led(game), [Next]_vars
      PROVE  TurnHeld(game') /\ BetsHeld(game') /\ Led(game')
  <2>1. TurnHeld(game') /\ BetsHeld(game')
    BY <1>2, <1>3, TurnHeldKept, BetsHeldKept
  <2> QED BY <1>3, <2>1, LedKept
<1>4. IInv /\ Ordered(game) /\ TurnHeld(game) /\ BetsHeld(game) /\ Led(game) /\ [Next]_vars
        => (TurnHeld(game) /\ BetsHeld(game) /\ Led(game))'
  BY <1>3
<1> QED BY <1>1, <1>4, Inductive, OrderedInductive, PTL DEF Spec

-----------------------------------------------------------------------------
(* Side pots.                                                               *)

\* A player dealt in.
InTheHand(g, p) == \E i \in DOMAIN g.seats : g.seats[i].playerId = p /\ g.seats[i].inHand

\* A pot holds chips, and whoever it names is dealt in.
OwnedPot(g, pot) ==
  /\ pot.amount > 0 /\ pot.eligible # {}
  /\ \A p \in pot.eligible : InTheHand(g, p)

PotsOwned(g) == \A k \in DOMAIN g.sidePots : OwnedPot(g, g.sidePots[k])

\* A bet above a level adds to the layer on it.
LEMMA SharePositive ==
  ASSUME NEW bet \in Nat, NEW below \in Nat, NEW level \in Nat, bet > below, level > below
  PROVE  Share(bet, below, level) > 0
<1> DEFINE d == (IF bet <= level THEN bet ELSE level) - below
<1>1. d \in Int /\ d > 0
  OBVIOUS
<1>2. Share(bet, below, level) = Max({0, d})
  BY MinOfTwo DEF Share
<1> HIDE DEF d
<1> QED BY <1>1, <1>2, MaxOfTwo

\* A layer that names somebody holds the chips that somebody put in above the level
\* below.
LEMMA LayerOwned ==
  ASSUME NEW g, g.seats \in Seq(Seat), NEW below \in Nat, NEW level \in Nat,
         below < level, Layer(g, below, level).eligible # {}
  PROVE  OwnedPot(g, Layer(g, below, level))
<1> DEFINE f == [i \in DOMAIN g.seats |->
                   IF i \in Contributors(g)
                   THEN Share(g.seats[i].currentBet, below, level) ELSE 0]
           e == {g.seats[i].playerId : i \in
                  {j \in Contributors(g) :
                     g.seats[j].currentBet > below /\ ~g.seats[j].folded}}
<1>1. /\ Len(g.seats) \in Nat /\ DOMAIN g.seats = 1..Len(g.seats)
      /\ \A i \in DOMAIN g.seats : g.seats[i].currentBet \in Nat
  <2>1. \A i \in DOMAIN g.seats : g.seats[i] \in Seat
    BY SeatsAre
  <2> QED BY <2>1, SeatsAre DEF Seat
<1>2. f \in [1..Len(g.seats) -> Nat]
  <2>1. \A i \in DOMAIN g.seats : Share(g.seats[i].currentBet, below, level) \in Nat
    BY <1>1, ShareType
  <2> QED BY <1>1, <2>1
<1>3. Layer(g, below, level).amount = SumSeq(f) /\ Layer(g, below, level).eligible = e
  BY DEF Layer
<1>4. PICK i \in Contributors(g) : g.seats[i].currentBet > below
  BY <1>3
<1>5. i \in 1..Len(g.seats) /\ f[i] > 0
  <2>1. i \in 1..Len(g.seats) /\ g.seats[i].currentBet \in Nat
    BY <1>1, <1>4 DEF Contributors
  <2>2. f[i] = Share(g.seats[i].currentBet, below, level)
    BY <1>1, <1>4, <2>1
  <2> QED BY <1>4, <2>1, <2>2, SharePositive
<1>6. \A p \in e : InTheHand(g, p)
  BY DEF Contributors, InTheHand
<1> HIDE DEF f, e
<1>7. f \in Seq(Nat) /\ Len(f) = Len(g.seats)
  BY <1>1, <1>2, SeqIntro
<1>8. SumSeq(f) > 0
  <2>1. f[i] <= SumSeq(f) /\ SumSeq(f) \in Nat /\ f[i] \in Nat
    BY <1>2, <1>5, <1>7, SumSeqBounds, SumSeqType
  <2> QED BY <1>5, <2>1
<1> QED BY <1>3, <1>6, <1>8 DEF OwnedPot

\* Every pass of the loop adds an owned pot or none.
LEMMA LayersOwned ==
  ASSUME NEW g \in Table, PotsOwned(g)
  PROVE  \A k \in DOMAIN Layers(g) : OwnedPot(g, Layers(g)[k])
<1> DEFINE S == {acc \in LoopState : \A k \in DOMAIN acc.pots : OwnedPot(g, acc.pots[k])}
<1>1. g.seats \in Seq(Seat) /\ g.sidePots \in Seq(Pot)
  BY DEF Table
<1>2. [level |-> 0, pots |-> g.sidePots] \in S
  BY <1>1 DEF LoopState, PotsOwned
<1>3. ASSUME NEW acc \in S PROVE AddLayer(g, acc) \in S
  <2> DEFINE higher == {l \in BetLevels(g) : l > acc.level}
             level == Min(higher)
             pot == Layer(g, acc.level, level)
             next == AddLayer(g, acc)
  <2>1. acc \in LoopState /\ acc.level \in Nat /\ acc.pots \in Seq(Pot)
    BY DEF LoopState
  <2>2. next \in LoopState
    BY <1>1, <2>1, AddLayerType
  <2>3. \/ next.pots = acc.pots
        \/ higher # {} /\ pot.eligible # {} /\ next.pots = Append(acc.pots, pot)
    BY DEF AddLayer
  <2>4. ASSUME higher # {}, pot.eligible # {} PROVE OwnedPot(g, pot)
    <3>1. higher \in SUBSET Nat
      BY <1>1, BetLevelsType
    <3>2. level \in higher
      <4> HIDE DEF higher
      <4> QED BY <2>4, <3>1, MinOfNats
    <3>3. level \in Nat /\ acc.level < level
      BY <3>1, <3>2
    <3> HIDE DEF level
    <3> QED BY <1>1, <2>1, <2>4, <3>3, LayerOwned
  <2>5. \A k \in DOMAIN next.pots : OwnedPot(g, next.pots[k])
    <3> HIDE DEF higher, pot, next
    <3>1. CASE next.pots = acc.pots
      BY <3>1
    <3>2. CASE higher # {} /\ pot.eligible # {} /\ next.pots = Append(acc.pots, pot)
      <4>1. DOMAIN acc.pots = 1..Len(acc.pots) /\ Len(acc.pots) \in Nat
        BY <2>1, LenProperties
      <4>2. /\ DOMAIN Append(acc.pots, pot) = 1..Len(acc.pots) + 1
            /\ Append(acc.pots, pot)[Len(acc.pots) + 1] = pot
            /\ \A k \in 1..Len(acc.pots) : Append(acc.pots, pot)[k] = acc.pots[k]
        <5>1. acc.pots \in Seq(Pot \cup {pot})
          BY <2>1
        <5> QED BY <5>1, AppendProperties
      <4> QED BY <2>4, <3>2, <4>1, <4>2
    <3> QED BY <2>3, <3>1, <3>2
  <2> HIDE DEF next
  <2> QED BY <2>2, <2>5 DEF next
<1>4. \E acc \in S : Layers(g) = acc.pots
  <2> HIDE DEF S
  <2> QED BY <1>2, <1>3, LayersKeep
<1> QED BY <1>4

\* A table at which the same pots are left to the same seats.
LEMMA OwnersStay ==
  ASSUME NEW g, NEW h, PotsOwned(g), h.sidePots = g.sidePots,
         \A p : InTheHand(g, p) => InTheHand(h, p)
  PROVE  PotsOwned(h)
BY DEF PotsOwned, OwnedPot

\* Seats that stay in the hand keep its players in it.
LEMMA SameHandsSamePlayers ==
  ASSUME NEW g, NEW h, SameHands(g, h)
  PROVE  \A p : InTheHand(g, p) => InTheHand(h, p)
BY DEF SameHands, SamePlaces, SameHand, SamePlace, InTheHand

\* A turn adds owned pots or, at the hand's end, leaves none.
LEMMA TurnedPots ==
  ASSUME NEW g, NEW h, Turned(g, h), PotsOwned(g)
  PROVE  PotsOwned(h)
<1> DEFINE a == Aimed(g)
<1>1. /\ g \in HandTable /\ a \in HandTable /\ a.stage \in Streets
      /\ SameHands(g, a) /\ a.sidePots = g.sidePots
  BY AimedIs DEF Turned, SameRound, SameHands, SamePlaces, SameHand, SamePlace
<1>2. PotsOwned(a)
  BY <1>1, OwnersStay, SameHandsSamePlayers
<1>3. \/ h = a
      \/ \E t, pay : Acted(a, t, a.actingIndex + 1, pay) /\ h \in Outcomes(PlayOn(t))
  BY DEF Turned
<1> HIDE DEF a
<1>4. CASE \E t, pay : Acted(a, t, a.actingIndex + 1, pay) /\ h \in Outcomes(PlayOn(t))
  <2>1. PICK t, pay : Acted(a, t, a.actingIndex + 1, pay) /\ h \in Outcomes(PlayOn(t))
    BY <1>4
  <2>2. t \in HandTable /\ t \in Table /\ t.stage \in Streets /\ PotsOwned(t)
    <3>1. t \in HandTable /\ t.stage \in Streets /\ SameHands(a, t) /\ t.sidePots = a.sidePots
      BY <1>1, <2>1 DEF Acted
    <3> QED BY <1>2, <3>1, OwnersStay, SameHandsSamePlayers DEF HandTable
  <2>3. CASE Ended(t, h)
    <3>1. h.sidePots = <<>>
      BY <2>3 DEF Ended
    <3> QED BY <3>1 DEF PotsOwned
  <2>4. CASE \E k \in Positions(t) : Live(At(t, k)) /\ h = [t EXCEPT !.actingIndex = k]
    <3>1. PICK k \in Positions(t) : h = [t EXCEPT !.actingIndex = k]
      BY <2>4
    <3>2. h.seats = t.seats /\ h.sidePots = t.sidePots
      BY <2>2, <3>1 DEF Table
    <3> QED BY <2>2, <3>2, OwnersStay DEF InTheHand
  <2>5. CASE /\ t.stage \in {"PreFlop", "Flop", "Turn"}
             /\ \E i \in DOMAIN t.seats : Live(t.seats[i])
             /\ h = NewStreet(CollectBetsToSidePots(t))
    <3> DEFINE c == CollectBetsToSidePots(t)
    <3>1. SameHands(t, h) /\ h.sidePots = c.sidePots
      BY <2>2, <2>5, StreetIs
    <3>2. c = t \/ c.sidePots = Layers(t)
      BY <2>2, CollectIs
    <3>3. \A k \in DOMAIN h.sidePots : OwnedPot(t, h.sidePots[k])
      BY <2>2, <3>1, <3>2, LayersOwned DEF PotsOwned
    <3>4. \A p : InTheHand(t, p) => InTheHand(h, p)
      BY <3>1, SameHandsSamePlayers
    <3> QED BY <3>3, <3>4 DEF PotsOwned, OwnedPot
  <2> QED BY <2>1, <2>2, <2>3, <2>4, <2>5, PlayedOn DEF GoesOn
<1> QED BY <1>2, <1>3, <1>4

\* Neither a newcomer nor a removal takes a pot's owners away.
LEMMA PotsOwnedKept ==
  ASSUME IInv, Ordered(game), PotsOwned(game), [Next]_vars
  PROVE  PotsOwned(game')
<1> DEFINE g == game
           h == game'
<1>1. /\ g \in Table /\ h \in Table
      /\ Len(g.seats) \in Nat /\ Len(h.seats) \in Nat
      /\ DOMAIN g.seats = 1..Len(g.seats) /\ DOMAIN h.seats = 1..Len(h.seats)
  <2>1. g \in Table
    BY TableTypes
  <2>2. h \in Table
    <3>1. IInv'
      BY NextKeeps
    <3> QED BY <3>1 DEF IInv, SoundTable, IdleTable, HandTable
  <2> QED BY <2>1, <2>2, BetTypes
<1>2. \/ Edited(g, h) \/ Joined(g, h) \/ Left(g, h) \/ Started(g, h) \/ Turned(g, h)
  BY StepKinds
<1>3. PotsOwned(g)
  OBVIOUS
<1> HIDE DEF g, h
<1> SUFFICES PotsOwned(h)
  BY DEF h
<1>4. CASE Edited(g, h)
  BY <1>3, <1>4, OwnersStay, SameHandsSamePlayers DEF Edited, SameRound
<1>5. CASE Joined(g, h)
  <2>1. PICK s, k : Inserted(g.seats, s, k, h.seats)
    BY <1>5 DEF Joined
  <2>2. ASSUME NEW p, InTheHand(g, p) PROVE InTheHand(h, p)
    <3>1. PICK i \in DOMAIN g.seats : g.seats[i].playerId = p /\ g.seats[i].inHand
      BY <2>2 DEF InTheHand
    <3> DEFINE j == IF i <= k THEN i ELSE i + 1
    <3>2. i \in 1..Len(g.seats) /\ Len(g.seats) \in Nat
      BY <1>1
    <3>3. j \in 1..Len(h.seats) /\ h.seats[j] = g.seats[i]
      BY <2>1, <3>2, InsertedTo
    <3> QED BY <1>1, <3>1, <3>3 DEF InTheHand
  <2>3. h.sidePots = g.sidePots
    BY <1>5 DEF Joined, SameRound
  <2> QED BY <1>3, <2>2, <2>3, OwnersStay
<1>6. CASE Left(g, h)
  <2>1. PICK place : Kept(g.seats, place, h.seats)
    BY <1>6 DEF Left
  <2>2. \A i \in DOMAIN g.seats : g.seats[i].inHand =>
          \E j \in DOMAIN h.seats : h.seats[j] = g.seats[i]
    BY <1>1, <2>1 DEF Kept, Leaves
  <2>3. h.sidePots = g.sidePots
    BY <1>6 DEF Left, SameRound
  <2> QED BY <1>3, <2>2, <2>3, OwnersStay DEF InTheHand
<1>7. CASE Started(g, h)
  <2>1. h.sidePots = <<>>
    BY <1>7 DEF Started
  <2> QED BY <2>1 DEF PotsOwned
<1>8. CASE Turned(g, h)
  BY <1>3, <1>8, TurnedPots
<1> QED BY <1>2, <1>4, <1>5, <1>6, <1>7, <1>8

\* No seat of a player in the hand is another player's: GetSeatByPlayerId finds it.
LEMMA FoundInTheHand ==
  ASSUME IInv, Ordered(game), NEW p, InTheHand(game, p)
  PROVE  p \in Seated /\ SeatOf(p).inHand
<1>1. game.seats \in Seq(Seat)
  BY TableTypes
<1>2. PICK i \in DOMAIN game.seats : game.seats[i].playerId = p /\ game.seats[i].inHand
  BY DEF InTheHand
<1>3. p \in Seated
  BY <1>2 DEF Seated, ToSet
<1>4. PositionOf(p) \in DOMAIN game.seats /\ game.seats[PositionOf(p)].playerId = p
  BY <1>3, SeatOfSeated
<1>5. PositionOf(p) = i
  <2>1. DOMAIN game.seats = 1..Len(game.seats) /\ Len(game.seats) \in Nat
    BY <1>1, LenProperties
  <2> DEFINE k == PositionOf(p)
  <2> HIDE DEF k
  <2>2. k \in DOMAIN game.seats /\ game.seats[k].playerId = p
    BY <1>4 DEF k
  <2>3. ~(k < i) /\ ~(i < k)
    BY <1>2, <2>2 DEF Ordered, InOrder
  <2>4. k = i
    BY <1>2, <2>1, <2>2, <2>3
  <2> QED BY <2>4 DEF k
<1> QED BY <1>2, <1>3, <1>5 DEF SeatOf

\* DistributePots finds the players of every pot, and in the hand: no pot is made
\* without chips or without an owner, and no call takes its owners away.
THEOREM PotsKeepTheirOwners == Spec => []PotsAreOwned
<1>1. Init => PotsOwned(game)
  BY DEF Init, PotsOwned
<1>2. IInv /\ Ordered(game) /\ PotsOwned(game) /\ [Next]_vars => PotsOwned(game)'
  BY PotsOwnedKept
<1>3. IInv /\ Ordered(game) /\ PotsOwned(game) => PotsAreOwned
  BY FoundInTheHand DEF PotsOwned, OwnedPot, PotsAreOwned, ToSet
<1> QED BY <1>1, <1>2, <1>3, Inductive, OrderedInductive, PTL DEF Spec

-----------------------------------------------------------------------------
(* The board and the deck.                                                  *)

\* Two sets matched one to one are as large as each other.
LEMMA SameCount ==
  ASSUME NEW S, IsFiniteSet(S), NEW T, NEW f \in [S -> T],
         \A x, y \in S : f[x] = f[y] => x = y,
         \A y \in T : \E x \in S : f[x] = y
  PROVE  Cardinality(T) = Cardinality(S)
<1>1. f \in Surjection(S, T)
  BY DEF Surjection
<1>2. f \in Injection(S, T)
  BY DEF Injection, IsInjective
<1> QED BY <1>1, <1>2, FS_Surjection

\* There are no more seats than seat numbers: the i-th has at least the number i - 1.
LEMMA SeatsFit ==
  ASSUME NEW q \in Seq(Seat), InOrder(q)
  PROVE  Len(q) <= MaxSeats
<1>1. /\ Len(q) \in Nat /\ DOMAIN q = 1..Len(q) /\ MaxSeats \in Nat
      /\ \A i \in 1..Len(q) : q[i].seatIndex \in 0..MaxSeats - 1
  <2>1. /\ Len(q) \in Nat /\ DOMAIN q = 1..Len(q)
        /\ \A i \in 1..Len(q) : q[i] \in Seat
    BY SeatsAre
  <2>2. \A s \in Seat : s.seatIndex \in 0..MaxSeats - 1
    BY DEF Seat
  <2> QED BY <2>1, <2>2, TableAssumption
<1> DEFINE N == Len(q)
           P == {n \in 0..N : n = 0 \/ q[n].seatIndex >= n - 1}
<1> HIDE DEF N
<1>2. 0 \in P
  BY <1>1 DEF N
<1>3. ASSUME NEW n \in 1..N, n - 1 \in P PROVE n \in P
  <2>1. n \in Nat /\ n \in 0..N /\ N \in Nat /\ q[n].seatIndex \in Nat
    BY <1>1 DEF N
  <2>2. CASE n = 1
    BY <2>1, <2>2
  <2>3. CASE n # 1
    <3> DEFINE m == n - 1
    <3>1. m \in 1..N /\ m # 0 /\ m < n /\ m + 1 = n /\ m \in P
      BY <1>3, <2>1, <2>3
    <3> HIDE DEF m
    <3>2. q[m].seatIndex < q[n].seatIndex /\ q[m].seatIndex >= m - 1
      <4>1. m \in DOMAIN q /\ n \in DOMAIN q
        BY <1>1, <3>1 DEF N
      <4> QED BY <3>1, <4>1 DEF InOrder
    <3>3. q[m].seatIndex \in Nat
      BY <1>1, <3>1 DEF N
    <3> QED BY <2>1, <3>1, <3>2, <3>3
  <2> QED BY <2>2, <2>3
<1>4. N \in P
  <2>1. \A n \in 1..N : n - 1 \in P => n \in P
    BY <1>3
  <2> HIDE DEF P
  <2>2. N \in Nat
    BY <1>1 DEF N
  <2>3. \A n \in 0..N : n \in P
    BY <1>2, <2>1, <2>2, IntervalInduction
  <2> QED BY <2>2, <2>3
<1>5. CASE N = 0
  BY <1>1, <1>5 DEF N
<1>6. CASE N # 0
  <2>1. N \in 1..Len(q) /\ q[N].seatIndex >= N - 1
    BY <1>1, <1>4, <1>6 DEF N
  <2>2. q[N].seatIndex \in 0..MaxSeats - 1
    BY <1>1, <2>1
  <2> QED BY <1>1, <2>1, <2>2 DEF N
<1> QED BY <1>5, <1>6

\* Nor more seats dealt in.
LEMMA DealtFit ==
  ASSUME NEW g \in Table, InOrder(g.seats)
  PROVE  /\ IsFiniteSet(DealtSeats(g))
         /\ Cardinality(DealtSeats(g)) \in 0..MaxSeats
<1>1. /\ Len(g.seats) \in Nat /\ Len(g.seats) <= MaxSeats /\ MaxSeats \in Nat
      /\ DOMAIN g.seats = 1..Len(g.seats)
  BY SeatsFit, SeatsAre, TableAssumption DEF Table
<1>2. DealtSeats(g) \in SUBSET (1..Len(g.seats))
  BY <1>1 DEF DealtSeats
<1>3. /\ IsFiniteSet(DealtSeats(g))
      /\ Cardinality(DealtSeats(g)) <= Len(g.seats)
  BY <1>1, <1>2, PositionsUpTo, FS_Subset
<1>4. Cardinality(DealtSeats(g)) \in Nat
  BY <1>3, FS_CardinalityType
<1> QED BY <1>1, <1>3, <1>4

\* A newcomer moves the seats dealt in along the vector and adds none.
LEMMA JoinedDealt ==
  ASSUME NEW g \in Table, NEW h \in Table, InOrder(g.seats), Joined(g, h)
  PROVE  Cardinality(DealtSeats(h)) = Cardinality(DealtSeats(g))
<1>1. /\ Len(g.seats) \in Nat /\ DOMAIN g.seats = 1..Len(g.seats)
      /\ Len(h.seats) \in Nat /\ DOMAIN h.seats = 1..Len(h.seats)
  BY SeatsAre DEF Table
<1>2. PICK s, k : s \in IdleSeat /\ Inserted(g.seats, s, k, h.seats)
  BY DEF Joined
<1>3. k \in 0..Len(g.seats) /\ ~s.inHand
  BY <1>2 DEF Inserted, IdleSeat
<1> DEFINE S == DealtSeats(g)
           T == DealtSeats(h)
           f == [i \in S |-> IF i <= k THEN i ELSE i + 1]
<1>4. S \subseteq 1..Len(g.seats) /\ IsFiniteSet(S)
  BY <1>1, DealtFit DEF DealtSeats
<1>5. ASSUME NEW i \in S PROVE f[i] \in T
  <2> DEFINE j == IF i <= k THEN i ELSE i + 1
  <2>1. i \in 1..Len(g.seats) /\ g.seats[i].inHand
    BY <1>4 DEF DealtSeats
  <2>2. j \in 1..Len(h.seats) /\ h.seats[j] = g.seats[i]
    BY <1>1, <1>2, <2>1, InsertedTo
  <2>3. f[i] = j
    OBVIOUS
  <2> HIDE DEF j, f
  <2> QED BY <1>1, <2>1, <2>2, <2>3 DEF DealtSeats
<1>6. \A x, y \in S : f[x] = f[y] => x = y
  BY <1>1, <1>3, <1>4
<1>7. ASSUME NEW j \in T PROVE \E i \in S : f[i] = j
  <2>1. j \in 1..Len(h.seats) /\ h.seats[j].inHand
    BY <1>1 DEF DealtSeats
  <2>2. \/ j <= k /\ j \in 1..Len(g.seats) /\ h.seats[j] = g.seats[j]
        \/ j = k + 1 /\ h.seats[j] = s
        \/ j > k + 1 /\ j - 1 \in 1..Len(g.seats) /\ h.seats[j] = g.seats[j - 1]
    BY <1>1, <1>2, <2>1, InsertedFrom
  <2>3. CASE j <= k /\ j \in 1..Len(g.seats) /\ h.seats[j] = g.seats[j]
    <3>1. j \in S
      BY <1>1, <2>1, <2>3 DEF DealtSeats
    <3> QED BY <2>3, <3>1
  <2>4. CASE j > k + 1 /\ j - 1 \in 1..Len(g.seats) /\ h.seats[j] = g.seats[j - 1]
    <3> DEFINE i == j - 1
    <3>1. i \in Int /\ ~(i <= k) /\ i + 1 = j
      BY <1>3, <2>1, <2>4
    <3>2. i \in 1..Len(g.seats) /\ h.seats[j] = g.seats[i]
      BY <2>4
    <3> HIDE DEF i
    <3>3. i \in S
      BY <1>1, <2>1, <3>2 DEF DealtSeats
    <3> QED BY <3>1, <3>3
  <2> QED BY <1>3, <2>1, <2>2, <2>3, <2>4
<1>8. f \in [S -> T]
  BY <1>5
<1> HIDE DEF S, T, f
<1>9. Cardinality(T) = Cardinality(S)
  BY <1>4, <1>6, <1>7, <1>8, SameCount
<1> QED BY <1>9 DEF S, T

\* A removal takes none away.
LEMMA LeftDealt ==
  ASSUME NEW g \in Table, NEW h \in Table, InOrder(h.seats), Left(g, h)
  PROVE  Cardinality(DealtSeats(h)) = Cardinality(DealtSeats(g))
<1>1. /\ Len(g.seats) \in Nat /\ DOMAIN g.seats = 1..Len(g.seats)
      /\ Len(h.seats) \in Nat /\ DOMAIN h.seats = 1..Len(h.seats)
  BY SeatsAre DEF Table
<1>2. PICK place : Kept(g.seats, place, h.seats)
  BY DEF Left
<1> DEFINE S == DealtSeats(h)
           T == DealtSeats(g)
           f == [j \in S |-> place[j]]
<1>3. S \subseteq 1..Len(h.seats) /\ IsFiniteSet(S)
  BY <1>1, DealtFit DEF DealtSeats
<1>4. ASSUME NEW j \in S PROVE f[j] \in T
  BY <1>1, <1>2, <1>3 DEF Kept, DealtSeats
<1>5. \A x, y \in S : f[x] = f[y] => x = y
  <2> SUFFICES ASSUME NEW x \in S, NEW y \in S, place[x] = place[y] PROVE x = y
    OBVIOUS
  <2>1. x \in 1..Len(h.seats) /\ y \in 1..Len(h.seats)
    BY <1>3
  <2>2. place[x] \in Nat /\ place[y] \in Nat
    BY <1>2, <2>1 DEF Kept
  <2>3. ~(x < y) /\ ~(y < x)
    BY <1>2, <2>1, <2>2 DEF Kept
  <2> HIDE DEF S
  <2> QED BY <2>1, <2>3
<1>6. ASSUME NEW i \in T PROVE \E j \in S : f[j] = i
  <2>1. i \in 1..Len(g.seats) /\ g.seats[i].inHand /\ ~Leaves(g.seats[i])
    BY <1>1 DEF DealtSeats, Leaves
  <2>2. PICK j \in 1..Len(h.seats) : place[j] = i
    BY <1>2, <2>1 DEF Kept
  <2>3. h.seats[j] = g.seats[i]
    BY <1>2, <2>2 DEF Kept
  <2>4. j \in S
    BY <1>1, <2>1, <2>3 DEF DealtSeats
  <2> QED BY <2>2, <2>4
<1>7. f \in [S -> T]
  BY <1>4
<1> HIDE DEF S, T, f
<1>8. Cardinality(T) = Cardinality(S)
  BY <1>3, <1>5, <1>6, <1>7, SameCount
<1> QED BY <1>8 DEF S, T

\* What BoardMatchesStage says of any table.
BoardHeld(g) ==
  g.stage # "Waiting" =>
    /\ g.stage \in Streets
    /\ g.community = CASE g.stage = "PreFlop" -> 0
                       [] g.stage = "Flop"  -> 3
                       [] g.stage = "Turn"  -> 4
                       [] OTHER -> 5
    /\ g.deck + g.community + 2 * Cardinality(DealtSeats(g)) = DeckSize

\* The same stage, board and deck with as many seats dealt in.
LEMMA SameBoard ==
  ASSUME NEW g, NEW h, BoardHeld(g), h.stage = g.stage, h.community = g.community,
         h.deck = g.deck, Cardinality(DealtSeats(h)) = Cardinality(DealtSeats(g))
  PROVE  BoardHeld(h)
BY DEF BoardHeld

\* The same hands were dealt to the same seats.
LEMMA SameHandsDealt ==
  ASSUME NEW g, NEW h, SameHands(g, h)
  PROVE  DealtSeats(h) = DealtSeats(g)
BY DEF SameHands, SamePlaces, SameHand, DealtSeats

\* A full deck has the cards for the board when every seat was dealt in.
LEMMA StartedBoard ==
  ASSUME NEW g, NEW h, Started(g, h), h \in Table, InOrder(h.seats),
         DeckSize >= 2 * MaxSeats + 5
  PROVE  BoardHeld(h)
<1> DEFINE n == Cardinality(DealtSeats(h))
           left == DeckSize - 2 * n
<1>1. /\ h.stage = "PreFlop" /\ h.community = 0 /\ h.deck = Max({0, left})
  BY DEF Started
<1>2. n \in Nat /\ n <= MaxSeats /\ MaxSeats \in Nat /\ DeckSize \in Nat
  <2>1. n \in 0..MaxSeats /\ MaxSeats \in Nat
    BY DealtFit, TableAssumption
  <2> HIDE DEF n
  <2> QED BY <2>1, TableAssumption
<1>3. BoardHeld(h) <=> h.deck + 0 + 2 * n = DeckSize
  BY <1>1 DEF BoardHeld, Streets
<1> HIDE DEF n
<1>4. left \in Int /\ left >= 0 /\ left + 0 + 2 * n = DeckSize
  BY <1>2
<1> HIDE DEF left
<1>5. h.deck = left
  BY <1>1, <1>4, MaxOfTwo
<1> QED BY <1>3, <1>4, <1>5

\* The next street shows one more card, or three, and takes them from the deck.
LEMMA StreetBoard ==
  ASSUME NEW t \in HandTable, t.stage \in {"PreFlop", "Flop", "Turn"},
         \E i \in DOMAIN t.seats : Live(t.seats[i]), InOrder(t.seats), BoardHeld(t),
         DeckSize >= 2 * MaxSeats + 5
  PROVE  BoardHeld(NewStreet(CollectBetsToSidePots(t)))
<1> DEFINE h == NewStreet(CollectBetsToSidePots(t))
           n == Cardinality(DealtSeats(t))
           drawn == CardsDealt[t.stage]
           left == t.deck - drawn
<1>1. /\ SameHands(t, h) /\ h.stage = NextStreet[t.stage]
      /\ h.community = t.community + drawn /\ h.deck = Max({0, left})
  BY StreetIs
<1>2. n \in Nat /\ n <= MaxSeats /\ MaxSeats \in Nat /\ DeckSize \in Nat /\ t.deck \in Nat
  <2>1. t \in Table
    BY DEF HandTable
  <2>2. n \in 0..MaxSeats /\ MaxSeats \in Nat /\ DeckSize \in Nat /\ t.deck \in Nat
    BY <2>1, DealtFit, TableAssumption DEF Table
  <2> HIDE DEF n
  <2> QED BY <2>2
<1>3. Cardinality(DealtSeats(h)) = n
  BY <1>1, SameHandsDealt
<1>4. \/ /\ t.stage = "PreFlop" /\ h.stage = "Flop" /\ drawn = 3 /\ t.community = 0
      \/ /\ t.stage = "Flop" /\ h.stage = "Turn" /\ drawn = 1 /\ t.community = 3
      \/ /\ t.stage = "Turn" /\ h.stage = "River" /\ drawn = 1 /\ t.community = 4
  BY <1>1 DEF BoardHeld, NextStreet, CardsDealt
<1>5. t.deck + t.community + 2 * n = DeckSize
  BY <1>4 DEF BoardHeld
<1> HIDE DEF h, n, drawn
<1>6. /\ drawn \in Nat /\ t.community \in Nat /\ t.community + drawn <= 5
  BY <1>4
<1>7. left \in Int /\ left >= 0 /\ left + (t.community + drawn) + 2 * n = DeckSize
  BY <1>2, <1>5, <1>6
<1> HIDE DEF left
<1>8. h.deck = left
  <2>1. h.deck = Max({0, left})
    BY <1>1
  <2> QED BY <1>7, <2>1, MaxOfTwo
<1>9. h.deck + h.community + 2 * Cardinality(DealtSeats(h)) = DeckSize
  BY <1>1, <1>3, <1>7, <1>8
<1>10. /\ h.stage \in Streets
       /\ h.community = CASE h.stage = "PreFlop" -> 0
                          [] h.stage = "Flop"  -> 3
                          [] h.stage = "Turn"  -> 4
                          [] OTHER -> 5
  BY <1>1, <1>4 DEF Streets
<1> QED BY <1>9, <1>10 DEF BoardHeld, h

\* A turn leaves the board, turns the next cards or ends the hand.
LEMMA TurnedBoard ==
  ASSUME NEW g, NEW h, Turned(g, h), InOrder(g.seats), BoardHeld(g),
         DeckSize >= 2 * MaxSeats + 5
  PROVE  BoardHeld(h)
<1> DEFINE a == Aimed(g)
<1>1. /\ g \in HandTable /\ a \in HandTable /\ a.stage \in Streets
      /\ a.seats = g.seats /\ SameRound(g, a)
  BY AimedIs DEF Turned, SameRound
<1>2. BoardHeld(a)
  BY <1>1, SameBoard DEF SameRound, DealtSeats
<1>3. \/ h = a
      \/ \E t, pay : Acted(a, t, a.actingIndex + 1, pay) /\ h \in Outcomes(PlayOn(t))
  BY DEF Turned
<1> HIDE DEF a
<1>4. CASE \E t, pay : Acted(a, t, a.actingIndex + 1, pay) /\ h \in Outcomes(PlayOn(t))
  <2>1. PICK t, pay : Acted(a, t, a.actingIndex + 1, pay) /\ h \in Outcomes(PlayOn(t))
    BY <1>4
  <2>2. /\ t \in HandTable /\ t.stage \in Streets /\ SameHands(a, t)
        /\ t.stage = a.stage /\ t.community = a.community /\ t.deck = a.deck
    BY <1>1, <2>1 DEF Acted
  <2>3. BoardHeld(t)
    BY <1>2, <2>2, SameBoard, SameHandsDealt
  <2>4. InOrder(t.seats)
    BY <1>1, <2>2, SamePlacesOrdered DEF SameHands, SamePlaces
  <2>5. CASE Ended(t, h)
    BY <2>5 DEF Ended, BoardHeld
  <2>6. CASE \E k \in Positions(t) : Live(At(t, k)) /\ h = [t EXCEPT !.actingIndex = k]
    <3>1. PICK k \in Positions(t) : h = [t EXCEPT !.actingIndex = k]
      BY <2>6
    <3>2. /\ h.seats = t.seats /\ h.stage = t.stage
          /\ h.community = t.community /\ h.deck = t.deck
      BY <2>2, <3>1 DEF HandTable, Table
    <3> QED BY <2>3, <3>2, SameBoard DEF DealtSeats
  <2>7. CASE /\ t.stage \in {"PreFlop", "Flop", "Turn"}
             /\ \E i \in DOMAIN t.seats : Live(t.seats[i])
             /\ h = NewStreet(CollectBetsToSidePots(t))
    BY <2>2, <2>3, <2>4, <2>7, StreetBoard
  <2> QED BY <2>1, <2>2, <2>5, <2>6, <2>7, PlayedOn DEF GoesOn
<1> QED BY <1>2, <1>3, <1>4

\* Every call keeps the board and the deck a full deck.
LEMMA BoardHeldKept ==
  ASSUME IInv, Ordered(game), Ordered(game'), BoardHeld(game), [Next]_vars,
         DeckSize >= 2 * MaxSeats + 5
  PROVE  BoardHeld(game')
<1> DEFINE g == game
           h == game'
<1>1. g \in Table /\ h \in Table
  <2>1. g \in Table
    BY TableTypes
  <2>2. h \in Table
    <3>1. IInv'
      BY NextKeeps
    <3> QED BY <3>1 DEF IInv, SoundTable, IdleTable, HandTable
  <2> QED BY <2>1, <2>2
<1>2. \/ Edited(g, h) \/ Joined(g, h) \/ Left(g, h) \/ Started(g, h) \/ Turned(g, h)
  BY StepKinds
<1>3. BoardHeld(g) /\ InOrder(g.seats) /\ InOrder(h.seats)
  BY DEF Ordered
<1> HIDE DEF g, h
<1> SUFFICES BoardHeld(h)
  BY DEF h
<1>4. CASE Edited(g, h)
  BY <1>3, <1>4, SameBoard, SameHandsDealt DEF Edited, SameRound
<1>5. CASE Joined(g, h)
  <2>1. SameRound(g, h)
    BY <1>5 DEF Joined
  <2> QED BY <1>1, <1>3, <1>5, <2>1, SameBoard, JoinedDealt DEF SameRound
<1>6. CASE Left(g, h)
  <2>1. SameRound(g, h)
    BY <1>6 DEF Left
  <2> QED BY <1>1, <1>3, <1>6, <2>1, SameBoard, LeftDealt DEF SameRound
<1>7. CASE Started(g, h)
  BY <1>1, <1>3, <1>7, StartedBoard
<1>8. CASE Turned(g, h)
  BY <1>3, <1>8, TurnedBoard
<1> QED BY <1>2, <1>4, <1>5, <1>6, <1>7, <1>8

\* The board shows the cards of its street, and no card is drawn from an empty deck,
\* provided that the deck has two cards for every seat and five for the board: the
\* owner chooses how many seats there are, and SetMaxSeats takes any number.
THEOREM BoardAlwaysMatches ==
  ASSUME DeckSize >= 2 * MaxSeats + 5
  PROVE  Spec => []BoardMatchesStage
<1>1. Init => BoardHeld(game)
  BY DEF Init, BoardHeld
<1>2. /\ IInv /\ Ordered(game) /\ Ordered(game)' /\ BoardHeld(game) /\ [Next]_vars
      => BoardHeld(game)'
  BY BoardHeldKept
<1>3. BoardHeld(game) => BoardMatchesStage
  BY DEF BoardHeld, BoardMatchesStage, InHand
<1> QED BY <1>1, <1>2, <1>3, Inductive, OrderedInductive, PTL DEF Spec

=============================================================================
