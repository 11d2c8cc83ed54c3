----------------------------- MODULE TableWire -----------------------------
(***************************************************************************)
(* What the server sends of a table and what the client makes of it: the    *)
(* snapshot (src/Game/HoldemTableSnapshot.cpp), its seats and cards, the     *)
(* hand result, and the copy of the table ReadTable leaves for the printer. *)
(* Writing and reading are separate code on both ends of the wire, and      *)
(* nothing but the order and the width of the fields keeps them together.   *)
(*                                                                          *)
(* A card is named by where it lies: the n-th card of a player's hand, the  *)
(* n-th card of the board.                                                  *)
(***************************************************************************)
EXTENDS HoldemProperties, NetPack

CONSTANT Viewers  \* the players whose copies are looked at

ASSUME WireAssumption == Viewers \subseteq Players

NoCard == [rank |-> 0, suit |-> 0]
HoleOf(p) == <<[rank |-> p, suit |-> 1], [rank |-> p, suit |-> 2]>>
BoardOf(n) == [k \in 1..n |-> [rank |-> k, suit |-> 0]]

StageCode  == [Waiting |-> 0, PreFlop |-> 1, Flop |-> 2, Turn |-> 3, River |-> 4,
               Showdown |-> 5]
ActionCode == [CheckCall |-> 0, Bet |-> 1, Raise |-> 2, AllIn |-> 3, Fold |-> 4]

\* The enumerator of a number; a number that is none is kept.
Decoded(code, n) ==
  IF \E name \in DOMAIN code : code[name] = n
  THEN CHOOSE name \in DOMAIN code : code[name] = n ELSE n

Id(p)   == IF p = NoOne THEN -1 ELSE p
Flag(b) == IF b THEN 1 ELSE 0

-----------------------------------------------------------------------------
(* The queries the snapshot is filled from, on any table; -1 where there is *)
(* no such seat.                                                            *)

GetDealerSeatIndex(g) ==
  IF g.dealerIndex \in Positions(g) THEN At(g, g.dealerIndex).seatIndex ELSE -1

BlindAfter(g, position) == FindNextValidBlindPosition(g, position + 1)

GetSmallBlindSeatIndex(g) ==
  LET sb == BlindAfter(g, g.dealerIndex)
  IN  IF g.dealerIndex \in Positions(g) /\ sb \in Positions(g)
      THEN At(g, sb).seatIndex ELSE -1

GetBigBlindSeatIndex(g) ==
  LET sb == BlindAfter(g, g.dealerIndex)
      bb == BlindAfter(g, sb)
  IN  IF {g.dealerIndex, sb, bb} \subseteq Positions(g)
      THEN At(g, bb).seatIndex ELSE -1

ActingPlayerId(g) ==
  IF g.stage # "Waiting" /\ g.actingIndex \in Positions(g)
     /\ ~At(g, g.actingIndex).folded /\ At(g, g.actingIndex).inHand
  THEN Id(At(g, g.actingIndex).playerId) ELSE -1

-----------------------------------------------------------------------------
(* Writing.                                                                 *)

\* A viewer sees its own cards; in stage Showdown those still in play as well.
ShowHole(g, s, viewer) ==
  \/ s.playerId = viewer
  \/ g.stage = "Showdown" /\ s.inHand /\ ~s.folded

CardRow(card) == <<<<1, card.rank>>, <<1, card.suit>>>>

\* The size of a vector, in the byte it is sent in, and its items.
ListRow(items, Row(_)) ==
  <<<<1, Len(items) % 256>>>> \o FlattenSeq([k \in DOMAIN items |-> Row(items[k])])

SeatRow(s, includeHole) ==
  <<<<4, s.seatIndex>>, <<4, s.playerId>>, <<4, s.chips>>, <<4, s.currentBet>>,
    <<4, s.totalBetThisHand>>, <<1, Flag(s.inHand)>>, <<1, Flag(s.folded)>>,
    <<1, Flag(s.allIn)>>, <<1, Flag(s.pendingLeave)>>, <<1, Flag(s.sittingOut)>>,
    <<1, Flag(s.autoMode)>>, <<1, Flag(includeHole)>>>>
  \o IF includeHole
     THEN CardRow(HoleOf(s.playerId)[1]) \o CardRow(HoleOf(s.playerId)[2]) ELSE <<>>

PotRow(pot) ==
  <<<<4, pot.amount>>>> \o ListRow(SetToSeq(pot.eligible), LAMBDA p : <<<<4, p>>>>)

\* Mutant: the seat of the small blind goes where the dealer's is read.
TableRowMutant(g) ==
  <<<<1, StageCode[g.stage]>>, <<4, GetTotalPot(g)>>, <<4, ActingPlayerId(g)>>,
    <<4, g.lastBet>>, <<4, g.lastRaise>>, <<4, g.smallBlind>>, <<4, g.bigBlind>>,
    <<4, GetSmallBlindSeatIndex(g)>>, <<4, GetDealerSeatIndex(g)>>,
    <<4, GetBigBlindSeatIndex(g)>>, <<4, Id(g.lastAction.playerId)>>,
    <<1, ActionCode[g.lastAction.action]>>, <<4, g.lastAction.amount>>>>

TableRow(g) ==
  <<<<1, StageCode[g.stage]>>, <<4, GetTotalPot(g)>>, <<4, ActingPlayerId(g)>>,
    <<4, g.lastBet>>, <<4, g.lastRaise>>, <<4, g.smallBlind>>, <<4, g.bigBlind>>,
    <<4, GetDealerSeatIndex(g)>>, <<4, GetSmallBlindSeatIndex(g)>>,
    <<4, GetBigBlindSeatIndex(g)>>, <<4, Id(g.lastAction.playerId)>>,
    <<1, ActionCode[g.lastAction.action]>>, <<4, g.lastAction.amount>>>>

WriteTable(g, viewer) ==
  WriteRow(<<>>, TableRow(g) \o ListRow(g.sidePots, PotRow)
                 \o ListRow(BoardOf(g.community), CardRow)
                 \o ListRow(g.seats, LAMBDA s : SeatRow(s, ShowHole(g, s, viewer))))

-----------------------------------------------------------------------------
(* Reading.                                                                 *)

ReadCard(fields) ==
  LET card(r) == [value |-> [rank |-> r.values[1], suit |-> r.values[2]], rest |-> r.rest]
  IN  card(ReadRow(fields, <<1, 1>>))

\* Mutant: the cards are read whether they were sent or not.
ReadHoleMutant(fields, sent) ==
  LET first  == ReadCard(fields)
      second == ReadCard(first.rest)
  IN  [value |-> <<first.value, second.value>>, rest |-> second.rest]

\* Without cards the two empty ones of the constructor stay.
ReadHole(fields, sent) ==
  LET first  == ReadCard(fields)
      second == ReadCard(first.rest)
  IN  IF sent THEN [value |-> <<first.value, second.value>>, rest |-> second.rest]
      ELSE [value |-> <<NoCard, NoCard>>, rest |-> fields]

\* actedThisRound is not sent.
ReadSeat(fields) ==
  LET r == ReadRow(fields, <<4, 4, 4, 4, 4, 1, 1, 1, 1, 1, 1, 1>>)
      seat(v, hole) ==
        [value |->
           [seatIndex |-> v[1], playerId |-> v[2], chips |-> v[3], currentBet |-> v[4],
            totalBetThisHand |-> v[5], inHand |-> v[6] # 0, folded |-> v[7] # 0,
            allIn |-> v[8] # 0, pendingLeave |-> v[9] # 0, sittingOut |-> v[10] # 0,
            autoMode |-> v[11] # 0, actedThisRound |-> FALSE, hole |-> hole.value],
         rest |-> hole.rest]
  IN  seat(r.values, ReadHole(r.rest, r.values[12] # 0))

ReadPot(fields) ==
  LET amount == Read(fields, 4)
      pot(names) == [value |-> [amount |-> amount.value, eligible |-> ToSet(names.values)],
                     rest |-> names.rest]
  IN  pot(ReadList(amount.rest, LAMBDA f : Read(f, 4)))

\* The last seat of the acting player, or the first seat.
ActingIndexOf(seats, acting) ==
  Max({0} \cup {i - 1 : i \in {j \in DOMAIN seats : seats[j].playerId = acting}})

\* The copy, with what was left unread.  dealerIndex is given the number of the
\* dealer's seat; the total pot and the seats of the blinds are read and dropped.
ReadTable(fields) ==
  LET r     == ReadRow(fields, <<1, 4, 4, 4, 4, 4, 4, 4, 4, 4, 4, 1, 4>>)
      pots  == ReadList(r.rest, ReadPot)
      board == ReadList(pots.rest, ReadCard)
      table(v, seats) ==
        [stage |-> Decoded(StageCode, v[1]), lastBet |-> v[4], dealerIndex |-> v[8],
         smallBlind |-> v[6], bigBlind |-> v[7], lastRaise |-> v[5],
         sidePots |-> pots.values, community |-> board.values,
         lastAction |-> [playerId |-> v[11], action |-> Decoded(ActionCode, v[12]),
                         amount |-> v[13]],
         seats |-> seats.values, actingIndex |-> ActingIndexOf(seats.values, v[3]),
         unread |-> seats.rest]
  IN  table(r.values, ReadList(board.rest, ReadSeat))

-----------------------------------------------------------------------------
(* The hand result, sent with the board it was reached on.  scores[p] is     *)
(* what EvaluateHand gives for p's cards.                                   *)

HandRank(e, scores) == IF e.folded THEN 0 ELSE scores[e.playerId]

\* Mutant: the score goes before the player it belongs to.
ResultRowMutant(result, board, scores) ==
  <<<<4, result.totalPot>>, <<1, Flag(result.isShowdown)>>>>
  \o ListRow(board, CardRow)
  \o ListRow(SetToSeq(result.players),
       LAMBDA e : <<<<4, HandRank(e, scores)>>, <<4, e.playerId>>, <<4, e.chipsWon>>,
                    <<1, Flag(e.folded)>>>>
                  \o IF result.isShowdown
                     THEN CardRow(HoleOf(e.playerId)[1]) \o CardRow(HoleOf(e.playerId)[2])
                     ELSE <<>>)

ResultRow(result, board, scores) ==
  <<<<4, result.totalPot>>, <<1, Flag(result.isShowdown)>>>>
  \o ListRow(board, CardRow)
  \o ListRow(SetToSeq(result.players),
       LAMBDA e : <<<<4, e.playerId>>, <<4, HandRank(e, scores)>>, <<4, e.chipsWon>>,
                    <<1, Flag(e.folded)>>>>
                  \o IF result.isShowdown
                     THEN CardRow(HoleOf(e.playerId)[1]) \o CardRow(HoleOf(e.playerId)[2])
                     ELSE <<>>)

ReadEntry(fields, isShowdown) ==
  LET r == ReadRow(fields, <<4, 4, 4, 1>>)
      entry(v, hole) == [value |-> [playerId |-> v[1], handRank |-> v[2],
                                    folded |-> v[4] # 0, chipsWon |-> v[3],
                                    hole |-> hole.value],
                         rest |-> hole.rest]
  IN  entry(r.values, ReadHole(r.rest, isShowdown))

ReadResult(fields) ==
  LET r       == ReadRow(fields, <<4, 1>>)
      board   == ReadList(r.rest, ReadCard)
      hand(v, entries) ==
        [totalPot |-> v[1], isShowdown |-> v[2] # 0, community |-> board.values,
         players |-> ToSet(entries.values), unread |-> entries.rest]
  IN  hand(r.values, ReadList(board.rest, LAMBDA f : ReadEntry(f, r.values[2] # 0)))

-----------------------------------------------------------------------------

\* A seat with two cards.
WithHole(s, hole) ==
  [field \in DOMAIN s \cup {"hole"} |-> IF field = "hole" THEN hole ELSE s[field]]

\* A seat as its viewer is to see it.
SeenSeat(s, viewer) ==
  WithHole([s EXCEPT !.actedThisRound = FALSE],
           IF s.playerId = viewer THEN HoleOf(viewer) ELSE <<NoCard, NoCard>>)

\* The copy says what the table says.
Tells(copy, viewer) ==
  /\ copy.unread = <<>>
  /\ \A field \in {"stage", "lastBet", "lastRaise", "smallBlind", "bigBlind"} :
       copy[field] = game[field]
  /\ copy.lastAction = [game.lastAction EXCEPT !.playerId = Id(@)]
  /\ copy.community = BoardOf(game.community)
  /\ copy.sidePots = game.sidePots
  /\ copy.seats = [i \in DOMAIN game.seats |-> SeenSeat(game.seats[i], viewer)]
  /\ GetTotalPot(copy) = GetTotalPot(game)
  /\ TurnIsLive => ActingPlayerId(copy) = ActingPlayerId(game)

\* Whoever asks for the table gets a copy that says what the table says: the
\* bytes are read to the last, every field lands where it was taken from, the pot
\* and the turn the printer computes from the copy are the engine's, and no cards
\* but the viewer's own are in it (Seat.cpp:5-49, HoldemTableSnapshot.cpp:19-135,
\* HoldemPokerGame.cpp:844-896).
CopyIsTheTable ==
  \A viewer \in Viewers : Tells(ReadTable(WriteTable(game, viewer)), viewer)

Shown(g) == <<GetDealerSeatIndex(g), GetSmallBlindSeatIndex(g), GetBigBlindSeatIndex(g)>>

\* The copy shows the button and the blinds where the table has them as long as
\* no seat is free below the dealer's.  With a free seat below it the copy takes
\* the seat's number for a position and shows the button further on, or nowhere
\* (HoldemPokerGame.cpp:877).
ButtonIsShown ==
  LET number == GetDealerSeatIndex(game)
      ButtonOn(copy) ==
        IF number \in {-1, game.dealerIndex} THEN Shown(copy) = Shown(game)
        ELSE GetDealerSeatIndex(copy) = -1 \/ GetDealerSeatIndex(copy) > number
  IN  ButtonOn(ReadTable(WriteTable(game, NoOne)))

\* A hand result arrives as it was recorded, however the cards fell: each player
\* with its own score and winnings, with the cards of a showdown only
\* (HoldemPokerGame.cpp:527-541, 1047-1062, HoldemHandResult.cpp:8-63).
ResultArrives ==
  LET sent == game.lastHandResult
      hole(p) == IF sent.isShowdown THEN HoleOf(p) ELSE <<NoCard, NoCard>>
      Recorded(e, scores) ==
        [playerId |-> e.playerId, handRank |-> HandRank(e, scores),
         folded |-> e.folded, chipsWon |-> e.chipsWon, hole |-> hole(e.playerId)]
      SameResult(got, n, scores) ==
        /\ got.unread = <<>>
        /\ got.totalPot = sent.totalPot /\ got.isShowdown = sent.isShowdown
        /\ got.community = BoardOf(n)
        /\ got.players = {Recorded(e, scores) : e \in sent.players}
  IN  game.hasPendingHandResult =>
        \A n \in {0, 5}, scores \in Scores :
          SameResult(ReadResult(WriteRow(<<>>, ResultRow(sent, BoardOf(n), scores))),
                     n, scores)

=============================================================================
