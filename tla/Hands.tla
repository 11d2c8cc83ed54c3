------------------------------- MODULE Hands -------------------------------
(***************************************************************************)
(* Two seats are dealt hole cards and a board (DealHoleCards and            *)
(* DealCommunity of src/Game/HoldemPokerGame.cpp), and HandEvaluator's       *)
(* scores of what they hold are compared with the rules of poker: the best  *)
(* five of the cards, ranked by kind and then card by card.                 *)
(***************************************************************************)
EXTENDS HandEvaluator

CONSTANT Decks      \* the decks a hand is played with: sets of <<rank, suit>>

VARIABLES
  deck,             \* the cards not dealt
  board,            \* _community
  holes             \* the hole cards of the two seats

vars == <<deck, board, holes>>

Init ==
  /\ deck \in Decks
  /\ board = {}
  /\ holes = <<{}, {}>>

\* The deck is shuffled: any card may be the one drawn.
DealHoleCards ==
  /\ holes = <<{}, {}>>
  /\ \E a \in kSubset(2, deck) : \E b \in kSubset(2, deck \ a) :
       /\ holes' = <<a, b>>
       /\ deck' = deck \ (a \cup b)
  /\ UNCHANGED board

DealCommunity(n) ==
  /\ \E cards \in kSubset(n, deck) :
       /\ board' = board \cup cards
       /\ deck' = deck \ cards
  /\ UNCHANGED holes

Dealt == holes # <<{}, {}>>
Flop  == Dealt /\ board = {} /\ DealCommunity(3)
TurnOrRiver == Cardinality(board) \in {3, 4} /\ DealCommunity(1)

Next == DealHoleCards \/ Flop \/ TurnOrRiver
Spec == Init /\ [][Next]_vars

\* EvaluateHand: the seat's cards with what there is of the board, made up to seven.
EvaluateHand(s) ==
  Evaluate(holes[s] \cup board \cup IF Cardinality(board) < 5 THEN {NoCard} ELSE {})

-----------------------------------------------------------------------------
(* The rules, for five cards or, before the river, fewer.                   *)

Wheel == {14, 2, 3, 4, 5}

Times(cards, r) == Cardinality({c \in cards : c[1] = r})

\* The ranks, those held most often first, and the higher first among them.
Arranged(cards) ==
  LET Weight(r) == 15 * Times(cards, r) + r
      sorted    == Highest({Weight(r) : r \in Ranks(cards)}, 5)
  IN  [i \in DOMAIN sorted |-> sorted[i] % 15]

IsFlush(cards) == Cardinality(cards) = 5 /\ Cardinality({c[2] : c \in cards}) = 1

IsStraight(cards) ==
  /\ Cardinality(Ranks(cards)) = 5
  /\ Ranks(cards) = Wheel \/ Max(Ranks(cards)) - Min(Ranks(cards)) = 4

\* In the wheel the ace is the lowest card.
InOrder(cards) == IF Ranks(cards) = Wheel THEN <<5, 4, 3, 2, 1>> ELSE Arranged(cards)

Kind(cards) ==
  LET most    == Times(cards, Arranged(cards)[1])
      next    == IF Cardinality(Ranks(cards)) = 1 THEN 0 ELSE Times(cards, Arranged(cards)[2])
      pattern == <<most, next>>
  IN  IF IsStraight(cards) \/ IsFlush(cards)
      THEN CASE ~IsStraight(cards) -> HandRank.Flush
             [] ~IsFlush(cards)    -> HandRank.Straight
             [] OTHER -> IF InOrder(cards)[1] = 14 THEN HandRank.RoyalFlush
                                                   ELSE HandRank.StraightFlush
      ELSE CASE most = 4         -> HandRank.FourOfAKind
             [] pattern = <<3, 2>> -> HandRank.FullHouse
             [] pattern \in {<<3, 0>>, <<3, 1>>} -> HandRank.ThreeOfAKind
             [] pattern = <<2, 2>> -> HandRank.TwoPair
             [] pattern \in {<<2, 0>>, <<2, 1>>} -> HandRank.OnePair
             [] OTHER -> HandRank.HighCard

\* Hands of five are compared by kind, then rank by rank in their order.
Worth(cards) ==
  FoldLeft(LAMBDA sum, r : sum * 15 + r, Kind(cards),
           SubSeq(InOrder(cards) \o <<0, 0, 0>>, 1, 5))

\* The best hand of at most five cards; the kind is the leading digit of its worth.
FiveOf(cards) == IF Cardinality(cards) <= 5 THEN {cards} ELSE kSubset(5, cards)
BestKind(cards) == Max({Kind(five) : five \in FiveOf(cards)})
BestWorth(cards) == Max({Worth(five) : five \in FiveOf(cards)})
Cards(s) == holes[s] \cup board
Shown == Cardinality(board) = 5

-----------------------------------------------------------------------------

\* The score names the kind of hand the cards hold, on a full board and on the
\* shorter ones a hand may end with.  Not so for a straight flush to the five
\* (it is scored as a royal flush): the decks of the runs hold none (HandEvaluator.h:29-189).
KindIsRight == Dealt => ParseScore(EvaluateHand(1)) = BestKind(Cards(1))

StraightTo(high) ==
  FoldLeft(LAMBDA sum, r : sum * 15 + r, HandRank.Straight, [i \in 1..5 |-> high + 1 - i])
LowestStraight  == StraightTo(5)
HighestStraight == StraightTo(14)

\* A straight to the five counts as one to the ace.
Counted(s) ==
  LET worth == BestWorth(Cards(s))
  IN  IF worth = LowestStraight THEN HighestStraight ELSE worth

\* What decides between two hands is their kind and the first three ranks of each, in
\* the order of the rules but for the wheel, which counts as the highest straight and
\* not as the lowest: no score inverts two hands, and none makes two hands equal, that
\* differ so far.  The fourth and the fifth rank weigh nothing (HandEvaluator.h:29-189,
\* 232-242).
FirstThreeDecide ==
  LET FirstThree(s) == Counted(s) \div (15 * 15)
  IN  Shown => (EvaluateHand(1) > EvaluateHand(2) <=> FirstThree(1) > FirstThree(2))

\* "Returns a score where higher is better" (HandEvaluator.h:27): the better of
\* two hands scores higher.
HigherIsBetter ==
  Shown /\ BestWorth(Cards(1)) > BestWorth(Cards(2)) => EvaluateHand(1) > EvaluateHand(2)

=============================================================================
