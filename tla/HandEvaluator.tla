--------------------------- MODULE HandEvaluator ---------------------------
(***************************************************************************)
(* HandEvaluator (src/Game/GameItem/HandEvaluator.h): the score of two hole *)
(* cards and five community cards.  A card is <<rank, suit>>.  A board that  *)
(* is not complete is filled with invalid cards, all of them NoCard: the    *)
(* code compares no two cards, so that the set of the seven stands for      *)
(* them.                                                                    *)
(***************************************************************************)
EXTENDS Integers, Sequences, FiniteSetsExt, SequencesExt

HandRank ==
  [HighCard |-> 0, OnePair |-> 1, TwoPair |-> 2, ThreeOfAKind |-> 3, Straight |-> 4,
   Flush |-> 5, FullHouse |-> 6, FourOfAKind |-> 7, StraightFlush |-> 8, RoyalFlush |-> 9]

\* Mutant: a value weighs ten times the next one, though it can be 14.
ScoreMutant(rank, kickers) ==
  FoldLeft(LAMBDA sum, k : [score |-> sum.score + k * sum.mult, mult |-> sum.mult \div 10],
           [score |-> rank * 10000000, mult |-> 100000],
           kickers).score

\* Each value has a hundredth of the weight of the one before, in integers: from
\* the fourth value on the weight is 0.
Score(rank, kickers) ==
  FoldLeft(LAMBDA sum, k : [score |-> sum.score + k * sum.mult, mult |-> sum.mult \div 100],
           [score |-> rank * 10000000, mult |-> 100000],
           kickers).score

\* ParseScore: the kind of hand, which is all that is printed of a score.
ParseScore(score) == score \div 10000000

-----------------------------------------------------------------------------

\* Card(), of a suit there is.
NoCard == <<0, 0>>

Valid(cards) == {c \in cards : c[1] \in 2 .. 14 /\ c[2] \in 0 .. 3}

Ranks(cards) == {c[1] : c \in Valid(cards)}

\* The ranks held n times or more.
Held(cards, n) ==
  {r \in Ranks(cards) : Cardinality({c \in Valid(cards) : c[1] = r}) >= n}

\* The n highest of S, in descending order: all of S when there are fewer.
Highest(S, n) ==
  [i \in 1 .. Min({n, Cardinality(S)}) |->
     CHOOSE r \in S : Cardinality({q \in S : q > r}) = i - 1]

OfSuit(cards, s) == {c \in cards : c[2] = s}

\* Mutant: the cards that fill the board are counted.
FlushRanksMutant(cards) ==
  UNION {{c[1] : c \in OfSuit(cards, s)} : s \in
           {t \in 0 .. 3 : Cardinality(OfSuit(cards, t)) >= 5}}

\* The ranks of the suit held five times or more, if there is one.  Invalid cards are
\* not counted, but collected with the suit they have.
FlushRanks(cards) ==
  UNION {{c[1] : c \in OfSuit(cards, s)} : s \in
           {t \in 0 .. 3 : Cardinality(Valid(OfSuit(cards, t))) >= 5}}

\* findStraight: the high card of the best straight; the wheel counts as 14.
StraightHigh(ranks) ==
  LET highs == {h \in 6 .. 14 : (h - 4) .. h \subseteq ranks}
      wheel == {14, 2, 3, 4, 5} \subseteq ranks
  IN  IF highs # {} THEN {Max(highs)} ELSE IF wheel THEN {14} ELSE {}

-----------------------------------------------------------------------------
(* The scores of the hands of each kind the cards hold: one or none.        *)

StraightFlushes(cards) ==
  {Score(IF h = 14 THEN HandRank.RoyalFlush ELSE HandRank.StraightFlush, <<h>>) :
     h \in StraightHigh(FlushRanks(cards))}

\* With seven cards there is one rank at most that is held four times.
FoursOfAKind(cards) ==
  {Score(HandRank.FourOfAKind, <<r>> \o Highest(Ranks(cards) \ {r}, 1)) : r \in Held(cards, 4)}

FullHouses(cards) ==
  LET trips == Held(cards, 3)
      pairs == Held(cards, 2) \ {Max(trips)}
  IN  IF trips = {} \/ pairs = {} THEN {}
      ELSE {Score(HandRank.FullHouse, <<Max(trips), Max(pairs)>>)}

Flushes(cards) ==
  {Score(HandRank.Flush, Highest(S, 5)) : S \in {FlushRanks(cards)} \ {{}}}

Straights(cards) ==
  {Score(HandRank.Straight, <<h>>) : h \in StraightHigh(Ranks(cards))}

\* n of the highest rank held n times, and the highest others.
OfAKind(cards, rank, n, others) ==
  LET held == Held(cards, n)
  IN  IF held = {} THEN {}
      ELSE {Score(rank, <<Max(held)>> \o Highest(Ranks(cards) \ {Max(held)}, others))}

TwoPairs(cards) ==
  LET two == Highest(Held(cards, 2), 2)
  IN  IF Len(two) < 2 THEN {}
      ELSE {Score(HandRank.TwoPair, two \o Highest(Ranks(cards) \ {two[1], two[2]}, 1))}

HighCards(cards) == {Score(HandRank.HighCard, Highest(Ranks(cards), 5))}

\* The kinds are tried from the best down and the first found is returned: its
\* score is the highest, for the values weigh less than a kind.
Evaluate(cards) ==
  Max(UNION {StraightFlushes(cards), FoursOfAKind(cards), FullHouses(cards),
             Flushes(cards), Straights(cards), TwoPairs(cards), HighCards(cards),
             OfAKind(cards, HandRank.ThreeOfAKind, 3, 2),
             OfAKind(cards, HandRank.OnePair, 2, 3)})

=============================================================================
