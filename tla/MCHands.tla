------------------------------ MODULE MCHands ------------------------------
(* Small decks for Hands: of nine cards, all of them dealt when there is a river. *)
EXTENDS Hands

Suited(ranks, suits) == ranks \X suits

\* Four kings, three queens, two jacks: fours, full houses of all kinds, three pairs.
PairsDeck == Suited({13}, 0 .. 3) \cup Suited({12}, 0 .. 2) \cup Suited({11}, 0 .. 1) \cup {<<2, 0>>}

\* Flushes, straights from the wheel up to the eight, straight flushes to the six.
RunsDeck == Suited({2, 3, 4, 5, 6, 8}, {0}) \cup Suited({14, 7, 5}, {1}) \cup {<<2, 2>>}

\* Ranks far apart: pairs and high cards that only the kickers tell apart.
KickersDeck == Suited({14, 11, 8, 4}, {0}) \cup Suited({13, 9, 6}, {1}) \cup Suited({3, 11, 8}, {2})

Without(cards, full) == {full \ {c} : c \in cards}

HandDecks ==
  UNION {Without({<<2, 0>>, <<13, 3>>, <<12, 2>>}, PairsDeck),
         Without({<<2, 2>>, <<5, 1>>, <<7, 1>>, <<14, 1>>}, RunsDeck),
         Without({<<14, 0>>, <<8, 0>>, <<3, 2>>}, KickersDeck)}

KickerDecks == Without({<<14, 0>>}, KickersDeck)

=============================================================================
