---------------------------- MODULE HoldemTable ----------------------------
(***************************************************************************)
(* The private helpers of class HoldemPokerGame                             *)
(* (src/Game/HoldemPokerGame.cpp) as operators on a table: a record g with  *)
(* the data members of the class.  A handler of the engine is a chain of    *)
(* these operators, in the order of the calls in the source, and its action *)
(* in HoldemPokerGame.tla assigns the table at the end of the chain.        *)
(*                                                                          *)
(* g.seats is the vector _seats.  The engine indexes it from 0, and         *)
(* dealerIndex and actingIndex are such indexes: At(g, i) is _seats[i].     *)
(* Cards are abstracted to how many are on the board and in the deck, and   *)
(* the value of a hand to a score chosen at the showdown.                   *)
(***************************************************************************)
EXTENDS Integers, FiniteSets, SequencesExt, Vectors

CONSTANTS
  Players,        \* player ids
  MaxSeats,       \* s_maxSeats
  DeckSize,       \* cards of a full deck: 52 in the code
  BuyinFactor     \* _minBuyin in big blinds: 100 in the code

ASSUME TableAssumption ==
  /\ IsFiniteSet(Players)
  /\ MaxSeats \in Nat
  /\ DeckSize \in Nat
  /\ BuyinFactor \in Nat \ {0}

Positions(g) == 0 .. Len(g.seats) - 1
At(g, i) == g.seats[i + 1]

-----------------------------------------------------------------------------
(* Seat.h: the predicates every loop of the engine filters seats with.      *)

IsOccupied(s) == ~s.pendingLeave

CanAct(s) == s.inHand /\ ~s.folded /\ ~s.allIn

\* A seat that still competes for the pots: the loops of ResolveIfNeeded,
\* NextActiveIndex, AllBetsMatched and AllActivePlayersActed skip the others.
Alive(s) == IsOccupied(s) /\ s.inHand /\ ~s.folded

IsSeatActive(g, s) == IsOccupied(s) /\ ~s.sittingOut /\ s.chips >= g.bigBlind

ActiveSeatCount(g) ==
  Cardinality({i \in DOMAIN g.seats : IsSeatActive(g, g.seats[i])})

AreBlindsSet(g) == g.smallBlind > 0 /\ g.bigBlind > 0

CanStart(g) ==
  AreBlindsSet(g) /\ g.stage = "Waiting" /\ ActiveSeatCount(g) >= 2

-----------------------------------------------------------------------------
(* Walking round the table.                                                 *)

\* The first position of S met when walking the vector from start, wrapping
\* round; _seats.size() when there is none.
FirstFrom(g, start, S) ==
  IF S = {} THEN Len(g.seats)
  ELSE CHOOSE i \in S :
         \A j \in S : (i - start) % Len(g.seats) <= (j - start) % Len(g.seats)

\* Mutant: a seat with nothing left to bet is given the turn.
NextActiveIndexMutant(g, start) ==
  FirstFrom(g, start, {i \in Positions(g) : Alive(At(g, i))})

NextActiveIndex(g, start) ==
  FirstFrom(g, start, {i \in Positions(g) : Alive(At(g, i)) /\ ~At(g, i).allIn})

FindNextValidBlindPosition(g, start) ==
  FirstFrom(g, start, {i \in Positions(g) : At(g, i).inHand})

-----------------------------------------------------------------------------
(* Chips on their way from a stack to the middle.                           *)

\* The four assignments every branch that takes chips makes.
PutIn(s, pay) ==
  [s EXCEPT !.chips = @ - pay,
            !.currentBet = @ + pay,
            !.totalBetThisHand = @ + pay,
            !.allIn = @ \/ s.chips = pay]

\* The largest stack plus bet of the seats that could still call this one.
GetMaxOtherEffectiveTotal(g, p) ==
  Max({0} \cup {s.currentBet + s.chips :
                s \in {t \in ToSet(g.seats) : Alive(t) /\ t.playerId # p}})

GetMaxAllowedTotalBet(g, s) ==
  LET own    == s.currentBet + s.chips
      others == GetMaxOtherEffectiveTotal(g, s.playerId)
  IN  IF others > 0 THEN Max({s.currentBet, Min({own, others})}) ELSE own

RecordLastAction(g, p, action, amount) ==
  [g EXCEPT !.lastAction = [playerId |-> p, action |-> action, amount |-> amount]]

DealCommunity(g, count) ==
  [g EXCEPT !.community = @ + count, !.deck = Max({0, @ - count})]

PotTotal(g) ==
  SumSeq([k \in DOMAIN g.sidePots |-> g.sidePots[k].amount])

GetTotalPot(g) ==
  PotTotal(g) + SumSeq([i \in DOMAIN g.seats |-> g.seats[i].currentBet])

-----------------------------------------------------------------------------
(* CollectBetsToSidePots: the bets of a street become layers of pots, one   *)
(* layer for each distinct bet, lowest first.                               *)

\* Mutant: the chips of those who folded are not collected.
ContributorsMutant(g) == {i \in DOMAIN g.seats : Alive(g.seats[i])}

Contributors(g) ==
  {i \in DOMAIN g.seats : IsOccupied(g.seats[i]) /\ g.seats[i].inHand}

\* Mutant: one pot for the whole street.
BetLevelsMutant(g) ==
  LET bets == {g.seats[i].currentBet : i \in Contributors(g)}
  IN  IF bets \subseteq {0} THEN {} ELSE {Max(bets)}

BetLevels(g) == {g.seats[i].currentBet : i \in Contributors(g)} \ {0}

\* What a bet adds to the layer between two levels.
Share(bet, below, level) == Max({0, Min({bet, level}) - below})

Layer(g, below, level) ==
  [amount   |-> SumSeq([i \in DOMAIN g.seats |->
                  IF i \in Contributors(g)
                  THEN Share(g.seats[i].currentBet, below, level) ELSE 0]),
   eligible |-> {g.seats[i].playerId : i \in
                  {j \in Contributors(g) :
                     g.seats[j].currentBet > below /\ ~g.seats[j].folded}}]

\* One pass of the loop over the sorted bets; acc.level is previousLevel.  A
\* layer that nobody who put chips in it can win is not pushed.
AddLayer(g, acc) ==
  LET higher == {l \in BetLevels(g) : l > acc.level}
      level  == Min(higher)
      pot    == Layer(g, acc.level, level)
  IN  IF higher = {} THEN acc
      ELSE [level |-> level,
            pots  |-> IF pot.eligible = {} THEN acc.pots
                      ELSE Append(acc.pots, pot)]

Layers(g) ==
  LET pass[n \in 0..Len(g.seats)] ==
        IF n = 0 THEN [level |-> 0, pots |-> g.sidePots]
        ELSE AddLayer(g, pass[n - 1])
  IN  pass[Len(g.seats)].pots

CollectBetsToSidePots(g) ==
  IF BetLevels(g) = {} THEN g
  ELSE [g EXCEPT
         !.sidePots = Layers(g),
         !.seats = Vector([i \in DOMAIN g.seats |->
                            [g.seats[i] EXCEPT !.currentBet = 0]])]

-----------------------------------------------------------------------------
(* Paying out.  scores[p] stands for what EvaluateHand returns for p's      *)
(* cards: any value per player, the same for every pot of the hand.         *)

\* Mutant: a player who folded after the pot was made still contends for it.
ContendersMutant(g, pot) ==
  {i \in DOMAIN g.seats : g.seats[i].playerId \in pot.eligible}

Contenders(g, pot) ==
  {i \in DOMAIN g.seats : g.seats[i].playerId \in pot.eligible
                          /\ ~g.seats[i].folded}

Winners(g, pot, scores) ==
  LET Score(i) == scores[g.seats[i].playerId]
  IN  {i \in Contenders(g, pot) :
         \A j \in Contenders(g, pot) : Score(j) <= Score(i)}

\* The chip that does not divide goes to the winners in seat order, starting
\* after the dealer.
FromDealer(g, i) ==
  LET start == IF g.dealerIndex < Len(g.seats) THEN g.dealerIndex + 1 ELSE 0
  IN  ((i - 1) - start) % Len(g.seats)

\* Mutant: every winner's share is rounded up.
GainMutant(g, pot, scores, i) ==
  LET winners == Winners(g, pot, scores)
      count   == Cardinality(winners)
  IN  IF i \notin winners THEN 0 ELSE (pot.amount + count - 1) \div count

\* What the seat at position i of the sequence takes from a pot.  A pot that
\* none of its eligible players can claim is skipped: nobody gets it.
Gain(g, pot, scores, i) ==
  LET winners == Winners(g, pot, scores)
      before  == {j \in winners : FromDealer(g, j) < FromDealer(g, i)}
      count   == Cardinality(winners)
  IN  IF i \notin winners THEN 0
      ELSE pot.amount \div count
           + IF Cardinality(before) < pot.amount % count THEN 1 ELSE 0

Won(g, scores, i) ==
  SumSeq([k \in DOMAIN g.sidePots |-> Gain(g, g.sidePots[k], scores, i)])

\* The hand result: one entry per seat dealt in.
HandResult(g, isShowdown, totalPot, won) ==
  [isShowdown |-> isShowdown,
   totalPot   |-> totalPot,
   players    |->
     {[playerId |-> g.seats[i].playerId,
       folded   |-> g.seats[i].folded,
       chipsWon |-> won[i]] : i \in {j \in DOMAIN g.seats : g.seats[j].inHand}}]

DistributePots(g, scores) ==
  LET won == Vector([i \in DOMAIN g.seats |-> Won(g, scores, i)])
  IN  [g EXCEPT
        !.seats = Vector([i \in DOMAIN g.seats |->
                            [g.seats[i] EXCEPT !.chips = @ + won[i]]]),
        !.sidePots = <<>>,
        !.lastHandResult = HandResult(g, TRUE, PotTotal(g), won),
        !.hasPendingHandResult = TRUE]

\* Every way the cards can fall.  The order of the hands is all that matters, so
\* the scores used are 1 to the number of different hands.
Scores ==
  {f \in [Players -> 1 .. Cardinality(Players)] :
     \A p \in Players : f[p] > 1 => \E q \in Players : f[q] = f[p] - 1}

\* HandleShowdown: the tables it can leave.
HandleShowdown(g) ==
  LET c == CollectBetsToSidePots(g)
  IN  {DistributePots(c, scores) : scores \in Scores}

\* Mutant: the bets of a hand that ends before the river are left on the seats.
ClearedSeatMutant(s) ==
  [s EXCEPT !.inHand = FALSE, !.folded = FALSE, !.allIn = FALSE,
            !.actedThisRound = FALSE]

ClearedSeat(s) ==
  [s EXCEPT !.inHand = FALSE, !.folded = FALSE, !.allIn = FALSE,
            !.currentBet = 0, !.totalBetThisHand = 0, !.actedThisRound = FALSE]

FinishHand(g) ==
  [g EXCEPT
    !.stage = "Waiting", !.community = 0, !.sidePots = <<>>,
    !.lastBet = 0, !.lastRaise = 0,
    !.seats = Vector([i \in DOMAIN g.seats |-> ClearedSeat(g.seats[i])])]

-----------------------------------------------------------------------------
(* ResolveIfNeeded, AdvanceStage, AdvanceTurn.  Where the source calls       *)
(* HandleShowdown() and FinishHand(), these operators leave the table in    *)
(* stage Showdown and Outcomes makes the two calls: they are always the     *)
(* last thing the handler does, and no handler ends in stage Showdown.      *)

\* Everything on the table goes to the one seat counted alive.  chipsWon is
\* given to the entry whose seat number equals the winner's vector index.
SingleWinner(g, i) ==
  LET c   == CollectBetsToSidePots(g)
      pot == GetTotalPot(c)
      won == [j \in DOMAIN c.seats |->
                IF c.seats[j].seatIndex = i - 1 THEN pot ELSE 0]
  IN  FinishHand(
        [c EXCEPT !.seats[i].chips = @ + pot,
                  !.lastHandResult = HandResult(c, FALSE, pot, won),
                  !.hasPendingHandResult = TRUE])

ResolveIfNeeded(g) ==
  LET alive     == {i \in DOMAIN g.seats : Alive(g.seats[i])}
      withChips == {i \in alive : g.seats[i].chips > 0}
      noMoreBets ==
        \/ \A i \in alive : g.seats[i].allIn
        \/ /\ Cardinality(withChips) = 1
           /\ \A i \in withChips : g.seats[i].currentBet >= g.lastBet
  IN  CASE alive = {} -> FinishHand(g)
        [] Cardinality(alive) = 1 -> SingleWinner(g, CHOOSE i \in alive : TRUE)
        [] Cardinality(alive) > 1 /\ noMoreBets ->
             [DealCommunity(g, Max({0, 5 - g.community})) EXCEPT !.stage = "Showdown"]
        [] OTHER -> g

AllBetsMatched(g) ==
  LET betting == {s \in ToSet(g.seats) : Alive(s) /\ ~s.allIn}
  IN  betting # {} /\ \A s \in betting : s.actedThisRound \/ s.currentBet = g.lastBet

AllActivePlayersActed(g) ==
  LET betting == {s \in ToSet(g.seats) : Alive(s) /\ ~s.allIn}
  IN  betting # {} /\ \A s \in betting : s.actedThisRound

ResetBetsForNewRound(g) ==
  [g EXCEPT !.lastBet = 0, !.lastRaise = g.bigBlind,
            !.seats = Vector([i \in DOMAIN g.seats |->
              [g.seats[i] EXCEPT !.currentBet = 0, !.actedThisRound = FALSE]])]

NextStreet == [PreFlop |-> "Flop", Flop |-> "Turn", Turn |-> "River"]
CardsDealt == [PreFlop |-> 3, Flop |-> 1, Turn |-> 1]

NewStreet(g) ==
  LET n == ResetBetsForNewRound(
             DealCommunity([g EXCEPT !.stage = NextStreet[g.stage]],
                           CardsDealt[g.stage]))
  IN  [n EXCEPT !.actingIndex = NextActiveIndex(n, n.dealerIndex + 1)]

AdvanceStage(g) ==
  LET c == CollectBetsToSidePots(g)
  IN  CASE g.stage \in DOMAIN NextStreet -> NewStreet(c)
        [] g.stage = "River" -> [c EXCEPT !.stage = "Showdown"]
        [] OTHER -> c

\* Mutant: the search for the next seat starts at the one that just acted.
AdvanceTurnMutant(g) ==
  LET next == NextActiveIndex(g, g.actingIndex)
  IN  CASE g.stage = "Waiting" \/ g.seats = <<>> -> g
        [] AllBetsMatched(g) /\ AllActivePlayersActed(g) -> AdvanceStage(g)
        [] next >= Len(g.seats) -> AdvanceStage(g)
        [] OTHER -> [g EXCEPT !.actingIndex = next]

AdvanceTurn(g) ==
  LET next == NextActiveIndex(g, g.actingIndex + 1)
  IN  CASE g.stage = "Waiting" \/ g.seats = <<>> -> g
        [] AllBetsMatched(g) /\ AllActivePlayersActed(g) -> AdvanceStage(g)
        [] next >= Len(g.seats) -> AdvanceStage(g)
        [] OTHER -> [g EXCEPT !.actingIndex = next]

\* The end of HandleAction and of ProcessAutoModePlayer, up to the showdown.
PlayOn(g) ==
  LET r == ResolveIfNeeded(g)
  IN  IF r.stage \in {"Waiting", "Showdown"} THEN r ELSE AdvanceTurn(r)

Outcomes(g) ==
  IF g.stage = "Showdown" THEN {FinishHand(d) : d \in HandleShowdown(g)} ELSE {g}

=============================================================================
