-------------------------- MODULE HoldemProperties --------------------------
(***************************************************************************)
(* What the engine has to get right, stated over the table of               *)
(* HoldemPokerGame.tla.                                                      *)
(***************************************************************************)
EXTENDS HoldemPokerGame

Seat ==
  [seatIndex : 0 .. MaxSeats - 1, playerId : Players,
   chips : Nat, currentBet : Nat, totalBetThisHand : Nat,
   inHand : BOOLEAN, folded : BOOLEAN, allIn : BOOLEAN, pendingLeave : BOOLEAN,
   sittingOut : BOOLEAN, autoMode : BOOLEAN, actedThisRound : BOOLEAN]

Pot == [amount : Nat, eligible : SUBSET Players]

LastAction == [playerId : Players \cup {NoOne}, action : Actions, amount : Nat]

Result ==
  [isShowdown : BOOLEAN, totalPot : Nat,
   players : SUBSET [playerId : Players, folded : BOOLEAN, chipsWon : Nat]]

Table ==
  [stage : Stages, seats : Seq(Seat), sidePots : Seq(Pot),
   community : Nat, deck : Nat, dealerIndex : Nat, actingIndex : Nat,
   lastBet : Nat, lastRaise : Nat, smallBlind : Int, bigBlind : Int,
   minBuyin : Nat, lastAction : LastAction,
   lastHandResult : Result, hasPendingHandResult : BOOLEAN]

\* The table has the shape of the class's members; no stack, bet or pot is ever
\* negative, and no call returns in stage Showdown (HoldemPokerGame.h:146-167).
TypeOK == game \in Table /\ game.stage # "Showdown"

-----------------------------------------------------------------------------
(* Seats and places.                                                        *)

\* The vector stays sorted by seat number with no player seated twice, and the
\* button stands at one of its positions, through every SitDown and every
\* RemovePendingLeavers (HoldemPokerGame.cpp:585-751).
SeatsInOrder ==
  /\ \A i, j \in DOMAIN game.seats : i < j =>
       /\ game.seats[i].seatIndex < game.seats[j].seatIndex
       /\ game.seats[i].playerId # game.seats[j].playerId
  /\ game.seats = <<>> \/ game.dealerIndex \in Positions(game)
  /\ game.actingIndex \in 0 .. Len(game.seats)

-----------------------------------------------------------------------------
(* The turn.                                                                *)

\* While a hand runs, the place to act is that of a seat that may act: every
\* path through AdvanceTurn, AdvanceStage and ResolveIfNeeded that does not end
\* the hand finds one (HoldemPokerGame.cpp:164-192, 257-275, 491-564).
TurnIsLive ==
  InHand => /\ game.actingIndex \in Positions(game)
            /\ CanAct(At(game, game.actingIndex))

ActingPlayer(g) == At(g, g.actingIndex).playerId
ButtonNumber(g) == At(g, g.dealerIndex).seatIndex

\* Seats are removed under a running hand; the turn stays with the player it was
\* with (RemovePendingLeavers, HoldemPokerGame.cpp:690-721).
TurnSurvivesRemoval ==
  [][RemovePendingLeavers /\ TurnIsLive /\ InHand =>
       ActingPlayer(game') = ActingPlayer(game)]_vars

\* How many seats number lies behind from, going round the table.
Behind(number, from) == (from - number) % MaxSeats

\* The button falls back when its seat is removed, never forward over a player who
\* would then miss it: it goes to the first seat kept at or behind the one it was
\* at, round the table below seat 0 (HoldemPokerGame.cpp:723-749).
ButtonFallsBack ==
  [][RemovePendingLeavers =>
       \A s \in ToSet(game'.seats) :
         Behind(ButtonNumber(game'), ButtonNumber(game))
           <= Behind(s.seatIndex, ButtonNumber(game))]_vars

\* _lastBet, which every call, raise and cap is computed from, is the largest
\* bet on the table during a hand (HoldemPokerGame.cpp:246-255, 296-438).
LastBetIsHighest ==
  InHand => game.lastBet = Max({0} \cup {s.currentBet : s \in ToSet(game.seats)})

\* A seat of the hand is all-in exactly when it has no chips left, so that no
\* seat is skipped by NextActiveIndex with chips to play and none is given the
\* turn with nothing to bet (the six places that set allIn).
AllInIffBroke ==
  \A s \in ToSet(game.seats) : s.inHand => (s.allIn <=> s.chips = 0)

\* Every way a hand can end leaves nothing of it behind: no bet, pot, card or
\* flag that the next hand or a buy-in would meet (FinishHand and the paths to
\* it, HoldemPokerGame.cpp:514-583).
NothingLeftOver ==
  ~InHand =>
    /\ game.sidePots = <<>> /\ game.community = 0 /\ game.lastBet = 0
    /\ \A s \in ToSet(game.seats) :
         /\ ~s.inHand /\ ~s.folded /\ ~s.allIn
         /\ s.currentBet = 0 /\ s.totalBetThisHand = 0

DealtSeats(g) == {i \in DOMAIN g.seats : g.seats[i].inHand}

\* The board has as many cards as its stage shows, and no card is drawn from an
\* empty deck: what was dealt and what is left make a full deck, although seats
\* come and go while the hand runs (HoldemPokerGame.cpp:63-118, 164-192, 898-912).
BoardMatchesStage ==
  InHand =>
    /\ game.community = CASE game.stage = "PreFlop" -> 0
                          [] game.stage = "Flop"  -> 3
                          [] game.stage = "Turn"  -> 4
                          [] OTHER -> 5
    /\ game.deck + game.community + 2 * Cardinality(DealtSeats(game)) = DeckSize

-----------------------------------------------------------------------------
(* Money.                                                                   *)

\* Every side pot holds chips and names at least one player, all of them still
\* seated and dealt in: no call while the hand runs takes a pot's owners away
\* (CollectBetsToSidePots, RemovePendingLeavers; DistributePots looks the
\* players of a pot up by id, HoldemPokerGame.cpp:981-984).
PotsAreOwned ==
  \A pot \in ToSet(game.sidePots) :
    /\ pot.amount > 0
    /\ pot.eligible # {}
    /\ \A p \in pot.eligible : p \in Seated /\ SeatOf(p).inHand

\* A pot that only the player who just folded could claim.
Abandoned(pot) ==
  \A s \in ToSet(game.seats) :
    s.playerId \in pot.eligible /\ ~s.folded =>
      /\ s.playerId = game'.lastAction.playerId
      /\ game'.lastAction.action = "Fold"

LeaverInHand == \E s \in ToSet(game.seats) : s.pendingLeave /\ s.inHand

\* A step of a running hand other than a buy-in, a cash-out or a removal moves
\* chips between stacks, bets and pots and loses none, provided that no leaver is
\* in the hand and no pot is abandoned: those are the two ways the code has to
\* drop chips (the eligible lists of HoldemPokerGame.cpp:221 and the skip at
\* :999).  With them it can only lose.
ChipsConserved ==
  [][InHand /\ ~RemovePendingLeavers
       /\ ~(\E p \in Players : CashOut(p) \/ \E n \in BuyIns : BuyIn(p, n)) =>
       \/ Money(game') = Money(game)
       \/ /\ Money(game') < Money(game)
          /\ LeaverInHand
               \/ \E pot \in ToSet(game.sidePots) : Abandoned(pot)]_vars

\* "Leaving during hand = auto-mode (check if free, else fold)" (HelpString.h:184):
\* what a leaver has bet stays on the table, as the bet of one who folds does.
LeaversBetsStay ==
  [][InHand /\ ~RemovePendingLeavers
       /\ ~(\E p \in Players : CashOut(p) \/ \E n \in BuyIns : BuyIn(p, n)) =>
       \/ Money(game') = Money(game)
       \/ \E pot \in ToSet(game.sidePots) : Abandoned(pot)]_vars

\* The step ends a hand and leaves a new result to be sent.
Announced ==
  /\ InHand /\ game'.stage = "Waiting" /\ game'.hasPendingHandResult
  /\ game.hasPendingHandResult => game'.lastHandResult # game.lastHandResult

\* Chips a player had in the pots when the hand ended, its last call included:
\* what it owned before the step less what it kept without its winnings.
PaidIn(entry) ==
  LET before == SeatOf(entry.playerId)
      after  == CHOOSE s \in ToSet(game'.seats) : s.playerId = entry.playerId
  IN  before.chips + before.totalBetThisHand - (after.chips - entry.chipsWon)

\* At a showdown nobody wins more from another player than it put in itself: a
\* short all-in takes only the layers it paid for, over all streets and split
\* pots (CollectBetsToSidePots, DistributePots).
WinsAreCovered ==
  [][Announced /\ game'.lastHandResult.isShowdown =>
       LET entries == game'.lastHandResult.players
       IN  \A e \in entries :
             e.chipsWon <=
               SumFunctionOnSet([f \in entries |-> Min({PaidIn(e), PaidIn(f)})], entries)
     ]_vars

\* The result sent to the players after a showdown is the payout that was made:
\* the entries add up to the pot unless a pot was skipped, and nobody who folded
\* is paid (HoldemPokerGame.cpp:968-1063).
ResultMatchesPayout ==
  [][Announced /\ game'.lastHandResult.isShowdown =>
       LET result == game'.lastHandResult
           paid   == SumFunctionOnSet([e \in result.players |-> e.chipsWon], result.players)
       IN  /\ \A e \in result.players : e.folded => e.chipsWon = 0
           /\ \/ paid = result.totalPot
              \/ paid < result.totalPot
                 /\ \E pot \in ToSet(game.sidePots) : Abandoned(pot)]_vars

\* The detailed table as a cash table: what a player owns is its stack and, in a
\* hand, what it has bet so far.
Stakes ==
  [p \in Players |-> IF p \in Seated
                     THEN SeatOf(p).chips + SeatOf(p).totalBetThisHand ELSE 0]

Playing == {p \in Seated : SeatOf(p).inHand}

Ledger == INSTANCE TableLedger WITH stake <- Stakes, playing <- Playing

\* Every call implements the ledger: what a player owns is frozen while it plays
\* a hand, a hand's end pays out at most what its players owned and touches
\* nobody else, and nobody buys in, cashes out or is removed while playing
\* (all of HoldemPokerGame.cpp; the sums run over every street and every pot).
ImplementsLedger == Ledger!Spec

-----------------------------------------------------------------------------
(* Liveness, and what the texts around the code say of it.                  *)

\* A hand that was dealt is played to its result, however the calls on seats are
\* mixed with the betting: "Hand result is broadcast automatically"
\* (HelpString.h:136).
HandEnds == InHand ~> ~InHand

\* The hand result is "valid after showdown/single winner"
\* (HoldemPokerGame.h:118): its entries hand out the pot it announces.
SingleWinnerIsPaid ==
  [][Announced /\ ~game'.lastHandResult.isShowdown =>
       LET result == game'.lastHandResult
       IN  SumFunctionOnSet([e \in result.players |-> e.chipsWon], result.players)
             = result.totalPot]_vars

=============================================================================
