-------------------------- MODULE HoldemPokerGame --------------------------
(***************************************************************************)
(* The Texas hold'em engine, class HoldemPokerGame: one table, as the        *)
(* server drives it.  Each action is one call from outside the class and    *)
(* the whole of what it does, down to the end of the chain of helpers it    *)
(* calls; AdvanceStage, AdvanceTurn, ResolveIfNeeded and FinishHand, which  *)
(* are public but called by the class alone, are such helpers.              *)
(* The class has no lock: the calls are serialised by its owner, in any     *)
(* order.  A call that is refused changes nothing and is a stuttering step. *)
(***************************************************************************)
EXTENDS HoldemTable

CONSTANTS
  Blinds,         \* the pairs <<small, big>> SetBlinds is called with
  BuyIns,         \* the amounts of BuyIn
  Amounts,        \* the amounts of HandleAction
  MaxMoney,       \* bound: BuyIn stops when the table holds this many chips
  BetweenHands,   \* the calls on seats the owner makes between hands
  DuringHand      \* and those it makes while a hand runs

SeatCalls == {"SitDown", "BuyIn", "StandUp", "SitBack", "CashOut",
              "MarkPendingLeave", "RemovePendingLeavers"}

ASSUME GameAssumption ==
  /\ Blinds \subseteq Int \X Int
  /\ BuyIns \subseteq Int
  /\ Amounts \subseteq Int
  /\ MaxMoney \in Nat
  /\ BetweenHands \subseteq SeatCalls
  /\ DuringHand \subseteq SeatCalls

VARIABLE game
vars == <<game>>

Stages  == {"Waiting", "PreFlop", "Flop", "Turn", "River", "Showdown"}
Actions == {"CheckCall", "Bet", "Raise", "AllIn", "Fold"}
NoOne   == "NoOne"     \* player id -1

NoAction == [playerId |-> NoOne, action |-> "CheckCall", amount |-> 0]
NoResult == [isShowdown |-> FALSE, totalPot |-> 0, players |-> {}]

InHand == game.stage # "Waiting"

\* Every call is accepted at any time; when the owner makes it is its choice.
Made(call) == call \in IF InHand THEN DuringHand ELSE BetweenHands

\* The position of a player's seat, GetSeatByPlayerId.
Seated == {s.playerId : s \in ToSet(game.seats)}
PositionOf(p) == CHOOSE i \in DOMAIN game.seats : game.seats[i].playerId = p
SeatOf(p) == game.seats[PositionOf(p)]

Money(g) ==
  SumSeq([i \in DOMAIN g.seats |-> g.seats[i].chips]) + GetTotalPot(g)

Init ==
  game = [stage |-> "Waiting", seats |-> <<>>, sidePots |-> <<>>,
          community |-> 0, deck |-> DeckSize,
          dealerIndex |-> 0, actingIndex |-> 0,
          lastBet |-> 0, lastRaise |-> 0,
          smallBlind |-> -1, bigBlind |-> -1, minBuyin |-> 1000,
          lastAction |-> NoAction,
          lastHandResult |-> NoResult, hasPendingHandResult |-> FALSE]

-----------------------------------------------------------------------------
(* Seats, buy-ins and blinds.                                               *)

SetBlinds(blinds) ==
  /\ ~InHand
  /\ \A s \in ToSet(game.seats) : ~IsOccupied(s)
  /\ blinds[1] > 0 /\ blinds[2] > 0
  /\ game' = [game EXCEPT !.smallBlind = blinds[1], !.bigBlind = blinds[2],
                          !.minBuyin = blinds[2] * BuyinFactor]

NewSeat(p, number) ==
  [seatIndex |-> number, playerId |-> p, chips |-> 0, currentBet |-> 0,
   totalBetThisHand |-> 0, inHand |-> FALSE, folded |-> FALSE, allIn |-> FALSE,
   pendingLeave |-> FALSE, sittingOut |-> TRUE, autoMode |-> FALSE,
   actedThisRound |-> FALSE]

\* push_back and the sort that follows it.
\* Mutant: the newcomer stays at the end.
SeatingMutant(seats, seat) == Append(seats, seat)

Seating(seats, seat) ==
  LET below == Cardinality({i \in DOMAIN seats : seats[i].seatIndex < seat.seatIndex})
  IN  SubSeq(seats, 1, below) \o <<seat>> \o SubSeq(seats, below + 1, Len(seats))

\* Takes the lowest free seat number whatever number was asked for, and sorts
\* the vector; the positions kept in the table are not adjusted.
SitDown(p) ==
  LET taken == {s.seatIndex : s \in ToSet(game.seats)}
      free  == (0 .. MaxSeats - 1) \ taken
  IN  /\ Made("SitDown")
      /\ p \notin Seated
      /\ AreBlindsSet(game)
      /\ free # {}
      /\ game' = [game EXCEPT !.seats = Seating(@, NewSeat(p, Min(free)))]

\* Mutant: chips can be bought during the hand.
BuyInMutant(p, amount) ==
  /\ Made("BuyIn")
  /\ p \in Seated
  /\ amount >= game.minBuyin
  /\ Money(game) + amount <= MaxMoney
  /\ game' = [game EXCEPT !.seats[PositionOf(p)].chips = @ + amount,
                          !.seats[PositionOf(p)].sittingOut = FALSE]

BuyIn(p, amount) ==
  /\ Made("BuyIn")
  /\ p \in Seated
  /\ amount >= game.minBuyin
  /\ ~SeatOf(p).inHand
  /\ Money(game) + amount <= MaxMoney
  /\ LET chips == SeatOf(p).chips + amount
     IN  game' = [game EXCEPT
           !.seats[PositionOf(p)].chips = chips,
           !.seats[PositionOf(p)].sittingOut = @ /\ chips < game.bigBlind]

StandUp(p) ==
  /\ Made("StandUp")
  /\ p \in Seated
  /\ game' = [game EXCEPT
       !.seats[PositionOf(p)].sittingOut = TRUE,
       !.seats[PositionOf(p)].autoMode = @ \/ SeatOf(p).inHand]

SitBack(p) ==
  /\ Made("SitBack")
  /\ p \in Seated
  /\ SeatOf(p).chips >= game.bigBlind
  /\ game' = [game EXCEPT !.seats[PositionOf(p)].sittingOut = FALSE,
                          !.seats[PositionOf(p)].autoMode = FALSE]

MarkPendingLeave(p) ==
  /\ Made("MarkPendingLeave")
  /\ p \in Seated
  /\ game' = [game EXCEPT !.seats[PositionOf(p)].pendingLeave = TRUE,
                          !.seats[PositionOf(p)].autoMode = TRUE]

\* Mutant: a player may take its chips off the table during the hand.
CashOutMutant(p) ==
  /\ Made("CashOut")
  /\ p \in Seated
  /\ game' = [game EXCEPT !.seats[PositionOf(p)].chips = 0,
                          !.seats[PositionOf(p)].sittingOut = TRUE]

CashOut(p) ==
  /\ Made("CashOut")
  /\ p \in Seated
  /\ ~SeatOf(p).inHand
  /\ game' = [game EXCEPT !.seats[PositionOf(p)].chips = 0,
                          !.seats[PositionOf(p)].sittingOut = TRUE]

\* Mutant: a leaver is removed from the hand it is still in.
LeavesMutant(s) == s.pendingLeave

Leaves(s) == s.pendingLeave /\ ~s.inHand

\* Mutant: the place to act is kept as an index.
ActingInMutant(kept) ==
  IF game.actingIndex < Len(kept) THEN game.actingIndex ELSE 0

\* Where the player to act stands among the seats kept; the first seat when it
\* is gone.
ActingIn(kept) ==
  LET same == IF game.actingIndex \in Positions(game)
              THEN {i \in DOMAIN kept :
                      kept[i].playerId = At(game, game.actingIndex).playerId}
              ELSE {}
  IN  IF same = {} THEN 0 ELSE Min(same) - 1

\* Mutant: a button with no seat behind it goes to the first seat.
DealerInMutant(kept) ==
  LET number == At(game, game.dealerIndex).seatIndex
      behind == {i \in DOMAIN kept : kept[i].seatIndex <= number}
  IN  IF behind = {} THEN 0 ELSE Max(behind) - 1

\* Where the dealer stands: at its seat number, or at the last seat with a lower
\* one, or at the last seat.
DealerIn(kept) ==
  LET number == At(game, game.dealerIndex).seatIndex
      behind == {i \in DOMAIN kept : kept[i].seatIndex <= number}
  IN  CASE kept = <<>> \/ game.dealerIndex \notin Positions(game) -> 0
        [] behind # {} -> Max(behind) - 1
        [] OTHER -> Len(kept) - 1

RemovePendingLeavers ==
  LET kept == Erase(game.seats, {i \in DOMAIN game.seats : Leaves(game.seats[i])})
  IN  /\ Made("RemovePendingLeavers")
      /\ game' = [game EXCEPT !.seats = kept, !.actingIndex = ActingIn(kept),
                              !.dealerIndex = DealerIn(kept)]

ClearPendingHandResult ==
  /\ game.hasPendingHandResult
  /\ game' = [game EXCEPT !.hasPendingHandResult = FALSE]

-----------------------------------------------------------------------------
(* Starting a hand.                                                         *)

Post(g, i, blind) ==
  LET pay == Min({blind, At(g, i).chips})
  IN  RecordLastAction([g EXCEPT !.seats[i + 1] = PutIn(@, pay)],
                       At(g, i).playerId, "Bet", pay)

PostBlinds(g) ==
  LET sb   == FindNextValidBlindPosition(g, g.dealerIndex + 1)
      bb   == FindNextValidBlindPosition(g, sb + 1)
      both == Post(Post(g, sb, g.smallBlind), bb, g.bigBlind)
  IN  IF {g.dealerIndex, sb, bb} \subseteq Positions(g)
      THEN [both EXCEPT !.lastBet = both.lastAction.amount, !.lastRaise = g.bigBlind]
      ELSE g

\* The seats as the hand begins: those too short for the big blind sit out,
\* the active ones are dealt in.
DealtIn(g) ==
  Vector([i \in DOMAIN g.seats |->
    LET s == g.seats[i]
    IN  [s EXCEPT !.currentBet = 0, !.totalBetThisHand = 0,
                  !.inHand = IsSeatActive(g, s), !.folded = FALSE, !.allIn = FALSE,
                  !.sittingOut = @ \/ (IsOccupied(s) /\ s.chips < g.bigBlind)]])

\* The button moves to the next seat dealt in and the blinds are posted.
ButtonMoved(g) ==
  LET button == FindNextValidBlindPosition(g, g.dealerIndex + 1)
  IN  PostBlinds([g EXCEPT !.dealerIndex = IF button < Len(g.seats) THEN button ELSE @])

\* Two cards each, and the turn to the seat after the big blind.
FirstToAct(g) ==
  LET sb == FindNextValidBlindPosition(g, g.dealerIndex + 1)
      bb == FindNextValidBlindPosition(g, sb + 1)
  IN  IF bb < Len(g.seats) THEN NextActiveIndex(g, bb + 1) ELSE Len(g.seats)

HandStarted(g) ==
  LET posted == ButtonMoved([g EXCEPT !.stage = "PreFlop", !.community = 0,
                                      !.sidePots = <<>>, !.seats = DealtIn(g)])
      drawn  == 2 * Cardinality({i \in DOMAIN posted.seats : posted.seats[i].inHand})
  IN  [posted EXCEPT
        !.seats = Vector([i \in DOMAIN posted.seats |->
                            [posted.seats[i] EXCEPT !.actedThisRound = FALSE]]),
        !.deck  = Max({0, DeckSize - drawn}),
        !.actingIndex = FirstToAct(posted)]

\* StartHand, also reached from HandleAction between hands.
StartHand ==
  /\ CanStart(game)
  /\ game' = HandStarted(game)

-----------------------------------------------------------------------------
(* Playing a hand.                                                          *)

\* The total bet that an amount stands for, and what it does to the table's
\* lastBet and lastRaise: the branches of the switch in HandleAction.
BetTo(g, s, amount) == Min({amount, GetMaxAllowedTotalBet(g, s)})
AllInTo(g, s) == Min({s.currentBet + s.chips, GetMaxAllowedTotalBet(g, s)})

\* Mutant: a raise is not capped by the stacks.
RaiseToMutant(g, s, amount) == g.lastBet + amount

RaiseTo(g, s, amount) == Min({g.lastBet + amount, GetMaxAllowedTotalBet(g, s)})

CallTo(g, s) == s.currentBet + Min({s.chips, Max({0, g.lastBet - s.currentBet})})

Legal(g, s, action, amount) ==
  LET maxTotal == s.currentBet + s.chips
      bet      == BetTo(g, s, amount)
      raise    == RaiseTo(g, s, amount)
  IN  CASE action = "Bet" ->
             /\ g.lastBet <= 0
             /\ bet > s.currentBet
             /\ bet = maxTotal \/ bet >= g.bigBlind
        [] action = "Raise" ->
             /\ g.lastBet > 0
             /\ amount >= 0
             /\ raise > s.currentBet
             /\ \/ raise = GetMaxAllowedTotalBet(g, s)
                \/ raise - g.lastBet > 0 /\ raise - g.lastBet >= g.lastRaise
        [] action = "AllIn" -> s.chips > 0
        [] OTHER -> TRUE

\* An opening bet always reopens the betting; a raise does when it is at least
\* as large as the last one.
Reopens(g, action, total) ==
  /\ action \in {"Bet", "Raise", "AllIn"}
  /\ g.lastBet = 0 \/ total - g.lastBet >= g.lastRaise

\* Mutant: an all-in that is too short for a raise does not count as one.
LastBetAfterMutant(g, action, total) == IF Reopens(g, action, total) THEN total ELSE g.lastBet

LastBetAfter(g, action, total) ==
  IF action \in {"Bet", "Raise", "AllIn"} THEN Max({g.lastBet, total}) ELSE g.lastBet

LastRaiseAfter(g, action, total) ==
  IF ~Reopens(g, action, total) THEN g.lastRaise
  ELSE IF g.lastBet = 0 THEN Max({g.bigBlind, total}) ELSE total - g.lastBet

\* The bet the seat has in after its action.
TotalBet(g, s, action, amount) ==
  CASE action = "Bet" -> BetTo(g, s, amount)
    [] action = "Raise" -> RaiseTo(g, s, amount)
    [] action = "AllIn" -> AllInTo(g, s)
    [] action = "CheckCall" -> CallTo(g, s)
    [] OTHER -> s.currentBet

\* The seat that acts, and what a raise does to another one.
Moved(s, action, total) ==
  [PutIn(s, total - s.currentBet) EXCEPT !.folded = action = "Fold",
                                         !.actedThisRound = TRUE]

Reopened(s, raised) ==
  [s EXCEPT !.actedThisRound = @ /\ ~(raised /\ Alive(s) /\ ~s.allIn)]

Played(g, action, amount) ==
  LET i      == g.actingIndex + 1
      s      == g.seats[i]
      total  == TotalBet(g, s, action, amount)
      raised == Reopens(g, action, total)
  IN  RecordLastAction(
        [g EXCEPT
          !.seats = Vector([j \in DOMAIN g.seats |->
                              IF j = i THEN Moved(s, action, total)
                              ELSE Reopened(g.seats[j], raised)]),
          !.lastBet = LastBetAfter(g, action, total),
          !.lastRaise = LastRaiseAfter(g, action, total)],
        s.playerId, action, total - s.currentBet)

HandleAction(p, action, amount) ==
  /\ InHand
  /\ game.actingIndex \in Positions(game)
  /\ At(game, game.actingIndex).playerId = p
  /\ CanAct(At(game, game.actingIndex))
  /\ Legal(game, At(game, game.actingIndex), action, amount)
  /\ game' \in Outcomes(PlayOn(Played(game, action, amount)))

\* The seat to act plays itself when its player stood up or left: it checks
\* for free and folds to a bet.
AutoPlayed(g) ==
  LET s     == At(g, g.actingIndex)
      folds == g.lastBet > s.currentBet
  IN  RecordLastAction(
        [g EXCEPT !.seats[g.actingIndex + 1].folded = folds,
                  !.seats[g.actingIndex + 1].actedThisRound = TRUE],
        s.playerId, IF folds THEN "Fold" ELSE "CheckCall", 0)

ProcessAutoModePlayer ==
  LET g == [game EXCEPT !.actingIndex = IF @ >= Len(game.seats) THEN 0 ELSE @]
      s == At(g, g.actingIndex)
  IN  /\ InHand
      /\ game.seats # <<>>
      /\ IF CanAct(s) /\ (s.autoMode \/ s.pendingLeave)
         THEN game' \in Outcomes(PlayOn(AutoPlayed(g)))
         ELSE game' = g

-----------------------------------------------------------------------------

\* A player takes its turn.
TakeTurn ==
  \E p \in Players :
    \/ \E action \in {"CheckCall", "AllIn", "Fold"} : HandleAction(p, action, 0)
    \/ \E action \in {"Bet", "Raise"}, amount \in Amounts :
         HandleAction(p, action, amount)

\* The calls the owner makes of its own.
TableCall ==
  \/ \E blinds \in Blinds : SetBlinds(blinds)
  \/ \E p \in Players :
       \/ SitDown(p)
       \/ \E amount \in BuyIns : BuyIn(p, amount)
       \/ StandUp(p)
       \/ SitBack(p)
       \/ MarkPendingLeave(p)
       \/ CashOut(p)
  \/ RemovePendingLeavers
  \/ ClearPendingHandResult
  \/ StartHand
  \/ ProcessAutoModePlayer

Next == TakeTurn \/ TableCall

Spec == Init /\ [][Next]_vars

=============================================================================
