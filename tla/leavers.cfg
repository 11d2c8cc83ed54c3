\* Three players with uneven stacks, side pots over several streets, and players who
\* leave, and are removed, during the hand.
SPECIFICATION Spec
CONSTANTS
  Players = {p1, p2, p3}
  Viewers = {}
  MaxSeats = 3
  DeckSize = 11
  BuyinFactor = 1
  Blinds <- NormalBlinds
  BuyIns = {2, 3}
  Amounts = {2}
  MaxMoney = 8
  BetweenHands = {"SitDown", "BuyIn", "RemovePendingLeavers"}
  DuringHand = {"MarkPendingLeave", "RemovePendingLeavers"}
SYMMETRY SymPlayers
VIEW OnTheTable
INVARIANTS TurnIsLive PotsAreOwned SeatsInOrder BoardMatchesStage NothingLeftOver
           LastBetIsHighest
PROPERTIES TurnSurvivesRemoval ButtonFallsBack ChipsConserved WinsAreCovered ResultMatchesPayout
           ImplementsLedger
CHECK_DEADLOCK FALSE
