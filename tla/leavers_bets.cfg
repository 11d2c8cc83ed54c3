\* A player who leaves with a bet in front of it.
SPECIFICATION Spec
CONSTANTS
  Players = {p1, p2, p3}
  Viewers = {}
  MaxSeats = 3
  DeckSize = 11
  BuyinFactor = 1
  Blinds <- NormalBlinds
  BuyIns = {2, 3}
  Amounts = {2}
  MaxMoney = 8
  BetweenHands = {"SitDown", "BuyIn", "RemovePendingLeavers"}
  DuringHand = {"MarkPendingLeave", "RemovePendingLeavers"}
SYMMETRY SymPlayers
VIEW OnTheTable
PROPERTIES LeaversBetsStay
CHECK_DEADLOCK FALSE
