\* With a gap in the seat numbers the result gives the pot to nobody.
SPECIFICATION Spec
CONSTANTS
  Players = {p1, p2, p3}
  Viewers = {}
  MaxSeats = 3
  DeckSize = 52
  BuyinFactor = 1
  Blinds <- NormalBlinds
  BuyIns = {4}
  Amounts = {2}
  MaxMoney = 8
  BetweenHands = {"SitDown", "BuyIn", "MarkPendingLeave", "RemovePendingLeavers"}
  DuringHand = {}
PROPERTIES SingleWinnerIsPaid
CHECK_DEADLOCK FALSE
