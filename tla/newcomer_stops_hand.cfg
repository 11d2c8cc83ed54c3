\* A newcomer who sits down during the hand in a lower seat takes the turn away.
SPECIFICATION FairSpec
CONSTANTS
  Players = {p1, p2, p3}
  Viewers = {}
  MaxSeats = 3
  DeckSize = 52
  BuyinFactor = 1
  Blinds <- NormalBlinds
  BuyIns = {2}
  Amounts = {2}
  MaxMoney = 4
  BetweenHands = {"SitDown", "BuyIn", "MarkPendingLeave", "RemovePendingLeavers"}
  DuringHand = {"SitDown"}
PROPERTIES HandEnds
CHECK_DEADLOCK FALSE
