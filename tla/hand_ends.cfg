\* Two players and every call but a newcomer during the hand: liveness, and
\* what the clients are sent.  Either player is in every place, so that one viewer
\* stands for both.
SPECIFICATION FairSpec
CONSTANTS
  Players = {p1, p2}
  Viewers = {p1}
  MaxSeats = 2
  DeckSize = 52
  BuyinFactor = 1
  Blinds <- NormalBlinds
  BuyIns = {3}
  Amounts = {2}
  MaxMoney = 6
  BetweenHands = {"SitDown", "BuyIn", "RemovePendingLeavers"}
  DuringHand = {"StandUp", "MarkPendingLeave", "SitBack"}
INVARIANTS CopyIsTheTable ResultArrives
PROPERTIES HandEnds
CHECK_DEADLOCK FALSE
