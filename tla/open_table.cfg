\* Three players who sit, buy in, cash out, stand up and come back at any time, with
\* seats free below the dealer as well.
SPECIFICATION Spec
CONSTANTS
  Players = {p1, p2, p3}
  Viewers = {}
  MaxSeats = 3
  DeckSize = 52
  BuyinFactor = 1
  Blinds <- NormalBlinds
  BuyIns = {2, 3}
  Amounts = {2}
  MaxMoney = 6
  BetweenHands = {"SitDown", "BuyIn", "CashOut", "StandUp", "SitBack"}
  DuringHand = {"SitDown", "BuyIn", "CashOut", "StandUp", "SitBack"}
SYMMETRY SymPlayers
VIEW OnTheTable
INVARIANTS TypeOK AllInIffBroke 
PROPERTIES ImplementsLedger
CHECK_DEADLOCK FALSE
