\* Every deal of ten decks of nine cards.
SPECIFICATION Spec
CONSTANTS
  Decks <- HandDecks
INVARIANTS KindIsRight FirstThreeDecide
CHECK_DEADLOCK FALSE
