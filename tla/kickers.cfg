\* Every deal of a deck with few pairs.
SPECIFICATION Spec
CONSTANTS
  Decks <- KickerDecks
INVARIANTS HigherIsBetter
CHECK_DEADLOCK FALSE
