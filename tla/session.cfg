\* Two rooms and two texts; two packs on the way each way.
SPECIFICATION Spec
CONSTANTS
  Lines <- SmallLines
  Probes <- ManyLines
  MaxOutbox = 2
  MaxStream = 2
  MaxTexts = 2
INVARIANTS LinesMean TextsReachMembers NeverTakesNothing
PROPERTIES TakenInOrder TextsAreSaid
CHECK_DEADLOCK FALSE
