\* Any number of lines, one waiting at a time; three halves of packs,
\* received in any chunks.
SPECIFICATION Spec
CONSTANTS
  Lines = {"QUIT", "TEXT"}
  MaxCommands = 1
  MaxHalves = 3
INVARIANTS OutputIsSignalled StopMeetsNoReader
PROPERTIES HandledInOrder QuitEnds OutputIsShown LinesAreRead TasksAreHandled
CHECK_DEADLOCK FALSE
