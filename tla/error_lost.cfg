\* The program prints an error message and stops the console.
SPECIFICATION Spec
CONSTANTS
  Lines = {"QUIT", "TEXT"}
  MaxCommands = 0
  MaxHalves = 0
INVARIANTS FailureIsPrinted
CHECK_DEADLOCK FALSE
