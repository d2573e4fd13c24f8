SPECIFICATION FairSpec
CONSTANTS
  Socket = {s1, s2}
  Host = {h1, h2}
  MaxEvents = 2
  Faults = TRUE
  None = None
INVARIANTS TypeOK UndisturbedInputOnTarget
PROPERTIES EstablishedShellsSurvive ShellsSpec UndisturbedEventAnswered
CHECK_DEADLOCK FALSE
