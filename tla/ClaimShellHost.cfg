SPECIFICATION Spec
CONSTANTS
  Socket = {s1, s2}
  Host = {h1, h2}
  MaxEvents = 2
  Faults = FALSE
  None = None
INVARIANT ShellOnRequestedHost
CHECK_DEADLOCK FALSE
