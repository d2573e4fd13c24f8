SPECIFICATION Spec
CONSTANTS
  Client = {c1, c2, c3}
  Zone <- MCZone
  Name <- MCName
  Pattern <- MCPattern
  Line <- MCLine
  Matches <- MCMatches
  Outcome = {"ok", "error", "warned"}
  None = None
INVARIANTS TypeOK OneZoneForOneName NoZoneMissed
