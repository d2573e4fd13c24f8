SPECIFICATION Spec
CONSTANTS
  User = {u1, u2}
  Client = {c1, c2}
  VmName = {n1, n2, n3}
  Mac = {m1, m2}
  Ip = {i1, i2, bad}
  InvalidIp = {bad}
  Op = {"create", "start", "shutdown", "force", "destroy"}
  Outcome = {"ok", "error"}
  Faults = FALSE
  None = None
SYMMETRY Symmetry
INVARIANTS TypeOK EveryMachineRecorded EveryRowHasItsMachine SpinsOnlyWhenExhausted
PROPERTY OthersMachinesUntouched
CHECK_DEADLOCK FALSE
