SPECIFICATION Spec
CONSTANTS
  User = {u1}
  Client = {c1, c2}
  VmName = {n1, n2}
  Mac = {m1, m2, m3}
  Ip = {i1, i2, bad}
  InvalidIp = {bad}
  Op = {"create"}
  Outcome = {"ok", "error", "silent"}
  Faults = FALSE
  None = None
INVARIANT ReservedBeforeInstalled
SYMMETRY Symmetry
