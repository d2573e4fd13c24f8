SPECIFICATION Spec
CONSTANTS
  User = {u1, u2}
  Client = {c1, c2}
  Username = {ann, bob}
  Email = {e1, e2}
  Password = {p1}
  VmName = {n1}
  Mac = {m1}
  Ip = {i1, bad}
  InvalidIp = {bad}
  Lifespan = 1
  MaxTime = 1
  AuthOp = {"login", "validateToken"}
  Op = {"create", "destroy"}
  Outcome = {"ok", "error"}
  Faults = TRUE
  None = None
  Deleted = Deleted
SYMMETRY Symmetry
INVARIANTS TokensListOwnMachines
PROPERTIES VmSpec AuthSteps

