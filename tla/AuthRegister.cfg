SPECIFICATION Spec
CONSTANTS
  Client = {c1, c2}
  UserId = {u1, u2}
  Username = {ann, bob}
  Email = {e1, e2}
  Password = {p1}
  VmName = {}
  Lifespan = 1
  MaxTime = 0
  Faults = FALSE
  Deletions = FALSE
  None = None
  Deleted = Deleted
SYMMETRY Symmetry
INVARIANTS TypeOK UniqueAccounts
