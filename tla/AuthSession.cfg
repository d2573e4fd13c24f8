SPECIFICATION Spec
CONSTANTS
  Client = {c1, c2}
  UserId = {u1}
  Username = {ann}
  Email = {e1}
  Password = {p1, p2}
  VmName = {v1}
  Lifespan = 1
  MaxTime = 2
  Faults = TRUE
  Deletions = TRUE
  None = None
  Deleted = Deleted
SYMMETRY Symmetry
INVARIANTS IInv SessionCoversToken
PROPERTY AccountsSpec
