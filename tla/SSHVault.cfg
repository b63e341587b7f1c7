CONSTANTS
  p1 = p1
  p2 = p2
  k1 = k1
  k2 = k2
  x1 = x1
  Procs = {p1, p2}
  MaxWindows = 1
  Keys = {k1, k2}
  Passwords = {x1}
  MaxRows = 2
  Blank = Blank
  Partial = Partial
  None = None
SPECIFICATION Spec
INVARIANTS
  Readable
  SelectionNotDeletedHere
PROPERTY ImplementsPasswordStore
CHECK_DEADLOCK FALSE
