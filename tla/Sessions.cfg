SPECIFICATION Spec
CONSTANTS
  old = old
  Members = {ann}
  Passwords = {old, p1, p2}
  FirstPassword = old
  MaxFailures = 2
  MaxTickets = 2
  MaxVersion = 2
  SignIns = {s1}
  Endings = {e1}
  Asks = {a1}
  Codes = {k1}
  None = None
SYMMETRY Symmetry
INVARIANTS TypeOK SignedOutStaysOut MissesCounted OneWayIn
CHECK_DEADLOCK FALSE
