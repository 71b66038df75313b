SPECIFICATION Spec
CONSTANTS
  ann = ann
  bob = bob
  litter = litter
  Members = {ann, bob, cat, dan}
  Founders = {ann, bob, cat}
  Fines = {f1}
  Rules = {}
  Forms <- OneForm
  Requests = {q1}
  None = None
  Passing = {"confirm", "vote", "pay"}
  MaxComplaintsPerDay = 0
  DuplicateWindow = FALSE
  PaymentVerification = FALSE
PROPERTY Concludes
CHECK_DEADLOCK FALSE
