SPECIFICATION SerialSpec
CONSTANTS
  ann = ann
  bob = bob
  cat = cat
  dan = dan
  litter = litter
  Members = {ann, bob, cat, dan}
  Founders = {ann, bob, cat, dan}
  Fines = {f1, f2}
  Rules = {litter}
  Forms <- LitterForm
  Requests = {}
  None = None
  Passing = {"duplicate", "day", "confirm", "vote", "pay"}
  MaxComplaintsPerDay = 1
  DuplicateWindow = TRUE
  PaymentVerification = TRUE
SYMMETRY VoterSymmetry
INVARIANTS PaidAlias NoLiveDuplicate VerdictMatchesBallots
PROPERTIES FollowsLifecycle EarlyCloseHeardEveryone
CHECK_DEADLOCK FALSE
