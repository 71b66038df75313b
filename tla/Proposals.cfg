SPECIFICATION Spec
CONSTANTS
  ann = ann
  cat = cat
  curfew = curfew
  late = late
  quiet = quiet
  Members = {ann, bob, cat}
  Tenants = {ann, bob}
  Moving = {}
  Proposals = {p1}
  Rules = {curfew, guests}
  HouseRules = {curfew}
  SeedRule <- Seed
  Drafts <- OneOfEach
  Edits <- Raise
  Requests = {q1, q2}
  None = None
  Passing = {"vote"}
  Quorum = 2
  PassPct = 60
  MinYes = 1
  RequireReview = TRUE
  MaxProposalsPerDay = 1
  MaxVersions = 2
SYMMETRY SlotSymmetry
INVARIANTS TypeOK
PROPERTIES FollowsLifecycle
CHECK_DEADLOCK FALSE
