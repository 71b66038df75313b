SPECIFICATION Spec
CONSTANTS
  ann = ann
  cat = cat
  curfew = curfew
  late = late
  quiet = quiet
  Members = {ann, bob, cat}
  Tenants = {ann, bob}
  Moving = {bob}
  Proposals = {p1}
  Rules = {curfew, guests}
  HouseRules = {curfew}
  SeedRule <- Seed
  Drafts <- OneOfEach
  Edits <- Raise
  Requests = {q1}
  None = None
  Passing = {"day", "vote"}
  Quorum = 2
  PassPct = 60
  MinYes = 1
  RequireReview = FALSE
  MaxProposalsPerDay = 0
  MaxVersions = 2
PROPERTY DueVotesClose
CHECK_DEADLOCK FALSE
