SPECIFICATION Spec
CONSTANTS
  ann = ann
  bob = bob
  cat = cat
  annie = annie
  rob = rob
  kit = kit
  Members = {ann, bob, cat}
  Founders = {ann}
  NameOf <- AnnsName
  Usernames = {annie, rob, kit}
  Emails = {e1}
  Invites = {i1}
  Starts <- OneMailbox
  MaxChallenges = 2
  MaxAttempts = 1
  Requests = {r1, r2}
  None = None
  Purged = Purged
SYMMETRY Symmetry
INVARIANTS TypeOK EmailsUnique InviteAdmitsOne
PROPERTIES ClosedForGood
CHECK_DEADLOCK FALSE
