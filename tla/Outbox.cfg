SPECIFICATION Spec
CONSTANTS
  ann = ann
  bob = bob
  Members = {ann, bob}
  MaxJobs = 3
  Audiences <- Lists
  Tokens = {t1}
  BatchLimit = 2
  MaxFailures = 2
  None = None
INVARIANTS TypeOK SettledInOrder RedeliveredOnlyAfterFailure
PROPERTIES ImplementsDelivery OnlyDeadTokensPruned EverythingIsSent
CHECK_DEADLOCK FALSE
