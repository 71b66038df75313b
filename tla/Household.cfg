SPECIFICATION Spec
CONSTANTS
  ann = ann
  bob = bob
  f1 = f1
  f2 = f2
  f3 = f3
  Members = {ann, bob}
  Tenants = {ann, bob}
  ShareForms <- SomeShares
  Agendas <- Mixes
  Requests = {r1}
  RosterSlots = {r2}
  None = None
  MonthLength = 2
  MaxNow = 3
  BillForms <- SomeBills
  ConfirmWindow = 1
  MaxBills = 1
  TemplateForms <- SomeTemplates
  MaxRecurring = 1
  Fines = {f1, f2}
  FineAmount <- Fined
  MonthlyRent = 2
  Charges <- SomeCharges
  Credits <- Advances
  Adjustments <- Corrections
  MaxSettlements = 2
  MaxEntries = 1
INVARIANTS TypeOK AdminRemains PaidOnlyOnceConfirmed EveryRupeeAccounted 
PROPERTIES BillsDecided NeverPassedOver
CHECK_DEADLOCK FALSE
