SPECIFICATION Spec
CONSTANTS
  MaxSubs = 2
  Price = 2
  PeriodLen = 2
  DueDays = 1
  GraceDays = 1
  UnlockDays = 2
  TrialDays = 2
  MaxCatchup = 2
  MaxNow = 4
  MaxInvoices = 3
  Scenarios = {{"pay", "plan", "courtesy"}}
PROPERTIES
  CourtesyKeepsAccess
