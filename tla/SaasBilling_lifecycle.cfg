SPECIFICATION FairSpec
CONSTANTS
  MaxSubs = 2
  Price = 2
  PeriodLen = 2
  DueDays = 1
  GraceDays = 1
  UnlockDays = 1
  TrialDays = 2
  MaxCatchup = 2
  MaxNow = 3
  MaxInvoices = 2
  Scenarios = {{"pay", "plan", "courtesy"}, {"pay", "plan", "invoice"},
               {"status", "trial", "blacklist", "subscription"},
               {"provision", "plan"}, {"dunning", "pay", "invoice"},
               {"substatus", "invoice"}}
INVARIANTS
  TypeOK
  DebtsAreSound
PROPERTIES
  AccessChangesArePublished
  DebtCostsAccess
