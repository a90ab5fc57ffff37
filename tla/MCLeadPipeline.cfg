SPECIFICATION FairSpec
CONSTANTS
  l1 = l1
  l2 = l2
  c1 = c1
  i1 = i1
  i2 = i2
  Lead <- MCLead
  Company <- MCCompany
  CompanyOf <- MCCompanyOf
  Unusable <- NoLead
  Ingest <- MCIngest
  RowsOf <- MCRowsOf
  Failing <- MCFailing
  Parallel = 2
  MaxAttempts = 2
  MaxFaults = 1
CHECK_DEADLOCK FALSE
INVARIANTS
  FitHasResearch
  ResearchPaidOnce
PROPERTIES
  StatusAdvances
  WaitingLeadIsDrafted
  ImplementsParts
