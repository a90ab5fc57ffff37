SPECIFICATION FairSpec
CONSTANTS
  l1 = l1
  l2 = l2
  c1 = c1
  i1 = i1
  i2 = i2
  Lead <- MCLead
  Company <- MCCompany
  CompanyOf <- MCCompanyOf
  Unusable <- NoLead
  Ingest <- MCIngest
  RowsOf <- MCRowsOf
  Failing <- NoTask
  Parallel = 2
  MaxAttempts = 2
  MaxFaults = 0
CHECK_DEADLOCK FALSE
PROPERTY
  EveryValidLeadIsDrafted
