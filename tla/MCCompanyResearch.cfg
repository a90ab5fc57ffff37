SPECIFICATION Spec
CONSTANTS
  p1 = p1
  p2 = p2
  Pass <- MCPass
  Home = "/"
  Careers <- MCCareers
  Elsewhere <- MCElsewhere
  Overviews <- MCOverviews
  News <- MCNews
  Boards <- MCBoards
  HintOf <- MCHintOf
  TextOf <- MCTextOf
  Served <- MCServed
  Brief <- MCBrief
  JobNo <- MCJobNo
  PromptItems = 2
  MaxExpired = 1
SYMMETRY PassSymmetry
CHECK_DEADLOCK FALSE
INVARIANTS
  OneFetchPerPage
  PaidForNewsOnly
  
  RowIsOfOnePass
PROPERTY
  ImplementsColumns
