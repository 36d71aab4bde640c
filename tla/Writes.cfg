INIT MCInit
NEXT MCNext
CONSTANTS
  MaxRow = 7
  MaxCol = 3
  Works <- WorkNames
  InitBooks <- WorkBooks
  Ops <- WorkOps
  MaxOps <- WorkMax
  Policies = {"warn", "fail", "off"}
  FooterLabels = {"total"}
  Numerals = {"1", "2", "9"}
CHECK_DEADLOCK FALSE
INVARIANTS
  PathsAgree
  AnswerExplainsDocument
  DiffIsExact
  ProvedMeansSame
PROPERTIES
  ReferencesFollowTheEdit
  CopiesKeepTheirMeaning
  PlanIsWhatHappens
