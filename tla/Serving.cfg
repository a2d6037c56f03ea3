SPECIFICATION Spec
CONSTANTS
  r1 = r1
  r2 = r2
  KindsOf <- MCKindsOf
  Requests = {r1, r2}
  Calls = {r1, r2, c3}
  NoOne = NoOne
  MaxTokens = 1
  Periods = {1, 2}
  Limit = 4
  Minimum = 1
  Forecasts = {2}
  Amounts = {3}
  Ids = {1, 2, 3}
  Branches <- MCBranches
  RankConstant = 2
  Weights <- MCWeights
  TopKs = {1, 2}
  MaxRanked = 2
  Pieces = {1, 2, 3, 4}
  Questions <- MCQuestions
  DocumentOf <- MCDocumentOf
  PlaceOf <- MCPlaceOf
  ParentOf <- MCParentOf
  Known = {1, 2, 3}
  Budgets = {2, 3}
  MaxRelated = 2
  MaxItems = 2
  MaxItemSize = 2
  MaxCitations = 2
  MaxMessages = 3
  MaxHistory = 3
INVARIANTS ReplyStored  KeepsTheBest BestAlwaysIn
PROPERTY KeepsLedger
CHECK_DEADLOCK FALSE
