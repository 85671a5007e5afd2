SPECIFICATION Spec
CONSTANTS
  Words = {"guide", "usage", "lease", "timer", "recovery", "and", "absent"}
  Index <- MCIndex
  Queries <- MCQueries
  Limit = 2
  MaxKeys = 6
INVARIANTS
  SearchTypeOK
  ListAnswersQuery
  SelectionInList
CHECK_DEADLOCK FALSE
