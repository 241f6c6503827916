SPECIFICATION ChatSpec
CONSTANTS
  MaxId = 3
  MaxTime = 1
  MaxSent = 2
  PageSize = 1
  Reviewers = {v1}
INVARIANTS
    ReceiptsAreTrue
    PagingIsComplete
PROPERTIES
    AnsweredOrFailed
CHECK_DEADLOCK FALSE
