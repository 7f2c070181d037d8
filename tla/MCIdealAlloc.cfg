CONSTANTS
  Nothing = Nothing
  Others = Others
  Client = {c1, c2}
  max_spaces = 2
  Request <- MCRequest
SPECIFICATION AllocSpec
PROPERTIES ImplementsRegionTable FirstOverlapIsAround AnswersSettle
CHECK_DEADLOCK FALSE
