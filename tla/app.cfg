SPECIFICATION Spec
CONSTANTS
  face = face
  blank = blank
  Pictures = {face, blank}
  EmptyPictures = {blank}
  Nothing = Nothing
  MaxCalls = 2
  MaxChoices = 2
  Requests <- MCRequests
  NoRequest = 0
  MaxConns = 2
  Workers = 1
  CurlTimeout = 2
  Deadline = 3
  MaxCrashes = 1
CHECK_DEADLOCK FALSE
INVARIANTS ObjectUrlsSound BusyHasRequest AnswersMatch AnsweredInTime
PROPERTIES RestoreEnds
