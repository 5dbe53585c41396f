SPECIFICATION SeriesSpec
CONSTANTS
  NumPages = 2
  MaxRuns = 2
  MaxStarts = 2
  MaxByHand = 0
  HandPages = {}
PROPERTIES ResumesWhereItStopped
CHECK_DEADLOCK FALSE
