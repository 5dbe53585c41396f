SPECIFICATION FairSeriesSpec
CONSTANTS
  NumPages = 2
  MaxRuns = 2
  MaxStarts = 2
  MaxByHand = 2
  HandPages = {1}
INVARIANTS PlayersPlay
PROPERTIES UploadSealsTheWords SeriesEnds
CHECK_DEADLOCK FALSE
