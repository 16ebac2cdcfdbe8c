SPECIFICATION Spec
CONSTANTS
  Token <- MCToken
  ShortOption <- OptString
  LongOption <- LongOptions
  CommandLine <- MCCommandLine
  Number <- MCNumber
  TooLarge = {"huge"}
INVARIANTS
  Parted
  ReportedAsGiven
  ExtraFromOneOption
  HandlersAsAsked
  MessageGoesOut
PROPERTY Ends
CHECK_DEADLOCK FALSE
