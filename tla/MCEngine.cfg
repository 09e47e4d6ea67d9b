SPECIFICATION EngineSpec
CONSTANTS
  LooseOf <- Loose
  TooLong = {"long"}
  Chart = {"200", "201"}
  Malformed = {"?"}
  Input <- Documents
INVARIANTS
  MatchedMeansAgreement
  CopyIsMatched
  OnlyWordingIsAsked
  OrderDoesNotMatter
  RoutedByCause
CHECK_DEADLOCK FALSE
