SPECIFICATION Spec
CONSTANTS
  Runs = {1, 2}  Imported = {2}
  Answers <- LocatedAnswers  Brand = "brand"  Rivals = {"rival"}  Configs <- TwoConfigs
  SpendCap = 2  Extraction = TRUE
  MaxRepeats = 1  MaxEvents = 1  AtOnce = 2
  NoRow = NoRow
INVARIANTS DerivedOnce BlindRowsHaveCause ExtractionWithinCap AioFromDefaultLocation
CHECK_DEADLOCK FALSE
