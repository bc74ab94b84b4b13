CONSTANTS
  Entries = {"pair", "replace", "rebuild"}
  MaxAttempts = 2
SPECIFICATION FairSpec
INVARIANTS TypeOK ReleasedOnExit ExchangeCovered
PROPERTIES KeepsContract CallEnds
