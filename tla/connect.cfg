CONSTANTS
  Offers <- SomeOffers
  Answers <- SomeAnswers
  MaxSerial = 1
  MaxRetries = 1
SPECIFICATION FairConnSpec
CHECK_DEADLOCK FALSE
INVARIANTS ConnTypeOK UnitsAgreed TokensAgreed NumbersAgreed
PROPERTIES CallEnds NoHalfConnect ServiceKept
