CONSTANTS
  Users = {"u"}
  Tasks = {"read", "search"}
  Owner <- OneUser
  Searches = {"search"}
  Timed = {"search"}
  Dsas = {"a", "b"}
  OffNet = {"x"}
  Refs <- SomeRefs
  Referrals <- SomeReferrals
  Relays <- OneRelay
  MaxConns = 2
  Reserved = 1
  MaxSubs = 2
SPECIFICATION DirSpec
CHECK_DEADLOCK FALSE
INVARIANTS DirTypeOK AnsweredOnce  
PROPERTIES KeepsItsOwn  WaitEnds
