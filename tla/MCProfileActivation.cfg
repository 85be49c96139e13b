CONSTANTS
  Authorities <- MCAuthorities
  Keys <- MCKeys

SPECIFICATION FairSpec
CHECK_DEADLOCK FALSE

INVARIANTS
  PromotedEverywhere
  AbandonedNowhere

PROPERTIES
  ImplementsSwitch
  CandidateSettles
