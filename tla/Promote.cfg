CONSTANTS
  N = 2
  Guarded = TRUE
SPECIFICATION FairSpec
CHECK_DEADLOCK FALSE
INVARIANTS
  TypeOK
  OneBuildPerPromote
  PromotionsComplete
  DrainedOnReturn
PROPERTY PromotesAnswered
