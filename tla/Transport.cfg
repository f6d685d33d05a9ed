SPECIFICATION FairSpec
CONSTANTS
  MaxWait = 4
  MaxSends = 4
INVARIANT TypeOK
PROPERTY OwnAnswer
PROPERTY SlowAnswerTaken
PROPERTY ImplementsLockStep
PROPERTY CallsReturn
