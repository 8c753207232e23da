SPECIFICATION FairSpec
CONSTANTS
  r1 = r1  r2 = r2  r3 = r3  r4 = r4  r5 = r5
  Requests = {r1, r2, r3, r4, r5}
  Body <- MCBody
  Defaults <- MCDefaults
  MaxCrashes = 1
  MaxOutages = 1
INVARIANTS TypeOK AnswersAreTrue DefaultsServed
PROPERTY EveryoneAnswered
CHECK_DEADLOCK FALSE
