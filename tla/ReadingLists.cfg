SPECIFICATION FairSpec
CONSTANTS
  s1 = s1  s2 = s2  s3 = s3  s4 = s4  t1 = t1
  Subs = {s1, s2, s3, s4, t1}
  Characters <- MCCharacters
  LowerCase <- MCLowerCase
  Star = Star
  TenantOf <- MCTenantOf
  Email <- MCEmail
  Name <- MCName
  NumBooks = 2
  NoList = NoList  NoSub = NoSub
INVARIANTS ListsAreWhole LaterReplacesEarlier OneCreator
PROPERTY EveryoneAnswered
CHECK_DEADLOCK FALSE
