SPECIFICATION Spec
CONSTANTS
  o1 = o1  o2 = o2  o3 = o3  x1 = x1
  Ids = {o1, o2, o3, x1}
  Own = {o1, o2, o3}
  Places = {1, 2, 3}
  PageSize = 1
  MaxVersion = 2
INVARIANTS TypeOK AnswersAreSound PagesHoldTheTotal NothingMissed
SYMMETRY OwnSymmetry
CHECK_DEADLOCK FALSE
