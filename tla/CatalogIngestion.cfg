SPECIFICATION Spec
CONSTANTS
  v = v  w = w  x = x  y = y
  Works = {v, w}
  Authors = {x, y}
  AuthorsOf <- MCAuthorsOf
  MaxRuns = 2
  MaxFaults = 1
  InlineGaps = TRUE
  AuthorPagesFail = TRUE
INVARIANTS TypeOK CatalogConsistent LogMatchesCatalog AuthorsRightWithoutGaps
PROPERTY ChangesAreLogged
CHECK_DEADLOCK FALSE
