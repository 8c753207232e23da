SPECIFICATION LookupSpec
CONSTANTS
  u = u  v = v  x = x  o = o  i = i
  Works = {u, v, x}
  Isbns = {o, i}
  OnOL = {u, v}
  EditionOf <- MCEditionOf
  IsbnsFirst <- MCIsbnsFirst
  None = None
INVARIANTS LookupTypeOK CatalogFirst ItemsAreRight
