CONSTANTS
  p = p  q = q  i1 = i1  i2 = i2  first = first  second = second  None = None
  Peers = {p, q}
  Consoles = {i1, i2}
  Reserved = {1}
  Sizes = {1}
  Rooms = {2}
  Copies = {first, second}
  MaxTime = 1
  MaxTokens = 3
  MaxJobs = 2
SPECIFICATION Spec
SYMMETRY Symmetry
CHECK_DEADLOCK FALSE
INVARIANT TypeOK
 
INVARIANT NewestAtProvider
INVARIANT LedgerExact
