CONSTANTS
  i = i  j = j  file1 = file1  me = me  p = p  S = S  T = T
  None = None
  Ids = {i, j}
  Files = {file1}
  Providers = {me, p}
  Me = me
  Servers = {S, T}
  Home = S
  Mixes <- ProxyGets
SPECIFICATION Spec
INVARIANT TypeOK
INVARIANT Truthful
INVARIANT OnlyTimeoutsLeak
 
SYMMETRY Symmetry
CHECK_DEADLOCK FALSE
