CONSTANTS
  i = i  j = j  file1 = file1  me = me  p = p  S = S  T = T
  None = None
  Ids = {i, j}
  Files = {file1}
  Providers = {me, p}
  Me = me
  Servers = {S}
  Home = S
  Mixes <- ApiMixes
SPECIFICATION FairSpec
 
INVARIANT Truthful
 
PROPERTY ImplementsGateway
CHECK_DEADLOCK FALSE
