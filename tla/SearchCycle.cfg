CONSTANTS
  A = A  B = B  C = C  p = p  q = q  r = r  t = t
  ab = ab  bc = bc  pa = pa  qa = qa  tb = tb  rb = rb  tc = tc  ca = ca  ac = ac  pc = pc
  NoKey = NoKey  Closed = Closed
  Servers = {A, B, C}
  Peers = {p, q, t}
  Conn <- CycleConn
  At <- CycleAt
  Owner <- CycleOwner
  Searches <- CycleSearches
  Attached = {ab, bc, ca, pa, tc}
  Opening = {tb, tc}
  Closing = {tb, tc}
  MaxHops = 3
SPECIFICATION FairSpec
INVARIANT TypeOK
INVARIANT RequestFollowsPath
INVARIANT ResponseFollowsPath
PROPERTY FloodEnds
CHECK_DEADLOCK FALSE
