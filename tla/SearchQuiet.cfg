CONSTANTS
  A = A  B = B  C = C  p = p  q = q  r = r  t = t
  ab = ab  bc = bc  pa = pa  qa = qa  tb = tb  rb = rb  tc = tc  ca = ca  ac = ac  pc = pc
  NoKey = NoKey  Closed = Closed
  Servers = {A, B}
  Peers = {p, q, r, t}
  Conn <- QuietConn
  At <- QuietAt
  Owner <- QuietOwner
  Searches <- QuietSearches
  Attached = {ab, pa, qa, tb, rb}
  Opening = {}
  Closing = {}
  MaxHops = 3
SPECIFICATION FairSpec
 
PROPERTY ResponsesSettle
CHECK_DEADLOCK FALSE
