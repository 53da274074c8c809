CONSTANTS
  A = A  B = B  C = C  p = p  q = q  r = r  t = t
  ab = ab  bc = bc  pa = pa  qa = qa  tb = tb  rb = rb  tc = tc  ca = ca  ac = ac  pc = pc
  NoKey = NoKey  Closed = Closed
  Servers = {A, B, C}
  Peers = {p, t}
  Conn <- TriangleConn
  At <- TriangleAt
  Owner <- TriangleOwner
  Searches <- TriangleSearches
  Attached = {ab, bc, ac, pa, pc, tc}
  Opening = {pa, pc}
  Closing = {pa, pc}
  MaxHops = 1
SPECIFICATION Spec
CONSTRAINT FewTasks
INVARIANT DeliveredToInitiator
INVARIANT PeerLabels
CHECK_DEADLOCK FALSE
