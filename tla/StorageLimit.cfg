CONSTANTS
  p = p  q = q
  None = None
  Peers = {p, q}
  Files = {f1, f2}
  Sizes = {1, 2}
  Capacity = 3
  Word = 8
  s1 = s1  s2 = s2
  Seconds = {s1, s2}
  MaxTokens = 1
SPECIFICATION Spec
CHECK_DEADLOCK FALSE
INVARIANT WithinCapacity
