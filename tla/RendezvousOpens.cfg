CONSTANTS
  Peers = {a, b}
  MaxConnects = 1
  MaxAttempts = 10
SPECIFICATION FairSpec
PROPERTY OpensTunnel
CHECK_DEADLOCK FALSE
