CONSTANTS
  A = A  B = B  C = C  D = D  E = E  storer = storer  owner = owner
  Servers = {A, B, C, D, E}
  Links <- ChainAndLoop
  Peers = {storer, owner}
  Provider = storer
  Home <- ChainHome
  MaxVersion = 2
  MaxFaults = 1
SPECIFICATION FairSpec
CHECK_DEADLOCK FALSE
INVARIANT TypeOK
INVARIANT OnlyAboveLearn
PROPERTY NeverDrains
PROPERTY Learns
PROPERTY Settles
PROPERTY EveryCopyReturns
