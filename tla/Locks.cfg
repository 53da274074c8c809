CONSTANTS
  ci = ci  ct = ct  cn = cn  ki = ki  kt = kt  kn = kn
  t1 = t1  t2 = t2  t3 = t3  t4 = t4  t5 = t5
  Tasks = {t1, t2, t3, t4, t5}
  Conn = {ci, ct, cn}
  Keys = {ki, kt, kn}
  NoKey = NoKey
  Loads <- AllLoads
SPECIFICATION FairSpec
INVARIANT TypeOK
 
 
PROPERTY Forward
 
CHECK_DEADLOCK FALSE
