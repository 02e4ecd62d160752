SPECIFICATION FairSpec
CONSTANTS
  NView = 2
  Reader = {r1, r2}
  Writer = {w1, w2}
  NoEntry = NoEntry
  MaxWrite = 2
  MaxFault = 1
INVARIANTS
  TypeOK
  
PROPERTY
  CacheConverges
