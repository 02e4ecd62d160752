SPECIFICATION FairSpec
CONSTANTS
  r1 = r1
  r2 = r2
  Item = {r1, r2}
  Tick = {t1, t2}
  User = {u1, u2}
  NoReq = NoReq
  NoItem = NoItem
  Recurs <- MCRecurs
  MaxDate = 2
  MaxFault = 1
  MaxRequest = 2
INVARIANTS
  TypeOK
  
  
  CancelledIsQuiet

  
CHECK_DEADLOCK FALSE
