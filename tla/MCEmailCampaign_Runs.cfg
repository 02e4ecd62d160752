CONSTANTS
  Recipient <- Recipients
  Executor = {x1, x2}
  User = {u1}
  NoDoc = NoDoc
  MaxRequests = 2
  MaxFaults = 1
SPECIFICATION FairSpec
INVARIANTS
  EveryCopyIsPaidFor
  CompletedIsSettled
PROPERTY SendingEnds
\* The campaign really comes to an end.
CHECK_DEADLOCK FALSE
