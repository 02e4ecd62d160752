CONSTANTS
  q1 = q1
  q2 = q2
  x1 = x1
  x2 = x2
  Recipient <- Recipients
  Executor = {x1, x2}
  Request = {q1, q2}
  Commands = {"update", "remove", "cancel", "pause", "resume", "launch"}
  Scheduler = Scheduler
  NoDoc = NoDoc
  NoRecipient = NoRecipient
  MaxFaults = 1
SPECIFICATION FairSpec
INVARIANTS TypeOK EveryCopyIsPaidFor OneStrayPerLoop
PROPERTIES SentIsNeverLost ClosedIsSettled PendingIsServed
\* The campaign really comes to an end.
CHECK_DEADLOCK FALSE
