CONSTANTS
  q1 = q1
  q2 = q2
  x1 = x1
  x2 = x2
  Recipient <- Recipients
  Executor = {x1, x2}
  Request = {q1}
  Commands = {"cancel"}
  Scheduler = Scheduler
  NoDoc = NoDoc
  NoRecipient = NoRecipient
  MaxFaults = 0
SPECIFICATION Spec
PROPERTY CancelTakesEffect
\* The campaign really comes to an end.
CHECK_DEADLOCK FALSE
