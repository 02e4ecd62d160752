\* A once-only workflow with two places to park.
CONSTANTS
  q1 = q1  q2 = q2  q3 = q3  w1 = w1  w2 = w2  e1 = e1  t1 = t1  t2 = t2
  Workflow = {w1}
  Entity = {e1}
  Run = {q1}
  JobId = {r1, r2}
  Template = {t1, t2}
  Script <- ParksTwice
  wfOf <- OneRunWf
  recOf <- OneRunRec
  Once = {w1}
  CancelsOnReply = {w1}
  Forced = {}
  Worker = Worker
  NoJob = NoJob
  NoGuard = NoGuard
  MaxSteps = 5
  MaxCrashes = 0
  MaxWriteFaults = 0
  MaxSlow = 0
  MaxToggles = 0
SPECIFICATION Spec
CHECK_DEADLOCK FALSE
INVARIANTS EnrolledRunKeepsItsSteps
