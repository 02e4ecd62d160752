\* Two dispatches of a once-only workflow race for a record, and a forced enrollment in
\* another workflow restarts its automation.
CONSTANTS
  q1 = q1  q2 = q2  q3 = q3  w1 = w1  w2 = w2  e1 = e1  t1 = t1  t2 = t2
  Workflow = {w1, w2}
  Entity = {e1}
  Run = {q1, q2, q3}
  JobId = {r1, r2}
  Template = {t1, t2}
  Script <- Restarted
  wfOf <- TwoAndOne
  recOf <- SameRec
  Once = {w1}
  CancelsOnReply = {}
  Forced = {q3}
  Worker = Worker
  NoJob = NoJob
  NoGuard = NoGuard
  MaxSteps = 5
  MaxCrashes = 1
  MaxWriteFaults = 0
  MaxSlow = 1
  MaxToggles = 0
SPECIFICATION Spec
CHECK_DEADLOCK FALSE
SYMMETRY JobSymmetry
INVARIANTS OnceSchedulesOnce ParkedRunKeepsItsSteps
PROPERTIES SupersededIsSilent
