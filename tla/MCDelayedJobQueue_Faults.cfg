\* One run, crashes, failed writes, slow steps and switch-offs.
CONSTANTS
  q1 = q1  q2 = q2  q3 = q3  w1 = w1  w2 = w2  e1 = e1  t1 = t1  t2 = t2
  Workflow = {w1}
  Entity = {e1}
  Run = {q1}
  JobId = {r1, r2}
  Template = {t1, t2}
  Script <- OneRunScript
  wfOf <- OneRunWf
  recOf <- OneRunRec
  Once = {}
  CancelsOnReply = {w1}
  Forced = {}
  Worker = Worker
  NoJob = NoJob
  NoGuard = NoGuard
  MaxSteps = 5
  MaxCrashes = 1
  MaxWriteFaults = 1
  MaxSlow = 1
  MaxToggles = 1
SPECIFICATION FairSpec
CHECK_DEADLOCK FALSE
INVARIANTS  OneLateSend 
PROPERTIES EveryJobSettles SettledIsFinal ImplementsAutomation
