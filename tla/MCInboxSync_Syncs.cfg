\* A cron and a listener contend for an account while Redis comes and goes, with one
\* overrun, race, crash, error and renumbering.
CONSTANTS
  m1 = m1
  m2 = m2
  cron = cron
  idle = idle
  Message = {m1}
  Poller = {cron}
  Listener = {idle}
  Window <- Windows
  NoOne = NoOne
  NoMail = NoMail
  RedisConfigured = TRUE
  MaxOverruns = 1
  MaxRaces = 1
  MaxCrashes = 1
  MaxErrors = 1
  MaxResets = 1
SPECIFICATION FairSpec
INVARIANTS
  TypeOK
  RaceNeedsOutage
  LockIsNotLeaked
  OnlyInterruptionDrops
  
 
