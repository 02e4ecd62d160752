CONSTANTS
  m1 = m1
  m2 = m2
  cron = cron
  idle = idle
  Message = {m1, m2}
  Poller = {cron}
  Listener = {idle}
  Window <- Windows
  NoOne = NoOne
  NoMail = NoMail
  RedisConfigured = FALSE
  MaxOverruns = 0
  MaxRaces = 0
  MaxCrashes = 1
  MaxErrors = 0
  MaxResets = 0
SPECIFICATION Spec
INVARIANT StoredIsLogged
