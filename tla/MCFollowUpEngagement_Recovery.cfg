SPECIFICATION Spec
CONSTANTS
  NAlt = 1
  NCad = 1
  AltTpl <- Alt1
  CadTpl <- Cad1
  Delayed = {1}
  MaxAutoAttempts = 2
  NoWait = NoWait
  NoGuard = NoGuard
  MaxRows = 6
  MaxStarts = 1
  Disturbance = {"recover"}
  MaxDisturbed = 1
INVARIANT NoAlternateAfterCadence
CHECK_DEADLOCK FALSE
