SPECIFICATION FairSpec
CONSTANTS
  NAlt = 2
  NCad = 1
  AltTpl <- Alt2
  CadTpl <- Cad1
  Delayed = {1}
  MaxAutoAttempts = 2
  NoWait = NoWait
  NoGuard = NoGuard
  MaxRows = 6
  MaxStarts = 1
  Disturbance = {"compose", "reply", "cancel", "retry", "crash", "sendFault", "slow", "recover"}
  MaxDisturbed = 2
INVARIANTS
  OnlyRequeuesGoBack  CadenceNeedsAnOpen ReplyStopsTheSequence ArmedMeansSent
PROPERTIES
  CancelIsFinal SequenceSettles OpenIsFollowedUp
CHECK_DEADLOCK FALSE
