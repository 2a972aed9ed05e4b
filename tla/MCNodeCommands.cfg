SPECIFICATION FairSpec
CONSTANTS
  Effects <- MCEffects
  Beeps <- MCBeeps
  Blocking <- MCBlocking
  Messages <- MCMessages
  IdentifyTicks = 2
  MaxTasks = 2
  MaxMessages = 3
INVARIANTS
  SilentAtRest
PROPERTIES
  FallsSilent
CHECK_DEADLOCK FALSE
