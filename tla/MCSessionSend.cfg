SPECIFICATION Spec
CONSTANTS
  Senders = {worker, coroutine}
  MaxSends = 2
  Sizes <- MCSizes
INVARIANTS
  QueueIsServed
PROPERTIES
  SilentAfterFailure
  ImplementsChannel
CHECK_DEADLOCK FALSE
