SPECIFICATION Spec
CONSTANTS
  Count = 2
  Vectors = {58}
  NoInterrupt = 255
INVARIANTS
  MailboxExclusive
  NoPostIsLost
\* A core whose wait_till_interrupt still holds the lock stops everyone.
CHECK_DEADLOCK FALSE
