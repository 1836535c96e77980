\* Two updates; one send of another task, failed request or power loss, beside
\* any number of restarts by /reboot. Two updates and an answer fill the buffer.
SPECIFICATION FairSpec
CONSTANTS
  Kinds <- MCKinds
  Cap = 7
  MaxChunk = 2
  MaxPosted = 2
  MaxEvents = 1
  MaxReboots = 0
INVARIANTS Terminated NoCommandLost ExecutedOnce ActsOnRequest
PROPERTY UpdatesAreConfirmed
