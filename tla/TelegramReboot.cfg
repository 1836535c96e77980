\* One /reboot, and nothing fails.
SPECIFICATION Spec
CONSTANTS
  Kinds <- MCReboot
  Cap = 4
  MaxChunk = 1
  MaxPosted = 1
  MaxEvents = 0
  MaxReboots = 2
INVARIANT RebootsOnce
