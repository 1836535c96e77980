\* The registry and one more sender; one lost link or refused connection.
SPECIFICATION FairSpec
CONSTANTS
  Senders = {"sensor_reg", "bridge"}
  NConds = 1
  ConnectTicks = 1
  HttpTicks = 1
  WdtTicks = 2
  Faulty = TRUE
INVARIANTS TypeOK ConnectedSound LockIsOneHold
PROPERTIES SendEnds ReporterGetsIn
