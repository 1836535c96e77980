SPECIFICATION ReportsSpec
CONSTANTS
  MinInterval = 4
  HeartbeatWindow = 6
  NoticeWait = 1
  StartDelay = 1
  Round = 1
  SendTime = 1
INVARIANTS ReportsAreTried
PROPERTIES NoticesSpaced RestartIsTried
