\* Nothing fails, the driver is never slow, and only the registry sends.
SPECIFICATION Spec
CONSTANTS
  Senders = {"sensor_reg"}
  NConds = 1
  ConnectTicks = 1
  HttpTicks = 1
  WdtTicks = 3
  Faulty = FALSE
PROPERTIES AlertsGetOut
