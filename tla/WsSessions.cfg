SPECIFICATION Spec
CONSTANTS
  MaxClients = 2
  Sockets = {54, 55}
  IdleWaits = 1
  None = None
INVARIANT SendsToOwnClient
