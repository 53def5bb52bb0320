SPECIFICATION BrokerAlone
CONSTANTS
  a1 = a1
  a2 = a2
  r1 = r1
  r2 = r2
  daemon = daemon
  chat = chat
  NoRequest = NoRequest
  Listener = {c1}
  Asking = {a1}
  Reached = 9
  Retained = 2
  KeptEvents = 1
  KeptDrops = 2
  PrunedEvents = 3
  PrunedDrops = 2
  PrunedRestarts = 1
  LiveEvents = 3
  LiveDrops = 3
  LiveRestarts = 2
  NoClient = NoClient
  Approval = {a1}
  Request = {r1, r2}
  IdOf <- OneId
  Broker = {daemon}
  DaemonBroker = daemon
  HomeOf <- AtDaemon
  MaxOutages = 0
  SavesMayFail = FALSE
INVARIANTS ToldWhatIsOnRecord
CHECK_DEADLOCK FALSE
