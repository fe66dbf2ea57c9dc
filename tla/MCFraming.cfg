\* A message is longer than what the system buffers; only A asks for
\* anything, and time passes at A.
CONSTANTS
  Node = {"A", "B"}
  Caller = {"miner"}
  Message <- MCMessage
  Says <- MCSays
  Answer <- MCAnswer
  Ping <- MCPing
  MAGIC = 7
  MAX_PAYLOAD_SIZE = 2
  Capacity = 2
  PING_TIMEOUT = 2
  MayHang = {"A", "B"}
  MaxSends = 1
  MaxTicks <- MCMaxTicks
SPECIFICATION Spec
PROPERTIES CarriesMessages EverySendArrives 
CHECK_DEADLOCK FALSE
