\* A public node, one behind a NAT and a local one the user may type; the book
\* has room for two of them.
CONSTANTS
  Endpoint = {"a", "n", "l"}
  Routable = {"a", "n"}
  Configured <- MCConfigured
  Typed = {"l"}
  Heard = {"n", "l"}
  Callers = {"n", "l"}
  Unreachable = {"n"}
  Reports <- SameReports
  LargerId = {"a"}
  MAX_ENTRIES = 2
  MAX_FAILURES = 2
  BASE_BACKOFF = 1
  MAX_BACKOFF = 2
  TARGET_OUTBOUND_PEERS = 2
SPECIFICATION Spec
 
PROPERTIES   UnreachableIsAbandoned
CHECK_DEADLOCK FALSE
