\* Both connect_loops dial; at most three connections at a time.
CONSTANTS
  Node = {"A", "B"}
  id <- MCId
  Dialler = {"A_loop", "B_loop"}
  NodeOf <- MCNodeOf
  Loops = {"A_loop", "B_loop"}
  Conn = {"c1", "c2", "c3"}
SPECIFICATION Spec
INVARIANTS SameVerdict NoThreadLeftBehind
PROPERTIES StayConnected StopEnds
CHECK_DEADLOCK FALSE
