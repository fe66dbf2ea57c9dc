---------------------------- MODULE PeerRegistry ----------------------------
(***************************************************************************)
(* Two nodes that dial one another and may be stopped: register_new_peer   *)
(* on both ends of every connection, the threads that call it, the workers *)
(* it starts, and stop and ~Node, which end them (src/network/Node.cpp).   *)
(* A thread that dials checks that the peer is not connected, connects,    *)
(* exchanges VERSION messages and registers; the accept thread takes one   *)
(* connection after the other from the backlog and does the same.          *)
(*                                                                         *)
(* An end of a connection is "none" before the node knows of it, "sent"    *)
(* once its VERSION is out, "live" while its entry of peers_ is alive and  *)
(* its worker reads, "closing" when its socket has been closed under the   *)
(* worker, and "closed" when the worker has ended; marking an entry dead   *)
(* and its removal by cleaner_loop are one step.  read_exact retries after *)
(* a receive timeout, so a handshake waits until the peer sends or closes. *)
(* A connection closed at both ends is forgotten, and its name is used     *)
(* again.  Probes of a connected peer belong to Dialling.                  *)
(***************************************************************************)
EXTENDS Integers, Sequences, FiniteSets

CONSTANTS
  Node,       \* the two nodes
  id,         \* their node_id
  Dialler,    \* the threads that dial
  NodeOf,     \* the node of each of them
  Loops,      \* the ones that are a connect_loop; the others are consoles
  Conn        \* names of connections

ASSUME RegistryAssumption ==
  /\ Cardinality(Node) = 2
  /\ id \in [Node -> Nat] /\ \A m, n \in Node : m # n => id[m] # id[n]
  /\ NodeOf \in [Dialler -> Node] /\ Loops \subseteq Dialler

VARIABLES
  dialled_by,   \* the node that dialled each connection
  end,          \* the state of each end of each connection
  dialling,     \* what each dialling thread does: "idle", "ready", a connection,
                \* "failed" while its candidate is backed off, or "over"
  backlog,      \* connections waiting for accept, per node
  accepting,    \* the connection the accept thread works on, "idle" or "over"
  stop          \* each node's way down: "no", "closing", "joining", "gone"

vars == <<dialled_by, end, dialling, backlog, accepting, stop>>

Other(n) == CHOOSE m \in Node : m # n

running(n) == stop[n] = "no"

stopping(n) == stop[n] \in {"joining", "gone"}

Init ==
  /\ dialled_by = [c \in Conn |-> "none"]
  /\ end = [c \in Conn |-> [n \in Node |-> "none"]]
  /\ dialling = [t \in Dialler |-> "idle"]
  /\ backlog = [n \in Node |-> <<>>]
  /\ accepting = [n \in Node |-> "idle"]
  /\ stop = [n \in Node |-> "no"]

already_connected(n) == \E c \in Conn : end[c][n] = "live"

NoEnd == [n \in Node |-> "none"]

Free == {c \in Conn : end[c] = NoEnd}

(* The ends become `ends', without the connections closed on both sides.   *)
Update(ends) ==
  /\ end' = [c \in Conn |-> IF \A n \in Node : ends[c][n] = "closed" THEN NoEnd ELSE ends[c]]
  /\ dialled_by' = [c \in Conn |-> IF end'[c] = NoEnd THEN "none" ELSE dialled_by[c]]

(* A closed listener still takes connections for a thread inside accept.   *)
Listening(n) == running(n) \/ accepting[n] = "idle"

-----------------------------------------------------------------------------
(* connect_loop and connect_to_peer, then accept_one_peer                  *)

CheckPeer(t) ==
  /\ dialling[t] = "idle" /\ ~already_connected(NodeOf[t])
  /\ dialling' = [dialling EXCEPT ![t] = "ready"]
  /\ UNCHANGED <<dialled_by, end, backlog, accepting, stop>>

ConnectTo(t) ==
  LET n == NodeOf[t]
      c == CHOOSE c \in Free : TRUE
  IN  /\ dialling[t] = "ready" /\ Free # {} /\ Listening(Other(n))
      /\ dialling' = [dialling EXCEPT ![t] = c]
      /\ dialled_by' = [dialled_by EXCEPT ![c] = n]
      /\ end' = [end EXCEPT ![c][n] = "sent"]
      /\ backlog' = [backlog EXCEPT ![Other(n)] = Append(@, c)]
      /\ UNCHANGED <<accepting, stop>>

DialFails(t) ==
  /\ dialling[t] = "ready" /\ ~Listening(Other(NodeOf[t]))
  /\ dialling' = [dialling EXCEPT ![t] = "failed"]
  /\ UNCHANGED <<dialled_by, end, backlog, accepting, stop>>

(* The wait before the next attempt is over; a console's call has returned.*)
Retry(t) ==
  /\ dialling[t] = "failed" /\ running(NodeOf[t])
  /\ dialling' = [dialling EXCEPT ![t] = "idle"]
  /\ UNCHANGED <<dialled_by, end, backlog, accepting, stop>>

(* The loop runs out of candidates, or wakes up, and sees running_ false.  *)
LoopEnds(t) ==
  /\ dialling[t] \in {"idle", "failed"} /\ ~running(NodeOf[t])
  /\ dialling' = [dialling EXCEPT ![t] = "over"]
  /\ UNCHANGED <<dialled_by, end, backlog, accepting, stop>>

KeepWaiting(ends, n, waiting) == ends   \* faulty: the listener stays open

(* What closing the listener of n does to the connections nobody accepted. *)
Reset(ends, n, waiting) ==
  [c \in Conn |-> IF \E i \in DOMAIN waiting : waiting[i] = c
                  THEN [ends[c] EXCEPT ![n] = "closed"] ELSE ends[c]]

AcceptConnection(n) ==
  LET c == Head(backlog[n])
      opened == [end EXCEPT ![c][n] = "sent"]
  IN  /\ accepting[n] = "idle" /\ backlog[n] # <<>>
      /\ accepting' = [accepting EXCEPT ![n] = c]
      /\ Update(IF running(n) THEN opened ELSE Reset(opened, n, Tail(backlog[n])))
      /\ backlog' = [backlog EXCEPT ![n] = IF running(n) THEN Tail(@) ELSE <<>>]
      /\ UNCHANGED <<dialling, stop>>

(* accept gives up on the closed listener.                                 *)
AcceptEnds(n) ==
  /\ accepting[n] = "idle" /\ ~running(n)
  /\ accepting' = [accepting EXCEPT ![n] = "over"]
  /\ Update(Reset(end, n, backlog[n]))
  /\ backlog' = [backlog EXCEPT ![n] = <<>>]
  /\ UNCHANGED <<dialling, stop>>

-----------------------------------------------------------------------------
(* register_new_peer                                                       *)

KeepNewest(n, is_outbound) == TRUE   \* faulty: the later connection wins

KeepNew(n, is_outbound) == (id[n] < id[Other(n)]) = is_outbound

(* c has got the peer's VERSION: a duplicate is dropped, or takes the      *)
(* place of the live connection, whose socket is closed.  A peer enters    *)
(* peers_ together with its worker.                                        *)
Accepted(n, c) == already_connected(n) => KeepNew(n, dialled_by[c] = n)

EnteredBeside(n, c) == [end EXCEPT ![c][n] = "live"]   \* faulty: the old peer stays

Entered(n, c) ==
  [d \in Conn |-> IF d = c THEN [end[d] EXCEPT ![n] = "live"]
                  ELSE IF end[d][n] = "live" THEN [end[d] EXCEPT ![n] = "closing"]
                  ELSE end[d]]

Dropped(n, c) == [end EXCEPT ![c][n] = "closed"]

RegisterAnyway(n, c) ==   \* faulty: no check of stopping_
  IF Accepted(n, c) THEN Entered(n, c) ELSE Dropped(n, c)

Registered(n, c) ==
  IF ~stopping(n) /\ Accepted(n, c) THEN Entered(n, c) ELSE Dropped(n, c)

(* The peer has closed its end of c.                                       *)
Left(n, c) == end[c][Other(n)] \in {"closing", "closed"}

(* The handshake has ended: with the peer's VERSION, or without it because *)
(* the peer has closed its end and what it had sent was lost.              *)
Outcomes(n, c) ==
  (IF end[c][Other(n)] # "none" THEN {Registered(n, c)} ELSE {})
    \cup (IF Left(n, c) THEN {Dropped(n, c)} ELSE {})

DialHandshake(t) ==
  LET n == NodeOf[t]
      c == dialling[t]
  IN  /\ c \in Conn
      /\ \E ends \in Outcomes(n, c) :
           /\ Update(ends)
           /\ dialling' = [dialling EXCEPT ![t] = IF ends[c][n] = "live" THEN "idle" ELSE "failed"]
      /\ UNCHANGED <<backlog, accepting, stop>>

AcceptHandshake(n) ==
  /\ accepting[n] \in Conn
  /\ \E ends \in Outcomes(n, accepting[n]) : Update(ends)
  /\ accepting' = [accepting EXCEPT ![n] = IF running(n) THEN "idle" ELSE "over"]
  /\ UNCHANGED <<dialling, backlog, stop>>

-----------------------------------------------------------------------------
(* peer_loop reads the end of the stream, or fails on its closed socket.   *)
WorkerEnds(n, c) ==
  /\ end[c][n] = "closing" \/ (end[c][n] = "live" /\ Left(n, c))
  /\ Update(Dropped(n, c))
  /\ UNCHANGED <<dialling, backlog, accepting, stop>>

-----------------------------------------------------------------------------
(* stop, then ~Node.  stop clears running_, wakes the loops up and closes  *)
(* the listener; then, in one critical section, it sets stopping_, closes  *)
(* all sockets and takes the workers.  These are joined by stop, the ones  *)
(* of replaced peers by stop or cleaner_loop, and the loops by ~Node.      *)
Stop(n) ==
  LET inside == accepting[n] = "idle"
  IN  /\ running(n)
      /\ stop' = [stop EXCEPT ![n] = "closing"]
      /\ Update(IF inside THEN end ELSE Reset(end, n, backlog[n]))
      /\ backlog' = [backlog EXCEPT ![n] = IF inside THEN @ ELSE <<>>]
      /\ UNCHANGED <<dialling, accepting>>

AllClosed(n) ==
  [c \in Conn |-> IF end[c][n] = "live" THEN [end[c] EXCEPT ![n] = "closing"] ELSE end[c]]

ClosePeers(n) ==
  /\ stop[n] = "closing"
  /\ stop' = [stop EXCEPT ![n] = "joining"]
  /\ Update(AllClosed(n))
  /\ UNCHANGED <<dialling, backlog, accepting>>

JoinAll(n) ==
  /\ stop[n] = "joining"
  /\ \A c \in Conn : end[c][n] # "closing"
  /\ \A t \in Dialler : NodeOf[t] = n => dialling[t] = "over"
  /\ accepting[n] = "over"
  /\ stop' = [stop EXCEPT ![n] = "gone"]
  /\ UNCHANGED <<dialled_by, end, dialling, backlog, accepting>>

DialStep(t) == ConnectTo(t) \/ DialFails(t) \/ DialHandshake(t)
AcceptStep(n) == AcceptConnection(n) \/ AcceptEnds(n) \/ AcceptHandshake(n)
StopStep(n) == ClosePeers(n) \/ JoinAll(n)

Next ==
  \/ \E t \in Dialler : CheckPeer(t) \/ DialStep(t) \/ Retry(t) \/ LoopEnds(t)
  \/ \E n \in Node : AcceptStep(n) \/ Stop(n) \/ StopStep(n)
  \/ \E n \in Node, c \in Conn : WorkerEnds(n, c)

(* All threads keep running, and a connect_loop dials again as long as the *)
(* peer is not connected.  Nobody has to stop a node.                      *)
Spec ==
  /\ Init /\ [][Next]_vars
  /\ \A t \in Dialler : WF_vars(DialStep(t)) /\ WF_vars(Retry(t)) /\ WF_vars(LoopEnds(t))
  /\ \A t \in Loops : WF_vars(CheckPeer(t))
  /\ \A n \in Node : WF_vars(AcceptStep(n)) /\ WF_vars(StopStep(n))
  /\ \A n \in Node, c \in Conn : WF_vars(WorkerEnds(n, c))

-----------------------------------------------------------------------------
(* Properties                                                              *)

BothRun == \A n \in Node : running(n)

Settled ==
  /\ BothRun /\ \A t \in Dialler : dialling[t] \in {"idle", "failed"}
  /\ \A n \in Node : accepting[n] = "idle" /\ backlog[n] = <<>>
  /\ \A c \in Conn, n \in Node : ~ENABLED WorkerEnds(n, c)

(* The two nodes "must independently arrive at the same verdict about      *)
(* which connection survives, or they will either both drop (leaving the   *)
(* pair disconnected) or both keep (leaving a redundant link)" (protocol   *)
(* 4.1): when every handshake is over and every close was noticed, at most *)
(* one connection is left, and it is live at both ends.                    *)
SameVerdict ==
  Settled =>
    /\ \A c \in Conn \ Free, n \in Node : end[c][n] = "live"
    /\ Cardinality(Conn \ Free) <= 1

(* Two nodes whose connect_loops dial one another, at the same time or     *)
(* not, end up connected and stay connected until one is stopped: closing  *)
(* the losing connection never makes them dial and drop for ever.          *)
StayConnected ==
  []BothRun => <>[](\E c \in Conn : \A n \in Node : end[c][n] = "live")

(* stop and ~Node join every thread the node has started: none is left in  *)
(* peers_, whose destruction would terminate the program, even when a      *)
(* handshake ends while the node stops.                                    *)
NoThreadLeftBehind ==
  \A n \in Node : stop[n] = "gone" => \A c \in Conn : end[c][n] \notin {"live", "closing"}

(* A stop of the node ends, also when both nodes are stopped at the same   *)
(* time, in the middle of handshakes or of a replaced connection.          *)
StopEnds == \A n \in Node : stop[n] = "closing" ~> stop[n] = "gone"
=============================================================================
