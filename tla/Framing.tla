------------------------------ MODULE Framing ------------------------------
(***************************************************************************)
(* Messages on one connection, in both directions: send_message and        *)
(* receive_message of src/network/Message.cpp over the byte stream of      *)
(* src/network/Socket.cpp.  At each end several threads write to the peer  *)
(* under its write_mutex (Node::send_msg), among them the peer_loop that   *)
(* reads: it handles a message, which may mean to send an answer, before   *)
(* it reads the next one, and the ping_loop that gives a silent peer up.   *)
(*                                                                         *)
(* The header is the magic number, the type and the length, one symbol     *)
(* each.  The system buffers at most Capacity symbols in each direction;   *)
(* send_exact waits for room and read_exact for symbols, without a limit.  *)
(* Time passes in units of PING_INTERVAL.  A node may hang: it keeps the   *)
(* connection but does nothing any more.                                   *)
(***************************************************************************)
EXTENDS Integers, Sequences, SequencesExt, FiniteSets

CONSTANTS
  Node,               \* the two ends
  Caller,             \* the threads that broadcast
  Message,            \* records [type, payload]
  Says,               \* what the callers of each node may send
  Answer,             \* the messages peer_loop sends when it handles one
  Ping,               \* the PING message
  MAGIC,              \* the magic number
  MAX_PAYLOAD_SIZE,
  Capacity,           \* symbols in flight, per direction
  PING_TIMEOUT,       \* in PING_INTERVALs
  MayHang,            \* the nodes that may hang
  MaxSends,           \* bound on the broadcasts of a node
  MaxTicks            \* bound on the intervals each node waits

ASSUME FramingAssumption ==
  /\ Cardinality(Node) = 2 /\ {"peer_loop", "ping_loop"} \cap Caller = {}
  /\ \A m \in Message : m.payload \in Seq(Nat) /\ m.type \in Nat
  /\ Says \in [Node -> SUBSET Message] /\ Answer \in [Message -> Seq(Message)]
  /\ Ping \in Message /\ MayHang \subseteq Node /\ MaxTicks \in [Node -> Nat]
  /\ {MAGIC, MAX_PAYLOAD_SIZE, MaxSends} \subseteq Nat
  /\ {Capacity, PING_TIMEOUT} \subseteq Nat \ {0}

HEADER_LENGTH == 3

Thread == Caller \cup {"peer_loop", "ping_loop"}

Other(n) == CHOOSE m \in Node : m # n

VARIABLES
  todo,        \* messages each thread still has to send, the current one first
  rest,        \* symbols of the current one not written yet
  holder,      \* who holds write_mutex, per node: a set with at most one thread
  stream,      \* symbols written by each node and not yet read
  broken,      \* the connection no longer carries anything
  got,         \* what the reader of each node has of its next message
  alive,       \* "yes", "dead" (marked by ping_loop), "over" or "refused"
  calls,       \* broadcasts of each node
  silent,      \* intervals since each node last received a message
  due,         \* ping_loop has waited for an interval
  ticks,       \* intervals so far
  up,          \* the node has not hung
  sent,        \* messages in the order in which their sends got the mutex
  received     \* messages in the order in which they were handled

clocks == <<silent, due, ticks>>
vars == <<todo, rest, holder, stream, broken, got, alive, calls, clocks, up,
          sent, received>>

Init ==
  /\ todo = [n \in Node |-> [t \in Thread |-> <<>>]]
  /\ rest = [n \in Node |-> [t \in Thread |-> <<>>]]
  /\ holder = [n \in Node |-> {}]
  /\ stream = [n \in Node |-> <<>>] /\ got = [n \in Node |-> <<>>]
  /\ broken = FALSE /\ alive = [n \in Node |-> "yes"]
  /\ silent = [n \in Node |-> 0] /\ due = [n \in Node |-> FALSE]
  /\ ticks = [n \in Node |-> 0] /\ up = [n \in Node |-> TRUE]
  /\ calls = [n \in Node |-> 0]
  /\ sent = [n \in Node |-> <<>>] /\ received = [n \in Node |-> <<>>]

-----------------------------------------------------------------------------
(* send_msg                                                                *)

CallSendMsg(n, t, m) ==
  /\ up[n] /\ alive[n] = "yes" /\ todo[n][t] = <<>> /\ calls[n] < MaxSends
  /\ todo' = [todo EXCEPT ![n][t] = <<m>>]
  /\ calls' = [calls EXCEPT ![n] = @ + 1]
  /\ UNCHANGED <<rest, holder, stream, broken, got, alive, clocks, up, sent, received>>

LockFree(n) == TRUE   \* faulty: write_mutex is not taken

MayLock(n) == holder[n] = {}

KeepsLock(n, t) == holder   \* faulty: write_mutex is not released

Unlocked(n, t) == [holder EXCEPT ![n] = @ \ {t}]

(* The send of t's current message is over.                                *)
Done(n, t) ==
  /\ todo' = [todo EXCEPT ![n][t] = Tail(@)]
  /\ holder' = Unlocked(n, t)

Encoded(m) == <<MAGIC, m.type, Len(m.payload)>> \o m.payload

(* The lock is taken; a payload that is too large is not sent at all.      *)
Lock(n, t) ==
  /\ up[n] /\ t \notin holder[n] /\ todo[n][t] # <<>> /\ MayLock(n)
  /\ LET m == Head(todo[n][t])
     IN  IF Len(m.payload) > MAX_PAYLOAD_SIZE
         THEN Done(n, t) /\ UNCHANGED <<rest, sent>>
         ELSE /\ holder' = [holder EXCEPT ![n] = @ \cup {t}]
              /\ rest' = [rest EXCEPT ![n][t] = Encoded(m)]
              /\ sent' = [sent EXCEPT ![n] = Append(@, m)]
              /\ UNCHANGED todo
  /\ UNCHANGED <<stream, broken, got, alive, calls, clocks, up, received>>

(* send_exact, for the header and then the payload: as much as there is    *)
(* room for; after the last symbol the lock is released.                   *)
SendSome(n, t) ==
  LET room == Capacity - Len(stream[n])
      k == IF Len(rest[n][t]) < room THEN Len(rest[n][t]) ELSE room
  IN  /\ up[n] /\ t \in holder[n] /\ k > 0 /\ ~broken
      /\ stream' = [stream EXCEPT ![n] = @ \o SubSeq(rest[n][t], 1, k)]
      /\ rest' = [rest EXCEPT ![n][t] = SubSeq(@, k + 1, Len(@))]
      /\ IF k = Len(rest[n][t]) THEN Done(n, t) ELSE UNCHANGED <<todo, holder>>
      /\ UNCHANGED <<broken, got, alive, calls, clocks, up, sent, received>>

(* send fails, and send_message returns without writing the rest.          *)
SendFails(n, t) ==
  /\ up[n] /\ t \in holder[n] /\ rest[n][t] # <<>> /\ broken
  /\ rest' = [rest EXCEPT ![n][t] = <<>>]
  /\ Done(n, t)
  /\ UNCHANGED <<stream, broken, got, alive, calls, clocks, up, sent, received>>

-----------------------------------------------------------------------------
(* peer_loop                                                               *)

(* In receive_message; a peer marked dead meanwhile ends the loop later.   *)
Reading(n) == up[n] /\ alive[n] \in {"yes", "dead"} /\ todo[n]["peer_loop"] = <<>>

ValidHeader(g) == g[1] = MAGIC /\ g[3] <= MAX_PAYLOAD_SIZE

(* How many symbols the message that starts with g has, as far as is known.*)
Wanted(g) == IF Len(g) < HEADER_LENGTH THEN HEADER_LENGTH ELSE HEADER_LENGTH + g[3]

(* read_exact takes what there is, up to the end of the header or payload. *)
ReadSome(n) ==
  LET from == stream[Other(n)]
      missing == Wanted(got[n]) - Len(got[n])
      k == IF Len(from) < missing THEN Len(from) ELSE missing
      g == got[n] \o SubSeq(from, 1, k)
      refused == Len(g) = HEADER_LENGTH /\ ~ValidHeader(g)
      complete == ~refused /\ Len(g) = Wanted(g)
      m == [type |-> g[2], payload |-> SubSeq(g, HEADER_LENGTH + 1, Len(g))]
  IN  /\ Reading(n) /\ from # <<>>
      /\ stream' = [stream EXCEPT ![Other(n)] = SubSeq(@, k + 1, Len(@))]
      /\ got' = [got EXCEPT ![n] = IF complete THEN <<>> ELSE g]
      /\ alive' = [alive EXCEPT ![n] = IF refused THEN "refused"
                                       ELSE IF complete /\ @ = "dead" THEN "over"
                                       ELSE @]
      /\ IF complete
         THEN /\ received' = [received EXCEPT ![n] = Append(@, m)]
              /\ todo' = [todo EXCEPT ![n]["peer_loop"] =
                            IF m \in Message THEN Answer[m] ELSE <<>>]
              /\ silent' = [silent EXCEPT ![n] = 0]
         ELSE UNCHANGED <<received, todo, silent>>
      /\ UNCHANGED <<rest, holder, broken, calls, due, ticks, up, sent>>

(* The end of the stream is reached before the message is complete.        *)
ReadFails(n) ==
  /\ Reading(n) /\ broken /\ stream[Other(n)] = <<>>
  /\ alive' = [alive EXCEPT ![n] = "over"]
  /\ UNCHANGED <<todo, rest, holder, stream, broken, got, calls, clocks, up,
                 sent, received>>

-----------------------------------------------------------------------------
(* ping_loop and cleaner_loop                                              *)

Tick(n) ==
  /\ ticks[n] < MaxTicks[n]
  /\ ticks' = [ticks EXCEPT ![n] = @ + 1]
  /\ silent' = [silent EXCEPT ![n] = IF @ < PING_TIMEOUT THEN @ + 1 ELSE @]
  /\ due' = [due EXCEPT ![n] = TRUE]
  /\ UNCHANGED <<todo, rest, holder, stream, broken, got, alive, calls, up,
                 sent, received>>

NeverTimedOut(n) == FALSE   \* faulty: a silent peer is only pinged

TimedOut(n) == silent[n] >= PING_TIMEOUT

(* One round of ping_loop, when it is not held up by the one before.       *)
PingRound(n) ==
  /\ up[n] /\ due[n] /\ todo[n]["ping_loop"] = <<>>
  /\ due' = [due EXCEPT ![n] = FALSE]
  /\ IF alive[n] = "yes" /\ TimedOut(n)
     THEN alive' = [alive EXCEPT ![n] = "dead"] /\ UNCHANGED todo
     ELSE /\ todo' = [todo EXCEPT ![n]["ping_loop"] =
                        IF alive[n] = "yes" /\ silent[n] >= 1 THEN <<Ping>> ELSE <<>>]
          /\ UNCHANGED alive
  /\ UNCHANGED <<rest, holder, stream, broken, got, calls, silent, ticks, up,
                 sent, received>>

(* The connection no longer carries anything, and part of what was under   *)
(* way is lost.                                                            *)
Broken ==
  /\ ~broken /\ broken' = TRUE
  /\ \E kept \in [Node -> 0..Capacity] :
       /\ \A n \in Node : kept[n] <= Len(stream[n])
       /\ stream' = [n \in Node |-> SubSeq(stream[n], 1, kept[n])]
  /\ UNCHANGED <<todo, rest, holder, got, alive, calls, clocks, up, sent, received>>

(* cleaner_loop closes the socket of a dead peer.  A send that waits for   *)
(* room keeps the connection, since the socket is not shut down.           *)
Close(n) ==
  /\ up[n] /\ alive[n] # "yes"
  /\ holder[n] = {} \/ Len(stream[n]) < Capacity
  /\ Broken

Hang(n) ==
  /\ up[n] /\ up' = [up EXCEPT ![n] = FALSE]
  /\ UNCHANGED <<todo, rest, holder, stream, broken, got, alive, calls, clocks,
                 sent, received>>

SendStep(n, t) == Lock(n, t) \/ SendSome(n, t) \/ SendFails(n, t)
ReadStep(n) == ReadSome(n) \/ ReadFails(n)

KeepStep(n) == Tick(n) \/ PingRound(n) \/ Close(n)

Next ==
  \/ \E n \in Node, t \in Thread : SendStep(n, t)
  \/ \E n \in Node, t \in Caller : \E m \in Says[n] : CallSendMsg(n, t, m)
  \/ \E n \in Node : ReadStep(n) \/ KeepStep(n)
  \/ \E n \in MayHang : Hang(n)
  \/ Broken

(* The threads of a node that has not hung keep running.                   *)
Spec ==
  /\ Init /\ [][Next]_vars
  /\ \A n \in Node, t \in Thread : WF_vars(SendStep(n, t))
  /\ \A n \in Node : WF_vars(ReadStep(n)) /\ WF_vars(KeepStep(n))

-----------------------------------------------------------------------------
(* Properties                                                              *)

Link ==
  INSTANCE MessageLink WITH
    queue <- [n \in Node |->
                SubSeq(sent[n], Len(received[Other(n)]) + 1, Len(sent[n]))],
    delivered <- [n \in Node |-> received[Other(n)]]

(* The connection implements MessageLink: whatever the threads interleave, *)
(* however the symbols are cut and wherever the connection breaks, the     *)
(* peer handles whole messages, once, in the order in which their senders  *)
(* got write_mutex.                                                        *)
CarriesMessages == Link!Spec

(* Every send reaches the peer, is refused as too large, or the connection *)
(* breaks: as long as only one of the nodes asks and none hangs, no thread *)
(* waits for write_mutex or for room for ever, although peer_loop does not *)
(* read while it writes.                                                   *)
EverySendArrives ==
  <>[](\/ broken \/ \E n \in Node : ~up[n]
       \/ \A n \in Node : /\ received[Other(n)] = sent[n]
                          /\ \A t \in Thread : todo[n][t] = <<>>)

(* A peer that has been silent for PING_TIMEOUT is disconnected, unless    *)
(* what is sent to it fills the buffers: then ping_loop waits with it.     *)
SilenceEndsIt ==
  \A n \in Node :
    []<>(silent[n] < PING_TIMEOUT \/ broken \/ ~up[n] \/ Len(stream[n]) = Capacity)
=============================================================================
