------------------------------ MODULE Dialling ------------------------------
(***************************************************************************)
(* The threads of a node that fill and use the address book: connect_loop, *)
(* the console's connect command, the accept and peer threads, and the     *)
(* periodic gossip (src/network/Node.cpp).  Each step is what happens      *)
(* under one lock or during one blocking call.                             *)
(*                                                                         *)
(* The network is whatever answers: a dial may fail at any time, a node    *)
(* may connect, disconnect or send addresses at any time, and reports the  *)
(* endpoint Reports gives for the one it was dialled at, which has its     *)
(* host and the listen_port of its VERSION message.  Peers that report     *)
(* port 0 are never stored or compared and are left out.                   *)
(***************************************************************************)
EXTENDS Integers, Sequences, FiniteSets, AddressBook

CONSTANTS
  Configured,     \* the endpoints given at startup, in order
  Typed,          \* the endpoints the user may connect to
  Heard,          \* the endpoints peers may send
  Callers,        \* the endpoints that may connect to this node
  Unreachable,    \* the endpoints nobody can connect to
  Reports,        \* the endpoint reported by the node behind an endpoint
  LargerId,       \* the endpoints whose node_id is larger than this node's
  TARGET_OUTBOUND_PEERS

ASSUME DiallingAssumption ==
  /\ Configured \in Seq(Endpoint)
  /\ UNION {Typed, Heard, Callers, Unreachable, LargerId} \subseteq Endpoint
  /\ Reports \in [Endpoint -> Endpoint]
  /\ TARGET_OUTBOUND_PEERS \in Nat \ {0}

VARIABLES
  book,       \* address_book_
  peers,      \* the live entries of peers_
  dialler,    \* connect_loop: what it is about to do, and with which endpoint
  user,       \* connect_to_peer, likewise
  reached,    \* history: the endpoints a connection was completed to
  sent        \* the last PEERS message: its addressee and its addresses

vars == <<book, peers, dialler, user, reached, sent>>

Resting == [at |-> "idle", target |-> "none"]
NoMessage == [to |-> "none", list |-> {}]

(* start: the configured endpoints are remembered as trusted ones.         *)
Remembered ==
  LET run[i \in 0..Len(Configured)] ==
        IF i = 0 THEN <<>> ELSE add(run[i - 1], Configured[i], TRUE)
  IN  run[Len(Configured)]

Init ==
  /\ book = Remembered
  /\ peers = {}
  /\ dialler = Resting /\ user = Resting
  /\ reached = {}
  /\ sent = NoMessage

already_connected(e) == \E p \in peers : p.endpoint = e
outbound_peer_count == Cardinality({p \in peers : p.is_outbound})

PeerList(b, e) == [to |-> e, list |-> reachable(b, ~is_routable(e)) \ {e}]

-----------------------------------------------------------------------------
(* register_new_peer: the part under peers_mutex_, then the address book.  *)

KeepNew(e, is_outbound) == (e \in LargerId) = is_outbound

Accepts(e, is_outbound) == already_connected(e) => KeepNew(e, is_outbound)

Register(e, is_outbound) ==
  peers' = {p \in peers : p.endpoint # e} \cup {[endpoint |-> e, is_outbound |-> is_outbound]}

OutboundBook(e) == mark_success(add(book, e, TRUE), e)

(* An inbound connection, in one step: no other thread looks at its state  *)
(* between the two locks.                                                  *)
AcceptPeer(e) ==
  /\ Accepts(e, FALSE)
  /\ Register(e, FALSE)
  /\ book' = add(book, e, ~is_routable(e))
  /\ sent' = PeerList(book', e)
  /\ UNCHANGED <<dialler, user, reached>>

-----------------------------------------------------------------------------
(* connect_loop                                                            *)

Select ==
  /\ dialler.at = "idle"
  /\ outbound_peer_count < TARGET_OUTBOUND_PEERS /\ Due(book) # {}
  /\ dialler' = [at |-> "selected", target |-> Candidate(book)]
  /\ book' = Selected(book)
  /\ UNCHANGED <<peers, user, reached, sent>>

(* An endpoint that is connected already is only probed.                   *)
LookUp ==
  /\ dialler.at = "selected"
  /\ dialler' = [dialler EXCEPT !.at = IF already_connected(dialler.target)
                                       THEN "probe" ELSE "connect"]
  /\ UNCHANGED <<book, peers, user, reached, sent>>

Probe ==
  /\ dialler.at = "probe"
  /\ dialler' = Resting
  /\ \/ /\ dialler.target \notin Unreachable
        /\ book' = mark_success(book, dialler.target)
        /\ reached' = reached \cup {dialler.target}
     \/ book' = mark_failure(book, dialler.target) /\ UNCHANGED reached
  /\ UNCHANGED <<peers, user, sent>>

DialConnects ==
  /\ dialler.at = "connect" /\ dialler.target \notin Unreachable
  /\ dialler' = [dialler EXCEPT !.at = "handshake"]
  /\ reached' = reached \cup {dialler.target}
  /\ UNCHANGED <<book, peers, user, sent>>

DialRegisters ==
  /\ dialler.at = "handshake" /\ Accepts(Reports[dialler.target], TRUE)
  /\ Register(Reports[dialler.target], TRUE)
  /\ dialler' = [dialler EXCEPT !.at = "registered"]
  /\ UNCHANGED <<book, user, reached, sent>>

DialLeavesClaim ==   \* faulty: a dropped duplicate is not reported back
  /\ \/ dialler.at \in {"connect", "handshake"} /\ book' = mark_failure(book, dialler.target)
     \/ dialler.at = "handshake" /\ ~Accepts(Reports[dialler.target], TRUE) /\ UNCHANGED book
  /\ dialler' = Resting
  /\ UNCHANGED <<peers, user, reached, sent>>

(* No connection, no valid handshake, the node itself at the other end, or *)
(* a duplicate that is dropped.                                            *)
DialFails ==
  /\ dialler.at \in {"connect", "handshake"}
  /\ book' = mark_failure(book, dialler.target)
  /\ dialler' = Resting
  /\ UNCHANGED <<peers, user, reached, sent>>

DialSucceeds ==
  /\ dialler.at = "registered"
  /\ LET e == Reports[dialler.target]
     IN  /\ book' = mark_success(OutboundBook(e), dialler.target)
         /\ sent' = PeerList(OutboundBook(e), e)
  /\ dialler' = Resting
  /\ UNCHANGED <<peers, user, reached>>

Dial ==
  Select \/ LookUp \/ Probe \/ DialConnects \/ DialRegisters \/ DialFails \/ DialSucceeds

-----------------------------------------------------------------------------
(* connect_to_peer, from the console                                       *)

UserConnects(e) ==
  /\ user.at = "idle" /\ ~already_connected(e)
  /\ book' = add(book, e, TRUE)
  /\ user' = [at |-> "connect", target |-> e]
  /\ UNCHANGED <<peers, dialler, reached, sent>>

UserDialConnects ==
  /\ user.at = "connect" /\ user.target \notin Unreachable
  /\ user' = [user EXCEPT !.at = "handshake"]
  /\ reached' = reached \cup {user.target}
  /\ UNCHANGED <<book, peers, dialler, sent>>

UserDialFails ==
  /\ user.at \in {"connect", "handshake"}
  /\ user' = Resting
  /\ UNCHANGED <<book, peers, dialler, reached, sent>>

UserRegisters ==
  /\ user.at = "handshake"
  /\ LET e == Reports[user.target]
     IN  /\ Accepts(e, TRUE) /\ Register(e, TRUE)
         /\ book' = OutboundBook(e)
         /\ sent' = PeerList(book', e)
  /\ user' = Resting
  /\ UNCHANGED <<dialler, reached>>

-----------------------------------------------------------------------------
(* Peers, gossip and time                                                  *)

(* handle_peers, one address at a time; a local peer's are trusted.        *)
HandlePeers(p, e) ==
  /\ book' = add(book, e, ~is_routable(p.endpoint))
  /\ book' # book
  /\ UNCHANGED <<peers, dialler, user, reached, sent>>

GossipPeers(p) ==
  /\ sent' = PeerList(book, p.endpoint)
  /\ UNCHANGED <<book, peers, dialler, user, reached>>

Disconnect(p) ==
  /\ peers' = peers \ {p}
  /\ UNCHANGED <<book, dialler, user, reached, sent>>

(* A dial is short compared with BASE_BACKOFF: time passes while the loop  *)
(* waits for its next round.                                               *)
Tick ==
  /\ dialler.at = "idle"
  /\ Due(book) = {} \/ outbound_peer_count >= TARGET_OUTBOUND_PEERS
  /\ book' = Elapse(book) /\ book' # book
  /\ UNCHANGED <<peers, dialler, user, reached, sent>>

Others ==
  \/ \E e \in Typed : UserConnects(e)
  \/ UserDialConnects \/ UserDialFails \/ UserRegisters
  \/ \E e \in Callers : AcceptPeer(e)
  \/ \E p \in peers : GossipPeers(p) \/ Disconnect(p) \/ \E e \in Heard : HandlePeers(p, e)

Next == Dial \/ Others \/ Tick

(* The connect thread keeps running and time passes.                       *)
Spec == Init /\ [][Next]_vars /\ WF_vars(Dial) /\ WF_vars(Tick)

-----------------------------------------------------------------------------
(* Properties                                                              *)

(* "A node may include an address in a PEERS message only if it has itself *)
(* successfully completed an outbound connection to that exact host:port.  *)
(* Addresses learned from gossip but never dialed, and addresses of        *)
(* inbound peers, are never forwarded" (protocol 5.1).                     *)
OnlyVerifiedIsAdvertised == sent.list \subseteq reached

(* An address that select_candidate has claimed is released again on every *)
(* path of connect_loop, also when another thread registers the same peer  *)
(* meanwhile; one that stayed in_progress would never be dialled again.    *)
ClaimIsReleased ==
  \A e \in Endpoint :
    LET claimed == \E i \in find(book, e) : book[i].in_progress IN claimed ~> ~claimed

(* "Failed attempts are retried" (protocol 5.3): an address that has not   *)
(* been given up gets its turn, although the search always starts from the *)
(* front of the book, unless it connects by itself or the outbound         *)
(* connections suffice.                                                    *)
EveryAddressGetsItsTurn ==
  \A e \in Endpoint :
    (\E i \in find(book, e) : book[i].failures < MAX_FAILURES)
      ~> \/ dialler.target = e \/ already_connected(e)
         \/ outbound_peer_count >= TARGET_OUTBOUND_PEERS

(* "abandoned after a bounded number of consecutive failures" (protocol    *)
(* 5.3): a node that calls in but cannot be called back, whose address may *)
(* come from anywhere any number of times, is in the end no longer dialled.*)
UnreachableIsAbandoned ==
  \A e \in Unreachable : <>[](dialler.target # e)
=============================================================================
