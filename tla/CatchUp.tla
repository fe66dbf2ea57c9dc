------------------------------ MODULE CatchUp ------------------------------
(***************************************************************************)
(* Catching up with a peer: the session state of src/network/Node.cpp, the *)
(* threads that start, feed and end a session, and the chain manager that  *)
(* adopts what it collected.  The node is modelled with all its state; a   *)
(* peer is the chain it serves and the answers the same code gives.        *)
(*                                                                         *)
(*   register_new_peer and request_sync   start a session, then send       *)
(*   peer_loop (one thread per peer)      handle_inv, handle_block         *)
(*   cleaner_loop                         finish_sync_if_due               *)
(*                                                                         *)
(* A connection is a pair of FIFO links that may break at any moment with  *)
(* what they hold.  A peer entry that is dead is skipped wherever peers_   *)
(* is read, so only the live ones are kept.  What the node announces to    *)
(* its peers is left out: it changes nothing here, and the peers move to   *)
(* heavier chains of their own accord.                                     *)
(***************************************************************************)
EXTENDS Integers, Sequences, FiniteSets, SequencesExt, ChainManager, BlockLocator

CONSTANTS
  Peer,                     \* the peers
  PeerTips,                 \* the tips each peer's chain may have
  Own,                      \* the blocks the node's own miner may find
  MAX_BLOCKS_PER_RESPONSE,
  CursorWrap,               \* sync_cursor is kept modulo this multiple of 1..|Peer|
  MaxConnects,              \* how many connections each peer has; the last one lasts
  PromptNetwork             \* whether answers come within the timeouts

ASSUME CatchUpAssumption ==
  /\ PeerTips \in [Peer -> SUBSET Hash] /\ Own \subseteq Hash
  /\ {MAX_BLOCKS_PER_RESPONSE, CursorWrap} \subseteq Nat \ {0} /\ MaxConnects \in [Peer -> Nat]
  /\ \A n \in 1..Cardinality(Peer) : CursorWrap % n = 0
  /\ PromptNetwork \in BOOLEAN
  /\ "ping" \notin Peer

VARIABLES
  peers,        \* peers_: the peers with a live connection, in order
  reported,     \* the chain_height of each peer's VERSION message
  connects,     \* how many connections each peer has had
  theirs,       \* the tip of each peer's chain
  to_us,        \* messages on their way from each peer
  to_them,      \* messages on their way to each peer
  session,      \* sync_state_
  starting,     \* what a thread that starts a session is about to do
  sync_cursor,
  collected     \* the buffer finish_sync_if_due has taken, until adopted

network == <<peers, reported, connects, theirs, to_us, to_them>>
catching == <<session, starting, sync_cursor, collected>>
allvars == <<vars, network, catching>>

Thread == Peer \cup {"ping"}

(* `by' is the thread that started the session, `due' whether last_block   *)
(* lies SYNC_IDLE_TIMEOUT back.                                            *)
NoSession ==
  [active |-> FALSE, peer |-> "none", by |-> "none", live |-> FALSE, due |-> FALSE,
   buffer |-> <<>>]

(* A thread outside the starting code.  `live' turns FALSE when the        *)
(* connection of `peer' breaks; a later one is another Peer object.        *)
Idle == [at |-> "idle", peer |-> "none", live |-> FALSE]

CatchUpInit ==
  /\ Init
  /\ peers = <<>>
  /\ reported = [p \in Peer |-> 0]
  /\ connects = [p \in Peer |-> 0]
  /\ theirs \in {f \in [Peer -> Hash] : \A p \in Peer : f[p] \in PeerTips[p]}
  /\ to_us = [p \in Peer |-> <<>>] /\ to_them = [p \in Peer |-> <<>>]
  /\ session = NoSession
  /\ starting = [t \in Thread |-> Idle]
  /\ sync_cursor = 0
  /\ collected = <<>>

Connected(p) == \E i \in DOMAIN peers : peers[i] = p

(* The chain of a node whose tip is h.                                     *)
ChainOf == [h \in Hash |-> AddBlocks(GenesisChain, Tail(History[h]))]

-----------------------------------------------------------------------------
(* Connections and the peers' side                                         *)

(* register_new_peer up to the point where it decides to catch up.         *)
Connect(p) ==
  /\ ~Connected(p) /\ connects[p] < MaxConnects[p] /\ starting[p] = Idle
  /\ LET height == Len(History[theirs[p]])
     IN  /\ peers' = Append(peers, p)
         /\ reported' = [reported EXCEPT ![p] = height]
         /\ connects' = [connects EXCEPT ![p] = @ + 1]
         /\ IF size(blockchain) < height
            THEN starting' = [starting EXCEPT ![p] = [at |-> "start", peer |-> p, live |-> TRUE]]
            ELSE UNCHANGED starting
  /\ UNCHANGED <<vars, theirs, to_us, to_them, session, sync_cursor, collected>>

(* The connection breaks: mark_dead, and what was in flight is lost.       *)
Disconnect(p) ==
  /\ Connected(p) /\ connects[p] < MaxConnects[p]
  /\ peers' = SelectSeq(peers, LAMBDA q : q # p)
  /\ to_us' = [to_us EXCEPT ![p] = <<>>] /\ to_them' = [to_them EXCEPT ![p] = <<>>]
  /\ session' = IF session.peer = p THEN [session EXCEPT !.live = FALSE] ELSE session
  /\ starting' = [t \in Thread |-> IF starting[t].peer = p
                                   THEN [starting[t] EXCEPT !.live = FALSE] ELSE starting[t]]
  /\ UNCHANGED <<vars, reported, connects, theirs, sync_cursor, collected>>

TheirWork == [h \in Hash |-> ChainOf[h].work[Len(History[h])]]

Heavier(h, k) == TheirWork[h] > TheirWork[k]

(* The peer moves to a heavier chain and announces what entered it; a      *)
(* catch-up of its own (finish_sync_if_due) announces nothing.             *)
PeerMoves(p, h, announced) ==
  /\ Heavier(h, theirs[p])
  /\ theirs' = [theirs EXCEPT ![p] = h]
  /\ LET new == SelectSeq(History[h], LAMBDA b : ~has_block(ChainOf[theirs[p]], b))
         invs == [i \in DOMAIN new |-> [type |-> "INV", hash |-> new[i]]]
     IN  to_us' = IF announced /\ Connected(p) THEN [to_us EXCEPT ![p] = @ \o invs] ELSE to_us
  /\ UNCHANGED <<vars, peers, reported, connects, to_them, catching>>

(* handle_getblocks and handle_getdata, run by the peer.                   *)
PeerAnswers(p) ==
  /\ to_them[p] # <<>>
  /\ to_them' = [to_them EXCEPT ![p] = Tail(@)]
  /\ LET msg == Head(to_them[p])
         chain == ChainOf[theirs[p]]
         blocks == IF msg.type = "GETBLOCKS"
                   THEN blocks_after_locator(chain, msg.locator, MAX_BLOCKS_PER_RESPONSE)
                   ELSE IF has_block(chain, msg.hash) THEN <<msg.hash>> ELSE <<>>
     IN  to_us' = [to_us EXCEPT ![p] =
                     @ \o [i \in DOMAIN blocks |-> [type |-> "BLOCK", hash |-> blocks[i]]]]
  /\ UNCHANGED <<vars, peers, reported, connects, theirs, catching>>

-----------------------------------------------------------------------------
(* Starting a session                                                      *)

RequestFirst ==   \* faulty: does not rotate
  LET targets == SelectSeq(peers, LAMBDA p : reported[p] > size(blockchain))
  IN  /\ starting["ping"] = Idle
      /\ PromptNetwork => session.by # "ping" /\ collected = <<>>
      /\ targets # <<>>
      /\ starting' = [starting EXCEPT !["ping"] =
                        [at |-> "start", live |-> TRUE, peer |-> targets[1]]]
      /\ UNCHANGED <<vars, network, session, sync_cursor, collected>>

(* request_sync picks one of the peers that reported a taller chain.  It   *)
(* does nothing when there is none.  It runs every SYNC_INTERVAL (8 s), so *)
(* when answers are prompt the session it started last is over: silence    *)
(* ends it within SYNC_IDLE_TIMEOUT and CLEANER_TIMEOUT (0.8 s).           *)
RequestSync ==
  LET targets == SelectSeq(peers, LAMBDA p : reported[p] > size(blockchain))
  IN  /\ starting["ping"] = Idle
      /\ PromptNetwork => session.by # "ping" /\ collected = <<>>
      /\ targets # <<>>
      /\ starting' = [starting EXCEPT !["ping"] =
                        [at |-> "start", live |-> TRUE,
                         peer |-> targets[(sync_cursor % Len(targets)) + 1]]]
      /\ sync_cursor' = (sync_cursor + 1) % CursorWrap
      /\ UNCHANGED <<vars, network, session, collected>>

(* start_sync_state, which refuses while a session is active.              *)
StartSession(t) ==
  /\ starting[t].at = "start"
  /\ IF session.active
     THEN /\ starting' = [starting EXCEPT ![t] = Idle]
          /\ UNCHANGED session
     ELSE /\ starting' = [starting EXCEPT ![t].at = "send"]
          /\ session' = [NoSession EXCEPT !.active = TRUE, !.peer = starting[t].peer,
                                          !.by = t, !.live = starting[t].live]
  /\ UNCHANGED <<vars, network, sync_cursor, collected>>

(* Sending GETBLOCKS with a fresh locator.  On a broken connection the     *)
(* bytes may still go into the socket and vanish, or the send fails and    *)
(* reset_sync_state clears whatever session there is.                      *)
SendRequest(t) ==
  /\ starting[t].at = "send"
  /\ starting' = [starting EXCEPT ![t] = Idle]
  /\ to_them' = IF starting[t].live
                THEN [to_them EXCEPT ![starting[t].peer] =
                        Append(@, [type |-> "GETBLOCKS", locator |-> build_locator(blockchain)])]
                ELSE to_them
  /\ UNCHANGED <<vars, peers, reported, connects, theirs, to_us, session, sync_cursor, collected>>

SendFails(t) ==
  /\ starting[t].at = "send" /\ ~starting[t].live
  /\ starting' = [starting EXCEPT ![t] = Idle]
  /\ session' = NoSession
  /\ UNCHANGED <<vars, network, sync_cursor, collected>>

-----------------------------------------------------------------------------
(* Feeding it: the thread of peer p handles its next message               *)

Collecting(p) == session.active /\ session.live /\ session.peer = p

HandleInv(p, h) ==
  /\ to_them' = IF has_block(blockchain, h) THEN to_them
                ELSE [to_them EXCEPT ![p] = Append(@, [type |-> "GETDATA", hash |-> h])]
  /\ UNCHANGED <<vars, session>>

(* A block of the session's peer is buffered, whether it answers the       *)
(* GETBLOCKS or a GETDATA; a full buffer is due at once.                   *)
BufferBlock(p, h) ==
  /\ Collecting(p)
  /\ session' = [session EXCEPT !.buffer = Append(@, h),
                                !.due = Len(session.buffer) + 1 >= MAX_BLOCKS_PER_RESPONSE]
  /\ UNCHANGED <<vars, to_them>>

(* Any other block is submitted, and its parent asked for if that fails.   *)
WantsParent(h) ==
  ForkCandidate(h) /\ build_fork_chain(blockchain, add_orphan(orphan_pool, h), h) = {}

SubmitBlock(p, h) ==
  /\ ~Collecting(p)
  /\ submit_block(h)
  /\ to_them' = IF WantsParent(h)
                THEN [to_them EXCEPT ![p] = Append(@, [type |-> "GETDATA", hash |-> Blk[h].prev])]
                ELSE to_them
  /\ UNCHANGED session

Receive(p) ==
  /\ to_us[p] # <<>>
  /\ to_us' = [to_us EXCEPT ![p] = Tail(@)]
  /\ UNCHANGED <<peers, reported, connects, theirs, starting, sync_cursor, collected>>
  /\ LET msg == Head(to_us[p])
     IN  IF msg.type = "INV" THEN HandleInv(p, msg.hash)
         ELSE BufferBlock(p, msg.hash) \/ SubmitBlock(p, msg.hash)

(* The node's own miner finds a block on top of the tip.                   *)
Mine(h) ==
  /\ ExtendsTip(h) /\ submit_block(h)
  /\ UNCHANGED <<network, catching>>

-----------------------------------------------------------------------------
(* Ending it                                                               *)

(* SYNC_IDLE_TIMEOUT passes without a block.                               *)
Quiet ==
  /\ session.active /\ ~session.due
  /\ PromptNetwork /\ session.live =>
       /\ to_us[session.peer] = <<>> /\ to_them[session.peer] = <<>>
       /\ \A t \in Thread : starting[t].at # "send"
  /\ session' = [session EXCEPT !.due = TRUE]
  /\ UNCHANGED <<vars, network, starting, sync_cursor, collected>>

TakeOnlyWhenFull ==   \* faulty: an idle session is not ended
  /\ collected = <<>>
  /\ session.active /\ (~session.live \/ Len(session.buffer) >= MAX_BLOCKS_PER_RESPONSE)
  /\ collected' = session.buffer
  /\ session' = NoSession
  /\ UNCHANGED <<vars, network, starting, sync_cursor>>

(* finish_sync_if_due: under sync_mutex_ the buffer is taken and the       *)
(* session cleared; adopt_branch follows without the lock.                 *)
TakeBuffer ==
  /\ collected = <<>>
  /\ session.active /\ (~session.live \/ session.due)
  /\ collected' = session.buffer
  /\ session' = NoSession
  /\ UNCHANGED <<vars, network, starting, sync_cursor>>

AdoptCollected ==
  /\ collected # <<>> /\ collected' = <<>>
  /\ UNCHANGED <<network, session, starting, sync_cursor>>
  /\ AdoptBranch(collected) \/ RefuseBranch(collected)

ClockAdvances == ClockMoves /\ clock' > clock /\ UNCHANGED <<network, catching>>

Environment ==
  \/ \E p \in Peer : Connect(p) \/ Disconnect(p)
  \/ \E p \in Peer : \E h \in PeerTips[p], announced \in BOOLEAN : PeerMoves(p, h, announced)
  \/ \E h \in Own : Mine(h)
  \/ ClockAdvances

CatchUpNext ==
  \/ Environment
  \/ \E p \in Peer : PeerAnswers(p) \/ Receive(p)
  \/ RequestSync
  \/ \E t \in Thread : StartSession(t) \/ SendRequest(t) \/ SendFails(t)
  \/ Quiet \/ TakeBuffer \/ AdoptCollected

(***************************************************************************)
(* Every thread of the node and of its peers keeps running, and time       *)
(* passes.  Nothing is assumed of connections, of other chains or of       *)
(* mining: they may change or not.                                         *)
(***************************************************************************)
Fairness ==
  /\ \A p \in Peer : WF_allvars(PeerAnswers(p)) /\ WF_allvars(Receive(p))
  /\ WF_allvars(RequestSync)
  /\ \A t \in Thread : WF_allvars(StartSession(t)) /\ WF_allvars(SendRequest(t) \/ SendFails(t))
  /\ WF_allvars(Quiet) /\ WF_allvars(TakeBuffer) /\ WF_allvars(AdoptCollected)
  /\ WF_allvars(ClockAdvances)

CatchUpSpec == CatchUpInit /\ [][CatchUpNext]_allvars /\ Fairness

-----------------------------------------------------------------------------
(* Properties                                                              *)

(* Every catch-up comes to an end, by a full buffer, by silence, or        *)
(* because its peer is gone, so that the next one can start.               *)
SessionEnds == session.active ~> ~session.active

(* The blocks whose whole chain is valid at a clock.                       *)
Acceptable ==
  [now \in Time |->
    {h \in Hash : \A i \in 2..Len(History[h]) :
       HeaderIsValid(Blk[History[h][i]], i - 1, now, Headers(History[h]))}]

(* The peer's chain is the better one.                                     *)
Behind(p) ==
  Connected(p) /\ theirs[p] \in Acceptable[clock] /\ Heavier(theirs[p], latest(blockchain))

(* A node does not stay behind a connected peer that reported a taller     *)
(* chain: however sessions, relayed blocks, the miner and broken           *)
(* connections interleave, and although another peer may keep offering a   *)
(* chain that is refused, the periodic request in the end adopts the       *)
(* peer's chain or one at least as heavy, provided the answers come in     *)
(* before the idle timeout and fit the cap.                                *)
CatchesUp == \A p \in Peer : []<>~(Behind(p) /\ reported[p] > size(blockchain))
=============================================================================
