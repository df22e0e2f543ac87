------------------------------ MODULE Gateway ------------------------------
(***************************************************************************)
(* The OUCH gateway's event loop and its connections: accepting, reading,  *)
(* writing, session ticks, responses of the engine, closing.  Every handler*)
(* runs to its end on the gateway thread and is one step; peers, the       *)
(* kernel and the engine act between the steps.  File descriptors are used *)
(* again after a close, client ids are not.  A session's timing is that of *)
(* SoupSession: here its tick may do any of the things it can do.          *)
(***************************************************************************)
EXTENDS Loops, Functions

CONSTANTS Fd,         \* file descriptors for connections
          Packets,    \* what peers send
          MaxPeers,   \* bound on the peers that connect
          MaxPackets, \* bound on the packets a peer sends
          MaxTicks    \* bound on the heartbeats a session sends

ASSUME GatewayAssumption ==
  /\ {MaxPeers, MaxPackets, MaxTicks} \subseteq Nat
  /\ Packets \subseteq {"login", "order", "risky_order", "logout"}
  /\ Fd \cap {"listen", "wake"} = {}

VARIABLES
  backlog, accepted,  \* peers waiting in the listen queue, peers accepted
  next_client_id,
  conns,     \* client id -> connection (conns_)
  by_fd,     \* fd -> client id (by_fd_)
  sock,      \* fd -> the kernel's socket: which peer, there or gone, unread
  cmds,      \* to_engine_: orders on their way
  resps,     \* from_engine_: responses on their way
  pc, events,
  unticked,  \* connections tick_sessions has still to visit
  pumping,   \* responses pump_responses has still to send
  sent,      \* per peer: packets it has sent
  received,  \* per peer: what it got
  answered,  \* per peer: the engine's responses, in order
  touched    \* a connection was used after close_conn destroyed it

peers == <<backlog, accepted, sent>>
engine == <<resps, answered>>
handled == <<conns, by_fd, sock, cmds, received, touched>>
loop == <<pc, events, unticked, pumping>>
vars == <<peers, next_client_id, engine, handled, loop>>

Peer == 1 .. MaxPeers

Init ==
  /\ backlog = 0 /\ accepted = 0 /\ next_client_id = 1
  /\ conns = << >> /\ by_fd = << >> /\ sock = << >>
  /\ cmds = << >> /\ resps = << >>
  /\ pc = "poll" /\ events = {} /\ unticked = {} /\ pumping = << >>
  /\ sent = [p \in Peer |-> 0]
  /\ received = [p \in Peer |-> << >>]
  /\ answered = [p \in Peer |-> << >>]
  /\ touched = FALSE

----------------------------------------------------------------------------
(* Peers and engine *)

Connect ==
  /\ backlog + accepted < MaxPeers
  /\ backlog' = backlog + 1
  /\ UNCHANGED <<accepted, sent, next_client_id, engine, handled, loop>>

PeerSends(fd, type) ==
  LET p == sock[fd].peer
  IN  /\ sock[fd].here /\ sent[p] < MaxPackets
      /\ sent' = [sent EXCEPT ![p] = @ + 1]
      /\ sock' = [sock EXCEPT ![fd].unread = Append(@, [type |-> type, nr |-> sent[p] + 1])]
      /\ UNCHANGED <<backlog, accepted, next_client_id, engine, conns, by_fd,
                     cmds, received, touched, loop>>

PeerLeaves(fd) ==
  /\ sock[fd].here
  /\ sock' = [sock EXCEPT ![fd].here = FALSE]
  /\ UNCHANGED <<peers, next_client_id, engine, conns, by_fd, cmds, received,
                 touched, loop>>

(* The engine handles the oldest order and answers its client. *)
EngineAnswers ==
  /\ cmds # << >>
  /\ cmds' = Tail(cmds)
  /\ resps' = Append(resps, Head(cmds))
  /\ answered' = [answered EXCEPT ![Head(cmds).peer] = Append(@, Head(cmds).nr)]
  /\ UNCHANGED <<peers, next_client_id, conns, by_fd, sock, received, touched,
                 loop>>

----------------------------------------------------------------------------
(* What a handler works on, as one value. *)

State == [conns |-> conns, by_fd |-> by_fd, sock |-> sock, cmds |-> cmds,
          received |-> received, touched |-> touched]

Becomes(s) ==
  /\ conns' = s.conns /\ by_fd' = s.by_fd /\ sock' = s.sock
  /\ cmds' = s.cmds /\ received' = s.received /\ touched' = s.touched

With(f, x, v) == [y \in DOMAIN f \cup {x} |-> IF y = x THEN v ELSE f[y]]
Without(f, x) == Restrict(f, DOMAIN f \ {x})

PeerOf(s, id) == s.sock[s.conns[id].fd].peer

(* Mutant: the descriptor stays in by_fd_. *)
CloseConnKeepingFd(s, id) ==
  [s EXCEPT !.sock = Without(@, s.conns[id].fd), !.conns = Without(@, id)]

CloseConn(s, id) ==
  LET fd == s.conns[id].fd
  IN  [s EXCEPT !.sock = Without(@, fd), !.by_fd = Without(@, fd),
                !.conns = Without(@, id)]

(* send() takes the first n packets, none when it would block, or fails   *)
(* with -1: a peer can reset the connection at any time.                  *)
SendResults(s, id) == -1 .. Len(s.conns[id].outbuf)

(* Mutant: the whole output is erased, not only what send() took. *)
FlushDroppingRest(s, id, n) ==
  LET out == s.conns[id].outbuf
  IN  IF out = << >> THEN s
      ELSE IF n = -1 THEN CloseConn(s, id)
      ELSE [s EXCEPT !.conns[id].outbuf = << >>,
                     !.conns[id].write_enabled = FALSE,
                     !.received[PeerOf(s, id)] = @ \o SubSeq(out, 1, n)]

(* The write filter is on exactly when output is left. *)
Flush(s, id, n) ==
  LET out == s.conns[id].outbuf
  IN  IF out = << >> THEN s
      ELSE IF n = -1 THEN CloseConn(s, id)
      ELSE [s EXCEPT !.conns[id].outbuf = SubSeq(out, n + 1, Len(out)),
                     !.conns[id].write_enabled = n < Len(out),
                     !.received[PeerOf(s, id)] = @ \o SubSeq(out, 1, n)]

(* ServerSession::queue: appended whatever the session's state. *)
Queue(s, id, kind, peer, nr) ==
  [s EXCEPT !.conns[id].outbuf = Append(@, [kind |-> kind, peer |-> peer, nr |-> nr])]

(* ServerSession::on_bytes and handle_ouch for one packet. *)
OnPacket(s, id, pkt) ==
  LET peer == PeerOf(s, id)
      state == s.conns[id].state
  IN  CASE state = "AwaitingLogin" /\ pkt.type = "login" ->
             Queue([s EXCEPT !.conns[id].state = "LoggedIn"], id, "login", peer, 0)
        [] state = "LoggedIn" /\ pkt.type = "order" ->
             [s EXCEPT !.cmds = Append(@, [client |-> id, peer |-> peer, nr |-> pkt.nr])]
        [] state = "LoggedIn" /\ pkt.type = "risky_order" ->
             Queue(s, id, "risk", peer, pkt.nr)
        [] state = "LoggedIn" /\ pkt.type = "logout" ->
             [s EXCEPT !.conns[id].state = "Closed"]
        [] OTHER -> s

(* After flush() the caller asks the connection whether it is finished.    *)
(* When flush() has just destroyed it the question reads freed memory; a   *)
(* second close_conn would find nothing left to erase.                     *)
ReapIfClosed(s, id) ==
  IF id \notin DOMAIN s.conns THEN [s EXCEPT !.touched = TRUE]
  ELSE IF s.conns[id].state = "Closed" /\ s.conns[id].outbuf = << >> THEN CloseConn(s, id)
  ELSE s

----------------------------------------------------------------------------
(* Gateway::run *)

(* Poller::wait: the descriptors that are ready now; a pending error or    *)
(* hang-up counts as readable, and writability is up to the kernel.        *)
ReadableFd(fd) == sock[fd].unread # << >> \/ ~sock[fd].here
WriteWanted == {fd \in DOMAIN by_fd : conns[by_fd[fd]].write_enabled}

Poll ==
  /\ pc = "poll"
  /\ \E writable \in SUBSET WriteWanted :
       events' = {[fd |-> fd, r |-> ReadableFd(fd), w |-> fd \in writable] :
                    fd \in {f \in DOMAIN by_fd : ReadableFd(f) \/ f \in writable}}
                 \cup {[fd |-> fd, r |-> TRUE, w |-> FALSE] :
                         fd \in {f \in {"listen", "wake"} :
                                   IF f = "listen" THEN backlog > 0 ELSE resps # << >>}}
  /\ \/ pc' = "dispatch" /\ UNCHANGED unticked
     \/ pc' = "tick" /\ unticked' = DOMAIN conns
  /\ UNCHANGED <<peers, next_client_id, engine, handled, pumping>>

Heartbeats(id) ==
  Len(SelectSeq(received[PeerOf(State, id)] \o conns[id].outbuf,
                LAMBDA m : m.kind = "heartbeat"))

(* What session.tick() may do. *)
SessionTick(id) ==
  {State}
    \cup {[State EXCEPT !.conns[id].state = "Closed"]}
    \cup (IF conns[id].state = "LoggedIn" /\ Heartbeats(id) < MaxTicks
            THEN {Queue(State, id, "heartbeat", PeerOf(State, id), 0)} ELSE {})

(* One turn of tick_sessions' loop.  The closing of a finished connection  *)
(* waits in the code for the end of the loop; no turn looks at another     *)
(* connection, so closing it at the end of its own turn is the same.       *)
TickSession(id) ==
  /\ pc = "tick" /\ id \in unticked
  /\ unticked' = unticked \ {id}
  /\ \E s \in SessionTick(id) : \E n \in SendResults(s, id) :
       Becomes(ReapIfClosed(Flush(s, id, n), id))
  /\ UNCHANGED <<peers, next_client_id, engine, pc, events, pumping>>

TicksDone ==
  /\ pc = "tick" /\ unticked = {}
  /\ pc' = "dispatch"
  /\ UNCHANGED <<peers, next_client_id, engine, handled, events, unticked, pumping>>

(* An event of this round is taken; what it refers to may be gone, or its  *)
(* descriptor may belong to a connection accepted since.                   *)
Take(ev) ==
  /\ pc = "dispatch"
  /\ ev \in events
  /\ events' = events \ {ev}

EndRound ==
  /\ pc = "dispatch" /\ events = {}
  /\ pc' = "poll"
  /\ UNCHANGED <<peers, next_client_id, engine, handled, events, unticked, pumping>>

(* Mutant: a client id is used again once its connection is gone. *)
FreshIdReused == CHOOSE id \in 1 .. next_client_id : id \notin DOMAIN conns

FreshId == next_client_id

(* handle_accept calls accept() until it fails: nobody waits any more, or *)
(* no descriptor is free and the peer is left in the queue.               *)
HandleAccept(ev) ==
  /\ ev.fd = "listen"
  /\ Take(ev)
  /\ pc' = "accept"
  /\ UNCHANGED <<peers, next_client_id, engine, handled, unticked, pumping>>

Accept(fd) ==
  /\ pc = "accept" /\ backlog > 0
  /\ backlog' = backlog - 1
  /\ accepted' = accepted + 1
  /\ next_client_id' = next_client_id + 1
  /\ sock' = With(sock, fd, [peer |-> accepted + 1, here |-> TRUE, unread |-> << >>])
  /\ by_fd' = With(by_fd, fd, FreshId)
  /\ conns' = With(conns, FreshId, [fd |-> fd, state |-> "AwaitingLogin",
                                    outbuf |-> << >>, write_enabled |-> FALSE])
  /\ UNCHANGED <<sent, engine, cmds, received, touched, loop>>

AcceptFails ==
  /\ pc = "accept"
  /\ backlog = 0 \/ Fd \subseteq DOMAIN sock
  /\ pc' = "dispatch"
  /\ UNCHANGED <<peers, next_client_id, engine, handled, events, unticked, pumping>>

(* handle_readable, then handle_writable when the connection is still there. *)
HandleConn(ev) ==
  /\ ev.fd \in DOMAIN by_fd
  /\ LET id == by_fd[ev.fd]
         fed == InTurn(LAMBDA s, pkt : OnPacket(s, id, pkt),
                       [State EXCEPT !.sock[ev.fd].unread = << >>],
                       sock[ev.fd].unread)
         read == IF ev.r THEN fed ELSE State
     IN  IF ev.r /\ ~sock[ev.fd].here
           THEN Becomes(CloseConn(fed, id))
           ELSE \E n \in SendResults(read, id), m \in SendResults(read, id) :
                  LET s == IF ev.r THEN ReapIfClosed(Flush(read, id, n), id) ELSE State
                  IN  IF ev.w /\ ev.fd \in DOMAIN s.by_fd
                        THEN m \in SendResults(s, id) /\ Becomes(Flush(s, id, m))
                        ELSE m = n /\ Becomes(s)
  /\ Take(ev)
  /\ UNCHANGED <<peers, next_client_id, engine, pc, unticked, pumping>>

(* by_fd_.find(ev.fd) finds nothing. *)
HandleStale(ev) ==
  /\ ev.fd \in Fd \ DOMAIN by_fd
  /\ Take(ev)
  /\ UNCHANGED <<peers, next_client_id, engine, handled, pc, unticked, pumping>>

(* The wake pipe: pump_responses drains the queue. *)
HandleWake(ev) ==
  /\ ev.fd = "wake"
  /\ Take(ev)
  /\ pumping' = resps
  /\ resps' = << >>
  /\ pc' = "pump"
  /\ UNCHANGED <<peers, next_client_id, answered, handled, unticked>>

(* One response: dropped when its client has disconnected meanwhile. *)
PumpResponse ==
  LET resp == Head(pumping)
      s == Queue(State, resp.client, "engine", resp.peer, resp.nr)
  IN  /\ pc = "pump" /\ pumping # << >>
      /\ pumping' = Tail(pumping)
      /\ IF resp.client \in DOMAIN conns
           THEN \E n \in SendResults(s, resp.client) : Becomes(Flush(s, resp.client, n))
           ELSE UNCHANGED handled
      /\ UNCHANGED <<peers, next_client_id, engine, pc, events, unticked>>

PumpDone ==
  /\ pc = "pump" /\ pumping = << >>
  /\ pc' = "dispatch"
  /\ UNCHANGED <<peers, next_client_id, engine, handled, events, unticked, pumping>>

Gateway ==
  \/ Poll \/ TicksDone \/ EndRound \/ PumpResponse \/ PumpDone \/ AcceptFails
  \/ \E id \in unticked : TickSession(id)
  \/ \E fd \in Fd \ DOMAIN sock : Accept(fd)
  \/ \E ev \in events : HandleAccept(ev) \/ HandleConn(ev) \/ HandleStale(ev) \/ HandleWake(ev)

Next ==
  \/ Connect \/ EngineAnswers \/ Gateway
  \/ \E fd \in DOMAIN sock : PeerLeaves(fd) \/ \E t \in Packets : PeerSends(fd, t)

Spec == Init /\ [][Next]_vars

----------------------------------------------------------------------------
(* Properties *)

(***************************************************************************)
(* conns_ and by_fd_ name the same connections, and the descriptors they   *)
(* name are exactly those that are open: none leaks, and an event is never *)
(* dispatched to a connection that was destroyed.                          *)
(***************************************************************************)
MapsAgree ==
  /\ DOMAIN by_fd = {conns[id].fd : id \in DOMAIN conns}
  /\ \A id \in DOMAIN conns : by_fd[conns[id].fd] = id
  /\ DOMAIN sock = DOMAIN by_fd

(***************************************************************************)
(* What is queued for a connection or was sent to a peer answers that very *)
(* peer, although responses outlive connections and descriptors are reused.*)
(***************************************************************************)
OwnAnswersOnly ==
  /\ \A id \in DOMAIN conns : \A i \in DOMAIN conns[id].outbuf :
       conns[id].outbuf[i].peer = PeerOf(State, id)
  /\ \A p \in Peer : \A i \in DOMAIN received[p] : received[p][i].peer = p

(* The engine's answers in a sequence of packets, by the order's number. *)
EngineNrs(q) ==
  InTurn(LAMBDA nrs, m : IF m.kind = "engine" THEN Append(nrs, m.nr) ELSE nrs, << >>, q)

(* The answers to a client among responses, likewise. *)
Due(q, id) ==
  InTurn(LAMBDA nrs, m : IF m.client = id THEN Append(nrs, m.nr) ELSE nrs, << >>, q)

(***************************************************************************)
(* While a connection lives, every answer of the engine to it is sent,     *)
(* waits in its output or is on its way, once and in the engine's order,   *)
(* through short writes, full socket buffers and wake-ups; and output is   *)
(* never left behind: the poller watches for writability exactly while a   *)
(* connection has output the socket did not take.                          *)
(***************************************************************************)
NoAnswerLost ==
  \A id \in DOMAIN conns :
    LET p == PeerOf(State, id)
    IN  /\ EngineNrs(received[p] \o conns[id].outbuf) \o Due(pumping, id) \o Due(resps, id)
             = answered[p]
        /\ conns[id].write_enabled <=> conns[id].outbuf # << >>

(***************************************************************************)
(* A connection is not used once close_conn has destroyed it.              *)
(***************************************************************************)
NotTouchedAfterClose == ~touched

============================================================================
