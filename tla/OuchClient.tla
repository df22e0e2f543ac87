----------------------------- MODULE OuchClient -----------------------------
(***************************************************************************)
(* client::OuchClient as the peer of a ServerSession, over a connection    *)
(* that neither loses nor reorders.  The owner of the client polls it at   *)
(* least every PollGap units of time and the gateway reads what has        *)
(* arrived within ReadDelay.  Both processes read the same clock.  The     *)
(* connection has been accepted in the initial state; enter, cancel and    *)
(* replace differ only in the message they send.                           *)
(***************************************************************************)
EXTENDS SoupSession

CONSTANTS LoginWait,       \* connect's cap on a silent recv, 2s
          ClientInterval,  \* poll sends a heartbeat after more than this, 1s
          PollGap, ReadDelay,
          PipeRoom,        \* packets the socket's send buffer takes
          MaxSubmitted     \* bound on the orders sent

ASSUME ClientAssumption ==
  /\ {LoginWait, ClientInterval, PollGap, ReadDelay, MaxSubmitted} \subseteq Nat
  /\ PipeRoom \in Nat \ {0}

VARIABLES phase,        \* where the client is; "absent" when the peer is another program
          client_send,  \* the client's last_send_ns_
          up,           \* packets on their way to the server, and when they were sent
          taken,        \* packets of queued the client has received
          parser,       \* received packets that are still in parser_
          submitted, lost,   \* orders sent, and those send had no room for
          dispatched,   \* responses passed to the handler
          polled        \* when the client last received or polled

client == <<phase, client_send, up, taken, parser, submitted, lost, dispatched, polled>>
clientVars == <<vars, client>>

ClientInit ==
  /\ Init
  /\ phase = "idle"
  /\ client_send = 0
  /\ up = << >> /\ taken = 0 /\ parser = << >>
  /\ submitted = 0 /\ lost = 0 /\ dispatched = 0
  /\ polled = now

----------------------------------------------------------------------------

(* send on a socket that does not block: what has no room is dropped, and *)
(* the result is ignored.                                                  *)
Room == Len(up) < PipeRoom

Sent(p) == IF Room THEN Append(up, [packet |-> p, at |-> now]) ELSE up

SendRaw(p) == up' = Sent(p) /\ client_send' = Clock

(* connect, up to its loop. *)
Connect ==
  /\ phase = "idle"
  /\ phase' = "connecting"
  /\ SendRaw("login")
  /\ polled' = now
  /\ UNCHANGED <<vars, taken, parser, submitted, lost, dispatched>>

(* close *)
LogOut ==
  /\ phase' = "closed"
  /\ up' = Sent("logout")

(* The first answer to a login in a sequence of packets, or none. *)
FirstAnswer(got) ==
  LET answers == {i \in DOMAIN got : got[i] \in {"accepted", "rejected"}}
  IN  IF answers = {} THEN 0 ELSE Min(answers)

(* A recv of connect that returns n packets.  What is behind the answer   *)
(* to the login stays in the parser; a rejected client closes.             *)
ReceiveLogin(n) ==
  LET got == SubSeq(queued, taken + 1, taken + n)
      answer == FirstAnswer(got)
      result == IF answer = 0 THEN "connecting"
                ELSE IF got[answer] = "accepted" THEN "open" ELSE "closed"
  IN  /\ phase = "connecting"
      /\ taken' = taken + n
      /\ polled' = now
      /\ phase' = result
      /\ parser' = IF result = "open" THEN SubSeq(got, answer + 1, n) ELSE << >>
      /\ up' = IF result = "closed" THEN Sent("logout") ELSE up
      /\ UNCHANGED <<vars, client_send, submitted, lost, dispatched>>

(* The recv of connect times out, or the server has closed. *)
GiveUp ==
  /\ phase = "connecting"
  /\ taken = Len(queued)
  /\ now - polled >= LoginWait \/ state = "Closed"
  /\ LogOut
  /\ UNCHANGED <<vars, client_send, taken, parser, submitted, lost, dispatched, polled>>

(* enter, cancel and replace: send_ouch. *)
Submit(p) ==
  /\ phase = "open"
  /\ submitted < MaxSubmitted
  /\ submitted' = submitted + 1
  /\ lost' = IF Room THEN lost ELSE lost + 1
  /\ SendRaw(p)
  /\ UNCHANGED <<vars, phase, taken, parser, dispatched, polled>>

(* Mutant: the session timeout is taken for the interval. *)
ClientHeartbeatDueLate == Since(client_send) > SessionTimeout

ClientHeartbeatDue == Since(client_send) > ClientInterval

(* How many elements of a sequence are of some kinds. *)
Count(q, kinds) == Quantify(DOMAIN q, LAMBDA i : q[i] \in kinds)

(* poll: everything that can be read is dispatched or ignored. *)
Poll ==
  LET got == parser \o SubSeq(queued, taken + 1, Len(queued))
  IN  /\ phase = "open"
      /\ taken' = Len(queued) /\ parser' = << >>
      /\ dispatched' = dispatched + Count(got, {"sequenced"})
      /\ polled' = now
      /\ IF ClientHeartbeatDue THEN SendRaw("heartbeat") ELSE UNCHANGED <<up, client_send>>
      /\ UNCHANGED <<vars, phase, submitted, lost>>

ClientClose ==
  /\ phase = "open"
  /\ LogOut
  /\ UNCHANGED <<vars, client_send, taken, parser, submitted, lost, dispatched, polled>>

----------------------------------------------------------------------------

(* The packets of a part of what was sent. *)
PacketsOf(sends) == [i \in DOMAIN sends |-> sends[i].packet]

(* handle_readable: n packets of the client, or a part of one. *)
ServerRead(n) ==
  /\ up # << >>
  /\ OnBytes(PacketsOf(SubSeq(up, 1, n)))
  /\ up' = SubSeq(up, n + 1, Len(up))
  /\ UNCHANGED <<phase, client_send, taken, parser, submitted, lost, dispatched, polled>>

(* What keeps time from passing. *)
Prompt ==
  /\ up # << >> /\ state # "Closed" => now - up[1].at < ReadDelay
  /\ phase # "idle"
  /\ phase = "connecting" => now - polled < LoginWait
  /\ phase = "open" => now - polled < PollGap

ClientNext ==
  \/ Connect
  \/ \E n \in 1 .. Len(queued) - taken : ReceiveLogin(n)
  \/ GiveUp
  \/ \E p \in {"order", "risky_order"} : Submit(p)
  \/ Poll
  \/ ClientClose
  \/ \E n \in 0 .. Len(up) : n <= MaxRead /\ ServerRead(n) /\ owed' <= MaxOwed
  \/ (SendSequenced \/ Tick \/ (Advance /\ Prompt)) /\ UNCHANGED client

ClientSpec == ClientInit /\ [][ClientNext]_clientVars

----------------------------------------------------------------------------
(* Properties *)

(* An idle client's packets are at most an interval, a poll and a read     *)
(* apart; the first comes up to a wait for the login after the request.    *)
PromptEnough ==
  \A wait \in {ClientInterval, LoginWait} : wait + PollGap + ReadDelay < SessionTimeout

(***************************************************************************)
(* ouch_client.hpp:2-3: the client sends heartbeats "so the server's 15s   *)
(* receive timer never fires while idle".  The server's tick() does not    *)
(* drop an open client that is polled, except across midnight, however     *)
(* late in their bounds the polls and the server's reads come, provided    *)
(* that the bounds are PromptEnough for the timeout.                       *)
(***************************************************************************)
ClientKept ==
  [][Tick /\ state' # state /\ phase = "open" => now \div Day # heard \div Day]_clientVars

(***************************************************************************)
(* No order and no answer is lost between the client and the engine: while *)
(* the session lasts, an order that was submitted is under way, with the   *)
(* engine, answered, or was dropped by a send without room.                *)
(***************************************************************************)
OrdersAccounted ==
  LET coming == parser \o SubSeq(queued, taken + 1, Len(queued))
  IN  phase = "open" /\ state # "Closed" =>
        submitted = lost + Count(PacketsOf(up), {"order", "risky_order"}) + owed
                      + Count(coming, {"sequenced"}) + dispatched

============================================================================
