---------------------------- MODULE SoupSession ----------------------------
(***************************************************************************)
(* soup::ServerSession as the gateway drives it: bytes arrive, engine      *)
(* responses are queued, the output is flushed and tick() runs.  Times are *)
(* read from ns_since_midnight(), which starts again at zero every Day;    *)
(* differences are taken modulo Word, as the unsigned subtraction does.    *)
(* Time advances by one unit at a time and the loop of the gateway ticks   *)
(* in every unit, which is what its poll timeout of one tick period is for.*)
(***************************************************************************)
EXTENDS Loops, Functions

CONSTANTS Day, Word,
          HeartbeatInterval, SessionTimeout,
          Start, Horizon,    \* when the connection opens, where the model ends
          MaxRead,           \* packets completed by one read
          MaxQueued,         \* bound on the packets queued by reads and answers
          MaxOwed            \* bound on the orders the engine has in hand

ASSUME SessionAssumption ==
  /\ {Day, Word, HeartbeatInterval, SessionTimeout} \subseteq Nat \ {0}
  /\ {Start, Horizon, MaxRead, MaxQueued, MaxOwed} \subseteq Nat
  /\ Day < Word /\ HeartbeatInterval < SessionTimeout /\ SessionTimeout < Day

VARIABLES state, last_recv_ns, last_send_ns,
          queued,     \* every packet queued for the peer, by type
          owed,       \* orders passed to the engine and not yet answered
          now,        \* time since the first midnight, never wrapped
          ticked,     \* tick() has run in this unit of time
          heard, said \* when bytes last arrived, when a packet was last queued

session == <<state, last_recv_ns, last_send_ns>>
vars == <<session, queued, owed, now, ticked, heard, said>>

(* ns_since_midnight and the unsigned difference of two readings. *)
Clock == now % Day
Since(then) == (Clock - then) % Word

Init ==
  /\ state = "AwaitingLogin"
  /\ now = Start
  /\ last_recv_ns = Clock /\ last_send_ns = Clock
  /\ queued = << >> /\ owed = 0
  /\ ticked = FALSE
  /\ heard = now /\ said = now

----------------------------------------------------------------------------

(* What one decoded packet does: the session's new state, what it queues  *)
(* and whether an order goes to the engine.  The gateway accepts every    *)
(* login that decodes; handle_ouch answers itself when a risk cap is      *)
(* exceeded, and forwards or drops the order otherwise.                   *)
Packets == {"login", "bad_login", "order", "risky_order", "heartbeat", "logout"}

(* Mutant: an order beyond the risk caps is dropped without an answer. *)
OnPacketDropRisky(s, p) ==
  CASE s.state = "AwaitingLogin" /\ p = "login" ->
         [s EXCEPT !.state = "LoggedIn", !.out = Append(@, "accepted")]
    [] s.state = "AwaitingLogin" /\ p = "bad_login" ->
         [s EXCEPT !.state = "Closed", !.out = Append(@, "rejected")]
    [] s.state = "LoggedIn" /\ p = "order" -> [s EXCEPT !.owed = @ + 1]
    [] s.state = "LoggedIn" /\ p = "logout" -> [s EXCEPT !.state = "Closed"]
    [] OTHER -> s

(* Mutant: orders are handled in every state. *)
OnPacketAnyState(s, p) ==
  CASE p = "login" -> [s EXCEPT !.state = "LoggedIn", !.out = Append(@, "accepted")]
    [] p = "bad_login" -> [s EXCEPT !.state = "Closed", !.out = Append(@, "rejected")]
    [] p = "order" -> [s EXCEPT !.owed = @ + 1]
    [] p = "risky_order" -> [s EXCEPT !.out = Append(@, "sequenced")]
    [] p = "logout" -> [s EXCEPT !.state = "Closed"]
    [] OTHER -> s

OnPacket(s, p) ==
  CASE s.state = "AwaitingLogin" /\ p = "login" ->
         [s EXCEPT !.state = "LoggedIn", !.out = Append(@, "accepted")]
    [] s.state = "AwaitingLogin" /\ p = "bad_login" ->
         [s EXCEPT !.state = "Closed", !.out = Append(@, "rejected")]
    [] s.state = "LoggedIn" /\ p = "order" -> [s EXCEPT !.owed = @ + 1]
    [] s.state = "LoggedIn" /\ p = "risky_order" ->
         [s EXCEPT !.out = Append(@, "sequenced")]
    [] s.state = "LoggedIn" /\ p = "logout" -> [s EXCEPT !.state = "Closed"]
    [] OTHER -> s

Queue(out) ==
  /\ queued' = queued \o out
  /\ said' = IF out = << >> THEN said ELSE now

(* on_bytes: a read that completes the packets pkts, possibly none. *)
OnBytes(pkts) ==
  LET s == InTurn(OnPacket, [state |-> state, owed |-> owed, out |-> << >>], pkts)
  IN  /\ state # "Closed"
      /\ state' = s.state
      /\ owed' = s.owed
      /\ last_recv_ns' = Clock
      /\ heard' = now
      /\ Queue(s.out)
      /\ UNCHANGED <<last_send_ns, now, ticked>>

(* pump_responses: the engine's answer to an order of this connection. *)
SendSequenced ==
  /\ owed > 0
  /\ owed' = owed - 1
  /\ Queue(<<"sequenced">>)
  /\ UNCHANGED <<session, now, ticked, heard>>

(* Mutant: the wrong one of the two timestamps. *)
TimedOutOnSend == Since(last_send_ns) >= SessionTimeout

TimedOut == Since(last_recv_ns) >= SessionTimeout

(* Mutant: one interval too late. *)
HeartbeatDueLate ==
  /\ state = "LoggedIn"
  /\ Since(last_send_ns) > HeartbeatInterval + 1

HeartbeatDue ==
  /\ state = "LoggedIn"
  /\ Since(last_send_ns) >= HeartbeatInterval

Tick ==
  /\ ~ticked
  /\ ticked' = TRUE
  /\ \/ /\ state # "Closed" /\ TimedOut
        /\ state' = "Closed"
        /\ UNCHANGED <<last_recv_ns, last_send_ns, queued, said>>
     \/ /\ state # "Closed" /\ ~TimedOut /\ HeartbeatDue
        /\ Queue(<<"heartbeat">>)
        /\ last_send_ns' = Clock
        /\ UNCHANGED <<state, last_recv_ns>>
     \/ /\ state = "Closed" \/ (~TimedOut /\ ~HeartbeatDue)
        /\ UNCHANGED <<session, queued, said>>
  /\ UNCHANGED <<owed, now, heard>>

Advance ==
  /\ ticked
  /\ now < Horizon
  /\ now' = now + 1
  /\ ticked' = FALSE
  /\ UNCHANGED <<session, queued, owed, heard, said>>

Reads == UNION {[1 .. n -> Packets] : n \in 0 .. MaxRead}

Next ==
  \/ \E pkts \in Reads : OnBytes(pkts) /\ Len(queued') <= MaxQueued /\ owed' <= MaxOwed
  \/ SendSequenced /\ Len(queued') <= MaxQueued
  \/ Tick
  \/ Advance

Spec == Init /\ [][Next]_vars

----------------------------------------------------------------------------
(* Properties *)

(***************************************************************************)
(* The peer's first packet is the answer to its login, there is one such   *)
(* answer, and nothing follows a rejection: no order is answered and no    *)
(* heartbeat sent on a connection that has not logged in.                  *)
(***************************************************************************)
LoginFirst ==
  /\ queued \in Seq({"accepted", "rejected", "sequenced", "heartbeat"})
  /\ \A i \in DOMAIN queued :
       /\ i = 1 <=> queued[i] \in {"accepted", "rejected"}
       /\ queued[i] = "rejected" => Len(queued) = 1 /\ state = "Closed"

(***************************************************************************)
(* Silence is bounded on both sides.  A peer that stays silent is dropped: *)
(* at the end of every unit of time an open session has heard something    *)
(* within the timeout.  A peer that is logged in hears something at least  *)
(* once per heartbeat interval, however the engine's responses fall        *)
(* between the ticks.  Only its first heartbeat may come late, when it     *)
(* logged in a day after it connected: last_send_ns is then the same time  *)
(* of the day before, and looks recent.                                    *)
(***************************************************************************)
SilenceBounded ==
  ticked /\ state # "Closed" =>
    /\ now - heard < SessionTimeout
    /\ state = "LoggedIn" /\ ("heartbeat" \in Range(queued) \/ now - Start < Day) =>
         now - said < HeartbeatInterval

(***************************************************************************)
(* On the day on which the peer was last heard, tick() drops the session   *)
(* only after the timeout's length of silence on the receiving side.       *)
(***************************************************************************)
DropsWithinDay ==
  [][Tick /\ state' # state /\ now \div Day = heard \div Day
       => now - heard >= SessionTimeout]_vars

(***************************************************************************)
(* soup.hpp:28-29: "either side may drop the session after 15s of receive- *)
(* silence", which tick() measures with ns_since_midnight().               *)
(***************************************************************************)
DropsOnlySilentPeers ==
  [][Tick /\ state' # state => now - heard >= SessionTimeout]_vars

============================================================================
