---------------------------- MODULE SessionProofs ----------------------------
(***************************************************************************)
(* What a soup::ServerSession says to a peer and how long either side is   *)
(* silent, for every timeout, interval and length of the day, and whatever *)
(* the peer sends.  What a read queues is a fold over its packets; the     *)
(* invariant Served describes the packets queued so far and is preserved   *)
(* by each packet of the fold.  Silence is measured from two ghost times,  *)
(* the last byte heard and the last heartbeat sent.                        *)
(*                                                                         *)
(* The second half is about an OuchClient as the peer: how long the server *)
(* may go without hearing from it, and where its orders are.  The argument *)
(* follows the client's last send: while a packet of it is under way the   *)
(* server will read soon, and when none is the server has heard it.  The   *)
(* last send itself is never further back than one wait and one poll.      *)
(***************************************************************************)
EXTENDS OuchClient, FoldLemmas, FiniteSetTheorems

(* A difference of clock readings less than a day apart is the time that   *)
(* has passed, or one day less across midnight.                            *)
LEMMA ClockDifference ==
  \A d \in Nat \ {0} : \A a, b \in Nat :
    a <= b /\ b - a < d =>
      /\ (b % d) - (a % d) \in {b - a, b - a - d}
      /\ b \div d = a \div d => (b % d) - (a % d) = b - a
<1> SUFFICES ASSUME NEW d \in Nat \ {0}, NEW a \in Nat, NEW b \in Nat, a <= b, b - a < d
             PROVE  /\ (b % d) - (a % d) \in {b - a, b - a - d}
                    /\ b \div d = a \div d => (b % d) - (a % d) = b - a
  BY Zenon
<1>1. /\ a = d * (a \div d) + (a % d) /\ a % d \in 0 .. d - 1 /\ a \div d \in Int
      /\ b = d * (b \div d) + (b % d) /\ b % d \in 0 .. d - 1 /\ b \div d \in Int
  OBVIOUS
<1> DEFINE p == a \div d
           q == b \div d
           x == a % d
           y == b % d
<1>2. /\ p \in Int /\ q \in Int /\ x \in 0 .. d - 1 /\ y \in 0 .. d - 1
      /\ a = d * p + x /\ b = d * q + y
  BY <1>1
<1> SUFFICES y - x \in {b - a, b - a - d} /\ (q = p => y - x = b - a)
  OBVIOUS
<1> HIDE DEF p, q, x, y
<1>3. q = p \/ q = p + 1
  BY <1>2
<1> QED BY <1>2, <1>3

(* The unsigned difference of two readings is no less than the time that   *)
(* has passed, and is that time within a day.                              *)
LEMMA SinceElapsed ==
  ASSUME now \in Nat, NEW t \in Nat, t <= now, now - t < Day
  PROVE  /\ Since(t % Day) \in Nat /\ Since(t % Day) >= now - t
         /\ now \div Day = t \div Day => Since(t % Day) = now - t
<1> DEFINE x == (now % Day) - (t % Day)
<1>1. x \in {now - t, now - t - Day} /\ (now \div Day = t \div Day => x = now - t)
  <2>1. Day \in Nat \ {0}
    BY SessionAssumption
  <2> QED BY <2>1, ClockDifference, Zenon
<1>2. Word \in Nat /\ Day \in Nat /\ Day < Word
  BY SessionAssumption
<1>3. Since(t % Day) = x % Word
  BY DEF Since, Clock
<1> HIDE DEF x
<1>4. \A n \in 0 .. Word - 1 : n % Word = n
  BY <1>2
<1>5. \A n \in 1 .. Word - 1 : (n - Word) % Word = n
  BY <1>2
<1>6. CASE x = now - t
  BY <1>1, <1>2, <1>3, <1>4, <1>6
<1>7. CASE x = now - t - Day
  <2> DEFINE n == now - t - Day + Word
  <2>1. n \in 1 .. Word - 1 /\ x = n - Word /\ n >= now - t /\ x # now - t
    BY <1>2, <1>7, SessionAssumption
  <2>2. x % Word = n
    BY <1>5, <2>1
  <2> QED BY <1>1, <1>3, <2>1, <2>2
<1> QED BY <1>1, <1>6, <1>7

----------------------------------------------------------------------------
(* The session, whatever its peer: what on_bytes queues. *)

Answers == {"accepted", "rejected", "sequenced"}
Outs == Answers \cup {"heartbeat"}
States == {"AwaitingLogin", "LoggedIn", "Closed"}

(* What on_bytes makes of the packets of a read, one after the other. *)
Handling == [state : States, owed : Nat, out : Seq(Answers)]

Before == [state |-> state, owed |-> owed, out |-> << >>]

(* One packet queues at most one answer. *)
LEMMA OnPacketCases ==
  ASSUME NEW a \in Handling, NEW p \in Packets
  PROVE  /\ OnPacket(a, p) \in Handling
         /\ \/ OnPacket(a, p) = a
            \/ /\ a.state = "AwaitingLogin"
               /\ OnPacket(a, p).state = "LoggedIn"
               /\ OnPacket(a, p).owed = a.owed
               /\ OnPacket(a, p).out = Append(a.out, "accepted")
            \/ /\ a.state = "AwaitingLogin"
               /\ OnPacket(a, p).state = "Closed"
               /\ OnPacket(a, p).owed = a.owed
               /\ OnPacket(a, p).out = Append(a.out, "rejected")
            \/ /\ a.state = "LoggedIn"
               /\ OnPacket(a, p).state \in {"LoggedIn", "Closed"}
               /\ OnPacket(a, p).owed \in {a.owed, a.owed + 1}
               /\ OnPacket(a, p).out \in {a.out, Append(a.out, "sequenced")}
<1> DEFINE o1 == Append(a.out, "accepted")
           o2 == Append(a.out, "rejected")
           o3 == Append(a.out, "sequenced")
<1>1. a.state \in States /\ a.owed \in Nat /\ a.owed + 1 \in Nat /\ a.out \in Seq(Answers)
  BY DEF Handling
<1>2. o1 \in Seq(Answers) /\ o2 \in Seq(Answers) /\ o3 \in Seq(Answers)
  BY <1>1 DEF Answers
<1>3. \/ OnPacket(a, p) = a
      \/ /\ a.state = "AwaitingLogin"
         /\ OnPacket(a, p) = [a EXCEPT !.state = "LoggedIn", !.out = o1]
      \/ /\ a.state = "AwaitingLogin"
         /\ OnPacket(a, p) = [a EXCEPT !.state = "Closed", !.out = o2]
      \/ /\ a.state = "LoggedIn"
         /\ OnPacket(a, p) \in {[a EXCEPT !.owed = a.owed + 1],
                                [a EXCEPT !.out = o3], [a EXCEPT !.state = "Closed"]}
  BY DEF OnPacket
<1> SUFFICES /\ OnPacket(a, p) \in Handling
             /\ \/ OnPacket(a, p) = a
                \/ /\ a.state = "AwaitingLogin"
                   /\ OnPacket(a, p).state = "LoggedIn"
                   /\ OnPacket(a, p).owed = a.owed /\ OnPacket(a, p).out = o1
                \/ /\ a.state = "AwaitingLogin"
                   /\ OnPacket(a, p).state = "Closed"
                   /\ OnPacket(a, p).owed = a.owed /\ OnPacket(a, p).out = o2
                \/ /\ a.state = "LoggedIn"
                   /\ OnPacket(a, p).state \in {"LoggedIn", "Closed"}
                   /\ OnPacket(a, p).owed \in {a.owed, a.owed + 1}
                   /\ OnPacket(a, p).out \in {a.out, o3}
  OBVIOUS
<1> HIDE DEF o1, o2, o3
<1> QED BY <1>1, <1>2, <1>3, Zenon DEF Handling, States

(* on_bytes' loop over the packets of a read: InTurn's recursive function. *)
LEMMA OnPacketFoldIs ==
  ASSUME NEW a0 \in Handling, NEW s \in Seq(Packets)
  PROVE  \E F, h : /\ FoldedBy(F, h, Handling, a0, Len(s))
                   /\ \A a \in Handling, i \in 1 .. Len(s) : F[<<a, i>>] = OnPacket(a, s[i])
                   /\ InTurn(OnPacket, a0, s) = Whole(h, Len(s))
<1> DEFINE n == Len(s)
           F == [x \in Handling \X (1 .. n) |-> OnPacket(x[1], s[x[2]])]
           Q(f) == f = [t \in SUBSET DOMAIN s |->
                          IF t = {} THEN a0 ELSE OnPacket(f[t \ {Max(t)}], s[Max(t)])]
<1>1. n \in Nat /\ DOMAIN s = 1 .. n /\ \A i \in 1 .. n : s[i] \in Packets
  OBVIOUS
<1>2. \A a \in Handling, i \in 1 .. n : F[<<a, i>>] = OnPacket(a, s[i])
  OBVIOUS
<1> HIDE DEF n, F
<1>3. StepOn(F, Handling, n)
  <2>1. \A a \in Handling, p \in Packets : OnPacket(a, p) \in Handling
    BY OnPacketCases
  <2> QED BY <1>1, <1>2, <2>1, Zenon DEF StepOn
<1>4. \E f : Q(f)
  <2>1. PICK f : FoldsIn(f, F, Handling, a0, n)
    BY <1>1, <1>3, FoldExists
  <2>2. Q(f)
    BY <1>1, <1>2, <2>1, Zenon DEF FoldsIn
  <2> QED BY <2>2, Zenon
<1>5. PICK h : Q(h) /\ InTurn(OnPacket, a0, s) = Whole(h, n)
  <2> DEFINE c == CHOOSE f : Q(f)
  <2>1. Q(c)
    BY <1>4, Zenon
  <2>2. InTurn(OnPacket, a0, s) = c[1 .. n]
    BY <1>1 DEF InTurn, MapThenFoldSet
  <2> HIDE DEF c
  <2> QED BY <2>1, <2>2, Zenon DEF Whole
<1>6. Folds(h, F, Handling, a0, n)
  BY <1>1, <1>2, <1>5, Zenon DEF Folds
<1>7. FoldedBy(F, h, Handling, a0, n)
  BY <1>3, <1>6 DEF FoldedBy
<1> QED BY <1>2, <1>5, <1>7, Zenon DEF n

(* The two equations of the fold, and its type. *)
LEMMA OnPacketFold ==
  ASSUME NEW a0 \in Handling
  PROVE  /\ InTurn(OnPacket, a0, << >>) = a0
         /\ \A s \in Seq(Packets) : InTurn(OnPacket, a0, s) \in Handling
         /\ \A s \in Seq(Packets), p \in Packets :
              InTurn(OnPacket, a0, Append(s, p)) = OnPacket(InTurn(OnPacket, a0, s), p)
<1>1. ASSUME NEW s \in Seq(Packets)
      PROVE  InTurn(OnPacket, a0, s) \in Handling /\ (s = << >> => InTurn(OnPacket, a0, s) = a0)
  <2>1. PICK F, h : FoldedBy(F, h, Handling, a0, Len(s)) /\ InTurn(OnPacket, a0, s) = Whole(h, Len(s))
    BY OnPacketFoldIs, Zenon
  <2>2. /\ Whole(h, 0) = a0
        /\ \A i \in 0 .. Len(s) : Whole(h, i) \in Handling
    BY <2>1, FoldStep DEF FoldedBy
  <2> QED BY <2>1, <2>2
<1>2. ASSUME NEW s \in Seq(Packets), NEW p \in Packets
      PROVE  InTurn(OnPacket, a0, Append(s, p)) = OnPacket(InTurn(OnPacket, a0, s), p)
  <2> DEFINE n == Len(s)
             r == Append(s, p)
  <2>1. /\ n \in Nat /\ r \in Seq(Packets) /\ Len(r) = n + 1 /\ r[n + 1] = p
        /\ \A i \in 1 .. n : r[i] = s[i]
    OBVIOUS
  <2>2. PICK F, f : /\ FoldedBy(F, f, Handling, a0, n)
                    /\ \A a \in Handling, i \in 1 .. n : F[<<a, i>>] = OnPacket(a, s[i])
                    /\ InTurn(OnPacket, a0, s) = Whole(f, n)
    BY OnPacketFoldIs, Zenon
  <2> HIDE DEF n, r
  <2>3. PICK G, g : /\ FoldedBy(G, g, Handling, a0, Len(r))
                    /\ \A a \in Handling, i \in 1 .. Len(r) : G[<<a, i>>] = OnPacket(a, r[i])
                    /\ InTurn(OnPacket, a0, r) = Whole(g, Len(r))
    BY <2>1, OnPacketFoldIs, Zenon
  <2>4. Agree(F, G, Handling, n) /\ \A a \in Handling : G[<<a, n + 1>>] = OnPacket(a, p)
    BY <2>1, <2>2, <2>3 DEF Agree
  <2>5. FoldedBy(G, g, Handling, a0, n + 1) /\ InTurn(OnPacket, a0, r) = Whole(g, n + 1)
    BY <2>1, <2>3
  <2>6. Whole(f, n) \in Handling /\ Whole(g, n + 1) = G[<<Whole(f, n), n + 1>>]
    BY <2>1, <2>2, <2>4, <2>5, FoldAppend
  <2> QED BY <2>2, <2>4, <2>5, <2>6 DEF r
<1>3. << >> \in Seq(Packets)
  BY EmptySeq
<1> QED BY <1>1, <1>2, <1>3, Zenon

----------------------------------------------------------------------------

(* A session in state st that owes ow answers and has queued q so far. *)
Served(st, ow, q) ==
  /\ st \in States /\ ow \in Nat /\ q \in Seq(Outs)
  /\ \A i \in 1 .. Len(q) : i = 1 <=> q[i] \in {"accepted", "rejected"}
  /\ q = << >> => ow = 0 /\ st # "LoggedIn"
  /\ q # << >> => st # "AwaitingLogin"
  /\ q # << >> /\ q[1] = "rejected" => Len(q) = 1 /\ st = "Closed" /\ ow = 0

(* The first packet answers the login. *)
LEMMA ServedFirst ==
  ASSUME NEW st \in States, NEW ow, NEW q, Served("AwaitingLogin", ow, q),
         NEW x \in {"accepted", "rejected"}, st = (IF x = "accepted" THEN "LoggedIn" ELSE "Closed")
  PROVE  Served(st, ow, Append(q, x))
<1>1. q = << >> /\ ow = 0
  BY DEF Served
<1>2. Append(q, x) = <<x>>
  BY <1>1
<1>3. <<x>> \in Seq(Outs) /\ Len(<<x>>) = 1 /\ <<x>>[1] = x /\ <<x>> # << >>
  BY DEF Outs, Answers
<1> QED BY <1>1, <1>2, <1>3 DEF Served, States

(* Nothing else is queued before it. *)
LEMMA ServedMore ==
  ASSUME NEW st \in States, NEW ow \in Nat, NEW q, Served(st, ow, q),
         NEW x \in {"sequenced", "heartbeat"}, ow > 0 \/ st = "LoggedIn",
         NEW st2 \in {st, "Closed"}, NEW ow2 \in Nat
  PROVE  Served(st2, ow2, Append(q, x)) /\ Served(st2, ow2, q)
<1>1. q \in Seq(Outs) /\ q # << >> /\ q[1] # "rejected" /\ st # "AwaitingLogin"
  BY DEF Served
<1>2. /\ Append(q, x) \in Seq(Outs) /\ Len(Append(q, x)) = Len(q) + 1 /\ Len(q) \in Nat \ {0}
      /\ Append(q, x)[Len(q) + 1] = x /\ \A i \in 1 .. Len(q) : Append(q, x)[i] = q[i]
  <2>1. x \in Outs
    BY DEF Outs, Answers
  <2>2. Len(q) # 0
    BY <1>1, EmptySeq
  <2> QED BY <1>1, <2>1, <2>2
<1> DEFINE r == Append(q, x)
<1> HIDE DEF r
<1>3. /\ r \in Seq(Outs) /\ Len(r) = Len(q) + 1 /\ r # << >> /\ r[1] = q[1]
      /\ \A i \in 1 .. Len(r) : i = 1 <=> r[i] \in {"accepted", "rejected"}
  BY <1>2 DEF r, Served
<1>4. Served(st2, ow2, r)
  BY <1>1, <1>3 DEF Served, States
<1>5. Served(st2, ow2, q)
  BY <1>1 DEF Served, States
<1> QED BY <1>4, <1>5 DEF r

(* on_packet keeps the form of what is queued. *)
LEMMA ServedPacket ==
  ASSUME NEW q \in Seq(Outs), NEW a \in Handling, NEW p \in Packets,
         Served(a.state, a.owed, q \o a.out)
  PROVE  Served(OnPacket(a, p).state, OnPacket(a, p).owed, q \o OnPacket(a, p).out)
<1> DEFINE b == OnPacket(a, p)
           w == q \o a.out
<1>1. /\ a.state \in States /\ a.owed \in Nat /\ a.out \in Seq(Answers)
      /\ b.state \in States /\ b.owed \in Nat
  BY OnPacketCases DEF Handling
<1>2. \A x \in Answers : q \o Append(a.out, x) = Append(w, x)
  BY <1>1 DEF Outs
<1>3. \/ b = a
      \/ /\ a.state = "AwaitingLogin" /\ b.state = "LoggedIn"
         /\ b.owed = a.owed /\ b.out = Append(a.out, "accepted")
      \/ /\ a.state = "AwaitingLogin" /\ b.state = "Closed"
         /\ b.owed = a.owed /\ b.out = Append(a.out, "rejected")
      \/ /\ a.state = "LoggedIn" /\ b.state \in {"LoggedIn", "Closed"}
         /\ b.owed \in {a.owed, a.owed + 1}
         /\ b.out \in {a.out, Append(a.out, "sequenced")}
  BY OnPacketCases
<1>4. \/ b = a
      \/ /\ a.state = "AwaitingLogin" /\ b.state = "LoggedIn"
         /\ b.owed = a.owed /\ q \o b.out = Append(w, "accepted")
      \/ /\ a.state = "AwaitingLogin" /\ b.state = "Closed"
         /\ b.owed = a.owed /\ q \o b.out = Append(w, "rejected")
      \/ /\ a.state = "LoggedIn" /\ b.state \in {"LoggedIn", "Closed"}
         /\ q \o b.out \in {w, Append(w, "sequenced")}
  BY <1>2, <1>3, Zenon DEF Answers
<1>5. Served(a.state, a.owed, w)
  OBVIOUS
<1> SUFFICES Served(b.state, b.owed, q \o b.out)
  OBVIOUS
<1>6. b = a => Served(b.state, b.owed, q \o b.out)
  BY <1>5
<1> HIDE DEF b, w
<1>7. ASSUME a.state = "AwaitingLogin", b.owed = a.owed,
             \/ b.state = "LoggedIn" /\ q \o b.out = Append(w, "accepted")
             \/ b.state = "Closed" /\ q \o b.out = Append(w, "rejected")
      PROVE  Served(b.state, b.owed, q \o b.out)
  BY <1>1, <1>5, <1>7, ServedFirst, Zenon
<1>8. ASSUME a.state = "LoggedIn", b.state \in {"LoggedIn", "Closed"},
             q \o b.out \in {w, Append(w, "sequenced")}
      PROVE  Served(b.state, b.owed, q \o b.out)
  BY <1>1, <1>5, <1>8, ServedMore, Zenon
<1> QED BY <1>4, <1>6, <1>7, <1>8

(* And so does a whole read; it queues no heartbeat. *)
LEMMA ServedBytes ==
  ASSUME Served(state, owed, queued), NEW pkts \in Seq(Packets), OnBytes(pkts)
  PROVE  /\ Served(state', owed', queued')
         /\ \E out \in Seq(Answers) : /\ queued' = queued \o out
                                      /\ said' = IF out = << >> THEN said ELSE now
<1> DEFINE Fed(s) == InTurn(OnPacket, Before, s)
           T == {s \in Seq(Packets) : Served(Fed(s).state, Fed(s).owed, queued \o Fed(s).out)}
<1>1. Before \in Handling /\ queued \in Seq(Outs)
  BY DEF Served, Before, Handling
<1>2. /\ Fed(<< >>) = Before
      /\ \A s \in Seq(Packets) : Fed(s) \in Handling
      /\ \A s \in Seq(Packets), p \in Packets : Fed(Append(s, p)) = OnPacket(Fed(s), p)
  BY <1>1, OnPacketFold, Zenon
<1> HIDE DEF Fed
<1>3. << >> \in T
  <2>1. Before.state = state /\ Before.owed = owed /\ Before.out = << >>
    BY DEF Before
  <2>2. queued \o << >> = queued
    BY <1>1
  <2>3. Served(Fed(<< >>).state, Fed(<< >>).owed, queued \o Fed(<< >>).out)
    BY <1>2, <2>1, <2>2, Zenon
  <2>4. << >> \in Seq(Packets)
    BY EmptySeq
  <2> QED BY <2>3, <2>4
<1>4. ASSUME NEW s \in Seq(Packets), NEW p \in Packets, s \in T
      PROVE  Append(s, p) \in T
  <2>1. Append(s, p) \in Seq(Packets) /\ Fed(s) \in Handling
    BY <1>2
  <2>2. Served(OnPacket(Fed(s), p).state, OnPacket(Fed(s), p).owed, queued \o OnPacket(Fed(s), p).out)
    BY <1>1, <1>4, <2>1, ServedPacket
  <2> QED BY <1>2, <2>1, <2>2
<1>5. Seq(Packets) \subseteq T
  <2> HIDE DEF T
  <2> QED BY <1>3, <1>4, SeqInduct
<1>6. Served(Fed(pkts).state, Fed(pkts).owed, queued \o Fed(pkts).out)
  BY <1>5
<1>7. /\ state' = Fed(pkts).state /\ owed' = Fed(pkts).owed
      /\ queued' = queued \o Fed(pkts).out
      /\ said' = IF Fed(pkts).out = << >> THEN said ELSE now
  BY DEF OnBytes, Queue, Fed, Before
<1>8. Fed(pkts).out \in Seq(Answers)
  BY <1>2 DEF Handling
<1> QED BY <1>6, <1>7, <1>8, Zenon

(* What the server does, whoever the peer is. *)
ServerStep ==
  \/ \E pkts \in Seq(Packets) : OnBytes(pkts)
  \/ SendSequenced \/ Tick \/ Advance
  \/ UNCHANGED vars

(* Queueing one packet. *)
LEMMA QueueOne ==
  ASSUME queued \in Seq(Outs), NEW x \in Outs, Queue(<<x>>)
  PROVE  queued' = Append(queued, x) /\ said' = now
BY DEF Queue

(* Every step of the session keeps the form of what is queued. *)
LEMMA ServedStep ==
  ASSUME Served(state, owed, queued), ServerStep
  PROVE  Served(state', owed', queued')
<1>1. state \in States /\ owed \in Nat /\ queued \in Seq(Outs)
  BY DEF Served
<1>2. ASSUME NEW pkts \in Seq(Packets), OnBytes(pkts) PROVE Served(state', owed', queued')
  BY <1>2, ServedBytes
<1>3. CASE SendSequenced
  <2>1. owed > 0 /\ owed' = owed - 1 /\ state' = state /\ Queue(<<"sequenced">>)
    BY <1>3 DEF SendSequenced, session
  <2>2. queued' = Append(queued, "sequenced")
    BY <1>1, <2>1, QueueOne DEF Outs, Answers
  <2>3. owed' \in Nat /\ state' \in {state, "Closed"}
    BY <1>1, <2>1
  <2> QED BY <1>1, <2>1, <2>2, <2>3, ServedMore
<1>4. CASE Tick
  <2>1. owed' = owed
    BY <1>4 DEF Tick
  <2>2. CASE state # "Closed" /\ state' = "Closed" /\ queued' = queued
    BY <2>1, <2>2 DEF Served, States
  <2>3. CASE state = "LoggedIn" /\ Queue(<<"heartbeat">>) /\ state' = state
    <3>1. queued' = Append(queued, "heartbeat")
      BY <1>1, <2>3, QueueOne DEF Outs
    <3>2. Served(state, owed, Append(queued, "heartbeat"))
      BY <1>1, <2>3, ServedMore
    <3> QED BY <2>1, <2>3, <3>1, <3>2
  <2>4. CASE UNCHANGED <<state, queued>>
    BY <2>1, <2>4
  <2> QED BY <1>4, <2>2, <2>3, <2>4 DEF Tick, HeartbeatDue, session
<1>5. CASE Advance \/ UNCHANGED vars
  BY <1>5 DEF Advance, vars, session
<1> QED BY <1>2, <1>3, <1>4, <1>5 DEF ServerStep

(* That form implies the property. *)
LEMMA ServedLoginFirst ==
  ASSUME Served(state, owed, queued)
  PROVE  LoginFirst
<1>1. queued \in Seq(Outs) /\ Outs = {"accepted", "rejected", "sequenced", "heartbeat"}
  BY DEF Served, Outs, Answers
<1>2. DOMAIN queued = 1 .. Len(queued) /\ Len(queued) \in Nat
  BY <1>1
<1>3. ASSUME NEW i \in 1 .. Len(queued)
      PROVE  /\ i = 1 <=> queued[i] \in {"accepted", "rejected"}
             /\ queued[i] = "rejected" => Len(queued) = 1 /\ state = "Closed"
  <2>1. i = 1 <=> queued[i] \in {"accepted", "rejected"}
    BY DEF Served
  <2>2. queued # << >>
    BY <1>2, EmptySeq
  <2> QED BY <2>1, <2>2 DEF Served
<1> QED BY <1>1, <1>2, <1>3 DEF LoginFirst

(* Nothing is queued at first. *)
LEMMA InitServed == Init => Served(state, owed, queued)
<1>1. << >> \in Seq(Outs) /\ Len(<< >>) = 0
  BY EmptySeq
<1> QED BY <1>1 DEF Init, Served, States

(* A read completes a sequence of packets. *)
LEMMA NextIsServerStep == [Next]_vars => ServerStep
<1>1. Reads \subseteq Seq(Packets)
  <2>1. \A n \in 0 .. MaxRead : [1 .. n -> Packets] \subseteq Seq(Packets)
    BY IsASeq
  <2> QED BY <2>1 DEF Reads
<1> QED BY <1>1 DEF Next, ServerStep

(***************************************************************************)
(* The server's first packet answers the login, for reads of any number of *)
(* packets by any peer: on_bytes queues nothing before it, and nothing     *)
(* after a rejection.                                                      *)
(***************************************************************************)
THEOREM LoginFirstThm == Spec => []LoginFirst
<1>1. Served(state, owed, queued) /\ [Next]_vars => Served(state, owed, queued)'
  BY ServedStep, NextIsServerStep
<1> QED BY <1>1, InitServed, ServedLoginFirst, PTL DEF Spec

----------------------------------------------------------------------------
(* The session, whatever its peer: how long either side is silent. *)

(* A heartbeat was sent; `then` is no longer ago than the limit, and less  *)
(* than that when tick() has run.                                          *)
Beating == "heartbeat" \in Range(queued)
Within(then, limit) == now - then <= limit /\ (ticked => now - then < limit)

Timed ==
  /\ now \in Nat /\ heard \in Nat /\ said \in Nat
  /\ heard <= now /\ Start <= said /\ said <= now
  /\ last_recv_ns = heard % Day
  /\ state # "Closed" => Within(heard, SessionTimeout)

(* The last heartbeat was sent at time t, or the session began then. *)
BeatAt(t) ==
  /\ t <= said
  /\ last_send_ns = t % Day
  /\ ~Beating => t = Start
  /\ state = "LoggedIn" /\ Beating => Within(t, HeartbeatInterval)
  /\ state = "LoggedIn" /\ (Beating \/ now - Start < Day) => Within(said, HeartbeatInterval)

SInv == Served(state, owed, queued) /\ Timed /\ \E t \in Nat : BeatAt(t)

(* What the assumption on the constants gives. *)
LEMMA SessionBounds ==
  /\ HeartbeatInterval \in Nat \ {0} /\ SessionTimeout \in Nat \ {0} /\ Day \in Nat \ {0}
  /\ HeartbeatInterval < Day /\ SessionTimeout < Day /\ Start \in Nat
BY SessionAssumption

(* The session as it starts. *)
LEMMA InitSInv == Init => SInv
<1> SUFFICES ASSUME Init PROVE SInv
  OBVIOUS
<1>1. Served(state, owed, queued)
  BY InitServed
<1>2. Timed
  BY SessionBounds DEF Init, Timed, Within, Clock
<1>3. BeatAt(Start)
  <2>1. ~Beating
    BY DEF Init, Beating, Range
  <2> QED BY <2>1, SessionBounds DEF Init, BeatAt, Clock
<1> QED BY <1>1, <1>2, <1>3, SessionBounds DEF SInv

(* A heartbeat in a concatenation is in one of the parts. *)
LEMMA HeartbeatIn ==
  ASSUME NEW q \in Seq(Outs), NEW out \in Seq(Outs)
  PROVE  "heartbeat" \in Range(q \o out) <=>
           "heartbeat" \in Range(q) \/ "heartbeat" \in Range(out)
<1> DEFINE r == q \o out
<1>1. /\ Len(q) \in Nat /\ Len(out) \in Nat /\ Len(r) = Len(q) + Len(out)
      /\ DOMAIN q = 1 .. Len(q) /\ DOMAIN out = 1 .. Len(out) /\ DOMAIN r = 1 .. Len(r)
      /\ \A i \in 1 .. Len(q) : r[i] = q[i]
      /\ \A i \in 1 .. Len(out) : r[Len(q) + i] = out[i]
  OBVIOUS
<1> HIDE DEF r
<1>2. \A i \in 1 .. Len(r) : i \in 1 .. Len(q) \/ i - Len(q) \in 1 .. Len(out)
  BY <1>1
<1>3. \A i \in 1 .. Len(r) : i \in 1 .. Len(q) \/ r[i] = out[i - Len(q)]
  <2> SUFFICES ASSUME NEW i \in 1 .. Len(r), i \notin 1 .. Len(q) PROVE r[i] = out[i - Len(q)]
    OBVIOUS
  <2> DEFINE j == i - Len(q)
  <2>1. j \in 1 .. Len(out) /\ i = Len(q) + j
    BY <1>1
  <2> QED BY <1>1, <2>1
<1>4. ASSUME "heartbeat" \in Range(r) PROVE "heartbeat" \in Range(q) \/ "heartbeat" \in Range(out)
  BY <1>1, <1>2, <1>3, <1>4 DEF Range
<1>5. ASSUME "heartbeat" \in Range(q) PROVE "heartbeat" \in Range(r)
  <2>1. \A i \in 1 .. Len(q) : i \in 1 .. Len(r)
    BY <1>1
  <2> QED BY <1>1, <1>5, <2>1 DEF Range
<1>6. ASSUME "heartbeat" \in Range(out) PROVE "heartbeat" \in Range(r)
  <2>1. \A i \in 1 .. Len(out) : Len(q) + i \in 1 .. Len(r)
    BY <1>1
  <2> QED BY <1>1, <1>6, <2>1 DEF Range
<1> QED BY <1>4, <1>5, <1>6 DEF r

(* Only tick() sends heartbeats. *)
LEMMA AnswersNoHeartbeat ==
  ASSUME NEW out \in Seq(Answers)
  PROVE  out \in Seq(Outs) /\ "heartbeat" \notin Range(out)
<1>1. \A i \in 1 .. Len(out) : out[i] \in Answers
  OBVIOUS
<1>2. out \in Seq(Outs)
  BY SeqMonotonic DEF Outs
<1> QED BY <1>1, <1>2 DEF Range, Answers

(* on_bytes keeps the times: the peer has just been heard. *)
LEMMA BytesKeep ==
  ASSUME SInv, NEW pkts \in Seq(Packets), OnBytes(pkts)
  PROVE  Timed' /\ \E t \in Nat : BeatAt(t)'
<1>1. Served(state, owed, queued) /\ Timed /\ queued \in Seq(Outs)
  BY DEF SInv, Served
<1>2. /\ heard' = now /\ last_recv_ns' = now % Day /\ state # "Closed"
      /\ UNCHANGED <<last_send_ns, now, ticked>>
  BY DEF OnBytes, Clock
<1>3. PICK out \in Seq(Answers) : /\ queued' = queued \o out
                                  /\ said' = IF out = << >> THEN said ELSE now
  BY <1>1, ServedBytes
<1>4. Beating' <=> Beating
  BY <1>1, <1>3, HeartbeatIn, AnswersNoHeartbeat DEF Beating
<1>5. PICK t \in Nat : BeatAt(t)
  BY DEF SInv
<1>6. said' \in {said, now} /\ said' \in Nat /\ Start <= said' /\ said' <= now /\ said <= said'
  BY <1>1, <1>3, SessionBounds DEF Timed
<1>7. Timed'
  BY <1>1, <1>2, <1>6, SessionBounds DEF Timed, Within
<1>8. state' = "LoggedIn" => state = "LoggedIn" \/ (said' = now /\ ~Beating)
  <2> SUFFICES ASSUME state' = "LoggedIn", state = "AwaitingLogin"
               PROVE  said' = now /\ ~Beating
    BY <1>1, <1>2, Zenon DEF Served, States
  <2>1. queued = << >>
    BY <1>1 DEF Served
  <2>2. Served(state', owed', queued')
    BY <1>1, ServedBytes
  <2>3. queued' # << >>
    BY <2>2 DEF Served
  <2>4. out # << >>
    BY <1>3, <2>1, <2>3
  <2> QED BY <1>3, <2>1, <2>4 DEF Beating, Range
<1>9. t <= said'
  BY <1>1, <1>5, <1>6 DEF BeatAt, Timed
<1>10. state' = "LoggedIn" /\ Beating => Within(t, HeartbeatInterval)'
  BY <1>2, <1>5, <1>8 DEF BeatAt, Within
<1>11. state' = "LoggedIn" /\ (Beating \/ now - Start < Day) => Within(said, HeartbeatInterval)'
  <2>1. CASE said' = now
    BY <1>1, <1>2, <2>1, SessionBounds DEF Timed, Within
  <2>2. CASE said' = said
    BY <1>1, <1>2, <1>5, <1>8, <2>2, SessionBounds DEF BeatAt, Timed, Within
  <2> QED BY <1>6, <2>1, <2>2
<1>12. BeatAt(t)'
  BY <1>2, <1>4, <1>5, <1>9, <1>10, <1>11 DEF BeatAt
<1> QED BY <1>7, <1>12

(* send_sequenced keeps the times, and does not touch last_send_ns_. *)
LEMMA SequencedKeeps ==
  ASSUME SInv, SendSequenced
  PROVE  Timed' /\ \E t \in Nat : BeatAt(t)'
<1>1. Timed /\ queued \in Seq(Outs)
  BY DEF SInv, Served
<1>2. UNCHANGED <<state, last_recv_ns, last_send_ns, now, ticked, heard>> /\ Queue(<<"sequenced">>)
  BY DEF SendSequenced, session
<1>3. <<"sequenced">> \in Seq(Answers)
  BY DEF Answers
<1>4. queued' = queued \o <<"sequenced">> /\ said' = now
  BY <1>2 DEF Queue
<1>5. Beating' <=> Beating
  BY <1>1, <1>3, <1>4, HeartbeatIn, AnswersNoHeartbeat, Zenon DEF Beating
<1>6. PICK t \in Nat : BeatAt(t)
  BY DEF SInv
<1>7. Timed'
  BY <1>1, <1>2, <1>4, SessionBounds DEF Timed, Within
<1>8. t <= now
  BY <1>1, <1>6 DEF BeatAt, Timed
<1>9. BeatAt(t)'
  BY <1>1, <1>2, <1>4, <1>5, <1>6, <1>8, SessionBounds DEF BeatAt, Timed, Within
<1> QED BY <1>7, <1>9

(* A reading that looks no older than a limit is no older. *)
LEMMA SinceBelow ==
  ASSUME now \in Nat, NEW t \in Nat, t <= now, now - t < Day, NEW limit \in Nat,
         ~(Since(t % Day) >= limit)
  PROVE  now - t < limit
BY SinceElapsed

(* tick keeps the times: what is overdue is dropped or sent. *)
LEMMA TickKeeps ==
  ASSUME SInv, Tick
  PROVE  Timed' /\ \E t \in Nat : BeatAt(t)'
<1>1. Timed /\ queued \in Seq(Outs)
  BY DEF SInv, Served
<1>2. ticked' /\ ~ticked /\ UNCHANGED <<now, heard>>
  BY DEF Tick
<1>3. PICK t \in Nat : BeatAt(t)
  BY DEF SInv
<1>4. state # "Closed" /\ ~TimedOut => now - heard < SessionTimeout
  <2> SUFFICES ASSUME state # "Closed", ~TimedOut PROVE now - heard < SessionTimeout
    OBVIOUS
  <2>1. now - heard < Day
    BY <1>1, SessionBounds DEF Timed, Within
  <2> QED BY <1>1, <2>1, SinceBelow, SessionBounds DEF Timed, TimedOut
<1>5. CASE state # "Closed" /\ TimedOut /\ state' = "Closed"
           /\ UNCHANGED <<last_recv_ns, last_send_ns, queued, said>>
  <2>1. Timed'
    BY <1>1, <1>2, <1>5 DEF Timed
  <2>2. BeatAt(t)'
    BY <1>3, <1>5 DEF BeatAt, Beating
  <2> QED BY <2>1, <2>2
<1>6. CASE state # "Closed" /\ ~TimedOut /\ HeartbeatDue /\ Queue(<<"heartbeat">>)
           /\ last_send_ns' = Clock /\ UNCHANGED <<state, last_recv_ns>>
  <2>1. queued' = queued \o <<"heartbeat">> /\ said' = now /\ last_send_ns' = now % Day
    BY <1>6 DEF Queue, Clock
  <2>2. Timed'
    BY <1>1, <1>2, <1>4, <1>6, <2>1, SessionBounds DEF Timed, Within
  <2>3. <<"heartbeat">> \in Seq(Outs) /\ "heartbeat" \in Range(<<"heartbeat">>)
    BY DEF Outs, Range
  <2>4. Beating'
    BY <1>1, <2>1, <2>3, HeartbeatIn, Zenon DEF Beating
  <2>5. BeatAt(now)'
    BY <1>1, <1>2, <2>1, <2>4, SessionBounds DEF BeatAt, Timed, Within
  <2> QED BY <1>1, <2>2, <2>5 DEF Timed
<1>7. CASE (state = "Closed" \/ (~TimedOut /\ ~HeartbeatDue)) /\ UNCHANGED <<session, queued, said>>
  <2>1. UNCHANGED <<state, last_recv_ns, last_send_ns, queued, said>>
    BY <1>7 DEF session
  <2>2. Timed'
    BY <1>1, <1>2, <1>4, <1>7, <2>1 DEF Timed, Within
  <2>3. ASSUME state = "LoggedIn", Beating \/ now - Start < Day PROVE now - t < HeartbeatInterval
    <3>1. t <= now /\ now - t < Day
      BY <1>1, <1>3, <2>3, SessionBounds DEF BeatAt, Timed, Within
    <3>2. ~(Since(t % Day) >= HeartbeatInterval)
      BY <1>3, <1>7, <2>3 DEF HeartbeatDue, BeatAt
    <3> QED BY <1>1, <3>1, <3>2, SinceBelow, SessionBounds, Zenon DEF Timed
  <2>4. Beating' <=> Beating
    BY <2>1 DEF Beating
  <2>5. BeatAt(t)'
    BY <1>1, <1>2, <1>3, <2>1, <2>3, <2>4, SessionBounds DEF BeatAt, Timed, Within
  <2> QED BY <2>2, <2>5
<1> QED BY <1>5, <1>6, <1>7 DEF Tick

(* Time passes only after a tick. *)
LEMMA AdvanceKeepsTimes ==
  ASSUME SInv, Advance
  PROVE  Timed' /\ \E t \in Nat : BeatAt(t)'
<1>1. Timed
  BY DEF SInv
<1>2. /\ ticked /\ now' = now + 1 /\ ticked' = FALSE
      /\ UNCHANGED <<state, last_recv_ns, last_send_ns, queued, heard, said>>
  BY DEF Advance, session
<1>3. PICK t \in Nat : BeatAt(t)
  BY DEF SInv
<1>4. Beating' <=> Beating
  BY <1>2 DEF Beating
<1>5. Timed'
  BY <1>1, <1>2, SessionBounds DEF Timed, Within
<1>6. BeatAt(t)'
  BY <1>1, <1>2, <1>3, <1>4, SessionBounds DEF BeatAt, Timed, Within
<1> QED BY <1>5, <1>6

(* Every step of the session keeps the invariant. *)
LEMMA StepSInv ==
  ASSUME SInv, ServerStep
  PROVE  SInv'
<1>1. Served(state', owed', queued')
  BY ServedStep DEF SInv
<1>2. CASE UNCHANGED vars
  <2>1. UNCHANGED <<state, last_recv_ns, last_send_ns, queued, heard, said, now, ticked>>
    BY <1>2 DEF vars, session
  <2>2. PICK t \in Nat : BeatAt(t)
    BY DEF SInv
  <2>3. Timed' /\ BeatAt(t)'
    BY <2>1, <2>2 DEF SInv, Timed, BeatAt, Beating, Within
  <2> QED BY <1>1, <2>3 DEF SInv
<1>3. CASE ~UNCHANGED vars
  <2>1. Timed' /\ \E t \in Nat : BeatAt(t)'
    BY <1>3, BytesKeep, SequencedKeeps, TickKeeps, AdvanceKeepsTimes DEF ServerStep
  <2> QED BY <1>1, <2>1 DEF SInv
<1> QED BY <1>2, <1>3

(* The invariant implies the bound on silence. *)
LEMMA SInvSilence == SInv => SilenceBounded
<1> SUFFICES ASSUME SInv, ticked, state # "Closed"
             PROVE  /\ now - heard < SessionTimeout
                    /\ state = "LoggedIn" /\ (Beating \/ now - Start < Day) =>
                         now - said < HeartbeatInterval
  BY DEF SilenceBounded, Beating
<1>1. PICK t \in Nat : BeatAt(t)
  BY DEF SInv
<1> QED BY <1>1 DEF SInv, Timed, BeatAt, Within

(***************************************************************************)
(* tick() bounds the silence on both sides, for every timeout and          *)
(* heartbeat interval, over any number of days and whatever the peer sends.*)
(***************************************************************************)
THEOREM SilenceBoundedThm == Spec => []SilenceBounded
<1>1. SInv /\ [Next]_vars => SInv'
  BY StepSInv, NextIsServerStep
<1> QED BY <1>1, InitSInv, SInvSilence, PTL DEF Spec

----------------------------------------------------------------------------
(* The session, whatever its peer: when it is dropped. *)

(* Two times of one day are less than a day apart. *)
LEMMA SameDay ==
  ASSUME NEW d \in Nat \ {0}, NEW a \in Nat, NEW b \in Nat, b \div d = a \div d
  PROVE  b - a < d
<1> DEFINE p == a \div d
           x == a % d
           y == b % d
<1>1. /\ p \in Int /\ x \in 0 .. d - 1 /\ y \in 0 .. d - 1
      /\ a = d * p + x /\ b = d * p + y
  OBVIOUS
<1> HIDE DEF p, x, y
<1> QED BY <1>1

(***************************************************************************)
(* tick() measures silence rightly within a day: for every day, timeout    *)
(* and heartbeat interval, and whatever the peer sends, a session is       *)
(* dropped on the day it was last heard only after the timeout's length.   *)
(***************************************************************************)
THEOREM DropsWithinDayThm == Spec => DropsWithinDay
<1>1. SInv /\ [Next]_vars => SInv'
  BY StepSInv, NextIsServerStep
<1>2. ASSUME SInv
      PROVE  [Tick /\ state' # state /\ now \div Day = heard \div Day
                => now - heard >= SessionTimeout]_vars
  <2> SUFFICES ASSUME Tick, state' # state, now \div Day = heard \div Day
               PROVE  now - heard >= SessionTimeout
    OBVIOUS
  <2>1. Since(last_recv_ns) >= SessionTimeout
    BY DEF Tick, TimedOut, session
  <2>2. Since(heard % Day) = now - heard
    BY <1>2, SameDay, SinceElapsed, SessionBounds, Zenon DEF SInv, Timed
  <2> QED BY <1>2, <2>1, <2>2 DEF SInv, Timed
<1> QED BY <1>1, <1>2, InitSInv, PTL DEF Spec, DropsWithinDay

----------------------------------------------------------------------------
(* The client as the peer. *)

Sends == Seq([packet : Packets, at : Nat])

(* The largest time between two sends of an open client. *)
SendGap == (IF ClientInterval > LoginWait THEN ClientInterval ELSE LoginWait) + PollGap

(* The server's side: when it heard the client last. *)
Heard ==
  /\ now \in Nat /\ heard \in Nat /\ polled \in Nat
  /\ heard <= now /\ polled <= now
  /\ last_recv_ns = heard % Day

(* What is under way was sent in order, the first of it not long after the *)
(* server heard something, and is read soon.                               *)
UnderWay ==
  /\ up \in Sends
  /\ \A i \in 1 .. Len(up) : up[i].at <= now
  /\ \A i, j \in 1 .. Len(up) : i <= j => up[i].at <= up[j].at
  /\ up # << >> => up[1].at - heard <= SendGap
  /\ up # << >> /\ state # "Closed" => now - up[1].at <= ReadDelay

(* The client sent last at time t, which client_send_ records. *)
SentAt(t) ==
  /\ t <= now
  /\ client_send = t % Day
  /\ up = << >> => t <= heard
  /\ phase = "connecting" => taken = 0 /\ t = polled /\ now - t <= LoginWait
  /\ phase = "open" => polled - t <= SendGap - PollGap /\ now - polled <= PollGap

CInv ==
  /\ Heard /\ UnderWay
  /\ phase \in {"idle", "connecting", "open", "closed"}
  /\ phase = "idle" => up = << >> /\ heard = now /\ taken = 0
  /\ phase \in {"connecting", "open"} => \E t \in Nat : SentAt(t)

----------------------------------------------------------------------------
(* The constants as numbers. *)
LEMMA Bounds ==
  /\ SendGap \in Nat /\ SendGap >= PollGap /\ ReadDelay \in Nat /\ PollGap \in Nat
  /\ LoginWait \in Nat /\ ClientInterval \in Nat /\ PipeRoom \in Nat \ {0}
  /\ LoginWait <= SendGap - PollGap /\ ClientInterval <= SendGap - PollGap
  /\ Day \in Nat \ {0} /\ SessionTimeout \in Nat /\ SessionTimeout < Day /\ Start \in Nat
  /\ PromptEnough => SendGap + ReadDelay < SessionTimeout
<1>1. /\ LoginWait \in Nat /\ ClientInterval \in Nat /\ PollGap \in Nat /\ ReadDelay \in Nat
      /\ PipeRoom \in Nat \ {0} /\ Day \in Nat \ {0} /\ SessionTimeout \in Nat
      /\ SessionTimeout < Day /\ Start \in Nat
  BY ClientAssumption, SessionAssumption
<1>2. PromptEnough => /\ ClientInterval + PollGap + ReadDelay < SessionTimeout
                      /\ LoginWait + PollGap + ReadDelay < SessionTimeout
  BY DEF PromptEnough
<1> QED BY <1>1, <1>2 DEF SendGap

----------------------------------------------------------------------------
(* The client. *)

(* Counting. *)
LEMMA CountEmpty ==
  ASSUME NEW K
  PROVE  Count(<< >>, K) = 0
<1>1. {i \in DOMAIN << >> : << >>[i] \in K} = {}
  OBVIOUS
<1> QED BY <1>1, FS_EmptySet DEF Count, Quantify

(* Counting in a sequence of one. *)
LEMMA CountOne ==
  ASSUME NEW x, NEW K
  PROVE  Count(<<x>>, K) = IF x \in K THEN 1 ELSE 0
<1> DEFINE I == {i \in DOMAIN <<x>> : <<x>>[i] \in K}
<1>1. I = IF x \in K THEN {1} ELSE {}
  OBVIOUS
<1>2. Cardinality({1}) = 1 /\ Cardinality({}) = 0
  BY FS_EmptySet, FS_Singleton, Zenon
<1>3. Count(<<x>>, K) = Cardinality(I)
  BY DEF Count, Quantify
<1> QED BY <1>1, <1>2, <1>3

(* Counting in a longer sequence. *)
LEMMA CountAppend ==
  ASSUME NEW M, NEW q \in Seq(M), NEW x \in M, NEW K
  PROVE  /\ Count(q, K) \in Nat
         /\ Count(Append(q, x), K) = Count(q, K) + (IF x \in K THEN 1 ELSE 0)
<1> DEFINE I == {i \in 1 .. Len(q) : q[i] \in K}
           r == Append(q, x)
           J == {i \in 1 .. Len(q) + 1 : r[i] \in K}
           n == Len(q) + 1
<1>2. /\ Len(q) \in Nat /\ Len(r) = Len(q) + 1 /\ r[n] = x
      /\ \A i \in 1 .. Len(q) : r[i] = q[i]
      /\ DOMAIN q = 1 .. Len(q) /\ DOMAIN r = 1 .. Len(q) + 1
  OBVIOUS
<1>3. Count(q, K) = Cardinality(I) /\ Count(r, K) = Cardinality(J)
  BY <1>2 DEF Count, Quantify
<1>4. IsFiniteSet(I)
  <2>1. IsFiniteSet(1 .. Len(q))
    BY <1>2, FS_Interval
  <2> QED BY <2>1, FS_Subset
<1>5. Cardinality(I) \in Nat
  BY <1>4, FS_CardinalityType
<1>6. n \notin I
  BY <1>2
<1>7. J = IF x \in K THEN I \cup {n} ELSE I
  <2> HIDE DEF r
  <2>1. \A i \in 1 .. n : i = n \/ i \in 1 .. Len(q)
    BY <1>2
  <2> QED BY <1>2, <2>1
<1> HIDE DEF I, J, n, r
<1>8. Cardinality(I \cup {n}) = Cardinality(I) + 1
  BY <1>4, <1>6, FS_AddElement
<1> QED BY <1>3, <1>5, <1>7, <1>8 DEF r

(* A count is a natural number. *)
LEMMA CountNat ==
  ASSUME NEW M, NEW q \in Seq(M), NEW K
  PROVE  Count(q, K) \in Nat
<1>1. CASE M = {}
  <2>1. q = << >>
    BY <1>1
  <2> QED BY <2>1, CountEmpty
<1>2. CASE M # {}
  BY <1>2, CountAppend
<1> QED BY <1>1, <1>2

(* Counts add up over a concatenation. *)
LEMMA CountConcat ==
  ASSUME NEW M, NEW q \in Seq(M), NEW r \in Seq(M), NEW K
  PROVE  Count(q \o r, K) = Count(q, K) + Count(r, K)
<1> DEFINE T == {s \in Seq(M) : Count(q \o s, K) = Count(q, K) + Count(s, K)}
<1>1. << >> \in T
  <2>1. << >> \in Seq(M) /\ q \o << >> = q
    OBVIOUS
  <2>2. Count(q, K) \in Nat
    BY CountNat
  <2> QED BY <2>1, <2>2, CountEmpty
<1>2. ASSUME NEW s \in Seq(M), NEW x \in M, s \in T
      PROVE  Append(s, x) \in T
  <2>1. /\ Append(s, x) \in Seq(M) /\ q \o s \in Seq(M)
        /\ q \o Append(s, x) = Append(q \o s, x)
    OBVIOUS
  <2> DEFINE w == q \o s
             one == IF x \in K THEN 1 ELSE 0
  <2>2. Count(w, K) = Count(q, K) + Count(s, K) /\ w \in Seq(M)
    BY <1>2, <2>1
  <2> HIDE DEF w, one
  <2>3. /\ Count(Append(w, x), K) = Count(w, K) + one
        /\ Count(Append(s, x), K) = Count(s, K) + one
        /\ Count(q, K) \in Nat /\ Count(s, K) \in Nat /\ one \in Nat
    BY <2>2, CountAppend DEF one
  <2>4. Count(q \o Append(s, x), K) = Count(q, K) + Count(Append(s, x), K)
    BY <2>1, <2>2, <2>3 DEF w
  <2> QED BY <2>1, <2>4, Zenon
<1>3. Seq(M) \subseteq T
  <2> HIDE DEF T
  <2> QED BY <1>1, <1>2, SeqInduct
<1> QED BY <1>3

(* Counts add up over a split. *)
LEMMA CountSplit ==
  ASSUME NEW M, NEW q \in Seq(M), NEW n \in 0 .. Len(q), NEW K
  PROVE  Count(q, K) = Count(SubSeq(q, 1, n), K) + Count(SubSeq(q, n + 1, Len(q)), K)
<1> DEFINE a == SubSeq(q, 1, n)
           b == SubSeq(q, n + 1, Len(q))
<1>1. a \in Seq(M) /\ b \in Seq(M) /\ q = a \o b
  BY SplitSeq, Zenon
<1> HIDE DEF a, b
<1>2. Count(a \o b, K) = Count(a, K) + Count(b, K)
  BY <1>1, CountConcat
<1> QED BY <1>1, <1>2, Zenon DEF a, b

Orders == {"order", "risky_order"}
Seqd == {"sequenced"}
Coming == parser \o SubSeq(queued, taken + 1, Len(queued))

(* An order of a client that is logged in is owed an answer or has one. *)
LEMMA PacketAccounts ==
  ASSUME NEW a \in Handling, NEW p \in Packets, OnPacket(a, p).state # "Closed"
  PROVE  /\ a.state # "Closed"
         /\ a.state = "LoggedIn" => OnPacket(a, p).state = "LoggedIn"
         /\ a.state = "LoggedIn" \/ p \notin Orders =>
              OnPacket(a, p).owed + Count(OnPacket(a, p).out, Seqd) =
                a.owed + Count(a.out, Seqd) + (IF p \in Orders THEN 1 ELSE 0)
<1> DEFINE o1 == Append(a.out, "accepted")
           o3 == Append(a.out, "sequenced")
           c == Count(a.out, Seqd)
<1>1. a.state \in States /\ a.owed \in Nat /\ a.out \in Seq(Answers)
  BY DEF Handling
<1>2. c \in Nat /\ Count(o1, Seqd) = c /\ Count(o3, Seqd) = c + 1
  <2>1. {"accepted", "sequenced"} \subseteq Answers /\ "accepted" \notin Seqd /\ "sequenced" \in Seqd
    BY DEF Answers, Seqd
  <2> DEFINE out == a.out
  <2>2. out \in Seq(Answers)
    BY <1>1
  <2> HIDE DEF out
  <2>3. /\ Count(out, Seqd) \in Nat
        /\ Count(Append(out, "accepted"), Seqd) = Count(out, Seqd) + (IF "accepted" \in Seqd THEN 1 ELSE 0)
        /\ Count(Append(out, "sequenced"), Seqd) = Count(out, Seqd) + (IF "sequenced" \in Seqd THEN 1 ELSE 0)
    BY <2>1, <2>2, CountAppend
  <2> QED BY <2>1, <2>3 DEF out
<1>3. \/ OnPacket(a, p) = a /\ (a.state = "LoggedIn" => p \notin Orders)
      \/ /\ a.state = "AwaitingLogin" /\ p = "login"
         /\ OnPacket(a, p) = [a EXCEPT !.state = "LoggedIn", !.out = o1]
      \/ OnPacket(a, p).state = "Closed"
      \/ /\ a.state = "LoggedIn" /\ p = "order"
         /\ OnPacket(a, p) = [a EXCEPT !.owed = a.owed + 1]
      \/ /\ a.state = "LoggedIn" /\ p = "risky_order"
         /\ OnPacket(a, p) = [a EXCEPT !.out = o3]
  BY DEF OnPacket, Orders, Handling
<1> HIDE DEF o1, o3, c
<1>4. CASE OnPacket(a, p) = a /\ (a.state = "LoggedIn" => p \notin Orders)
  <2>1. a.state # "Closed" /\ (a.state = "LoggedIn" => OnPacket(a, p).state = "LoggedIn")
    BY <1>4
  <2>2. OnPacket(a, p).owed = a.owed /\ Count(OnPacket(a, p).out, Seqd) = c /\ Count(a.out, Seqd) = c
    BY <1>4 DEF c
  <2>3. a.state = "LoggedIn" \/ p \notin Orders => p \notin Orders
    BY <1>4
  <2> QED BY <1>1, <1>2, <2>1, <2>2, <2>3
<1>5. CASE a.state = "AwaitingLogin" /\ p = "login"
           /\ OnPacket(a, p) = [a EXCEPT !.state = "LoggedIn", !.out = o1]
  <2>1. OnPacket(a, p).owed = a.owed /\ OnPacket(a, p).out = o1
    BY <1>5, Zenon DEF Handling
  <2>2. p \notin Orders
    BY <1>5 DEF Orders
  <2> QED BY <1>1, <1>2, <1>5, <2>1, <2>2 DEF c
<1>6. CASE a.state = "LoggedIn" /\ p = "order"
           /\ OnPacket(a, p) = [a EXCEPT !.owed = a.owed + 1]
  BY <1>1, <1>2, <1>6 DEF c, Orders, Handling
<1>7. CASE a.state = "LoggedIn" /\ p = "risky_order"
           /\ OnPacket(a, p) = [a EXCEPT !.out = o3]
  BY <1>1, <1>2, <1>7 DEF c, Orders, Handling
<1> QED BY <1>3, <1>4, <1>5, <1>6, <1>7

(* on_bytes turns every order into one that is owed or answered. *)
LEMMA BytesAccount ==
  ASSUME NEW a0 \in Handling, a0.out = << >>,
         NEW pkts \in Seq(Packets), a0.state = "LoggedIn" \/ Count(pkts, Orders) = 0,
         InTurn(OnPacket, a0, pkts).state # "Closed"
  PROVE  InTurn(OnPacket, a0, pkts).owed + Count(InTurn(OnPacket, a0, pkts).out, Seqd) =
           a0.owed + Count(pkts, Orders)
<1> DEFINE Fed(s) == InTurn(OnPacket, a0, s)
           Ok(s) == (a0.state = "LoggedIn" \/ Count(s, Orders) = 0) /\ Fed(s).state # "Closed" =>
                      /\ a0.state = "LoggedIn" => Fed(s).state = "LoggedIn"
                      /\ Fed(s).owed + Count(Fed(s).out, Seqd) = a0.owed + Count(s, Orders)
           T == {s \in Seq(Packets) : Ok(s)}
<1>1. /\ Fed(<< >>) = a0
      /\ \A s \in Seq(Packets) : Fed(s) \in Handling
      /\ \A s \in Seq(Packets), p \in Packets : Fed(Append(s, p)) = OnPacket(Fed(s), p)
  BY OnPacketFold, Zenon
<1> HIDE DEF Fed
<1>2. << >> \in T
  <2>1. Count(a0.out, Seqd) = 0 /\ Count(<< >>, Orders) = 0 /\ a0.owed \in Nat
    BY CountEmpty DEF Handling
  <2>2. << >> \in Seq(Packets)
    BY EmptySeq
  <2> QED BY <1>1, <2>1, <2>2
<1>3. ASSUME NEW s \in Seq(Packets), NEW p \in Packets, s \in T
      PROVE  Append(s, p) \in T
  <2> DEFINE one == IF p \in Orders THEN 1 ELSE 0
             c == Count(s, Orders)
             a == Fed(s)
             b == OnPacket(a, p)
  <2>0. Append(s, p) \in Seq(Packets)
    OBVIOUS
  <2>1. Append(s, p) \in Seq(Packets) /\ a \in Handling /\ b = Fed(Append(s, p)) /\ b \in Handling
    BY <1>1, <2>0, Zenon
  <2>2. c \in Nat /\ Count(Append(s, p), Orders) = c + one
    BY CountAppend
  <2>3. /\ a.owed \in Nat /\ b.owed \in Nat /\ a0.owed \in Nat
        /\ Count(a.out, Seqd) \in Nat /\ Count(b.out, Seqd) \in Nat
    <3>1. a.out \in Seq(Answers) /\ b.out \in Seq(Answers) /\ a.owed \in Nat /\ b.owed \in Nat /\ a0.owed \in Nat
      BY <2>1 DEF Handling
    <3> HIDE DEF a, b
    <3> QED BY <3>1, CountNat
  <2>4. b.state # "Closed" =>
          /\ a.state # "Closed"
          /\ a.state = "LoggedIn" => b.state = "LoggedIn"
          /\ a.state = "LoggedIn" \/ p \notin Orders =>
               b.owed + Count(b.out, Seqd) = a.owed + Count(a.out, Seqd) + one
    BY <2>1, PacketAccounts
  <2>5. (a0.state = "LoggedIn" \/ c = 0) /\ a.state # "Closed" =>
          /\ a0.state = "LoggedIn" => a.state = "LoggedIn"
          /\ a.owed + Count(a.out, Seqd) = a0.owed + c
    BY <1>3
  <2> HIDE DEF a, b, c
  <2>6. (a0.state = "LoggedIn" \/ c + one = 0) /\ b.state # "Closed" =>
          /\ a0.state = "LoggedIn" => b.state = "LoggedIn"
          /\ b.owed + Count(b.out, Seqd) = a0.owed + (c + one)
    <3> SUFFICES ASSUME a0.state = "LoggedIn" \/ c + one = 0, b.state # "Closed"
                 PROVE  /\ a0.state = "LoggedIn" => b.state = "LoggedIn"
                        /\ b.owed + Count(b.out, Seqd) = a0.owed + (c + one)
      OBVIOUS
    <3>1. a0.state = "LoggedIn" \/ (c = 0 /\ p \notin Orders)
      BY <2>2
    <3>2. /\ a0.state = "LoggedIn" => a.state = "LoggedIn"
          /\ a.owed + Count(a.out, Seqd) = a0.owed + c
      BY <2>4, <2>5, <3>1
    <3>3. b.owed + Count(b.out, Seqd) = a.owed + Count(a.out, Seqd) + one
      BY <2>4, <3>1, <3>2
    <3>4. one \in Nat
      OBVIOUS
    <3> HIDE DEF one
    <3> QED BY <2>2, <2>3, <2>4, <3>2, <3>3, <3>4
  <2>7. Ok(Append(s, p))
    BY <2>1, <2>2, <2>6 DEF c
  <2> HIDE DEF Ok
  <2> QED BY <2>1, <2>7
<1>4. Seq(Packets) \subseteq T
  <2> HIDE DEF T
  <2> QED BY <1>2, <1>3, SeqInduct
<1>5. Ok(pkts)
  BY <1>4
<1> QED BY <1>5 DEF Fed

----------------------------------------------------------------------------
(* What is under way and what is coming. *)

(* The packets of what was sent, one for one. *)
LEMMA PacketsOfSends ==
  ASSUME NEW s \in Sends
  PROVE  /\ PacketsOf(s) \in Seq(Packets) /\ Len(PacketsOf(s)) = Len(s)
         /\ \A i \in 1 .. Len(s) : PacketsOf(s)[i] = s[i].packet
<1> DEFINE E == [packet : Packets, at : Nat]
<1>1. \A e \in E : e.packet \in Packets
  OBVIOUS
<1>2. s \in Seq(E)
  BY DEF Sends
<1> HIDE DEF E
<1>3. DOMAIN s = 1 .. Len(s) /\ Len(s) \in Nat /\ \A i \in 1 .. Len(s) : s[i].packet \in Packets
  BY <1>1, <1>2
<1> QED BY <1>3, IsASeq DEF PacketsOf

(* What a read takes and what it leaves add up. *)
LEMMA PacketsOfSplit ==
  ASSUME NEW s \in Sends, NEW n \in 0 .. Len(s), NEW K
  PROVE  /\ PacketsOf(SubSeq(s, 1, n)) \in Seq(Packets)
         /\ Count(PacketsOf(s), K) =
              Count(PacketsOf(SubSeq(s, 1, n)), K) + Count(PacketsOf(SubSeq(s, n + 1, Len(s))), K)
<1> DEFINE a == SubSeq(s, 1, n)
           b == SubSeq(s, n + 1, Len(s))
           q == PacketsOf(s)
           c == SubSeq(q, 1, n)
           d == SubSeq(q, n + 1, Len(q))
           E == [packet : Packets, at : Nat]
<1>0. s \in Seq(E) /\ Sends = Seq(E)
  BY DEF Sends
<1>1. /\ a \in Sends /\ b \in Sends /\ Len(a) = n /\ Len(b) = Len(s) - n
      /\ \A i \in 1 .. n : a[i] = s[i]
      /\ \A i \in 1 .. Len(s) - n : b[i] = s[n + i]
  <2> HIDE DEF E
  <2> QED BY <1>0, SplitSeq
<1>2. /\ q \in Seq(Packets) /\ Len(q) = Len(s) /\ Len(s) \in Nat
      /\ \A i \in 1 .. Len(s) : q[i] = s[i].packet
  BY PacketsOfSends, LenProperties, Zenon DEF Sends
<1> HIDE DEF q
<1>3. /\ c \in Seq(Packets) /\ d \in Seq(Packets) /\ Len(c) = n /\ Len(d) = Len(s) - n
      /\ \A i \in 1 .. n : c[i] = q[i]
      /\ \A i \in 1 .. Len(s) - n : d[i] = q[n + i]
  BY <1>2, SplitSeq
<1>4. Count(q, K) = Count(c, K) + Count(d, K)
  BY <1>2, CountSplit
<1> HIDE DEF a, b, c, d
<1>5. PacketsOf(a) = c
  <2>1. PacketsOf(a) \in Seq(Packets) /\ Len(PacketsOf(a)) = n /\ \A i \in 1 .. n : PacketsOf(a)[i] = a[i].packet
    BY <1>1, PacketsOfSends, Zenon
  <2>2. \A i \in 1 .. n : i \in 1 .. Len(s)
    BY <1>2
  <2>3. \A i \in 1 .. n : PacketsOf(a)[i] = c[i]
    BY <1>1, <1>2, <1>3, <2>1, <2>2, Zenon
  <2> QED BY <1>3, <2>1, <2>3, SeqEqual
<1>6. PacketsOf(b) = d
  <2>1. /\ PacketsOf(b) \in Seq(Packets) /\ Len(PacketsOf(b)) = Len(s) - n
        /\ \A i \in 1 .. Len(s) - n : PacketsOf(b)[i] = b[i].packet
    BY <1>1, PacketsOfSends, Zenon
  <2>2. \A i \in 1 .. Len(s) - n : n + i \in 1 .. Len(s)
    BY <1>2
  <2>3. \A i \in 1 .. Len(s) - n : PacketsOf(b)[i] = d[i]
    BY <1>1, <1>2, <1>3, <2>1, <2>2, Zenon
  <2> QED BY <1>3, <2>1, <2>3, SeqEqual
<1> QED BY <1>3, <1>4, <1>5, <1>6 DEF a, b, q

(* A send adds a packet if the socket has room. *)
LEMMA SentCounts ==
  ASSUME up \in Sends, now \in Nat, NEW p \in Packets, up' = Sent(p), NEW K
  PROVE  /\ up' \in Sends
         /\ Count(PacketsOf(up'), K) = Count(PacketsOf(up), K) + (IF Room /\ p \in K THEN 1 ELSE 0)
<1> DEFINE E == [packet : Packets, at : Nat]
           e == [packet |-> p, at |-> now]
           q == PacketsOf(up)
           r == PacketsOf(up')
<1>1. q \in Seq(Packets) /\ Len(q) = Len(up) /\ \A i \in 1 .. Len(up) : q[i] = up[i].packet
  BY PacketsOfSends
<1>2. CASE Room
  <2>1. e \in E /\ up \in Seq(E) /\ Sends = Seq(E) /\ e.packet = p
    BY DEF Sends
  <2>2. up' = Append(up, e)
    BY <1>2 DEF Sent
  <2> HIDE DEF E, e
  <2>3. /\ up' \in Sends /\ Len(up') = Len(up) + 1 /\ Len(up) \in Nat
        /\ up'[Len(up) + 1] = e /\ \A i \in 1 .. Len(up) : up'[i] = up[i]
    BY <2>1, <2>2
  <2>4. r \in Seq(Packets) /\ Len(r) = Len(up) + 1 /\ \A i \in 1 .. Len(up) + 1 : r[i] = up'[i].packet
    BY <2>3, PacketsOfSends
  <2> HIDE DEF q, r
  <2>5. /\ Append(q, p) \in Seq(Packets) /\ Len(Append(q, p)) = Len(up) + 1
        /\ Append(q, p)[Len(up) + 1] = p /\ \A i \in 1 .. Len(up) : Append(q, p)[i] = q[i]
    BY <1>1
  <2>6. \A i \in 1 .. Len(up) + 1 : r[i] = Append(q, p)[i]
    BY <1>1, <2>1, <2>3, <2>4, <2>5
  <2>7. r = Append(q, p)
    BY <2>4, <2>5, <2>6, SeqEqual
  <2>8. Count(r, K) = Count(q, K) + (IF p \in K THEN 1 ELSE 0)
    BY <1>1, <2>7, CountAppend
  <2> QED BY <1>2, <2>3, <2>8 DEF q, r
<1>3. CASE ~Room
  <2>1. up' = up
    BY <1>3 DEF Sent
  <2>2. Count(q, K) \in Nat
    BY <1>1, CountNat
  <2> QED BY <1>3, <2>1, <2>2
<1> QED BY <1>2, <1>3

(* What the server queues is coming. *)
LEMMA ComingGrows ==
  ASSUME parser \in Seq(Outs), queued \in Seq(Outs), taken \in 0 .. Len(queued),
         NEW out \in Seq(Outs), queued' = queued \o out, UNCHANGED <<parser, taken>>
  PROVE  /\ taken' \in 0 .. Len(queued') /\ Coming \in Seq(Outs)
         /\ Count(Coming', Seqd) = Count(Coming, Seqd) + Count(out, Seqd)
<1> DEFINE w == queued \o out
           a == SubSeq(queued, taken + 1, Len(queued))
           b == SubSeq(w, taken + 1, Len(w))
<1>1. /\ w \in Seq(Outs) /\ Len(w) = Len(queued) + Len(out)
      /\ Len(queued) \in Nat /\ Len(out) \in Nat
      /\ \A i \in 1 .. Len(queued) : w[i] = queued[i]
      /\ \A i \in 1 .. Len(out) : w[Len(queued) + i] = out[i]
  OBVIOUS
<1>2. /\ a \in Seq(Outs) /\ Len(a) = Len(queued) - taken
      /\ \A i \in 1 .. Len(queued) - taken : a[i] = queued[taken + i]
  BY SplitSeq
<1>3. w = queued' /\ taken' = taken
  OBVIOUS
<1> HIDE DEF w
<1>4. taken \in 0 .. Len(w)
  BY <1>1
<1>5. /\ b \in Seq(Outs) /\ Len(b) = Len(w) - taken
      /\ \A i \in 1 .. Len(w) - taken : b[i] = w[taken + i]
  BY <1>1, <1>4, SplitSeq
<1> HIDE DEF a, b
<1>6. b = a \o out
  <2> DEFINE c == a \o out
  <2>1. /\ c \in Seq(Outs) /\ Len(c) = Len(a) + Len(out)
        /\ \A i \in 1 .. Len(a) : c[i] = a[i]
        /\ \A i \in 1 .. Len(out) : c[Len(a) + i] = out[i]
    <3>1. a \in Seq(Outs)
      BY <1>2
    <3> QED BY <3>1
  <2> HIDE DEF c
  <2>2. Len(c) = Len(b) /\ Len(c) \in Nat
    BY <1>1, <1>2, <1>5, <2>1
  <2>3. ASSUME NEW i \in 1 .. Len(b) PROVE b[i] = c[i]
    <3>1. CASE i <= Len(a)
      <4>1. taken + i \in 1 .. Len(queued) /\ i \in 1 .. Len(w) - taken /\ i \in 1 .. Len(a)
        BY <1>1, <1>2, <1>5, <3>1
      <4> QED BY <1>1, <1>2, <1>5, <2>1, <4>1
    <3>2. CASE i > Len(a)
      <4> DEFINE j == i - Len(a)
      <4>1. /\ j \in 1 .. Len(out) /\ i = Len(a) + j /\ taken + i = Len(queued) + j
            /\ i \in 1 .. Len(w) - taken
        BY <1>1, <1>2, <1>5, <3>2
      <4> HIDE DEF j
      <4> QED BY <1>1, <1>5, <2>1, <4>1
    <3> QED BY <1>2, <1>5, <3>1, <3>2
  <2>4. b = c
    BY <1>5, <2>1, <2>2, <2>3, SeqEqual, Zenon
  <2> QED BY <2>4 DEF c
<1>7. Coming = parser \o a /\ Coming' = parser \o b
  BY <1>3 DEF Coming, a, b
<1>8. /\ Count(parser \o a, Seqd) = Count(parser, Seqd) + Count(a, Seqd)
      /\ Count(parser \o b, Seqd) = Count(parser, Seqd) + Count(b, Seqd)
      /\ Count(b, Seqd) = Count(a, Seqd) + Count(out, Seqd)
  <2>1. a \in Seq(Outs) /\ b \in Seq(Outs)
    BY <1>2, <1>5
  <2>2. Count(parser \o a, Seqd) = Count(parser, Seqd) + Count(a, Seqd)
    BY <2>1, CountConcat
  <2>3. Count(parser \o b, Seqd) = Count(parser, Seqd) + Count(b, Seqd)
    BY <2>1, CountConcat
  <2>4. Count(a \o out, Seqd) = Count(a, Seqd) + Count(out, Seqd)
    BY <2>1, CountConcat
  <2> QED BY <1>6, <2>2, <2>3, <2>4
<1>9. /\ Count(parser, Seqd) \in Nat /\ Count(a, Seqd) \in Nat /\ Count(out, Seqd) \in Nat
  BY <1>2, CountNat
<1>10. parser \o a \in Seq(Outs)
  BY <1>2
<1> QED BY <1>3, <1>4, <1>7, <1>8, <1>9, <1>10

(* No packet of the server comes before its answer to the login, so the    *)
(* first recv of connect that returns anything ends the wait.              *)
LEMMA FirstAnswers ==
  ASSUME LoginFirst, taken = 0, NEW n \in 1 .. Len(queued) - taken
  PROVE  FirstAnswer(SubSeq(queued, taken + 1, taken + n)) = 1
<1> DEFINE Msg == {"accepted", "rejected", "sequenced", "heartbeat"}
           got == SubSeq(queued, taken + 1, taken + n)
           I == {i \in DOMAIN got : got[i] \in {"accepted", "rejected"}}
<1>1. /\ queued \in Seq(Msg) /\ n \in 1 .. Len(queued) /\ Len(queued) \in Nat
      /\ 1 \in DOMAIN queued
  BY LenProperties DEF LoginFirst
<1>2. queued[1] \in {"accepted", "rejected"}
  BY <1>1 DEF LoginFirst
<1>3. got = SubSeq(queued, 1, n)
  OBVIOUS
<1>4. \A i \in 1 .. n : queued[i] \in Msg
  BY <1>1, ElementOfSeq
<1>5. Len(got) = n /\ DOMAIN got = 1 .. n /\ \A i \in 1 .. n : got[i] = queued[i]
  <2>1. got \in Seq(Msg) /\ Len(got) = n /\ \A i \in 1 .. n : got[i] = queued[i]
    BY <1>1, <1>3, SplitSeq
  <2> HIDE DEF got, Msg
  <2> QED BY <2>1
<1> HIDE DEF got
<1>6. I = {1}
  BY <1>1, <1>5 DEF LoginFirst
<1>7. Min(I) = 1
  BY <1>6 DEF Min
<1> HIDE DEF got, I
<1>8. FirstAnswer(got) = 1
  BY <1>6, <1>7 DEF FirstAnswer, I
<1> QED BY <1>8 DEF got

----------------------------------------------------------------------------
(* Every order submitted is somewhere. *)
Balanced ==
  submitted = lost + Count(PacketsOf(up), Orders) + owed + Count(Coming, Seqd) + dispatched

Accounted ==
  /\ up \in Sends /\ parser \in Seq(Outs) /\ taken \in 0 .. Len(queued)
  /\ submitted \in Nat /\ lost \in Nat /\ dispatched \in Nat
  /\ phase \in {"idle", "connecting", "open", "closed"}
  /\ phase \in {"idle", "connecting"} =>
       taken = 0 /\ parser = << >> /\ Count(PacketsOf(up), Orders) = 0
  /\ phase = "open" => taken > 0
  /\ phase # "closed" /\ state # "Closed" => Balanced

AInv == SInv /\ Accounted

(* The types that the invariant implies. *)
LEMMA AInvTypes ==
  ASSUME AInv
  PROVE  /\ state \in States /\ owed \in Nat /\ queued \in Seq(Outs) /\ now \in Nat
         /\ Count(PacketsOf(up), Orders) \in Nat /\ Coming \in Seq(Outs)
         /\ Count(Coming, Seqd) \in Nat
         /\ phase = "open" => state # "AwaitingLogin"
<1>1. /\ state \in States /\ owed \in Nat /\ queued \in Seq(Outs) /\ now \in Nat
      /\ queued # << >> => state # "AwaitingLogin"
  BY DEF AInv, SInv, Served, Timed
<1>2. Count(PacketsOf(up), Orders) \in Nat
  BY PacketsOfSends, CountNat DEF AInv, Accounted
<1>3. Coming \in Seq(Outs)
  <2>1. parser \in Seq(Outs) /\ taken \in 0 .. Len(queued)
    BY DEF AInv, Accounted
  <2>2. SubSeq(queued, taken + 1, Len(queued)) \in Seq(Outs)
    BY <1>1, <2>1, SplitSeq
  <2> QED BY <2>1, <2>2 DEF Coming
<1>4. Count(Coming, Seqd) \in Nat
  BY <1>3, CountNat
<1>5. ASSUME phase = "open" PROVE queued # << >>
  <2>1. taken > 0 /\ taken \in 0 .. Len(queued)
    BY <1>5 DEF AInv, Accounted
  <2> QED BY <2>1, EmptySeq
<1> QED BY <1>1, <1>2, <1>3, <1>4, <1>5

(* The client as it starts. *)
LEMMA InitAInv == ClientInit => AInv
<1> SUFFICES ASSUME ClientInit PROVE AInv
  OBVIOUS
<1>1. SInv
  BY InitSInv DEF ClientInit
<1>2. << >> \in Sends /\ << >> \in Seq(Outs) /\ Len(<< >>) = 0
  BY EmptySeq DEF Sends
<1>3. PacketsOf(<< >>) = << >>
  BY DEF PacketsOf
<1>4. Coming = << >>
  BY DEF Coming, ClientInit, Init
<1>5. Count(PacketsOf(up), Orders) = 0 /\ Count(Coming, Seqd) = 0
  BY <1>3, <1>4, CountEmpty DEF ClientInit
<1> QED BY <1>1, <1>2, <1>5 DEF AInv, Accounted, Balanced, ClientInit, Init

(* With an OuchClient as the peer the session makes its own steps only. *)
LEMMA ClientServerStep ==
  ASSUME AInv, [ClientNext]_clientVars
  PROVE  ServerStep
<1>1. ASSUME NEW n \in 0 .. Len(up), ServerRead(n) PROVE ServerStep
  <2>1. PacketsOf(SubSeq(up, 1, n)) \in Seq(Packets)
    BY PacketsOfSplit DEF AInv, Accounted
  <2> QED BY <1>1, <2>1 DEF ServerRead, ServerStep
<1>2. CASE \/ Connect \/ GiveUp \/ Poll \/ ClientClose
           \/ \E n \in 1 .. Len(queued) - taken : ReceiveLogin(n)
           \/ \E p \in {"order", "risky_order"} : Submit(p)
           \/ UNCHANGED clientVars
  BY <1>2 DEF Connect, GiveUp, Poll, ClientClose, ReceiveLogin, Submit, clientVars, ServerStep
<1>3. CASE SendSequenced \/ Tick \/ Advance
  BY <1>3 DEF ServerStep
<1> QED BY <1>1, <1>2, <1>3 DEF ClientNext

(* A send of the client. *)
LEMMA SendsAccounted ==
  ASSUME AInv, NEW p \in Packets, up' = Sent(p),
         UNCHANGED <<vars, taken, parser, dispatched>>,
         \/ /\ p \notin Orders /\ UNCHANGED <<submitted, lost>>
            /\ phase' \in {phase, "closed"} \/ (phase = "idle" /\ phase' = "connecting")
         \/ /\ p \in Orders /\ phase = "open" /\ phase' = "open" /\ submitted' = submitted + 1
            /\ lost' = IF Room THEN lost ELSE lost + 1
  PROVE  Accounted'
<1>1. up \in Sends /\ now \in Nat
  BY AInvTypes DEF AInv, Accounted
<1> DEFINE one == IF Room /\ p \in Orders THEN 1 ELSE 0
<1>2. up' \in Sends /\ Count(PacketsOf(up'), Orders) = Count(PacketsOf(up), Orders) + one
  BY <1>1, SentCounts
<1>3. UNCHANGED <<state, owed, queued>>
  BY DEF vars, session
<1>4. Coming' = Coming
  BY <1>3 DEF Coming
<1>5. /\ Count(PacketsOf(up), Orders) \in Nat /\ Count(Coming, Seqd) \in Nat /\ owed \in Nat
      /\ submitted \in Nat /\ lost \in Nat /\ dispatched \in Nat
  BY AInvTypes DEF AInv, Accounted
<1>6. CASE p \notin Orders /\ UNCHANGED <<submitted, lost>>
  <2>1. Count(PacketsOf(up'), Orders) = Count(PacketsOf(up), Orders)
    BY <1>2, <1>5, <1>6
  <2>2. phase' \in {phase, "closed"} \/ (phase = "idle" /\ phase' = "connecting")
    BY <1>6
  <2> QED BY <1>2, <1>3, <1>4, <1>6, <2>1, <2>2 DEF AInv, Accounted, Balanced
<1>7. CASE /\ p \in Orders /\ phase = "open" /\ phase' = "open" /\ submitted' = submitted + 1
           /\ lost' = IF Room THEN lost ELSE lost + 1
  <2>1. (one = 1 /\ lost' = lost) \/ (one = 0 /\ lost' = lost + 1)
    BY <1>7
  <2> HIDE DEF one
  <2>2. Balanced => Balanced'
    BY <1>2, <1>3, <1>4, <1>5, <1>7, <2>1 DEF Balanced
  <2>3. submitted' \in Nat /\ lost' \in Nat
    BY <1>5, <1>7, <2>1
  <2> QED BY <1>2, <1>3, <1>7, <2>2, <2>3 DEF AInv, Accounted
<1> QED BY <1>6, <1>7

(* Receiving the answer to the login keeps the account. *)
LEMMA LoginAccounted ==
  ASSUME AInv, NEW n \in 1 .. Len(queued) - taken, ReceiveLogin(n)
  PROVE  Accounted'
<1> DEFINE got == SubSeq(queued, taken + 1, taken + n)
           answer == FirstAnswer(got)
           rest == SubSeq(queued, n + 1, Len(queued))
<1>1. /\ phase = "connecting" /\ taken = 0 /\ parser = << >> /\ queued \in Seq(Outs) /\ now \in Nat
      /\ Len(queued) \in Nat /\ taken' = n /\ n \in 0 .. Len(queued) /\ n > 0
      /\ UNCHANGED <<vars, client_send, submitted, lost, dispatched>>
  BY AInvTypes, LenProperties DEF AInv, Accounted, ReceiveLogin
<1>2. UNCHANGED <<state, owed, queued>>
  BY <1>1 DEF vars, session
<1>3. LoginFirst
  BY ServedLoginFirst DEF AInv, SInv
<1>4. answer = 1
  BY <1>1, <1>3, FirstAnswers
<1>5. got = SubSeq(queued, 1, n)
  BY <1>1
<1>6. got \in Seq(Outs) /\ Len(got) = n /\ got[1] = queued[1] /\ rest \in Seq(Outs)
  BY <1>1, <1>5, SplitSeq
<1> HIDE DEF answer
<1>7. \/ phase' = "open" /\ parser' = SubSeq(got, 2, n) /\ up' = up /\ got[1] = "accepted"
      \/ phase' = "closed" /\ parser' = << >> /\ up' = Sent("logout")
  <2> DEFINE result == IF answer = 0 THEN "connecting"
                       ELSE IF got[answer] = "accepted" THEN "open" ELSE "closed"
  <2>1. /\ phase' = result
        /\ parser' = IF result = "open" THEN SubSeq(got, answer + 1, n) ELSE << >>
        /\ up' = IF result = "closed" THEN Sent("logout") ELSE up
    BY Zenon DEF ReceiveLogin, answer
  <2> HIDE DEF got
  <2> QED BY <1>4, <2>1
<1> HIDE DEF got, rest
<1>8. CASE phase' = "open" /\ parser' = SubSeq(got, 2, n) /\ up' = up /\ got[1] = "accepted"
  <2>1. Coming = queued
    <3>1. Coming = SubSeq(queued, 1, Len(queued))
      BY <1>1 DEF Coming
    <3> QED BY <1>1, <3>1
  <2>2. Coming' = SubSeq(got, 2, n) \o rest
    BY <1>1, <1>2, <1>8 DEF Coming, rest
  <2> DEFINE a == SubSeq(got, 1, 1)
             b == SubSeq(got, 1 + 1, Len(got))
  <2>3. 1 \in 0 .. Len(got)
    BY <1>1, <1>6
  <2>4. a \in Seq(Outs) /\ b \in Seq(Outs) /\ Len(a) = 1 /\ a[1] = "accepted"
    BY <1>6, <1>8, <2>3, SplitSeq
  <2>5. b = SubSeq(got, 2, n)
    BY <1>6
  <2>6. /\ Count(queued, Seqd) = Count(got, Seqd) + Count(rest, Seqd)
        /\ Count(got, Seqd) = Count(a, Seqd) + Count(b, Seqd)
    BY <1>1, <1>5, <1>6, <2>3, CountSplit, Zenon DEF rest
  <2> HIDE DEF a, b
  <2>7. Count(b \o rest, Seqd) = Count(b, Seqd) + Count(rest, Seqd)
    BY <1>6, <2>4, CountConcat
  <2>8. Count(a, Seqd) = 0
    <3>1. {i \in DOMAIN a : a[i] \in Seqd} = {}
      BY <2>4 DEF Seqd
    <3> QED BY <3>1, FS_EmptySet DEF Count, Quantify
  <2>9. Count(b, Seqd) \in Nat /\ Count(rest, Seqd) \in Nat
    BY <1>6, <2>4, CountNat
  <2>10. Count(Coming', Seqd) = Count(Coming, Seqd)
    BY <2>1, <2>2, <2>5, <2>6, <2>7, <2>8, <2>9
  <2>11. parser' \in Seq(Outs) /\ up' \in Sends /\ taken' \in 0 .. Len(queued') /\ taken' > 0
    BY <1>1, <1>2, <1>8, <2>4, <2>5 DEF AInv, Accounted
  <2> QED BY <1>1, <1>2, <1>8, <2>10, <2>11 DEF AInv, Accounted, Balanced
<1>9. CASE phase' = "closed" /\ parser' = << >> /\ up' = Sent("logout")
  <2>1. up' \in Sends
    BY <1>1, <1>9, SentCounts DEF AInv, Accounted, Packets
  <2>2. << >> \in Seq(Outs)
    BY EmptySeq
  <2> QED BY <1>1, <1>2, <1>9, <2>1, <2>2 DEF AInv, Accounted
<1> QED BY <1>7, <1>8, <1>9

(* poll moves what has come to what was dispatched. *)
LEMMA PollAccounted ==
  ASSUME AInv, Poll
  PROVE  Accounted'
<1>1. /\ phase = "open" /\ phase' = "open" /\ taken' = Len(queued) /\ parser' = << >>
      /\ dispatched' = dispatched + Count(Coming, Seqd)
      /\ UNCHANGED <<vars, submitted, lost>>
  BY DEF Poll, Coming, Seqd
<1>2. UNCHANGED <<state, owed, queued>>
  BY <1>1 DEF vars, session
<1>3. queued \in Seq(Outs) /\ Len(queued) \in Nat /\ << >> \in Seq(Outs) /\ now \in Nat
  BY AInvTypes, LenProperties, EmptySeq
<1>4. Count(Coming', Seqd) = 0
  <2>1. Coming' = << >>
    BY <1>1, <1>2, <1>3 DEF Coming
  <2> QED BY <2>1, CountEmpty
<1>5. up' \in Sends /\ Count(PacketsOf(up'), Orders) = Count(PacketsOf(up), Orders)
  <2>1. CASE up' = up
    BY <2>1 DEF AInv, Accounted
  <2>2. CASE up' = Sent("heartbeat")
    <3>1. "heartbeat" \in Packets /\ "heartbeat" \notin Orders
      BY DEF Packets, Orders
    <3> QED BY <1>3, <2>2, <3>1, SentCounts, AInvTypes DEF AInv, Accounted
  <2> QED BY <2>1, <2>2 DEF Poll, SendRaw
<1>6. /\ Count(PacketsOf(up), Orders) \in Nat /\ Count(Coming, Seqd) \in Nat /\ owed \in Nat
      /\ submitted \in Nat /\ lost \in Nat /\ dispatched \in Nat
  BY AInvTypes DEF AInv, Accounted
<1>7. Balanced => Balanced'
  BY <1>1, <1>2, <1>4, <1>5, <1>6 DEF Balanced
<1>8. taken' \in 0 .. Len(queued') /\ taken' > 0 /\ dispatched' \in Nat
  <2>1. taken > 0 /\ taken \in 0 .. Len(queued)
    BY <1>1 DEF AInv, Accounted
  <2> QED BY <1>1, <1>2, <1>3, <1>6, <2>1
<1> QED BY <1>1, <1>2, <1>3, <1>5, <1>7, <1>8 DEF AInv, Accounted

(* A read moves orders from the connection to the session. *)
LEMMA ReadAccounted ==
  ASSUME AInv, NEW n \in 0 .. Len(up), ServerRead(n)
  PROVE  Accounted'
<1> DEFINE pkts == PacketsOf(SubSeq(up, 1, n))
           s == InTurn(OnPacket, Before, pkts)
           behind == SubSeq(up, n + 1, Len(up))
           due == Count(pkts, Orders)
<1>1. /\ OnBytes(pkts) /\ up' = behind /\ state # "Closed"
      /\ UNCHANGED <<phase, taken, parser, submitted, lost, dispatched>>
  BY DEF ServerRead, OnBytes
<1>2. up \in Sends /\ parser \in Seq(Outs) /\ taken \in 0 .. Len(queued)
  BY DEF AInv, Accounted
<1>3. /\ pkts \in Seq(Packets)
      /\ Count(PacketsOf(up), Orders) = due + Count(PacketsOf(behind), Orders)
  BY <1>2, PacketsOfSplit
<1>4. behind \in Sends
  BY <1>2, SplitSeq, Zenon DEF Sends
<1>5. due \in Nat /\ Count(PacketsOf(behind), Orders) \in Nat
  <2>1. PacketsOf(behind) \in Seq(Packets)
    BY <1>4, PacketsOfSends
  <2> HIDE DEF behind, pkts
  <2> QED BY <1>3, <2>1, CountNat
<1>6. Before \in Handling /\ Before.state = state /\ Before.owed = owed /\ Before.out = << >>
  BY AInvTypes, EmptySeq DEF Before, Handling
<1>7. s \in Handling
  <2> HIDE DEF pkts
  <2> QED BY <1>3, <1>6, OnPacketFold, Zenon
<1>8. state' = s.state /\ owed' = s.owed /\ queued' = queued \o s.out
  BY <1>1 DEF OnBytes, Queue, Before
<1> HIDE DEF pkts
<1>9. s.out \in Seq(Outs) /\ s.owed \in Nat
  BY <1>7, AnswersNoHeartbeat DEF Handling
<1>10. /\ taken' \in 0 .. Len(queued')
       /\ Count(Coming', Seqd) = Count(Coming, Seqd) + Count(s.out, Seqd)
  BY <1>1, <1>2, <1>8, <1>9, AInvTypes, ComingGrows, Zenon
<1>11. Count(s.out, Seqd) \in Nat
  BY <1>9, CountNat
<1>12. phase # "closed" /\ state' # "Closed" => s.owed + Count(s.out, Seqd) = owed + due
  <2> SUFFICES ASSUME phase # "closed", s.state # "Closed"
               PROVE  s.owed + Count(s.out, Seqd) = owed + due
    BY <1>8
  <2>1. state = "LoggedIn" \/ due = 0
    <3>1. CASE phase = "open"
      <4>1. state \in States /\ state # "AwaitingLogin"
        BY <3>1, AInvTypes
      <4> HIDE DEF due
      <4> QED BY <1>1, <4>1 DEF States
    <3>2. CASE phase \in {"idle", "connecting"}
      <4>1. Count(PacketsOf(up), Orders) = 0
        BY <3>2 DEF AInv, Accounted
      <4> HIDE DEF due
      <4> QED BY <1>3, <1>5, <4>1
    <3>3. phase \in {"idle", "connecting", "open", "closed"}
      BY DEF AInv, Accounted
    <3> QED BY <3>1, <3>2, <3>3
  <2> QED BY <1>3, <1>6, <2>1, BytesAccount
<1>13. /\ Count(Coming, Seqd) \in Nat /\ owed \in Nat
       /\ submitted \in Nat /\ lost \in Nat /\ dispatched \in Nat
  BY AInvTypes DEF AInv, Accounted
<1> HIDE DEF s, due, behind
<1>14. phase' # "closed" /\ state' # "Closed" => Balanced'
  <2> SUFFICES ASSUME phase # "closed", state' # "Closed" PROVE Balanced'
    BY <1>1
  <2>1. Balanced
    BY <1>1 DEF AInv, Accounted
  <2>2. s.owed + Count(s.out, Seqd) = owed + due
    BY <1>12
  <2> DEFINE o == Count(s.out, Seqd)
             w == Count(PacketsOf(up), Orders)
             w1 == Count(PacketsOf(behind), Orders)
             c == Count(Coming, Seqd)
             o1 == s.owed
  <2>3. /\ submitted = lost + w + owed + c + dispatched
        /\ o1 + o = owed + due /\ w = due + w1
        /\ o \in Nat /\ w1 \in Nat /\ c \in Nat /\ o1 \in Nat /\ due \in Nat
    BY <1>3, <1>5, <1>9, <1>11, <1>13, <2>1, <2>2 DEF Balanced
  <2>4. /\ Count(PacketsOf(up'), Orders) = w1 /\ owed' = o1 /\ Count(Coming', Seqd) = c + o
        /\ submitted' = submitted /\ lost' = lost /\ dispatched' = dispatched
    BY <1>1, <1>8, <1>10
  <2> HIDE DEF o, w, w1, c, o1
  <2>5. submitted = lost + w1 + o1 + (c + o) + dispatched
    BY <1>13, <2>3
  <2> QED BY <2>4, <2>5 DEF Balanced
<1>15. phase' \in {"idle", "connecting"} =>
         taken' = 0 /\ parser' = << >> /\ Count(PacketsOf(up'), Orders) = 0
  <2> SUFFICES ASSUME phase \in {"idle", "connecting"}
               PROVE  taken = 0 /\ parser = << >> /\ Count(PacketsOf(behind), Orders) = 0
    BY <1>1
  <2>1. taken = 0 /\ parser = << >> /\ Count(PacketsOf(up), Orders) = 0
    BY DEF AInv, Accounted
  <2> QED BY <1>3, <1>5, <2>1
<1>16. /\ phase' = "open" => taken' > 0
       /\ phase' \in {"idle", "connecting", "open", "closed"}
  BY <1>1 DEF AInv, Accounted
<1> QED BY <1>1, <1>2, <1>4, <1>10, <1>13, <1>14, <1>15, <1>16 DEF Accounted

(* An answer or a tick keeps the account. *)
LEMMA ServerAccounted ==
  ASSUME AInv, SendSequenced \/ Tick, UNCHANGED client
  PROVE  Accounted'
<1>1. UNCHANGED <<phase, up, taken, parser, submitted, lost, dispatched>>
  BY DEF client
<1>2. up \in Sends /\ parser \in Seq(Outs) /\ taken \in 0 .. Len(queued)
  BY DEF AInv, Accounted
<1>3. PICK out \in {<< >>, <<"heartbeat">>, <<"sequenced">>} :
        /\ queued' = queued \o out
        /\ out = <<"sequenced">> => owed > 0 /\ owed' = owed - 1
        /\ out # <<"sequenced">> => owed' = owed
        /\ state' \in {state, "Closed"}
  <2>1. CASE SendSequenced
    BY <2>1 DEF SendSequenced, Queue, session
  <2>2. CASE Tick
    <3>1. queued \o << >> = queued
      BY AInvTypes
    <3>2. <<"heartbeat">> # <<"sequenced">> /\ << >> # <<"sequenced">>
      OBVIOUS
    <3>3. owed' = owed /\ state' \in {state, "Closed"}
      BY <2>2 DEF Tick, session
    <3>4. queued' = queued \/ queued' = queued \o <<"heartbeat">>
      BY <2>2 DEF Tick, Queue
    <3> QED BY <3>1, <3>2, <3>3, <3>4
  <2> QED BY <2>1, <2>2
<1>4. out \in Seq(Outs) /\ Count(out, Seqd) = IF out = <<"sequenced">> THEN 1 ELSE 0
  <2>1. {"heartbeat", "sequenced"} \subseteq Outs /\ << >> \in Seq(Outs)
    BY EmptySeq DEF Outs, Answers
  <2>4. Count(<<"heartbeat">>, Seqd) = 0 /\ Count(<<"sequenced">>, Seqd) = 1
    BY CountOne DEF Seqd
  <2>5. <<"heartbeat">> \in Seq(Outs) /\ <<"sequenced">> \in Seq(Outs)
    BY <2>1
  <2>6. <<"heartbeat">> # <<"sequenced">> /\ << >> # <<"sequenced">>
    OBVIOUS
  <2> QED BY <2>1, <2>4, <2>5, <2>6, CountEmpty, Zenon
<1>5. /\ taken' \in 0 .. Len(queued')
      /\ Count(Coming', Seqd) = Count(Coming, Seqd) + Count(out, Seqd)
  BY <1>1, <1>2, <1>3, <1>4, AInvTypes, ComingGrows, Zenon
<1>6. /\ Count(PacketsOf(up), Orders) \in Nat /\ Count(Coming, Seqd) \in Nat /\ owed \in Nat
      /\ submitted \in Nat /\ lost \in Nat /\ dispatched \in Nat
  BY AInvTypes DEF AInv, Accounted
<1>7. Balanced => Balanced'
  <2>1. CASE out = <<"sequenced">>
    BY <1>1, <1>3, <1>4, <1>5, <1>6, <2>1 DEF Balanced
  <2>2. CASE out # <<"sequenced">>
    BY <1>1, <1>3, <1>4, <1>5, <1>6, <2>2 DEF Balanced
  <2> QED BY <2>1, <2>2
<1>8. phase' # "closed" /\ state' # "Closed" => phase # "closed" /\ state # "Closed"
  BY <1>1, <1>3
<1> QED BY <1>1, <1>2, <1>5, <1>7, <1>8 DEF AInv, Accounted

(* Every step of client and session keeps the account. *)
LEMMA StepAInv ==
  ASSUME AInv, [ClientNext]_clientVars
  PROVE  AInv'
<1>1. SInv'
  BY ClientServerStep, StepSInv DEF AInv
<1>2. ASSUME \/ Connect \/ GiveUp \/ ClientClose
             \/ \E p \in {"order", "risky_order"} : Submit(p)
      PROVE  Accounted'
  <2>1. {"login", "logout"} \subseteq Packets \ Orders
    BY DEF Packets, Orders
  <2>2. CASE Connect
    BY <2>1, <2>2, SendsAccounted DEF Connect, SendRaw
  <2>3. CASE GiveUp \/ ClientClose
    BY <2>1, <2>3, SendsAccounted DEF GiveUp, ClientClose, LogOut
  <2>4. ASSUME NEW p \in {"order", "risky_order"}, Submit(p) PROVE Accounted'
    <3>1. p \in Orders /\ p \in Packets
      BY DEF Orders, Packets
    <3>2. /\ phase = "open" /\ phase' = "open" /\ submitted' = submitted + 1
          /\ lost' = IF Room THEN lost ELSE lost + 1
          /\ up' = Sent(p) /\ UNCHANGED <<vars, taken, parser, dispatched>>
      BY <2>4 DEF Submit, SendRaw
    <3> QED BY <3>1, <3>2, SendsAccounted
  <2> QED BY <1>2, <2>2, <2>3, <2>4
<1>3. CASE (Advance /\ UNCHANGED client) \/ UNCHANGED clientVars
  <2>1. UNCHANGED <<state, owed, queued, phase, up, taken, parser, submitted, lost, dispatched>>
    BY <1>3 DEF Advance, client, clientVars, vars, session
  <2>2. Accounted'
    BY <2>1 DEF AInv, Accounted, Balanced, Coming
  <2> QED BY <1>1, <2>2 DEF AInv
<1>4. CASE (SendSequenced \/ Tick) /\ UNCHANGED client
  BY <1>1, <1>4, ServerAccounted DEF AInv
<1>5. ASSUME NEW n \in 1 .. Len(queued) - taken, ReceiveLogin(n) PROVE AInv'
  BY <1>1, <1>5, LoginAccounted DEF AInv
<1>6. ASSUME NEW n \in 0 .. Len(up), ServerRead(n) PROVE AInv'
  BY <1>1, <1>6, ReadAccounted DEF AInv
<1>7. CASE Poll
  BY <1>1, <1>7, PollAccounted DEF AInv
<1>8. Accounted' => AInv'
  BY <1>1 DEF AInv
<1> QED BY <1>2, <1>3, <1>4, <1>5, <1>6, <1>7, <1>8 DEF ClientNext

(***************************************************************************)
(* No order and no answer is lost between an OuchClient and the engine,    *)
(* for every buffer size, read size, timeout and interval.                 *)
(***************************************************************************)
THEOREM OrdersAccountedThm == ClientSpec => []OrdersAccounted
<1>1. AInv => OrdersAccounted
  BY DEF AInv, Accounted, Balanced, OrdersAccounted, Coming, Orders, Seqd
<1>2. AInv /\ [ClientNext]_clientVars => AInv'
  BY StepAInv
<1> QED BY <1>1, <1>2, InitAInv, PTL DEF ClientSpec

----------------------------------------------------------------------------
(* How long the server may go without hearing from the client. *)

(* The last send as the client starts. *)
LEMMA InitCInv == ClientInit => CInv
<1> SUFFICES ASSUME ClientInit PROVE CInv
  OBVIOUS
<1>1. << >> \in Sends /\ Len(<< >>) = 0
  BY EmptySeq DEF Sends
<1> QED BY <1>1, Bounds DEF ClientInit, Init, Clock, CInv, Heard, UnderWay

(* send: what is under way stays in order, and something is. *)
LEMMA SendKeeps ==
  ASSUME Heard, UnderWay, NEW p \in Packets, up = << >> => now - heard <= SendGap,
         up' = Sent(p), UNCHANGED <<now, heard, state>>
  PROVE  UnderWay' /\ up' # << >>
<1>1. CASE Room
  <2> DEFINE e == [packet |-> p, at |-> now]
  <2>1. e \in [packet : Packets, at : Nat] /\ up \in Seq([packet : Packets, at : Nat])
    BY DEF Heard, UnderWay, Sends
  <2>2. up' = Append(up, e)
    BY <1>1 DEF Sent
  <2>3. e.at = now
    OBVIOUS
  <2> HIDE DEF e
  <2>4. /\ Len(up) \in Nat /\ up' \in Sends /\ Len(up') = Len(up) + 1
        /\ \A i \in 1 .. Len(up) : up'[i] = up[i] /\ up[i].at \in Nat
        /\ up'[Len(up) + 1] = e
    <3>1. \A i \in 1 .. Len(up) : up[i] \in [packet : Packets, at : Nat]
      BY <2>1, ElementOfSeq, Zenon
    <3>2. \A i \in 1 .. Len(up) : up[i].at \in Nat
      BY <3>1
    <3>3. /\ Len(up) \in Nat /\ Len(up') = Len(up) + 1
          /\ \A i \in 1 .. Len(up) : up'[i] = up[i]
          /\ up'[Len(up) + 1] = e
      BY <2>1, <2>2
    <3>4. up' \in Sends
      BY <2>1, <2>2 DEF Sends
    <3> QED BY <3>2, <3>3, <3>4
  <2>5. up' # << >>
    BY <2>4, EmptySeq
  <2>6. \A i \in 1 .. Len(up') : up'[i].at <= now'
    BY <2>3, <2>4 DEF Heard, UnderWay
  <2>7. \A i, j \in 1 .. Len(up') : i <= j => up'[i].at <= up'[j].at
    <3> SUFFICES ASSUME NEW i \in 1 .. Len(up'), NEW j \in 1 .. Len(up'), i <= j
                 PROVE  up'[i].at <= up'[j].at
      OBVIOUS
    <3>1. CASE j = Len(up) + 1
      BY <2>3, <2>4, <2>6, <3>1
    <3>2. CASE j # Len(up) + 1
      <4>1. i \in 1 .. Len(up) /\ j \in 1 .. Len(up)
        BY <2>4, <3>2
      <4> QED BY <2>4, <4>1 DEF UnderWay
    <3> QED BY <3>1, <3>2
  <2>8. CASE up = << >>
    <3>1. Len(up) = 0
      BY <2>8, EmptySeq
    <3>2. up'[1].at = now
      BY <2>3, <2>4, <3>1
    <3> QED BY <2>4, <2>5, <2>6, <2>7, <2>8, <3>2, Bounds DEF Heard, UnderWay
  <2>9. CASE up # << >>
    <3>1. 1 \in 1 .. Len(up)
      BY <2>1, <2>9, EmptySeq
    <3>2. up'[1].at = up[1].at
      BY <2>4, <3>1
    <3> QED BY <2>4, <2>5, <2>6, <2>7, <2>9, <3>2 DEF UnderWay
  <2> QED BY <2>8, <2>9
<1>2. CASE ~Room
  <2>1. up' = up
    BY <1>2 DEF Sent
  <2>2. up # << >>
    BY <1>2, EmptySeq, Bounds DEF Room
  <2> QED BY <2>1, <2>2 DEF UnderWay
<1> QED BY <1>1, <1>2

(* handle_readable: the server has heard what is behind it now. *)
LEMMA ReadKeeps ==
  ASSUME Heard, UnderWay, NEW n \in 0 .. Len(up), up # << >>, state # "Closed",
         up' = SubSeq(up, n + 1, Len(up)), now' = now, heard' = now
  PROVE  UnderWay'
<1>1. /\ up \in Seq([packet : Packets, at : Nat]) /\ Len(up) \in Nat
      /\ \A i \in 1 .. Len(up) : up[i] \in [packet : Packets, at : Nat]
  BY ElementOfSeq, LenProperties, Zenon DEF UnderWay, Sends
<1>2. \A i \in n + 1 .. Len(up) : up[i] \in [packet : Packets, at : Nat]
  BY <1>1
<1>3. /\ up' \in Sends
      /\ Len(up') = IF n + 1 <= Len(up) THEN Len(up) - (n + 1) + 1 ELSE 0
      /\ \A i \in 1 .. Len(up) - (n + 1) + 1 : up'[i] = up[(n + 1) + i - 1]
  BY <1>1, <1>2, SubSeqProperties DEF Sends
<1>4. Len(up') = Len(up) - n /\ \A i \in 1 .. Len(up) - n : up'[i] = up[n + i]
  BY <1>1, <1>3
<1>5. \A i \in 1 .. Len(up') : up'[i] = up[n + i] /\ n + i \in 1 .. Len(up)
  BY <1>1, <1>4
<1>6. \A i \in 1 .. Len(up') : up'[i].at <= now'
  BY <1>5 DEF UnderWay
<1>7. \A i, j \in 1 .. Len(up') : i <= j => up'[i].at <= up'[j].at
  <2> SUFFICES ASSUME NEW i \in 1 .. Len(up'), NEW j \in 1 .. Len(up'), i <= j
               PROVE  up'[i].at <= up'[j].at
    BY Zenon
  <2>1. n + i \in 1 .. Len(up) /\ n + j \in 1 .. Len(up) /\ n + i <= n + j
    BY <1>1, <1>4
  <2> QED BY <1>5, <2>1, Zenon DEF UnderWay
<1>8. ASSUME up' # << >>
      PROVE  up'[1].at - heard' <= SendGap /\ now' - up'[1].at <= ReadDelay
  <2>1. 1 \in 1 .. Len(up') /\ 1 \in 1 .. Len(up)
    BY <1>1, <1>3, <1>4, <1>8, EmptySeq DEF Sends
  <2>2. up'[1] = up[n + 1] /\ n + 1 \in 1 .. Len(up)
    BY <1>5, <2>1
  <2>3. up[1].at <= up[n + 1].at /\ up[n + 1].at <= now
    BY <2>1, <2>2 DEF UnderWay
  <2>4. now - up[1].at <= ReadDelay
    BY DEF UnderWay
  <2>5. up[1].at \in Nat /\ up[n + 1].at \in Nat
    BY <1>1, <2>1, <2>2
  <2>6. SendGap \in Nat /\ ReadDelay \in Nat /\ now \in Nat
    BY Bounds DEF Heard
  <2> DEFINE a == up[1].at
             b == up[n + 1].at
  <2>7. up'[1].at = b
    BY <2>2
  <2> HIDE DEF a, b
  <2>8. b - now <= SendGap /\ now - b <= ReadDelay
    <3>1. a \in Nat /\ b \in Nat /\ a <= b /\ b <= now /\ now - a <= ReadDelay
      BY <2>3, <2>4, <2>5 DEF a, b
    <3> QED BY <2>6, <3>1
  <2> QED BY <2>7, <2>8, Zenon
<1> QED BY <1>3, <1>6, <1>7, <1>8 DEF UnderWay

(* The clock moves on only if everyone was prompt. *)
LEMMA AdvanceKeeps ==
  ASSUME CInv, Advance, Prompt, UNCHANGED client
  PROVE  CInv'
<1>1. /\ now' = now + 1 /\ phase # "idle"
      /\ UNCHANGED <<state, last_recv_ns, heard, polled, up, phase, client_send, taken>>
  BY DEF Advance, Prompt, session, client
<1>2. Heard'
  BY <1>1 DEF CInv, Heard
<1>3. \A i \in 1 .. Len(up) : up[i].at \in Nat
  <2>1. \A i \in 1 .. Len(up) : up[i] \in [packet : Packets, at : Nat]
    BY ElementOfSeq, Zenon DEF CInv, UnderWay, Sends
  <2> QED BY <2>1
<1>4. UnderWay'
  <2>1. \A i \in 1 .. Len(up) : up[i].at <= now + 1
    BY <1>3 DEF CInv, UnderWay, Heard
  <2>2. ASSUME up # << >>, state # "Closed"
        PROVE  (now + 1) - up[1].at <= ReadDelay
    <3>1. 1 \in 1 .. Len(up)
      BY <2>2, EmptySeq DEF CInv, UnderWay, Sends
    <3>2. up[1].at \in Nat /\ now - up[1].at < ReadDelay
      BY <1>3, <2>2, <3>1 DEF Prompt
    <3> QED BY <3>2, Bounds DEF CInv, Heard
  <2>3. /\ up \in Sends /\ (up # << >> => up[1].at - heard <= SendGap)
        /\ \A i, j \in 1 .. Len(up) : i <= j => up[i].at <= up[j].at
    BY DEF CInv, UnderWay
  <2>4. UNCHANGED <<up, heard, state>> /\ now' = now + 1
    BY <1>1
  <2>5. \A i \in 1 .. Len(up') : up'[i].at <= now'
    BY <2>1, <2>4
  <2>6. up' # << >> /\ state' # "Closed" => now' - up'[1].at <= ReadDelay
    BY <2>2, <2>4
  <2>7. /\ up' \in Sends /\ (up' # << >> => up'[1].at - heard' <= SendGap)
        /\ \A i, j \in 1 .. Len(up') : i <= j => up'[i].at <= up'[j].at
    BY <2>3, <2>4
  <2> QED BY <2>5, <2>6, <2>7 DEF UnderWay
<1>5. ASSUME phase \in {"connecting", "open"}
      PROVE  \E t \in Nat : SentAt(t)'
  <2>1. PICK t \in Nat : SentAt(t)
    BY <1>5 DEF CInv
  <2>2. /\ phase = "connecting" => now - polled < LoginWait
        /\ phase = "open" => now - polled < PollGap
    BY DEF Prompt
  <2>3. SentAt(t)'
    BY <1>1, <2>1, <2>2, Bounds DEF SentAt, CInv, Heard
  <2> QED BY <2>3
<1> QED BY <1>1, <1>2, <1>4, <1>5 DEF CInv

(* An open client that sends now has not been silent for too long. *)
LEMMA SilenceOfOpen ==
  ASSUME CInv, phase \in {"connecting", "open"}
  PROVE  up = << >> => now - heard <= SendGap
<1>1. PICK t \in Nat : SentAt(t)
  BY DEF CInv
<1> QED BY <1>1, Bounds DEF SentAt, CInv, Heard

(* What a send makes of the last one. *)
LEMMA SendRawKeeps ==
  ASSUME CInv, NEW p \in Packets, SendRaw(p),
         up = << >> => now - heard <= SendGap,
         UNCHANGED <<now, heard, state, last_recv_ns>>
  PROVE  /\ UnderWay' /\ up' # << >> /\ now \in Nat
         /\ client_send' = now % Day
<1>1. UnderWay' /\ up' # << >>
  BY SendKeeps DEF CInv, SendRaw
<1> QED BY <1>1 DEF SendRaw, Clock, CInv, Heard

(* Every step keeps the bound on the last send. *)
LEMMA StepCInv ==
  ASSUME PromptEnough, CInv, LoginFirst, [ClientNext]_clientVars
  PROVE  CInv'
<1>1. CASE Connect
  <2>1. /\ phase = "idle" /\ phase' = "connecting" /\ polled' = now /\ SendRaw("login")
        /\ UNCHANGED <<now, heard, state, last_recv_ns, taken>>
    BY <1>1 DEF Connect, vars, session
  <2>2. UnderWay' /\ up' # << >> /\ now \in Nat /\ client_send' = now % Day
    <3>1. now - heard <= SendGap
      BY <2>1, Bounds DEF CInv, Heard
    <3> QED BY <2>1, <3>1, SendRawKeeps DEF Packets
  <2>3. Heard'
    BY <2>1 DEF CInv, Heard
  <2>4. SentAt(now)'
    BY <2>1, <2>2, Bounds DEF SentAt, CInv, Heard
  <2> QED BY <2>1, <2>2, <2>3, <2>4 DEF CInv
<1>2. ASSUME NEW n \in 1 .. Len(queued) - taken, ReceiveLogin(n)
      PROVE  CInv'
  <2>1. /\ phase = "connecting" /\ polled' = now
        /\ UNCHANGED <<now, heard, state, last_recv_ns, client_send>>
    BY <1>2 DEF ReceiveLogin, vars, session
  <2>2. PICK t \in Nat : SentAt(t)
    BY <2>1 DEF CInv
  <2>3. FirstAnswer(SubSeq(queued, taken + 1, taken + n)) # 0
    BY <1>2, <2>1, <2>2, FirstAnswers DEF SentAt
  <2>4. \/ phase' = "open" /\ up' = up
        \/ phase' = "closed" /\ up' = Sent("logout")
    BY <1>2, <2>3, Zenon DEF ReceiveLogin
  <2>5. Heard'
    BY <2>1 DEF CInv, Heard
  <2>6. CASE phase' = "open" /\ up' = up
    <3>1. UnderWay'
      BY <2>1, <2>6 DEF CInv, UnderWay
    <3>2. SentAt(t)'
      BY <2>1, <2>2, <2>6, Bounds DEF SentAt, CInv, Heard
    <3> QED BY <2>5, <2>6, <3>1, <3>2 DEF CInv
  <2>7. CASE phase' = "closed" /\ up' = Sent("logout")
    <3>1. UnderWay'
      BY <2>1, <2>7, SilenceOfOpen, SendKeeps DEF CInv, Packets
    <3> QED BY <2>5, <2>7, <3>1 DEF CInv
  <2> QED BY <2>4, <2>6, <2>7
<1>3. CASE GiveUp \/ ClientClose
  <2>1. /\ phase \in {"connecting", "open"} /\ phase' = "closed" /\ up' = Sent("logout")
        /\ UNCHANGED <<now, heard, state, last_recv_ns, polled>>
    BY <1>3 DEF GiveUp, ClientClose, LogOut, vars, session
  <2>2. UnderWay'
    BY <2>1, SilenceOfOpen, SendKeeps DEF CInv, Packets
  <2> QED BY <2>1, <2>2 DEF CInv, Heard
<1>4. ASSUME NEW p \in {"order", "risky_order"}, Submit(p)
      PROVE  CInv'
  <2>1. /\ phase = "open" /\ SendRaw(p)
        /\ UNCHANGED <<now, heard, state, last_recv_ns, polled, phase>>
    BY <1>4 DEF Submit, vars, session
  <2>2. UnderWay' /\ up' # << >> /\ now \in Nat /\ client_send' = now % Day
    BY <2>1, SilenceOfOpen, SendRawKeeps DEF Packets
  <2>3. PICK t \in Nat : SentAt(t)
    BY <2>1 DEF CInv
  <2>4. SentAt(now)'
    BY <2>1, <2>2, <2>3, Bounds DEF SentAt, CInv, Heard
  <2> QED BY <2>1, <2>2, <2>4 DEF CInv, Heard
<1>5. CASE Poll
  <2>1. /\ phase = "open" /\ polled' = now
        /\ UNCHANGED <<now, heard, state, last_recv_ns, phase>>
    BY <1>5 DEF Poll, vars, session
  <2>2. Heard'
    BY <2>1 DEF CInv, Heard
  <2>3. PICK t \in Nat : SentAt(t)
    BY <2>1 DEF CInv
  <2>4. CASE ClientHeartbeatDue
    <3>1. SendRaw("heartbeat")
      BY <1>5, <2>4 DEF Poll
    <3>2. UnderWay' /\ up' # << >> /\ now \in Nat /\ client_send' = now % Day
      BY <2>1, <3>1, SilenceOfOpen, SendRawKeeps DEF Packets
    <3>3. SentAt(now)'
      BY <2>1, <3>2, Bounds DEF SentAt
    <3> QED BY <2>1, <2>2, <3>2, <3>3 DEF CInv
  <2>5. CASE ~ClientHeartbeatDue
    <3>1. UNCHANGED <<up, client_send>>
      BY <1>5, <2>5 DEF Poll
    <3>2. t <= now /\ now - t <= SendGap /\ client_send = t % Day /\ now \in Nat
      BY <2>1, <2>3, Bounds DEF SentAt, CInv, Heard
    <3>3. now - t < Day
      BY <3>2, Bounds
    <3>4. Since(t % Day) \in Nat /\ Since(t % Day) >= now - t
      BY <3>2, <3>3, SinceElapsed
    <3>5. now - t <= ClientInterval
      BY <2>5, <3>2, <3>4, Bounds DEF ClientHeartbeatDue
    <3>6. SentAt(t)'
      BY <2>1, <2>3, <3>1, <3>5, Bounds DEF SentAt, CInv, Heard
    <3>7. UnderWay'
      BY <2>1, <3>1 DEF CInv, UnderWay
    <3> QED BY <2>1, <2>2, <3>6, <3>7 DEF CInv
  <2> QED BY <2>4, <2>5
<1>6. ASSUME NEW n \in 0 .. Len(up), ServerRead(n)
      PROVE  CInv'
  <2>1. /\ up # << >> /\ up' = SubSeq(up, n + 1, Len(up)) /\ state # "Closed"
        /\ heard' = now /\ last_recv_ns' = now % Day
        /\ UNCHANGED <<now, phase, client_send, taken, polled>>
    BY <1>6 DEF ServerRead, OnBytes, Clock
  <2>2. UnderWay'
    BY <2>1, ReadKeeps DEF CInv
  <2>3. Heard' /\ phase # "idle"
    BY <2>1 DEF CInv, Heard
  <2>4. ASSUME phase \in {"connecting", "open"}
        PROVE  \E t \in Nat : SentAt(t)'
    <3>1. PICK t \in Nat : SentAt(t)
      BY <2>4 DEF CInv
    <3>2. SentAt(t)'
      BY <2>1, <3>1 DEF SentAt
    <3> QED BY <3>2
  <2> QED BY <2>1, <2>2, <2>3, <2>4 DEF CInv
<1>7. CASE (SendSequenced \/ Tick) /\ UNCHANGED client
  <2>1. /\ UNCHANGED <<now, heard, last_recv_ns, phase, client_send, up, taken, polled>>
        /\ state' # "Closed" => state # "Closed"
    BY <1>7 DEF SendSequenced, Tick, session, client
  <2>2. Heard' /\ UnderWay'
    BY <2>1 DEF CInv, Heard, UnderWay
  <2>3. ASSUME phase \in {"connecting", "open"}
        PROVE  \E t \in Nat : SentAt(t)'
    <3>1. PICK t \in Nat : SentAt(t)
      BY <2>3 DEF CInv
    <3>2. SentAt(t)'
      BY <2>1, <3>1 DEF SentAt
    <3> QED BY <3>2
  <2> QED BY <2>1, <2>2, <2>3 DEF CInv
<1>8. CASE Advance /\ Prompt /\ UNCHANGED client
  BY <1>8, AdvanceKeeps
<1>9. CASE UNCHANGED clientVars
  <2>1. UNCHANGED <<now, heard, last_recv_ns, state, phase, client_send, up, taken, polled>>
    BY <1>9 DEF clientVars, vars, session, client
  <2>2. \A t \in Nat : SentAt(t)' <=> SentAt(t)
    BY <2>1 DEF SentAt
  <2> QED BY <2>1, <2>2 DEF CInv, Heard, UnderWay
<1> QED BY <1>1, <1>2, <1>3, <1>4, <1>5, <1>6, <1>7, <1>8, <1>9 DEF ClientNext

(***************************************************************************)
(* poll's heartbeats keep the session open: for all timeouts, intervals    *)
(* and delays that are PromptEnough, tick() drops an open client only      *)
(* across midnight.  It rests on LoginFirst, which ServerSession keeps      *)
(* with an OuchClient as with any other peer.                              *)
(***************************************************************************)
THEOREM ClientKeptThm ==
  ASSUME PromptEnough
  PROVE  ClientSpec => ClientKept
<1>1. ASSUME CInv
      PROVE  [Tick /\ state' # state /\ phase = "open"
                => now \div Day # heard \div Day]_clientVars
  <2> SUFFICES ASSUME Tick, state' # state, phase = "open", now \div Day = heard \div Day
               PROVE  FALSE
    OBVIOUS
  <2>1. state # "Closed" /\ Since(last_recv_ns) >= SessionTimeout
    BY DEF Tick, TimedOut, session
  <2>2. PICK t \in Nat : SentAt(t)
    BY <1>1 DEF CInv
  <2>3. now - heard <= SendGap + ReadDelay
    <3>1. CASE up = << >>
      BY <1>1, <2>2, <3>1, SilenceOfOpen, Bounds DEF CInv, Heard
    <3>2. CASE up # << >>
      <4>1. 1 \in 1 .. Len(up)
        BY <1>1, <3>2, EmptySeq DEF CInv, UnderWay, Sends
      <4>2. up[1] \in [packet : Packets, at : Nat]
        BY <1>1, <4>1, ElementOfSeq, Zenon DEF CInv, UnderWay, Sends
      <4>3. up[1].at - heard <= SendGap /\ now - up[1].at <= ReadDelay
        BY <1>1, <2>1, <3>2 DEF CInv, UnderWay
      <4> QED BY <1>1, <4>2, <4>3, Bounds DEF CInv, Heard
    <3> QED BY <3>1, <3>2
  <2>4. now - heard < SessionTimeout /\ now - heard < Day
    BY <1>1, <2>3, Bounds DEF CInv, Heard
  <2>5. Since(heard % Day) = now - heard
    BY <1>1, <2>4, SinceElapsed DEF CInv, Heard
  <2> QED BY <1>1, <2>1, <2>4, <2>5, Bounds DEF CInv, Heard
<1>2. ClientSpec => [](AInv /\ LoginFirst)
  <2>1. AInv => LoginFirst
    BY ServedLoginFirst DEF AInv, SInv
  <2>2. AInv /\ [ClientNext]_clientVars => AInv'
    BY StepAInv
  <2> QED BY <2>1, <2>2, InitAInv, PTL DEF ClientSpec
<1>3. ClientSpec => []CInv
  BY <1>2, InitCInv, StepCInv, PTL DEF ClientSpec
<1> QED BY <1>1, <1>3, PTL DEF ClientSpec, ClientKept

============================================================================
