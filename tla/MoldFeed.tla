------------------------------ MODULE MoldFeed ------------------------------
(***************************************************************************)
(* The market data path after the engine: the publisher's MoldUDP64        *)
(* packetizer, a network that loses, reorders and repeats datagrams, a     *)
(* listener with its gap detector, and the capture file that itchreplay    *)
(* reads again.  A message is its sequence number; its block, length       *)
(* prefix included, takes a number of units from BlockSize.                *)
(* What the listener's book is made of is the messages it applied, in      *)
(* order: ItchBook says what applying one does.                            *)
(***************************************************************************)
EXTENDS Loops, Functions

CONSTANTS BlockSize,    \* sizes of a message with its length prefix
          HeaderSize,
          Mtu,
          EosCount,     \* kEndOfSessionCount, a count no packet may have
          MaxMessages,  \* bound on the messages published
          MaxBatch,     \* bound on the events drained at once
          MaxRepeats,   \* bound on the datagrams the network repeats
          MaxHeartbeats \* bound on the heartbeats

ASSUME FeedAssumption ==
  /\ BlockSize \subseteq Nat \ {0}
  /\ {HeaderSize, Mtu, MaxMessages, MaxBatch} \subseteq Nat \ {0}
  /\ HeaderSize < Mtu
  /\ EosCount \in Nat /\ EosCount > Mtu
  /\ {MaxRepeats, MaxHeartbeats} \subseteq Nat

VARIABLES packetizer,  \* next_seq, the open packet and the packets ready
          publishing,  \* FALSE once the end of session is sent
          network,     \* datagrams in flight
          listener,    \* GapDetector, what was applied, end of session seen
          capture,     \* every datagram sent, in order: the capture's records
          repeats      \* datagrams the network has repeated

vars == <<packetizer, publishing, network, listener, capture, repeats>>

----------------------------------------------------------------------------
(* mold::Packetizer.  An open packet is a header and its blocks; the count *)
(* field is zero until the packet is flushed.                              *)

Header(seq, count) == [seq |-> seq, count |-> count, blocks |-> << >>]

(* `current_` is empty between packets. *)
Closed == << >>

Bytes(pkt) == HeaderSize + InTurn(LAMBDA n, b : n + b.size, 0, pkt.blocks)

FlushPacket(pz) ==
  IF pz.current = Closed
    THEN pz
    ELSE LET pkt == Head(pz.current)
         IN  [pz EXCEPT !.ready = Append(@, [pkt EXCEPT !.count = Len(pkt.blocks)]),
                        !.current = Closed]

(* Mutant: the size of the new block is not counted. *)
AddMessageUncounted(pz, size) ==
  LET full == pz.current # Closed /\ Bytes(Head(pz.current)) > Mtu
      open == IF full THEN FlushPacket(pz) ELSE pz
      pkt == IF open.current = Closed THEN Header(open.next_seq, 0)
                                      ELSE Head(open.current)
      block == [msg |-> open.next_seq, size |-> size]
  IN  [open EXCEPT !.current = <<[pkt EXCEPT !.blocks = Append(@, block)]>>,
                   !.next_seq = @ + 1]

AddMessage(pz, size) ==
  LET full == pz.current # Closed /\ Bytes(Head(pz.current)) + size > Mtu
      open == IF full THEN FlushPacket(pz) ELSE pz
      pkt == IF open.current = Closed THEN Header(open.next_seq, 0)
                                      ELSE Head(open.current)
      block == [msg |-> open.next_seq, size |-> size]
  IN  [open EXCEPT !.current = <<[pkt EXCEPT !.blocks = Append(@, block)]>>,
                   !.next_seq = @ + 1]

(* Mutant: the session ends at the last sequence number used. *)
EndOfSessionLastSeq(pz) == Header(pz.next_seq - 1, EosCount)

Heartbeat(pz) == Header(pz.next_seq, 0)
EndOfSession(pz) == Header(pz.next_seq, EosCount)

----------------------------------------------------------------------------
(* The listener: mold::parse, GapDetector, ItchBookBuilder::on_mold_packet *)

(* parse wants exactly `count` blocks, and none with an end of session. *)
Parses(pkt) == Len(pkt.blocks) = (IF pkt.count = EosCount THEN 0 ELSE pkt.count)

(* Mutant: a packet that starts where expected is the only good one. *)
OnPacketAnyMismatch(l, seq, count) ==
  LET gap == seq # l.expected
      after == seq + count
  IN  [l EXCEPT !.had_gap = @ \/ gap,
                !.expected = IF after > @ THEN after ELSE @]

(* Mutant: one missing message is tolerated. *)
OnPacketOffByOne(l, seq, count) ==
  LET gap == seq > l.expected + 1
      after == seq + count
  IN  [l EXCEPT !.had_gap = @ \/ gap,
                !.expected = IF after > @ THEN after ELSE @]

(* GapDetector::on_packet: the first update takes a packet with messages, *)
(* the second one without; both move past a gap and never back.           *)
OnPacket(l, seq, count) ==
  LET gap == seq > l.expected
      after == seq + count
  IN  [l EXCEPT !.had_gap = @ \/ gap,
                !.expected = IF after > @ THEN after ELSE @]

NewListener == [expected |-> 1, had_gap |-> FALSE, applied |-> << >>, ended |-> FALSE]

OnMoldPacket(l, pkt) ==
  IF Parses(pkt)
    THEN [OnPacket(l, pkt.seq, Len(pkt.blocks)) EXCEPT
            !.applied = @ \o [i \in DOMAIN pkt.blocks |-> pkt.blocks[i].msg],
            !.ended = pkt.count = EosCount]
    ELSE l

----------------------------------------------------------------------------

Init ==
  /\ packetizer = [next_seq |-> 1, current |-> Closed, ready |-> << >>]
  /\ publishing = TRUE
  /\ network = {}
  /\ listener = NewListener
  /\ capture = << >>
  /\ repeats = 0

(* Mutant: only packets of messages are captured. *)
SendDatagramsUncaptured(pkts) ==
  /\ network' = network \cup Range(pkts)
  /\ capture' = capture \o SelectSeq(pkts, LAMBDA pkt : pkt.blocks # << >>)

(* send_datagram, for one datagram after the other. *)
SendDatagrams(pkts) ==
  /\ network' = network \cup Range(pkts)
  /\ capture' = capture \o pkts

(* FeedPublisher::publish: a batch of events becomes packets, all sent. *)
Publish(sizes) ==
  LET pz == FlushPacket(InTurn(AddMessage, packetizer, sizes))
  IN  /\ publishing
      /\ pz.next_seq <= MaxMessages + 1
      /\ packetizer' = [pz EXCEPT !.ready = << >>]
      /\ SendDatagrams(pz.ready)
      /\ UNCHANGED <<publishing, listener, repeats>>

SendHeartbeat ==
  /\ publishing
  /\ Len(SelectSeq(capture, LAMBDA pkt : pkt.count = 0)) < MaxHeartbeats
  /\ SendDatagrams(<<Heartbeat(packetizer)>>)
  /\ UNCHANGED <<packetizer, publishing, listener, repeats>>

SendEndOfSession ==
  /\ publishing
  /\ publishing' = FALSE
  /\ SendDatagrams(<<EndOfSession(packetizer)>>)
  /\ UNCHANGED <<packetizer, listener, repeats>>

Lose(pkt) ==
  /\ network' = network \ {pkt}
  /\ UNCHANGED <<packetizer, publishing, listener, capture, repeats>>

(* itchlisten reads until the end of the session. *)
Receive(pkt) ==
  /\ ~listener.ended
  /\ listener' = OnMoldPacket(listener, pkt)
  /\ network' = network \ {pkt}
  /\ UNCHANGED <<packetizer, publishing, capture, repeats>>

(* A datagram the network delivers once more later. *)
ReceiveRepeated(pkt) ==
  /\ repeats < MaxRepeats
  /\ repeats' = repeats + 1
  /\ ~listener.ended
  /\ listener' = OnMoldPacket(listener, pkt)
  /\ UNCHANGED <<packetizer, publishing, network, capture>>

Batches == UNION {[1 .. n -> BlockSize] : n \in 1 .. MaxBatch}

Next ==
  \/ \E sizes \in Batches : Publish(sizes)
  \/ SendHeartbeat
  \/ SendEndOfSession
  \/ \E pkt \in network : Lose(pkt) \/ Receive(pkt) \/ ReceiveRepeated(pkt)

Spec == Init /\ [][Next]_vars

----------------------------------------------------------------------------
(* Properties *)

(***************************************************************************)
(* The datagrams tile the message stream: each, heartbeats and the end of  *)
(* the session included, starts at the number after the last of the one    *)
(* before, counts the messages it holds, and exceeds the MTU only with a   *)
(* single message.                                                         *)
(***************************************************************************)
PacketsTile ==
  \A k \in DOMAIN capture :
    LET pkt == capture[k]
    IN  /\ pkt.seq = (IF k = 1 THEN 1
                      ELSE capture[k - 1].seq + Len(capture[k - 1].blocks))
        /\ Parses(pkt)
        /\ Bytes(pkt) > Mtu => pkt.count = 1

(***************************************************************************)
(* As long as the gap detector reports no gap, every message below the     *)
(* expected number has been applied, and exactly once and in order unless  *)
(* the network repeated a datagram, which the listener applies again: a    *)
(* lost or a reordered packet that made a difference would be reported.    *)
(***************************************************************************)
PrefixUnlessGap ==
  ~listener.had_gap =>
    /\ Range(listener.applied) = 1 .. listener.expected - 1
    /\ repeats = 0 => listener.applied = [i \in 1 .. listener.expected - 1 |-> i]

(* itchreplay: the listener of a replay of the capture's first k records. *)
Replayed(k) == InTurn(OnMoldPacket, NewListener, SubSeq(capture, 1, k))

(***************************************************************************)
(* However much of the capture file survives, replaying it gives a         *)
(* listener the messages from the first on, in order and once each, and no *)
(* gap; the capture of a session that was closed replays to its end and    *)
(* with every message, whatever the network did to the live listener.      *)
(***************************************************************************)
CaptureReplays ==
  \A k \in 0 .. Len(capture) :
    LET l == Replayed(k)
    IN  /\ ~l.had_gap
        /\ l.applied = [i \in 1 .. l.expected - 1 |-> i]
        /\ k = Len(capture) /\ ~publishing =>
             l.ended /\ l.expected = packetizer.next_seq

(***************************************************************************)
(* A listener that saw the end of the session and no gap has applied every *)
(* message of the session: the tail cannot go missing unnoticed.           *)
(***************************************************************************)
CompleteAtEnd ==
  listener.ended /\ ~listener.had_gap =>
    Range(listener.applied) = 1 .. packetizer.next_seq - 1

(***************************************************************************)
(* The detector raises no false alarm: when it first reports a gap, some   *)
(* message published before has not been applied.                          *)
(***************************************************************************)
GapMeansMissing ==
  [][listener'.had_gap /\ ~listener.had_gap =>
       \E i \in 1 .. packetizer.next_seq - 1 : i \notin Range(listener.applied)]_vars

============================================================================
