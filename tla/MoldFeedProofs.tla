--------------------------- MODULE MoldFeedProofs ---------------------------
(***************************************************************************)
(* The market data path for every MTU, header size, set of message sizes   *)
(* and length of the session.  The datagrams sent tile the message stream  *)
(* (Tiled); the packetizer keeps that while it fills a packet (Filling);   *)
(* what a listener knows follows from the tiling and from which datagrams  *)
(* can still reach it (Listening).                                         *)
(***************************************************************************)
EXTENDS MoldFeed, FoldLemmas

Block == [msg : Nat, size : BlockSize]
Packet == [seq : Nat, count : Nat, blocks : Seq(Block)]
Packetizers == [next_seq : Nat, current : {Closed} \cup {<<p>> : p \in Packet},
                ready : Seq(Packet)]

After(pkt) == pkt.seq + Len(pkt.blocks)

(* The messages of a packet are numbered from its own number on. *)
Numbered(pkt) == \A i \in 1 .. Len(pkt.blocks) : pkt.blocks[i].msg = pkt.seq + i - 1

(* A packet that is sent: messages and their count, or an end of session. *)
Good(pkt) ==
  /\ pkt \in Packet /\ pkt.seq >= 1 /\ Numbered(pkt)
  /\ \/ pkt.count = Len(pkt.blocks) /\ pkt.count # EosCount
     \/ pkt.count = EosCount /\ pkt.blocks = << >>
  /\ Bytes(pkt) > Mtu => pkt.count = 1

(* The number after the last message of a sequence of packets. *)
NextOf(q) == IF q = << >> THEN 1 ELSE After(q[Len(q)])

Tiled(q) ==
  /\ q \in Seq(Packet)
  /\ \A k \in 1 .. Len(q) :
       Good(q[k]) /\ q[k].seq = (IF k = 1 THEN 1 ELSE After(q[k - 1]))
  /\ \A j, k \in 1 .. Len(q) : j < k => After(q[j]) <= q[k].seq

----------------------------------------------------------------------------
(* The size of a packet. *)

(* What the assumption on the constants gives. *)
LEMMA FeedBounds ==
  /\ HeaderSize \in Nat /\ HeaderSize > 0 /\ Mtu \in Nat /\ Mtu > HeaderSize
  /\ EosCount \in Nat /\ EosCount > Mtu
  /\ \A b \in Block : b.size \in Nat /\ b.size >= 1
<1>1. \A b \in Block : b.size \in BlockSize
  BY DEF Block
<1>2. \A n \in BlockSize : n \in Nat /\ n >= 1
  <2>1. BlockSize \subseteq Nat \ {0}
    BY FeedAssumption
  <2> QED BY <2>1
<1>3. HeaderSize \in Nat \ {0} /\ Mtu \in Nat \ {0}
  BY FeedAssumption
<1>4. EosCount \in Nat /\ EosCount > Mtu /\ HeaderSize < Mtu
  BY FeedAssumption
<1> QED BY <1>1, <1>2, <1>3, <1>4

(* A number of bytes. *)
Total == Nat

(* One step of the sum of sizes, typed. *)
LEMMA SizeTypes ==
  ASSUME NEW a \in Total, NEW p \in Block
  PROVE  a + p.size \in Total
BY FeedBounds DEF Total

(* The sizes of some blocks, added to a. *)
SizesFrom(a, blocks) == InTurn(LAMBDA n, b : n + b.size, a, blocks)

(* The sum of sizes as a fold. *)
LEMMA SizeFoldIs ==
  ASSUME NEW a0 \in Total, NEW s \in Seq(Block)
  PROVE  \E F, h : /\ FoldedBy(F, h, Total, a0, Len(s))
                   /\ \A a \in Total, i \in 1 .. Len(s) : F[<<a, i>>] = a + s[i].size
                   /\ SizesFrom(a0, s) = Whole(h, Len(s))
<1> DEFINE n == Len(s)
           F == [x \in Total \X (1 .. n) |-> x[1] + s[x[2]].size]
           Q(f) == f = [t \in SUBSET DOMAIN s |->
                          IF t = {} THEN a0 ELSE f[t \ {Max(t)}] + s[Max(t)].size]
<1>1. n \in Nat /\ DOMAIN s = 1 .. n /\ \A i \in 1 .. n : s[i] \in Block
  OBVIOUS
<1>2. \A a \in Total, i \in 1 .. n : F[<<a, i>>] = a + s[i].size
  OBVIOUS
<1> HIDE DEF n, F
<1>3. StepOn(F, Total, n)
  <2>1. \A a \in Total, p \in Block : a + p.size \in Total
    BY SizeTypes
  <2> QED BY <1>1, <1>2, <2>1, Zenon DEF StepOn
<1>4. \E f : Q(f)
  <2>1. PICK f : FoldsIn(f, F, Total, a0, n)
    BY <1>1, <1>3, FoldExists
  <2>2. Q(f)
    BY <1>1, <1>2, <2>1, Zenon DEF FoldsIn
  <2> QED BY <2>2, Zenon
<1>5. PICK h : Q(h) /\ SizesFrom(a0, s) = Whole(h, n)
  <2> DEFINE c == CHOOSE f : Q(f)
  <2>1. Q(c)
    BY <1>4, Zenon
  <2>2. SizesFrom(a0, s) = c[1 .. n]
    BY <1>1 DEF SizesFrom, InTurn, MapThenFoldSet
  <2> HIDE DEF c
  <2> QED BY <2>1, <2>2, Zenon DEF Whole
<1>6. Folds(h, F, Total, a0, n)
  BY <1>1, <1>2, <1>5, Zenon DEF Folds
<1>7. FoldedBy(F, h, Total, a0, n)
  BY <1>3, <1>6 DEF FoldedBy
<1> QED BY <1>2, <1>5, <1>7, Zenon DEF n

(* The two equations of the fold, and its type. *)
LEMMA SizeFold ==
  ASSUME NEW a0 \in Total
  PROVE  /\ SizesFrom(a0, << >>) = a0
         /\ \A s \in Seq(Block) : SizesFrom(a0, s) \in Total
         /\ \A s \in Seq(Block), p \in Block :
              SizesFrom(a0, Append(s, p)) = SizesFrom(a0, s) + p.size
<1>1. ASSUME NEW s \in Seq(Block)
      PROVE  SizesFrom(a0, s) \in Total /\ (s = << >> => SizesFrom(a0, s) = a0)
  <2>1. PICK F, h : FoldedBy(F, h, Total, a0, Len(s)) /\ SizesFrom(a0, s) = Whole(h, Len(s))
    BY SizeFoldIs
  <2>2. /\ Whole(h, 0) = a0
        /\ \A i \in 0 .. Len(s) : Whole(h, i) \in Total
    BY <2>1, FoldStep DEF FoldedBy
  <2> QED BY <2>1, <2>2
<1>2. ASSUME NEW s \in Seq(Block), NEW p \in Block
      PROVE  SizesFrom(a0, Append(s, p)) = SizesFrom(a0, s) + p.size
  <2> DEFINE n == Len(s)
             r == Append(s, p)
  <2>1. /\ n \in Nat /\ r \in Seq(Block) /\ Len(r) = n + 1 /\ r[n + 1] = p
        /\ \A i \in 1 .. n : r[i] = s[i]
    OBVIOUS
  <2>2. PICK F, f : /\ FoldedBy(F, f, Total, a0, n)
                    /\ \A a \in Total, i \in 1 .. n : F[<<a, i>>] = a + s[i].size
                    /\ SizesFrom(a0, s) = Whole(f, n)
    BY SizeFoldIs
  <2> HIDE DEF n, r
  <2>3. PICK G, g : /\ FoldedBy(G, g, Total, a0, Len(r))
                    /\ \A a \in Total, i \in 1 .. Len(r) : G[<<a, i>>] = a + r[i].size
                    /\ SizesFrom(a0, r) = Whole(g, Len(r))
    BY <2>1, SizeFoldIs
  <2>4. Agree(F, G, Total, n) /\ \A a \in Total : G[<<a, n + 1>>] = a + p.size
    BY <2>1, <2>2, <2>3 DEF Agree
  <2>5. FoldedBy(G, g, Total, a0, n + 1) /\ SizesFrom(a0, r) = Whole(g, n + 1)
    BY <2>1, <2>3
  <2>6. Whole(f, n) \in Total /\ Whole(g, n + 1) = G[<<Whole(f, n), n + 1>>]
    BY <2>1, <2>2, <2>4, <2>5, FoldAppend
  <2> QED BY <2>2, <2>4, <2>5, <2>6 DEF r
<1>3. << >> \in Seq(Block)
  BY EmptySeq
<1> QED BY <1>1, <1>2, <1>3, Zenon

Sizes(blocks) == SizesFrom(0, blocks)

(* Every block takes some room. *)
LEMMA SizesBound ==
  ASSUME NEW s \in Seq(Block)
  PROVE  Sizes(s) \in Nat /\ Sizes(s) >= Len(s)
<1> DEFINE T == {r \in Seq(Block) : Sizes(r) \in Nat /\ Sizes(r) >= Len(r)}
<1>1. << >> \in T
  <2>1. Sizes(<< >>) = 0
    BY SizeFold DEF Sizes, Total
  <2> QED BY <2>1
<1>2. ASSUME NEW r \in Seq(Block), NEW b \in Block, r \in T
      PROVE  Append(r, b) \in T
  <2>1. Sizes(Append(r, b)) = Sizes(r) + b.size
    <3>1. 0 \in Total
      BY DEF Total
    <3> QED BY <3>1, SizeFold DEF Sizes
  <2>2. b.size \in Nat /\ b.size >= 1
    BY FeedBounds
  <2>3. Append(r, b) \in Seq(Block) /\ Len(Append(r, b)) = Len(r) + 1 /\ Len(r) \in Nat
    OBVIOUS
  <2> QED BY <1>2, <2>1, <2>2, <2>3
<1> HIDE DEF T
<1>3. Seq(Block) \subseteq T
  BY <1>1, <1>2, SeqInduct
<1> QED BY <1>3 DEF T

(* A packet has more bytes than messages. *)
LEMMA BytesIs ==
  ASSUME NEW p \in Packet
  PROVE  Bytes(p) \in Nat /\ Bytes(p) = HeaderSize + Sizes(p.blocks)
         /\ Bytes(p) > Len(p.blocks)
<1>1. p.blocks \in Seq(Block) /\ HeaderSize \in Nat \ {0} /\ Len(p.blocks) \in Nat
  BY FeedBounds DEF Packet
<1>2. Bytes(p) = HeaderSize + Sizes(p.blocks)
  BY Zenon DEF Bytes, Sizes, SizesFrom
<1>3. Sizes(p.blocks) \in Nat /\ Sizes(p.blocks) >= Len(p.blocks)
  BY <1>1, SizesBound
<1> QED BY <1>1, <1>2, <1>3

(* A packet of messages has not the count of an end of session. *)
LEMMA CountBelowEos ==
  ASSUME NEW p \in Packet, Bytes(p) > Mtu => Len(p.blocks) = 1
  PROVE  Len(p.blocks) < EosCount
<1>1. Bytes(p) \in Nat /\ Bytes(p) > Len(p.blocks) /\ Len(p.blocks) \in Nat
  BY BytesIs DEF Packet
<1> DEFINE n == Len(p.blocks)
           b == Bytes(p)
<1>2. /\ b \in Nat /\ n \in Nat /\ b > n /\ (b > Mtu => n = 1)
      /\ Mtu \in Nat /\ HeaderSize \in Nat /\ HeaderSize > 0 /\ Mtu > HeaderSize
      /\ EosCount \in Nat /\ EosCount > Mtu
  BY <1>1, FeedBounds
<1> HIDE DEF n, b
<1>3. n < EosCount
  BY <1>2
<1> QED BY <1>3 DEF n

----------------------------------------------------------------------------
(* Tilings *)

(* Nothing sent tiles nothing. *)
LEMMA TiledEmpty == Tiled(<< >>) /\ NextOf(<< >>) = 1
BY DEF Tiled, NextOf

(* No packet reaches beyond the next number. *)
LEMMA NextOfNat ==
  ASSUME NEW q, Tiled(q)
  PROVE  NextOf(q) \in Nat /\ NextOf(q) >= 1 /\ \A k \in 1 .. Len(q) : After(q[k]) <= NextOf(q)
<1>1. q \in Seq(Packet) /\ Len(q) \in Nat
  BY DEF Tiled
<1>2. CASE q = << >>
  BY <1>2 DEF NextOf
<1>3. CASE q # << >>
  <2>1. Len(q) \in 1 .. Len(q) /\ NextOf(q) = After(q[Len(q)])
    BY <1>1, <1>3, EmptySeq DEF NextOf
  <2>2. \A k \in 1 .. Len(q) : q[k] \in Packet /\ q[k].seq >= 1
    BY DEF Tiled, Good
  <2>3. \A k \in 1 .. Len(q) : q[k].seq \in Nat /\ Len(q[k].blocks) \in Nat
    BY <2>2 DEF Packet
  <2>4. \A k \in 1 .. Len(q) : k < Len(q) => After(q[k]) <= q[Len(q)].seq
    BY <2>1 DEF Tiled
  <2>5. \A k \in 1 .. Len(q) : After(q[k]) \in Nat /\ After(q[k]) >= q[k].seq
    BY <2>3 DEF After
  <2> DEFINE n == Len(q)
  <2>6. NextOf(q) \in Nat /\ NextOf(q) >= q[n].seq /\ q[n].seq \in Nat /\ q[n].seq >= 1
    BY <2>1, <2>2, <2>3, <2>5
  <2>7. ASSUME NEW k \in 1 .. n PROVE After(q[k]) <= NextOf(q)
    <3>1. CASE k = n
      BY <2>1, <2>6, <3>1
    <3>2. CASE k < n
      <4>1. After(q[k]) <= q[n].seq /\ After(q[k]) \in Nat
        BY <2>4, <2>5, <3>2
      <4> HIDE DEF n
      <4> QED BY <2>6, <4>1
    <3> QED BY <1>1, <3>1, <3>2
  <2> QED BY <2>6, <2>7
<1> QED BY <1>2, <1>3

(* A packet that starts at the next number extends the tiling. *)
LEMMA TiledAppend ==
  ASSUME NEW q, Tiled(q), NEW p, Good(p), p.seq = NextOf(q)
  PROVE  Tiled(Append(q, p)) /\ NextOf(Append(q, p)) = After(p)
<1> DEFINE r == Append(q, p)
           n == Len(q)
<1>1. q \in Seq(Packet) /\ p \in Packet
  BY DEF Tiled, Good
<1>2. /\ n \in Nat /\ r \in Seq(Packet) /\ Len(r) = n + 1 /\ r[n + 1] = p /\ r # << >>
      /\ \A k \in 1 .. n : r[k] = q[k]
  BY <1>1
<1>3. \A k \in 1 .. n : After(q[k]) <= p.seq
  BY NextOfNat
<1>4. n = 0 => p.seq = 1
  BY <1>1, EmptySeq DEF NextOf
<1>5. n > 0 => p.seq = After(q[n])
  BY <1>1 DEF NextOf
<1> HIDE DEF r, n
<1>6. NextOf(r) = After(p)
  BY <1>2 DEF NextOf
<1>7. ASSUME NEW k \in 1 .. n + 1
      PROVE  Good(r[k]) /\ r[k].seq = (IF k = 1 THEN 1 ELSE After(r[k - 1]))
  <2>1. CASE k = n + 1
    BY <1>2, <1>4, <1>5, <2>1
  <2>2. CASE k \in 1 .. n
    <3>1. Good(q[k]) /\ q[k].seq = (IF k = 1 THEN 1 ELSE After(q[k - 1]))
      BY <2>2 DEF Tiled, n
    <3> QED BY <1>2, <2>2, <3>1
  <2> QED BY <1>2, <2>1, <2>2
<1>8. ASSUME NEW j \in 1 .. n + 1, NEW k \in 1 .. n + 1, j < k
      PROVE  After(r[j]) <= r[k].seq
  <2>1. CASE k = n + 1
    BY <1>2, <1>3, <1>8, <2>1 DEF n
  <2>2. CASE k \in 1 .. n
    <3>1. j \in 1 .. n /\ After(q[j]) <= q[k].seq
      BY <1>2, <1>8, <2>2 DEF Tiled, n
    <3> QED BY <1>2, <2>2, <3>1
  <2> QED BY <1>2, <2>1, <2>2
<1>9. Tiled(r)
  BY <1>2, <1>7, <1>8 DEF Tiled
<1> QED BY <1>6, <1>9 DEF r

(* A prefix of a tiling is one. *)
LEMMA TiledPrefix ==
  ASSUME NEW q, Tiled(q), NEW n \in 0 .. Len(q)
  PROVE  Tiled(SubSeq(q, 1, n))
<1> DEFINE r == SubSeq(q, 1, n)
<1>1. q \in Seq(Packet) /\ Len(q) \in Nat
  BY DEF Tiled
<1>2. r \in Seq(Packet) /\ Len(r) = n /\ \A i \in 1 .. n : r[i] = q[i]
  BY <1>1, SplitSeq
<1> HIDE DEF r
<1>3. ASSUME NEW k \in 1 .. n
      PROVE  Good(r[k]) /\ r[k].seq = (IF k = 1 THEN 1 ELSE After(r[k - 1]))
  <2>1. k \in 1 .. Len(q) /\ (k # 1 => k - 1 \in 1 .. n)
    BY <1>1
  <2>2. Good(q[k]) /\ q[k].seq = (IF k = 1 THEN 1 ELSE After(q[k - 1]))
    BY <2>1 DEF Tiled
  <2> QED BY <1>2, <2>1, <2>2
<1>4. ASSUME NEW j \in 1 .. n, NEW k \in 1 .. n, j < k
      PROVE  After(r[j]) <= r[k].seq
  <2>1. j \in 1 .. Len(q) /\ k \in 1 .. Len(q)
    BY <1>1
  <2>2. After(q[j]) <= q[k].seq
    BY <1>4, <2>1 DEF Tiled
  <2> QED BY <1>2, <2>2
<1>5. Tiled(r)
  BY <1>2, <1>3, <1>4 DEF Tiled
<1> QED BY <1>5 DEF r

(* A tiling without its last packet. *)
LEMMA TiledButLast ==
  ASSUME NEW q \in Seq(Packet), NEW p \in Packet, Tiled(Append(q, p))
  PROVE  Tiled(q) /\ Good(p) /\ p.seq = NextOf(q)
<1> DEFINE r == Append(q, p)
           n == Len(q)
<1>1. /\ n \in Nat /\ Len(r) = n + 1 /\ r[n + 1] = p
      /\ \A k \in 1 .. n : r[k] = q[k]
  OBVIOUS
<1>2. SubSeq(r, 1, n) = q
  OBVIOUS
<1>3. Tiled(q)
  <2>1. n \in 0 .. Len(r)
    BY <1>1
  <2> HIDE DEF r
  <2>2. Tiled(SubSeq(r, 1, n))
    BY <2>1, TiledPrefix, Zenon DEF r
  <2> QED BY <1>2, <2>2, Zenon
<1> HIDE DEF r, n
<1>4. Good(p) /\ p.seq = (IF n + 1 = 1 THEN 1 ELSE After(r[n]))
  <2>1. n + 1 \in 1 .. Len(r)
    BY <1>1
  <2>2. Good(r[n + 1]) /\ r[n + 1].seq = (IF n + 1 = 1 THEN 1 ELSE After(r[(n + 1) - 1]))
    BY <2>1 DEF Tiled, r
  <2>3. (n + 1) - 1 = n
    BY <1>1
  <2> QED BY <1>1, <2>2, <2>3
<1>5. p.seq = NextOf(q)
  <2>1. CASE n = 0
    <3>1. q = << >>
      BY <2>1, EmptySeq DEF n
    <3> QED BY <1>4, <2>1, <3>1 DEF NextOf
  <2>2. CASE n > 0
    <3>1. q # << >>
      BY <2>2 DEF n
    <3> QED BY <1>1, <1>4, <2>2, <3>1 DEF NextOf, n
  <2> QED BY <1>1, <2>1, <2>2
<1> QED BY <1>3, <1>4, <1>5

----------------------------------------------------------------------------
(* The packetizer *)

NoEos(q) == \A k \in 1 .. Len(q) : q[k].count # EosCount

(* A packet being filled, which starts at `from`. *)
Open(p, from, next) ==
  /\ p \in Packet /\ p.seq = from /\ from >= 1 /\ Numbered(p)
  /\ Len(p.blocks) >= 1 /\ next = After(p)
  /\ Bytes(p) > Mtu => Len(p.blocks) = 1

(* A packetizer that works on behind the packets q. *)
Filling(q, pz) ==
  /\ q \in Seq(Packet) /\ pz \in Packetizers
  /\ Tiled(q \o pz.ready) /\ NoEos(q \o pz.ready)
  /\ pz.current = Closed => pz.next_seq = NextOf(q \o pz.ready)
  /\ pz.current # Closed =>
       \E p \in Packet : pz.current = <<p>> /\ Open(p, NextOf(q \o pz.ready), pz.next_seq)

(* A packet that is not the end of the session adds none. *)
LEMMA NoEosAppend ==
  ASSUME NEW q \in Seq(Packet), NEW p \in Packet, NoEos(q), p.count # EosCount
  PROVE  NoEos(Append(q, p))
<1> DEFINE r == Append(q, p)
<1>1. Len(r) = Len(q) + 1 /\ Len(q) \in Nat /\ r[Len(q) + 1] = p /\ \A k \in 1 .. Len(q) : r[k] = q[k]
  OBVIOUS
<1> HIDE DEF r
<1>2. NoEos(r)
  BY <1>1 DEF NoEos
<1> QED BY <1>2 DEF r

(* flush_packet closes the open packet and keeps the numbering. *)
LEMMA FlushFills ==
  ASSUME NEW q, NEW pz, Filling(q, pz)
  PROVE  /\ Filling(q, FlushPacket(pz))
         /\ FlushPacket(pz).current = Closed /\ FlushPacket(pz).next_seq = pz.next_seq
<1>1. /\ pz \in Packetizers /\ q \in Seq(Packet) /\ pz.ready \in Seq(Packet)
      /\ pz.next_seq \in Nat
  BY DEF Filling, Packetizers
<1>2. CASE pz.current = Closed
  <2>1. FlushPacket(pz) = pz
    BY <1>2 DEF FlushPacket
  <2> QED BY <1>2, <2>1
<1>3. CASE pz.current # Closed
  <2>1. PICK p \in Packet : pz.current = <<p>> /\ Open(p, NextOf(q \o pz.ready), pz.next_seq)
    BY <1>3 DEF Filling
  <2> DEFINE full == [p EXCEPT !.count = Len(p.blocks)]
             more == Append(pz.ready, full)
             all == q \o pz.ready
  <2>2. /\ p = [seq |-> p.seq, count |-> p.count, blocks |-> p.blocks]
        /\ p.seq \in Nat /\ p.blocks \in Seq(Block) /\ Len(p.blocks) \in Nat
    BY DEF Packet
  <2>3. full \in Packet /\ full.seq = p.seq /\ full.blocks = p.blocks /\ full.count = Len(p.blocks)
    BY <2>2 DEF Packet
  <2>4. Head(pz.current) = p
    BY <2>1
  <2>5. FlushPacket(pz) = [pz EXCEPT !.ready = more, !.current = Closed]
    BY <1>3, <2>4, Zenon DEF FlushPacket
  <2> HIDE DEF full
  <2>6. more \in Seq(Packet) /\ q \o more = Append(all, full)
    BY <1>1, <2>3
  <2>7. Good(full)
    <3>1. Len(p.blocks) < EosCount
      BY <2>1, CountBelowEos DEF Open
    <3>2. Bytes(full) = Bytes(p)
      BY <2>3, Zenon DEF Bytes
    <3>3. full.seq >= 1 /\ Numbered(full)
      BY <2>1, <2>3 DEF Open, Numbered
    <3>4. full.count = Len(full.blocks) /\ full.count # EosCount
      BY <2>2, <2>3, <3>1, FeedBounds
    <3>5. Bytes(full) > Mtu => full.count = 1
      BY <2>1, <2>3, <3>2 DEF Open
    <3> QED BY <2>3, <3>3, <3>4, <3>5 DEF Good
  <2>8. Tiled(all) /\ NoEos(all) /\ full.seq = NextOf(all)
    BY <2>1, <2>3 DEF Filling, Open
  <2>9. full.count # EosCount /\ all \in Seq(Packet)
    <3>1. Len(p.blocks) < EosCount
      BY <2>1, CountBelowEos DEF Open
    <3> QED BY <1>1, <2>2, <2>3, <3>1, FeedBounds
  <2> HIDE DEF all
  <2>10. Tiled(Append(all, full)) /\ NextOf(Append(all, full)) = After(full)
    BY <2>7, <2>8, TiledAppend
  <2>11. NoEos(Append(all, full))
    BY <2>3, <2>8, <2>9, NoEosAppend
  <2>12. After(full) = pz.next_seq
    BY <2>1, <2>3 DEF After, Open
  <2> HIDE DEF more
  <2>13. /\ FlushPacket(pz).ready = more /\ FlushPacket(pz).current = Closed
         /\ FlushPacket(pz).next_seq = pz.next_seq /\ FlushPacket(pz) \in Packetizers
    BY <1>1, <2>5, <2>6, Zenon DEF Packetizers
  <2> QED BY <1>1, <2>6, <2>10, <2>11, <2>12, <2>13, Zenon DEF Filling
<1> QED BY <1>2, <1>3

(* A block more in a packet. *)
LEMMA BlockAdded ==
  ASSUME NEW p \in Packet, Numbered(p), NEW size \in BlockSize, NEW b,
         b = [msg |-> After(p), size |-> size]
  PROVE  LET r == [p EXCEPT !.blocks = Append(@, b)]
         IN  /\ r \in Packet /\ r.seq = p.seq /\ Numbered(r) /\ After(r) = After(p) + 1
             /\ Len(r.blocks) = Len(p.blocks) + 1
             /\ Bytes(r) = Bytes(p) + size
<1> DEFINE more == Append(p.blocks, b)
           r == [p EXCEPT !.blocks = more]
           n == Len(p.blocks)
<1>1. /\ p = [seq |-> p.seq, count |-> p.count, blocks |-> p.blocks]
      /\ p.seq \in Nat /\ p.count \in Nat /\ p.blocks \in Seq(Block) /\ n \in Nat
  BY DEF Packet
<1>2. b \in Block /\ b.size = size /\ b.msg = p.seq + n
  BY <1>1 DEF Block, After
<1>3. /\ more \in Seq(Block) /\ Len(more) = n + 1 /\ more[n + 1] = b
      /\ \A i \in 1 .. n : more[i] = p.blocks[i]
  BY <1>1, <1>2
<1>4. Sizes(more) = Sizes(p.blocks) + size
  <2>1. 0 \in Total
    BY DEF Total
  <2> QED BY <1>1, <1>2, <2>1, SizeFold DEF Sizes
<1>5. [p EXCEPT !.blocks = Append(@, b)] = r
  BY <1>1
<1> HIDE DEF more, n
<1>6. r \in Packet /\ r.seq = p.seq /\ r.blocks = more
  BY <1>1, <1>3 DEF Packet
<1> HIDE DEF r
<1>7. Numbered(r)
  <2>1. \A i \in 1 .. n : p.blocks[i].msg = p.seq + i - 1
    BY DEF Numbered, n
  <2>2. ASSUME NEW i \in 1 .. n + 1 PROVE more[i].msg = p.seq + i - 1
    <3>1. CASE i = n + 1
      <4>1. more[i].msg = p.seq + n
        BY <1>2, <1>3, <3>1
      <4> QED BY <1>1, <3>1, <4>1
    <3>2. CASE i \in 1 .. n
      BY <1>3, <2>1, <3>2
    <3> QED BY <1>1, <3>1, <3>2
  <2> QED BY <1>3, <1>6, <2>2 DEF Numbered
<1>8. After(r) = After(p) + 1
  BY <1>1, <1>3, <1>6 DEF After, n
<1>9. Bytes(r) = Bytes(p) + size
  <2>1. Bytes(r) = HeaderSize + Sizes(more) /\ Bytes(p) = HeaderSize + Sizes(p.blocks)
    BY <1>6, BytesIs
  <2>2. Sizes(p.blocks) \in Nat /\ size \in Nat /\ HeaderSize \in Nat
    BY <1>1, <1>2, SizesBound, FeedBounds
  <2> QED BY <1>4, <2>1, <2>2
<1>10. Len(r.blocks) = Len(p.blocks) + 1
  BY <1>3, <1>6 DEF n
<1> QED BY <1>5, <1>6, <1>7, <1>8, <1>9, <1>10

(* A packetizer whose open packet is p. *)
LEMMA OpenFills ==
  ASSUME NEW q, NEW pz, Filling(q, pz), NEW p, NEW next \in Nat,
         Open(p, NextOf(q \o pz.ready), next)
  PROVE  Filling(q, [pz EXCEPT !.current = <<p>>, !.next_seq = next])
<1> DEFINE r == [pz EXCEPT !.current = <<p>>, !.next_seq = next]
<1>1. /\ pz \in Packetizers /\ p \in Packet
  BY DEF Filling, Open
<1>2. r \in Packetizers /\ r.ready = pz.ready /\ r.current = <<p>> /\ r.next_seq = next
  BY <1>1, Zenon DEF Packetizers
<1>3. r.current # Closed
  BY <1>2 DEF Closed
<1> HIDE DEF r
<1>4. Filling(q, r)
  BY <1>1, <1>2, <1>3 DEF Filling
<1> QED BY <1>4 DEF r

(* add_message keeps the tiling, whether or not it starts a packet. *)
LEMMA AddFills ==
  ASSUME NEW q, NEW pz, Filling(q, pz), NEW size \in BlockSize
  PROVE  Filling(q, AddMessage(pz, size))
<1> DEFINE full == pz.current # Closed /\ Bytes(Head(pz.current)) + size > Mtu
           open == IF full THEN FlushPacket(pz) ELSE pz
           pkt == IF open.current = Closed THEN Header(open.next_seq, 0)
                                           ELSE Head(open.current)
           block == [msg |-> open.next_seq, size |-> size]
           more == [pkt EXCEPT !.blocks = Append(@, block)]
           from == NextOf(q \o open.ready)
<1>1. AddMessage(pz, size) = [open EXCEPT !.current = <<more>>, !.next_seq = @ + 1]
  BY Zenon DEF AddMessage
<1>2. Filling(q, open)
  BY FlushFills
<1>3. \/ open.current = Closed
      \/ open = pz /\ pz.current # Closed /\ ~(Bytes(Head(pz.current)) + size > Mtu)
  BY FlushFills
<1> HIDE DEF full, open
<1>4. open \in Packetizers /\ open.next_seq \in Nat /\ size \in Nat /\ size >= 1
  <2>1. open \in Packetizers
    BY <1>2 DEF Filling
  <2>2. [msg |-> 0, size |-> size] \in Block
    BY DEF Block
  <2>3. size \in Nat /\ size >= 1
    BY <2>2, FeedBounds
  <2> QED BY <2>1, <2>3 DEF Packetizers
<1>5. from \in Nat /\ from >= 1
  BY <1>2, NextOfNat DEF Filling
<1> DEFINE next == open.next_seq + 1
<1>6. Open(more, from, next)
  <2>1. CASE open.current = Closed
    <3>1. from = open.next_seq
      BY <1>2, <2>1 DEF Filling
    <3>2. pkt = [seq |-> open.next_seq, count |-> 0, blocks |-> << >>]
      BY <2>1 DEF Header
    <3>3. pkt \in Packet /\ Numbered(pkt) /\ Len(pkt.blocks) = 0 /\ pkt.seq = from
      <4> HIDE DEF pkt
      <4>1. pkt.seq = open.next_seq /\ pkt.blocks = << >> /\ pkt.count = 0
        BY <3>2
      <4>2. << >> \in Seq(Block)
        BY EmptySeq
      <4>3. pkt \in Packet
        BY <1>4, <3>2, <4>2 DEF Packet
      <4> QED BY <3>1, <4>1, <4>3 DEF Numbered
    <3>4. After(pkt) = open.next_seq
      BY <1>4, <3>1, <3>3 DEF After
    <3> HIDE DEF pkt
    <3>5. /\ more \in Packet /\ more.seq = pkt.seq /\ Numbered(more)
          /\ After(more) = After(pkt) + 1 /\ Len(more.blocks) = Len(pkt.blocks) + 1
      BY <3>3, <3>4, BlockAdded
    <3> HIDE DEF more, from
    <3> QED BY <1>5, <3>3, <3>4, <3>5 DEF Open
  <2>2. CASE open = pz /\ pz.current # Closed /\ ~(Bytes(Head(pz.current)) + size > Mtu)
    <3>1. PICK p \in Packet : open.current = <<p>> /\ Open(p, from, open.next_seq)
      BY <1>2, <2>2 DEF Filling
    <3>2. pkt = p /\ Head(pz.current) = p
      BY <2>2, <3>1
    <3>3. /\ Numbered(p) /\ After(p) = open.next_seq /\ p.seq = from /\ Len(p.blocks) >= 1
          /\ Len(p.blocks) \in Nat
      BY <3>1 DEF Open, Packet
    <3> HIDE DEF pkt, from
    <3>4. /\ more \in Packet /\ more.seq = p.seq /\ Numbered(more)
          /\ After(more) = After(p) + 1 /\ Len(more.blocks) = Len(p.blocks) + 1
          /\ Bytes(more) = Bytes(p) + size
      BY <3>2, <3>3, BlockAdded
    <3> HIDE DEF more
    <3>5. ~(Bytes(more) > Mtu)
      BY <2>2, <3>2, <3>4
    <3>6. Len(more.blocks) >= 1
      BY <3>3, <3>4
    <3> QED BY <1>5, <3>3, <3>4, <3>5, <3>6 DEF Open
  <2> QED BY <1>3, <2>1, <2>2
<1> HIDE DEF more
<1>7. Filling(q, [open EXCEPT !.current = <<more>>, !.next_seq = next])
  <2>1. next \in Nat
    BY <1>4
  <2> HIDE DEF next
  <2> QED BY <1>2, <1>6, <2>1, OpenFills, Zenon
<1>8. [open EXCEPT !.current = <<more>>, !.next_seq = @ + 1]
        = [open EXCEPT !.current = <<more>>, !.next_seq = next]
  BY <1>4 DEF Packetizers
<1> QED BY <1>1, <1>7, <1>8

(* The packetizers that work on behind the packets q. *)
Fillers(q) == {pz \in Packetizers : Filling(q, pz)}

(* One step of publish, typed. *)
LEMMA AddTypes ==
  ASSUME NEW q, NEW a \in Fillers(q), NEW p \in BlockSize
  PROVE  AddMessage(a, p) \in Fillers(q)
<1>1. Filling(q, AddMessage(a, p))
  BY AddFills DEF Fillers
<1> QED BY <1>1 DEF Fillers, Filling

(* publish folds AddMessage over the batch. *)
LEMMA AddFoldIs ==
  ASSUME NEW q, NEW a0 \in Fillers(q), NEW s \in Seq(BlockSize)
  PROVE  \E F, h : /\ FoldedBy(F, h, Fillers(q), a0, Len(s))
                   /\ \A a \in Fillers(q), i \in 1 .. Len(s) : F[<<a, i>>] = AddMessage(a, s[i])
                   /\ InTurn(AddMessage, a0, s) = Whole(h, Len(s))
<1> DEFINE n == Len(s)
           F == [x \in Fillers(q) \X (1 .. n) |-> AddMessage(x[1], s[x[2]])]
           Q(f) == f = [t \in SUBSET DOMAIN s |->
                          IF t = {} THEN a0 ELSE AddMessage(f[t \ {Max(t)}], s[Max(t)])]
<1>1. n \in Nat /\ DOMAIN s = 1 .. n /\ \A i \in 1 .. n : s[i] \in BlockSize
  OBVIOUS
<1>2. \A a \in Fillers(q), i \in 1 .. n : F[<<a, i>>] = AddMessage(a, s[i])
  OBVIOUS
<1> HIDE DEF n, F
<1>3. StepOn(F, Fillers(q), n)
  <2>1. \A a \in Fillers(q), p \in BlockSize : AddMessage(a, p) \in Fillers(q)
    BY AddTypes
  <2> QED BY <1>1, <1>2, <2>1, Zenon DEF StepOn
<1>4. \E f : Q(f)
  <2>1. PICK f : FoldsIn(f, F, Fillers(q), a0, n)
    BY <1>1, <1>3, FoldExists
  <2>2. Q(f)
    BY <1>1, <1>2, <2>1, Zenon DEF FoldsIn
  <2> QED BY <2>2, Zenon
<1>5. PICK h : Q(h) /\ InTurn(AddMessage, a0, s) = Whole(h, n)
  <2> DEFINE c == CHOOSE f : Q(f)
  <2>1. Q(c)
    BY <1>4, Zenon
  <2>2. InTurn(AddMessage, a0, s) = c[1 .. n]
    BY <1>1 DEF InTurn, MapThenFoldSet
  <2> HIDE DEF c
  <2> QED BY <2>1, <2>2, Zenon DEF Whole
<1>6. Folds(h, F, Fillers(q), a0, n)
  BY <1>1, <1>2, <1>5, Zenon DEF Folds
<1>7. FoldedBy(F, h, Fillers(q), a0, n)
  BY <1>3, <1>6 DEF FoldedBy
<1> QED BY <1>2, <1>5, <1>7, Zenon DEF n

(* A batch leaves a packetizer that works on behind the same packets. *)
LEMMA BatchFills ==
  ASSUME NEW q, NEW a0 \in Fillers(q), NEW s \in Seq(BlockSize)
  PROVE  Filling(q, InTurn(AddMessage, a0, s))
<1>1. PICK F, h : /\ FoldedBy(F, h, Fillers(q), a0, Len(s))
                  /\ InTurn(AddMessage, a0, s) = Whole(h, Len(s))
  BY AddFoldIs, Zenon
<1>2. \A i \in 0 .. Len(s) : Whole(h, i) \in Fillers(q)
  BY <1>1, FoldStep DEF FoldedBy
<1>3. InTurn(AddMessage, a0, s) \in Fillers(q)
  BY <1>1, <1>2
<1> QED BY <1>3 DEF Fillers

----------------------------------------------------------------------------
(* The listener *)

Numbers == Nat
Listeners == [expected : Nat, had_gap : BOOLEAN, applied : Seq(Numbers), ended : BOOLEAN]

UpTo(n) == [i \in 1 .. n |-> i]

Msgs(p) == [i \in DOMAIN p.blocks |-> p.blocks[i].msg]

(* What was sent: packets that tile the stream, the last of them the end   *)
(* of the session once publishing is over.                                 *)
SentTiled ==
  /\ Tiled(capture)
  /\ packetizer = [next_seq |-> NextOf(capture), current |-> Closed, ready |-> << >>]
  /\ publishing => NoEos(capture)
  /\ ~publishing =>
       /\ capture # << >> /\ capture[Len(capture)].count = EosCount
       /\ \A k \in 1 .. Len(capture) - 1 : capture[k].count # EosCount
  /\ \A p \in network : \E k \in 1 .. Len(capture) : p = capture[k]

(* What the listener knows as long as it saw no gap.  Without repetitions  *)
(* no packet that is still under way has messages it has applied.          *)
Listening ==
  /\ listener \in Listeners /\ repeats \in Nat
  /\ listener.expected >= 1 /\ listener.expected <= NextOf(capture)
  /\ ~listener.had_gap =>
       /\ Range(listener.applied) = 1 .. listener.expected - 1
       /\ listener.ended => ~publishing /\ listener.expected = NextOf(capture)
       /\ repeats = 0 =>
            /\ listener.applied = UpTo(listener.expected - 1)
            /\ \A p \in network : p.blocks # << >> => p.seq >= listener.expected

FInv == SentTiled /\ Listening

(* The elements of a concatenation. *)
LEMMA ConcatIs ==
  ASSUME NEW S, NEW a \in Seq(S), NEW b \in Seq(S)
  PROVE  /\ a \o b \in Seq(S) /\ Len(a \o b) = Len(a) + Len(b)
         /\ \A i \in 1 .. Len(a) : (a \o b)[i] = a[i]
         /\ \A i \in 1 .. Len(b) : (a \o b)[Len(a) + i] = b[i]
OBVIOUS

(* The range of a concatenation. *)
LEMMA RangeConcat ==
  ASSUME NEW S, NEW a \in Seq(S), NEW b \in Seq(S)
  PROVE  Range(a \o b) = Range(a) \cup Range(b)
<1> DEFINE c == a \o b
<1>1. /\ Len(a) \in Nat /\ Len(b) \in Nat /\ DOMAIN c = 1 .. Len(a) + Len(b)
      /\ DOMAIN a = 1 .. Len(a) /\ DOMAIN b = 1 .. Len(b)
      /\ \A i \in 1 .. Len(a) : c[i] = a[i]
      /\ \A i \in 1 .. Len(b) : c[Len(a) + i] = b[i]
  OBVIOUS
<1> HIDE DEF c
<1>2. ASSUME NEW x \in Range(c) PROVE x \in Range(a) \cup Range(b)
  <2>1. PICK i \in 1 .. Len(a) + Len(b) : x = c[i]
    BY <1>1 DEF Range
  <2>2. CASE i <= Len(a)
    BY <1>1, <2>1, <2>2 DEF Range
  <2>3. CASE i > Len(a)
    <3>1. i - Len(a) \in 1 .. Len(b) /\ Len(a) + (i - Len(a)) = i
      BY <1>1, <2>1, <2>3
    <3>2. c[Len(a) + (i - Len(a))] = b[i - Len(a)]
      BY <1>1, <3>1
    <3> QED BY <1>1, <2>1, <3>1, <3>2, Zenon DEF Range
  <2> QED BY <1>1, <2>1, <2>2, <2>3
<1>3. ASSUME NEW x \in Range(a) PROVE x \in Range(c)
  <2>1. PICK i \in 1 .. Len(a) : x = a[i]
    BY <1>1 DEF Range
  <2>2. i \in 1 .. Len(a) + Len(b) /\ c[i] = x
    BY <1>1, <2>1
  <2> QED BY <1>1, <2>2 DEF Range
<1>4. ASSUME NEW x \in Range(b) PROVE x \in Range(c)
  <2>1. PICK i \in 1 .. Len(b) : x = b[i]
    BY <1>1 DEF Range
  <2>2. Len(a) + i \in 1 .. Len(a) + Len(b) /\ c[Len(a) + i] = x
    BY <1>1, <2>1
  <2> QED BY <1>1, <2>2 DEF Range
<1> QED BY <1>2, <1>3, <1>4 DEF c

(* The numbers of a good packet. *)
LEMMA GoodNumbers ==
  ASSUME NEW p, Good(p)
  PROVE  /\ p \in Packet /\ p.seq \in Nat /\ p.seq >= 1 /\ p.count \in Nat
         /\ p.blocks \in Seq(Block) /\ Len(p.blocks) \in Nat
         /\ After(p) \in Nat /\ After(p) = p.seq + Len(p.blocks)
         /\ p.blocks # << >> => Len(p.blocks) >= 1
         /\ p.count = EosCount => p.blocks = << >>
         /\ Parses(p)
<1>1. p \in Packet /\ p.seq >= 1
  BY DEF Good
<1>2. p.seq \in Nat /\ p.count \in Nat /\ p.blocks \in Seq(Block)
  BY <1>1 DEF Packet
<1>3. Len(p.blocks) \in Nat /\ (p.blocks # << >> => Len(p.blocks) >= 1)
  BY <1>2, EmptySeq
<1>4. After(p) \in Nat /\ After(p) = p.seq + Len(p.blocks)
  BY <1>2, <1>3 DEF After
<1>5. \/ p.count = Len(p.blocks) /\ p.count # EosCount
      \/ p.count = EosCount /\ p.blocks = << >>
  BY DEF Good
<1>6. Parses(p)
  BY <1>5, EmptySeq DEF Parses
<1> QED BY <1>1, <1>2, <1>3, <1>4, <1>5, <1>6

(* The messages of a good packet are an interval of numbers. *)
LEMMA MsgsIs ==
  ASSUME NEW p, Good(p)
  PROVE  /\ Msgs(p) \in Seq(Numbers) /\ Len(Msgs(p)) = Len(p.blocks)
         /\ \A i \in 1 .. Len(p.blocks) : Msgs(p)[i] = p.seq + i - 1
         /\ Range(Msgs(p)) = p.seq .. After(p) - 1
<1> DEFINE n == Len(p.blocks)
<1>1. p.blocks \in Seq(Block) /\ n \in Nat /\ p.seq \in Nat /\ After(p) = p.seq + n
  BY GoodNumbers
<1>2. DOMAIN p.blocks = 1 .. n /\ \A i \in 1 .. n : p.blocks[i].msg = p.seq + i - 1
  BY <1>1 DEF Good, Numbered
<1>3. Msgs(p) = [i \in 1 .. n |-> p.blocks[i].msg]
  BY <1>2 DEF Msgs
<1> HIDE DEF n
<1>4. \A i \in 1 .. n : p.seq + i - 1 \in Nat
  BY <1>1
<1>5. Msgs(p) \in Seq(Numbers) /\ Len(Msgs(p)) = n /\ DOMAIN Msgs(p) = 1 .. n
  BY <1>1, <1>2, <1>3, <1>4 DEF Numbers
<1>6. \A i \in 1 .. n : Msgs(p)[i] = p.seq + i - 1
  BY <1>2, <1>3
<1>7. ASSUME NEW x \in p.seq .. After(p) - 1 PROVE x \in Range(Msgs(p))
  <2>1. x - p.seq + 1 \in 1 .. n /\ p.seq + (x - p.seq + 1) - 1 = x
    BY <1>1
  <2>2. Msgs(p)[x - p.seq + 1] = x
    BY <1>6, <2>1
  <2> QED BY <1>5, <2>1, <2>2 DEF Range
<1>8. ASSUME NEW x \in Range(Msgs(p)) PROVE x \in p.seq .. After(p) - 1
  <2>1. PICK i \in 1 .. n : x = Msgs(p)[i]
    BY <1>5 DEF Range
  <2>2. x = p.seq + i - 1
    BY <1>6, <2>1
  <2> QED BY <1>1, <2>1, <2>2
<1> QED BY <1>5, <1>6, <1>7, <1>8, Zenon DEF n

(* The messages from the first on, and those of the packet that follows. *)
LEMMA UpToMore ==
  ASSUME NEW p, Good(p)
  PROVE  UpTo(p.seq - 1) \o Msgs(p) = UpTo(After(p) - 1)
<1> DEFINE a == UpTo(p.seq - 1)
           b == Msgs(p)
           m == p.seq - 1
           n == Len(p.blocks)
           c == UpTo(m + n)
<1>1. m \in Nat /\ n \in Nat /\ p.seq \in Nat /\ After(p) - 1 = m + n /\ p.seq = m + 1
  BY GoodNumbers
<1>2. b \in Seq(Numbers) /\ Len(b) = n /\ \A i \in 1 .. n : b[i] = p.seq + i - 1
  BY MsgsIs
<1> HIDE DEF b, m, n
<1>3. a \in Seq(Numbers) /\ Len(a) = m /\ \A i \in 1 .. m : a[i] = i
  BY <1>1 DEF UpTo, m, Numbers
<1>4. c \in Seq(Numbers) /\ Len(c) = m + n /\ \A i \in 1 .. m + n : c[i] = i
  BY <1>1 DEF UpTo, Numbers
<1> HIDE DEF a, c
<1> DEFINE d == a \o b
<1>5. /\ d \in Seq(Numbers) /\ Len(d) = m + n
      /\ \A i \in 1 .. m : d[i] = a[i]
      /\ \A i \in 1 .. n : d[m + i] = b[i]
  <2>1. a \in Seq(Numbers) /\ b \in Seq(Numbers)
    BY <1>2, <1>3
  <2>2. /\ a \o b \in Seq(Numbers) /\ Len(a \o b) = Len(a) + Len(b)
        /\ \A i \in 1 .. Len(a) : (a \o b)[i] = a[i]
        /\ \A i \in 1 .. Len(b) : (a \o b)[Len(a) + i] = b[i]
    BY <2>1, ConcatIs
  <2> QED BY <1>2, <1>3, <2>2
<1> HIDE DEF d
<1>6. ASSUME NEW i \in 1 .. m + n PROVE d[i] = c[i]
  <2>1. CASE i <= m
    BY <1>1, <1>3, <1>4, <1>5, <2>1
  <2>2. CASE i > m
    <3>1. i - m \in 1 .. n /\ m + (i - m) = i
      BY <1>1, <2>2
    <3>2. d[m + (i - m)] = b[i - m] /\ b[i - m] = p.seq + (i - m) - 1
      BY <1>2, <1>5, <3>1
    <3> QED BY <1>1, <1>4, <3>1, <3>2
  <2> QED BY <1>1, <2>1, <2>2
<1>7. d = c
  BY <1>4, <1>5, <1>6, SeqEqual
<1> QED BY <1>1, <1>7 DEF a, b, c, d, m

(* What on_packet does to a listener, field by field. *)
LEMMA Hears ==
  ASSUME NEW l \in Listeners, NEW p, Good(p)
  PROVE  LET r == OnMoldPacket(l, p)
         IN  /\ r \in Listeners
             /\ r.expected = IF After(p) > l.expected THEN After(p) ELSE l.expected
             /\ r.had_gap <=> l.had_gap \/ p.seq > l.expected
             /\ r.applied = l.applied \o Msgs(p)
             /\ r.ended <=> p.count = EosCount
<1> DEFINE e == IF After(p) > l.expected THEN After(p) ELSE l.expected
           g == l.had_gap \/ p.seq > l.expected
           d == p.count = EosCount
           all == l.applied \o Msgs(p)
           r == [expected |-> e, had_gap |-> g, applied |-> all, ended |-> d]
<1>1. /\ l = [expected |-> l.expected, had_gap |-> l.had_gap, applied |-> l.applied,
              ended |-> l.ended]
      /\ l.expected \in Nat /\ l.applied \in Seq(Numbers)
  BY DEF Listeners
<1>2. e \in Nat
  BY <1>1, GoodNumbers
<1>3. all \in Seq(Numbers)
  BY <1>1, MsgsIs, ConcatProperties
<1>4. g \in BOOLEAN /\ d \in BOOLEAN
  <2>1. l.had_gap \in BOOLEAN
    BY DEF Listeners
  <2> QED BY <2>1
<1>5. OnMoldPacket(l, p) = r
  <2>1. Parses(p)
    BY GoodNumbers
  <2>2. OnPacket(l, p.seq, Len(p.blocks)) = [l EXCEPT !.had_gap = g, !.expected = e]
    BY <1>1 DEF OnPacket, After
  <2>3. OnMoldPacket(l, p) =
          [[l EXCEPT !.had_gap = g, !.expected = e] EXCEPT !.applied = all, !.ended = d]
    BY <1>1, <2>1, <2>2 DEF OnMoldPacket, Msgs
  <2> HIDE DEF e, g, d, all
  <2> QED BY <1>1, <2>3, Zenon
<1> HIDE DEF e, g, d, all
<1>6. r \in Listeners
  BY <1>2, <1>3, <1>4 DEF Listeners
<1>7. /\ r.expected = e /\ r.had_gap = g /\ r.applied = all /\ r.ended = d
  OBVIOUS
<1> QED BY <1>5, <1>6, <1>7, Zenon DEF e, g, d, all

----------------------------------------------------------------------------
(* The steps *)

(* The listener reads a datagram. *)
LEMMA ReadKeeps ==
  ASSUME FInv, NEW p \in network, listener' = OnMoldPacket(listener, p),
         UNCHANGED <<packetizer, publishing, capture>>,
         \/ network' = network \ {p} /\ repeats' = repeats
         \/ network' = network /\ repeats' = repeats + 1
  PROVE  FInv'
<1> DEFINE l == listener
           e == listener.expected
           e1 == listener'.expected
           N == NextOf(capture)
<1>1. PICK k \in 1 .. Len(capture) : p = capture[k]
  BY DEF FInv, SentTiled
<1>2. Tiled(capture) /\ Good(p) /\ After(p) <= N /\ N \in Nat
  BY <1>1, NextOfNat DEF FInv, SentTiled, Tiled
<1>3. /\ p.seq \in Nat /\ p.seq >= 1 /\ After(p) \in Nat /\ After(p) = p.seq + Len(p.blocks)
      /\ Len(p.blocks) \in Nat /\ (p.blocks # << >> => Len(p.blocks) >= 1)
      /\ (p.count = EosCount => p.blocks = << >>)
  BY <1>2, GoodNumbers
<1>4. l \in Listeners /\ e \in Nat /\ e >= 1 /\ e <= N /\ repeats \in Nat
  BY DEF FInv, Listening, Listeners
<1>5. /\ listener' \in Listeners
      /\ e1 = IF After(p) > e THEN After(p) ELSE e
      /\ listener'.had_gap <=> l.had_gap \/ p.seq > e
      /\ listener'.applied = l.applied \o Msgs(p)
      /\ listener'.ended <=> p.count = EosCount
  BY <1>2, <1>4, Hears, Zenon
<1>6. SentTiled'
  <2>1. \A r \in network' : r \in network
    OBVIOUS
  <2> QED BY <2>1 DEF FInv, SentTiled
<1>7. repeats' \in Nat /\ e1 \in Nat /\ e1 >= 1 /\ e1 <= N
  BY <1>2, <1>3, <1>4, <1>5
<1>8. ASSUME ~listener'.had_gap
      PROVE  /\ Range(listener'.applied) = 1 .. e1 - 1
             /\ listener'.ended => ~publishing /\ e1 = N
             /\ repeats' = 0 =>
                  /\ listener'.applied = UpTo(e1 - 1)
                  /\ \A r \in network' : r.blocks # << >> => r.seq >= e1
  <2>1. ~l.had_gap /\ p.seq <= e
    BY <1>3, <1>4, <1>5, <1>8
  <2>2. Range(l.applied) = 1 .. e - 1 /\ l.applied \in Seq(Numbers)
    BY <1>4, <2>1 DEF FInv, Listening, Listeners
  <2>3. Range(listener'.applied) = 1 .. e1 - 1
    <3>1. /\ Range(listener'.applied) = Range(l.applied) \cup Range(Msgs(p))
          /\ Range(Msgs(p)) = p.seq .. After(p) - 1
      <4>1. Msgs(p) \in Seq(Numbers) /\ Range(Msgs(p)) = p.seq .. After(p) - 1
        BY <1>2, MsgsIs
      <4> DEFINE a == l.applied
                 b == Msgs(p)
      <4>2. a \in Seq(Numbers) /\ b \in Seq(Numbers)
        BY <2>2, <4>1
      <4> HIDE DEF a, b
      <4>3. Range(a \o b) = Range(a) \cup Range(b)
        BY <4>2, RangeConcat
      <4> QED BY <1>5, <4>1, <4>3 DEF a, b
    <3>2. (1 .. e - 1) \cup (p.seq .. After(p) - 1) = 1 .. e1 - 1
      BY <1>3, <1>4, <1>5, <2>1
    <3> QED BY <2>2, <3>1, <3>2
  <2>4. ASSUME listener'.ended PROVE ~publishing /\ e1 = N
    <3>1. p.count = EosCount /\ p.blocks = << >>
      BY <1>3, <1>5, <2>4
    <3>2. ~publishing
      BY <1>1, <3>1 DEF FInv, SentTiled, NoEos
    <3>3. k = Len(capture) /\ capture # << >>
      <4>1. ~(k \in 1 .. Len(capture) - 1) /\ capture # << >>
        BY <1>1, <3>1, <3>2 DEF FInv, SentTiled
      <4>2. Len(capture) \in Nat
        BY <1>2 DEF Tiled
      <4> QED BY <4>1, <4>2
    <3>4. N = After(p)
      BY <1>1, <3>3 DEF NextOf
    <3>5. Len(p.blocks) = 0
      BY <3>1, EmptySeq
    <3> QED BY <1>3, <1>4, <1>5, <2>1, <3>2, <3>4, <3>5
  <2>5. ASSUME repeats' = 0
        PROVE  /\ listener'.applied = UpTo(e1 - 1)
               /\ \A r \in network' : r.blocks # << >> => r.seq >= e1
    <3>1. repeats = 0 /\ network' = network \ {p}
      BY <1>4, <2>5
    <3>2. l.applied = UpTo(e - 1) /\ \A r \in network : r.blocks # << >> => r.seq >= e
      BY <2>1, <3>1 DEF FInv, Listening
    <3>3. CASE p.blocks = << >>
      <4>1. Len(p.blocks) = 0
        BY <3>3, EmptySeq
      <4>2. e1 = e
        BY <1>3, <1>4, <1>5, <2>1, <4>1
      <4>3. Msgs(p) = << >>
        BY <3>3 DEF Msgs
      <4>4. listener'.applied = l.applied
        BY <1>5, <2>2, <4>3
      <4> QED BY <3>1, <3>2, <4>2, <4>4
    <3>4. CASE p.blocks # << >>
      <4>1. p.seq = e
        BY <1>3, <1>4, <2>1, <3>2, <3>4
      <4>2. e1 = After(p)
        BY <1>3, <1>5, <3>4, <4>1
      <4>3. listener'.applied = UpTo(e1 - 1)
        BY <1>2, <1>5, <3>2, <4>1, <4>2, UpToMore, Zenon
      <4>4. ASSUME NEW r \in network', r.blocks # << >> PROVE r.seq >= e1
        <5>1. r \in network /\ r # p /\ r.seq >= e
          BY <3>1, <3>2, <4>4
        <5>2. PICK j \in 1 .. Len(capture) : r = capture[j]
          BY <5>1 DEF FInv, SentTiled
        <5>3. Good(r) /\ Len(capture) \in Nat
          BY <1>2, <5>2 DEF Tiled
        <5>4. r.seq \in Nat /\ After(r) = r.seq + Len(r.blocks) /\ Len(r.blocks) >= 1
              /\ Len(r.blocks) \in Nat
          BY <4>4, <5>3, GoodNumbers
        <5>5. /\ j < k => After(r) <= p.seq
              /\ k < j => After(p) <= r.seq
          BY <1>1, <1>2, <5>2 DEF Tiled
        <5>6. j # k
          BY <1>1, <5>1, <5>2
        <5>7. ~(j < k)
          BY <1>3, <4>1, <5>1, <5>4, <5>5
        <5>8. k < j
          BY <5>3, <5>6, <5>7
        <5> QED BY <4>2, <5>4, <5>5, <5>8, <1>3
      <4> QED BY <4>3, <4>4
    <3> QED BY <3>3, <3>4
  <2> QED BY <2>3, <2>4, <2>5
<1>9. Listening'
  BY <1>5, <1>7, <1>8 DEF Listening
<1> QED BY <1>6, <1>9 DEF FInv

(* The publisher sends: the datagrams follow those sent before. *)
LEMMA SendKeeps ==
  ASSUME FInv, publishing, NEW q \in Seq(Packet), SendDatagrams(q),
         Tiled(capture \o q),
         packetizer' = [next_seq |-> NextOf(capture \o q), current |-> Closed, ready |-> << >>],
         UNCHANGED <<listener, repeats>>,
         \/ publishing' = TRUE /\ NoEos(capture \o q)
         \/ /\ publishing' = FALSE
            /\ \E p \in Packet : q = <<p>> /\ p.count = EosCount /\ NextOf(capture \o q) = NextOf(capture)
  PROVE  FInv'
<1> DEFINE c == capture \o q
           n == Len(capture)
<1>1. capture' = c /\ network' = network \cup Range(q)
  BY DEF SendDatagrams
<1>2. capture \in Seq(Packet) /\ Tiled(capture)
  BY DEF FInv, SentTiled, Tiled
<1>3. /\ c \in Seq(Packet) /\ Len(c) = n + Len(q) /\ n \in Nat /\ Len(q) \in Nat
      /\ \A i \in 1 .. n : c[i] = capture[i]
      /\ \A i \in 1 .. Len(q) : c[n + i] = q[i]
  BY <1>2
<1> HIDE DEF c
<1>4. NextOf(capture) \in Nat /\ NextOf(c) \in Nat /\ NextOf(capture) >= 1
  BY <1>2, NextOfNat DEF c
<1>5. ASSUME NEW i \in 1 .. Len(q)
      PROVE  /\ q[i].seq >= NextOf(capture) /\ q[i].seq <= NextOf(c) /\ q[i].seq \in Nat
             /\ \E j \in 1 .. Len(c) : q[i] = c[j]
  <2>1. n + i \in 1 .. Len(c) /\ q[i] = c[n + i]
    BY <1>3
  <2>2. Good(c[n + i]) /\ After(c[n + i]) <= NextOf(c)
    BY <2>1, NextOfNat, Zenon DEF Tiled, c
  <2>3. q[i].seq \in Nat /\ q[i].seq >= 1 /\ After(q[i]) = q[i].seq + Len(q[i].blocks)
        /\ Len(q[i].blocks) \in Nat
    BY <2>1, <2>2, GoodNumbers
  <2>4. q[i].seq >= NextOf(capture)
    <3>1. CASE capture = << >>
      BY <2>3, <3>1 DEF NextOf
    <3>2. CASE capture # << >>
      <4>1. n \in 1 .. Len(c) /\ n < n + i /\ c[n] = capture[n] /\ NextOf(capture) = After(capture[n])
        BY <1>2, <1>3, <3>2, EmptySeq DEF NextOf
      <4>2. After(c[n]) <= c[n + i].seq
        BY <2>1, <4>1 DEF Tiled, c
      <4>3. NextOf(capture) <= q[i].seq
        BY <2>1, <4>1, <4>2
      <4> HIDE DEF n
      <4> QED BY <1>4, <2>3, <4>3
    <3> QED BY <3>1, <3>2
  <2> QED BY <1>4, <2>1, <2>2, <2>3, <2>4
<1>6. NextOf(capture) <= NextOf(c)
  <2>1. CASE q = << >>
    <3>1. c = capture
      BY <1>2, <2>1 DEF c
    <3> QED BY <1>4, <3>1
  <2>2. CASE q # << >>
    <3>1. 1 \in 1 .. Len(q)
      BY <1>3, <2>2, EmptySeq
    <3> QED BY <1>4, <1>5, <3>1
  <2> QED BY <2>1, <2>2
<1>7. ASSUME NEW p \in network'
      PROVE  /\ \E k \in 1 .. Len(c) : p = c[k]
             /\ p \in network \/ p.seq >= NextOf(capture)
  <2>1. CASE p \in network
    <3>1. PICK k \in 1 .. n : p = capture[k]
      BY <2>1 DEF FInv, SentTiled
    <3>2. k \in 1 .. Len(c) /\ p = c[k]
      BY <1>3, <3>1
    <3> QED BY <2>1, <3>2
  <2>2. CASE p \in Range(q)
    <3>1. PICK i \in 1 .. Len(q) : p = q[i]
      BY <2>2 DEF Range
    <3> QED BY <1>5, <3>1
  <2> QED BY <1>1, <1>7, <2>1, <2>2
<1>8. SentTiled'
  <2>1. publishing' => NoEos(c)
    BY DEF c
  <2>2. ASSUME ~publishing'
        PROVE  /\ c # << >> /\ c[Len(c)].count = EosCount
               /\ \A k \in 1 .. Len(c) - 1 : c[k].count # EosCount
    <3>1. PICK p \in Packet : q = <<p>> /\ p.count = EosCount
      BY <2>2
    <3>2. Len(q) = 1 /\ q[1] = p
      BY <3>1
    <3>3. Len(c) = n + 1 /\ c[n + 1] = p /\ c # << >>
      BY <1>3, <3>2
    <3>4. \A k \in 1 .. n : capture[k].count # EosCount
      BY DEF FInv, SentTiled, NoEos
    <3> QED BY <1>3, <3>1, <3>3, <3>4
  <2> QED BY <1>1, <1>7, <2>1, <2>2 DEF SentTiled, c
<1>9. Listening'
  <2>1. /\ listener \in Listeners /\ repeats \in Nat /\ listener.expected \in Nat
        /\ listener.expected >= 1 /\ listener.expected <= NextOf(capture)
    BY DEF FInv, Listening, Listeners
  <2>2. listener.expected <= NextOf(c)
    BY <1>4, <1>6, <2>1
  <2>3. ~listener.had_gap => ~listener.ended
    BY DEF FInv, Listening
  <2>4. ASSUME ~listener.had_gap, repeats = 0, NEW p \in network', p.blocks # << >>
        PROVE  p.seq >= listener.expected
    <3>1. CASE p \in network
      BY <2>4, <3>1 DEF FInv, Listening
    <3>2. CASE p \notin network
      <4>1. PICK i \in 1 .. Len(q) : p = q[i]
        BY <1>1, <2>4, <3>2 DEF Range
      <4> QED BY <1>4, <1>5, <2>1, <4>1
    <3> QED BY <3>1, <3>2
  <2>5. ~listener.had_gap =>
          /\ Range(listener.applied) = 1 .. listener.expected - 1
          /\ repeats = 0 => listener.applied = UpTo(listener.expected - 1)
    BY DEF FInv, Listening
  <2>6. listener' = listener /\ repeats' = repeats
    OBVIOUS
  <2> QED BY <1>1, <2>1, <2>2, <2>3, <2>4, <2>5, <2>6 DEF Listening
<1> QED BY <1>8, <1>9 DEF FInv

(* Heartbeats and ends of session. *)
LEMMA HeaderGood ==
  ASSUME NEW q, Tiled(q), NEW count \in {0, EosCount}
  PROVE  /\ Good(Header(NextOf(q), count)) /\ Tiled(Append(q, Header(NextOf(q), count)))
         /\ NextOf(Append(q, Header(NextOf(q), count))) = NextOf(q)
<1> DEFINE h == Header(NextOf(q), count)
<1>1. NextOf(q) \in Nat /\ NextOf(q) >= 1
  BY NextOfNat
<1>2. h = [seq |-> NextOf(q), count |-> count, blocks |-> << >>] /\ << >> \in Seq(Block)
  BY EmptySeq DEF Header
<1> HIDE DEF h
<1>3. h.seq = NextOf(q) /\ h.count = count /\ h.blocks = << >> /\ Len(h.blocks) = 0
  BY <1>2
<1>4. count \in Nat /\ EosCount # 0
  BY FeedBounds
<1>5. h \in Packet
  BY <1>1, <1>2, <1>4 DEF Packet
<1>6. ~(Bytes(h) > Mtu)
  <2>1. Sizes(<< >>) = 0
    <3>1. 0 \in Total
      BY DEF Total
    <3> QED BY <3>1, SizeFold DEF Sizes
  <2>2. Bytes(h) = HeaderSize + 0
    BY <1>3, <1>5, <2>1, BytesIs
  <2> QED BY <2>2, FeedBounds
<1>7. Numbered(h)
  BY <1>3 DEF Numbered
<1>8. Good(h)
  BY <1>1, <1>3, <1>4, <1>5, <1>6, <1>7 DEF Good
<1>9. Tiled(Append(q, h)) /\ NextOf(Append(q, h)) = After(h)
  BY <1>3, <1>8, TiledAppend
<1>10. After(h) = NextOf(q)
  BY <1>1, <1>3 DEF After
<1> QED BY <1>8, <1>9, <1>10 DEF h

(* A heartbeat or the end of the session keeps the invariant. *)
LEMMA SendOneKeeps ==
  ASSUME FInv, publishing, NEW count \in {0, EosCount},
         SendDatagrams(<<Header(packetizer.next_seq, count)>>),
         publishing' = (count = 0), UNCHANGED <<packetizer, listener, repeats>>
  PROVE  FInv'
<1> DEFINE h == Header(packetizer.next_seq, count)
           q == <<h>>
<1>1. Tiled(capture) /\ NoEos(capture) /\ capture \in Seq(Packet)
      /\ packetizer = [next_seq |-> NextOf(capture), current |-> Closed, ready |-> << >>]
  BY DEF FInv, SentTiled, Tiled
<1>2. packetizer.next_seq = NextOf(capture)
  BY <1>1
<1>3. /\ Good(h) /\ Tiled(Append(capture, h)) /\ NextOf(Append(capture, h)) = NextOf(capture)
  BY <1>1, <1>2, HeaderGood
<1>4. h.count = count /\ EosCount # 0
  BY FeedBounds DEF Header
<1> HIDE DEF h
<1>5. h \in Packet
  BY <1>3 DEF Good
<1>6. q \in Seq(Packet) /\ capture \o q = Append(capture, h)
  BY <1>1, <1>5
<1>7. count = 0 => NoEos(Append(capture, h))
  BY <1>1, <1>4, <1>5, NoEosAppend
<1>8. SendDatagrams(q)
  BY DEF h
<1>9. \/ publishing' = TRUE /\ NoEos(capture \o q)
      \/ /\ publishing' = FALSE
         /\ \E p \in Packet : q = <<p>> /\ p.count = EosCount /\ NextOf(capture \o q) = NextOf(capture)
  <2>1. CASE count = 0
    BY <1>6, <1>7, <2>1, Zenon
  <2>2. CASE count = EosCount
    BY <1>3, <1>4, <1>5, <1>6, <2>2, Zenon
  <2> QED BY <2>1, <2>2, Zenon
<1> HIDE DEF q
<1>10. /\ Tiled(capture \o q)
       /\ packetizer' = [next_seq |-> NextOf(capture \o q), current |-> Closed, ready |-> << >>]
  BY <1>1, <1>3, <1>6
<1>11. q \in Seq(Packet) /\ UNCHANGED <<listener, repeats>>
  BY <1>6
<1> QED BY <1>8, <1>9, <1>10, <1>11, SendKeeps, Zenon

(* A batch is a sequence of sizes. *)
LEMMA BatchIsSeq ==
  ASSUME NEW s \in Batches
  PROVE  s \in Seq(BlockSize)
<1>1. PICK n \in 1 .. MaxBatch : s \in [1 .. n -> BlockSize]
  BY DEF Batches
<1>2. n \in Nat
  BY FeedAssumption
<1> QED BY <1>1, <1>2

(* publish keeps the invariant. *)
LEMMA PublishKeeps ==
  ASSUME FInv, NEW sizes \in Batches, Publish(sizes)
  PROVE  FInv'
<1> DEFINE full == InTurn(AddMessage, packetizer, sizes)
           pz == FlushPacket(full)
           q == pz.ready
<1>1. /\ publishing /\ publishing' = publishing /\ UNCHANGED <<listener, repeats>>
      /\ packetizer' = [pz EXCEPT !.ready = << >>]
      /\ SendDatagrams(q)
  BY DEF Publish
<1>2. sizes \in Seq(BlockSize)
  BY BatchIsSeq
<1>3. packetizer \in Fillers(capture)
  <2>1. Tiled(capture) /\ NoEos(capture) /\ capture \in Seq(Packet)
        /\ packetizer = [next_seq |-> NextOf(capture), current |-> Closed, ready |-> << >>]
    BY <1>1 DEF FInv, SentTiled, Tiled
  <2>2. NextOf(capture) \in Nat /\ << >> \in Seq(Packet)
    BY <2>1, NextOfNat, EmptySeq
  <2>3. /\ packetizer \in Packetizers /\ packetizer.ready = << >> /\ packetizer.current = Closed
        /\ packetizer.next_seq = NextOf(capture)
    BY <2>1, <2>2 DEF Packetizers
  <2>4. capture \o << >> = capture
    BY <2>1
  <2>5. Filling(capture, packetizer)
    BY <2>1, <2>3, <2>4 DEF Filling
  <2> QED BY <2>3, <2>5 DEF Fillers
<1>4. Filling(capture, full)
  BY <1>2, <1>3, BatchFills
<1> HIDE DEF full
<1>5. Filling(capture, pz) /\ pz.current = Closed
  BY <1>4, FlushFills
<1> HIDE DEF pz
<1>6. /\ Tiled(capture \o q) /\ NoEos(capture \o q) /\ pz \in Packetizers
      /\ pz.next_seq = NextOf(capture \o q)
  BY <1>5 DEF Filling
<1>7. q \in Seq(Packet)
  BY <1>6 DEF Packetizers
<1>8. packetizer' = [next_seq |-> NextOf(capture \o q), current |-> Closed, ready |-> << >>]
  <2>1. pz = [next_seq |-> pz.next_seq, current |-> pz.current, ready |-> pz.ready]
    BY <1>6 DEF Packetizers
  <2>2. [pz EXCEPT !.ready = << >>] = [next_seq |-> pz.next_seq, current |-> pz.current, ready |-> << >>]
    BY <2>1
  <2> QED BY <1>1, <1>5, <1>6, <2>2
<1> HIDE DEF q
<1>9. publishing' = TRUE /\ publishing = TRUE
  BY <1>1
<1> QED BY <1>1, <1>6, <1>7, <1>8, <1>9, SendKeeps, Zenon

(* The feed as it starts. *)
LEMMA InitFInv == Init => FInv
<1> SUFFICES ASSUME Init PROVE FInv
  OBVIOUS
<1>1. SentTiled
  BY TiledEmpty DEF Init, SentTiled, NoEos
<1>2. NewListener \in Listeners
  BY EmptySeq DEF NewListener, Listeners
<1>3. NewListener.applied = << >> /\ NewListener.expected = 1 /\ ~NewListener.ended
  BY DEF NewListener
<1>4. Range(<< >>) = 1 .. 1 - 1 /\ << >> = UpTo(1 - 1)
  BY DEF Range, UpTo
<1> QED BY <1>1, <1>2, <1>3, <1>4, TiledEmpty DEF Init, FInv, Listening

(* Every step keeps the invariant. *)
LEMMA StepFInv ==
  ASSUME FInv, [Next]_vars
  PROVE  FInv'
<1>1. ASSUME NEW sizes \in Batches, Publish(sizes) PROVE FInv'
  BY <1>1, PublishKeeps
<1>2. CASE SendHeartbeat
  <2>1. /\ publishing /\ SendDatagrams(<<Header(packetizer.next_seq, 0)>>)
        /\ UNCHANGED <<packetizer, publishing, listener, repeats>>
    BY <1>2 DEF SendHeartbeat, Heartbeat
  <2> QED BY <2>1, SendOneKeeps, Zenon
<1>3. CASE SendEndOfSession
  <2>1. /\ publishing /\ publishing' = FALSE /\ EosCount # 0
        /\ SendDatagrams(<<Header(packetizer.next_seq, EosCount)>>)
        /\ UNCHANGED <<packetizer, listener, repeats>>
    BY <1>3, FeedBounds DEF SendEndOfSession, EndOfSession
  <2> QED BY <2>1, SendOneKeeps, Zenon
<1>4. ASSUME NEW p \in network, Lose(p) PROVE FInv'
  <2>1. /\ UNCHANGED <<packetizer, publishing, listener, capture, repeats>>
        /\ \A r \in network' : r \in network
    BY <1>4 DEF Lose
  <2>2. SentTiled' /\ Listening'
    BY <2>1 DEF FInv, SentTiled, Listening
  <2> QED BY <2>2 DEF FInv
<1>5. ASSUME NEW p \in network, Receive(p) \/ ReceiveRepeated(p) PROVE FInv'
  <2>1. /\ listener' = OnMoldPacket(listener, p) /\ UNCHANGED <<packetizer, publishing, capture>>
        /\ \/ network' = network \ {p} /\ repeats' = repeats
           \/ network' = network /\ repeats' = repeats + 1
    BY <1>5 DEF Receive, ReceiveRepeated
  <2> QED BY <2>1, ReadKeeps
<1>6. CASE UNCHANGED vars
  BY <1>6 DEF vars, FInv, SentTiled, Listening
<1> QED BY <1>1, <1>2, <1>3, <1>4, <1>5, <1>6 DEF Next

(* The invariant of the feed holds in every reachable state. *)
LEMMA FeedInvariance == Spec => []FInv
<1>1. FInv /\ [Next]_vars => FInv'
  BY StepFInv
<1> QED BY <1>1, InitFInv, PTL DEF Spec

----------------------------------------------------------------------------
(* Theorems *)

(***************************************************************************)
(* Whatever the sizes of the messages and however they are batched, the    *)
(* Packetizer's datagrams, the heartbeats and the end of the session tile  *)
(* the message stream, parse, and keep to the MTU.                         *)
(***************************************************************************)
THEOREM PacketsTileThm == Spec => []PacketsTile
<1>1. FInv => PacketsTile
  <2> SUFFICES ASSUME FInv, NEW k \in DOMAIN capture
               PROVE  /\ capture[k].seq = (IF k = 1 THEN 1
                                           ELSE capture[k - 1].seq + Len(capture[k - 1].blocks))
                      /\ Parses(capture[k])
                      /\ Bytes(capture[k]) > Mtu => capture[k].count = 1
    BY DEF PacketsTile
  <2>1. Tiled(capture) /\ k \in 1 .. Len(capture)
    BY DEF FInv, SentTiled, Tiled
  <2>2. Good(capture[k]) /\ capture[k].seq = (IF k = 1 THEN 1 ELSE After(capture[k - 1]))
    BY <2>1 DEF Tiled
  <2>3. Parses(capture[k])
    BY <2>2, GoodNumbers
  <2> QED BY <2>2, <2>3 DEF Good, After
<1> QED BY <1>1, FeedInvariance, PTL

(***************************************************************************)
(* Whatever the network loses, reorders or repeats, a listener whose       *)
(* GapDetector reports no gap has applied a prefix of the stream, and      *)
(* every message of it once and in order unless a datagram was repeated.   *)
(***************************************************************************)
THEOREM PrefixUnlessGapThm == Spec => []PrefixUnlessGap
<1>1. FInv => PrefixUnlessGap
  BY DEF FInv, Listening, PrefixUnlessGap, UpTo
<1> QED BY <1>1, FeedInvariance, PTL

(***************************************************************************)
(* A listener that saw the end of the session and no gap has the whole of  *)
(* the session.                                                            *)
(***************************************************************************)
THEOREM CompleteAtEndThm == Spec => []CompleteAtEnd
<1>1. FInv => CompleteAtEnd
  <2> SUFFICES ASSUME FInv, listener.ended, ~listener.had_gap
               PROVE  Range(listener.applied) = 1 .. packetizer.next_seq - 1
    BY DEF CompleteAtEnd
  <2>1. /\ Range(listener.applied) = 1 .. listener.expected - 1
        /\ listener.expected = NextOf(capture)
    BY DEF FInv, Listening
  <2>2. packetizer.next_seq = NextOf(capture)
    BY DEF FInv, SentTiled
  <2> QED BY <2>1, <2>2
<1> QED BY <1>1, FeedInvariance, PTL

(***************************************************************************)
(* GapDetector::on_packet raises no false alarm: at the step in which it   *)
(* first reports a gap a published message has not been applied.           *)
(***************************************************************************)
THEOREM GapMeansMissingThm == Spec => GapMeansMissing
<1>1. ASSUME FInv, [Next]_vars
      PROVE  [listener'.had_gap /\ ~listener.had_gap =>
                \E i \in 1 .. packetizer.next_seq - 1 : i \notin Range(listener.applied)]_vars
  <2> SUFFICES ASSUME listener'.had_gap, ~listener.had_gap
               PROVE  \E i \in 1 .. packetizer.next_seq - 1 : i \notin Range(listener.applied)
    OBVIOUS
  <2>1. PICK p \in network : listener' = OnMoldPacket(listener, p)
    <3>1. listener' # listener
      OBVIOUS
    <3> QED BY <1>1, <3>1 DEF Next, Publish, SendHeartbeat, SendEndOfSession, Lose, Receive,
                              ReceiveRepeated, vars
  <2>2. PICK k \in 1 .. Len(capture) : p = capture[k]
    BY <1>1 DEF FInv, SentTiled
  <2>3. Good(p) /\ After(p) <= NextOf(capture) /\ NextOf(capture) \in Nat
    BY <1>1, <2>2, NextOfNat DEF FInv, SentTiled, Tiled
  <2>4. /\ p.seq \in Nat /\ Len(p.blocks) \in Nat /\ After(p) = p.seq + Len(p.blocks)
    BY <2>3, GoodNumbers
  <2>5. /\ listener \in Listeners /\ listener.expected \in Nat /\ listener.expected >= 1
        /\ Range(listener.applied) = 1 .. listener.expected - 1
    BY <1>1 DEF FInv, Listening, Listeners
  <2>6. p.seq > listener.expected
    BY <2>1, <2>3, <2>5, Hears
  <2>7. packetizer.next_seq = NextOf(capture)
    BY <1>1 DEF FInv, SentTiled
  <2>8. listener.expected \in 1 .. packetizer.next_seq - 1
    BY <2>3, <2>4, <2>5, <2>6, <2>7
  <2>9. listener.expected \notin Range(listener.applied)
    BY <2>5
  <2> QED BY <2>8, <2>9
<1> QED BY <1>1, FeedInvariance, PTL DEF Spec, GapMeansMissing

----------------------------------------------------------------------------
(* Replays *)

GoodPackets == {p \in Packet : Good(p)}

(* One step of a replay, typed. *)
LEMMA HearTypes ==
  ASSUME NEW a \in Listeners, NEW p \in GoodPackets
  PROVE  OnMoldPacket(a, p) \in Listeners
BY Hears DEF GoodPackets

(* A replay as a fold. *)
LEMMA HearFoldIs ==
  ASSUME NEW a0 \in Listeners, NEW s \in Seq(GoodPackets)
  PROVE  \E F, h : /\ FoldedBy(F, h, Listeners, a0, Len(s))
                   /\ \A a \in Listeners, i \in 1 .. Len(s) : F[<<a, i>>] = OnMoldPacket(a, s[i])
                   /\ InTurn(OnMoldPacket, a0, s) = Whole(h, Len(s))
<1> DEFINE n == Len(s)
           F == [x \in Listeners \X (1 .. n) |-> OnMoldPacket(x[1], s[x[2]])]
           Q(f) == f = [t \in SUBSET DOMAIN s |->
                          IF t = {} THEN a0 ELSE OnMoldPacket(f[t \ {Max(t)}], s[Max(t)])]
<1>1. n \in Nat /\ DOMAIN s = 1 .. n /\ \A i \in 1 .. n : s[i] \in GoodPackets
  OBVIOUS
<1>2. \A a \in Listeners, i \in 1 .. n : F[<<a, i>>] = OnMoldPacket(a, s[i])
  OBVIOUS
<1> HIDE DEF n, F
<1>3. StepOn(F, Listeners, n)
  <2>1. \A a \in Listeners, p \in GoodPackets : OnMoldPacket(a, p) \in Listeners
    BY HearTypes
  <2> QED BY <1>1, <1>2, <2>1, Zenon DEF StepOn
<1>4. \E f : Q(f)
  <2>1. PICK f : FoldsIn(f, F, Listeners, a0, n)
    BY <1>1, <1>3, FoldExists
  <2>2. Q(f)
    BY <1>1, <1>2, <2>1, Zenon DEF FoldsIn
  <2> QED BY <2>2, Zenon
<1>5. PICK h : Q(h) /\ InTurn(OnMoldPacket, a0, s) = Whole(h, n)
  <2> DEFINE c == CHOOSE f : Q(f)
  <2>1. Q(c)
    BY <1>4, Zenon
  <2>2. InTurn(OnMoldPacket, a0, s) = c[1 .. n]
    BY <1>1 DEF InTurn, MapThenFoldSet
  <2> HIDE DEF c
  <2> QED BY <2>1, <2>2, Zenon DEF Whole
<1>6. Folds(h, F, Listeners, a0, n)
  BY <1>1, <1>2, <1>5, Zenon DEF Folds
<1>7. FoldedBy(F, h, Listeners, a0, n)
  BY <1>3, <1>6 DEF FoldedBy
<1> QED BY <1>2, <1>5, <1>7, Zenon DEF n

(* The two equations of the fold, and its type. *)
LEMMA HearFold ==
  ASSUME NEW a0 \in Listeners
  PROVE  /\ InTurn(OnMoldPacket, a0, << >>) = a0
         /\ \A s \in Seq(GoodPackets) : InTurn(OnMoldPacket, a0, s) \in Listeners
         /\ \A s \in Seq(GoodPackets), p \in GoodPackets :
              InTurn(OnMoldPacket, a0, Append(s, p)) = OnMoldPacket(InTurn(OnMoldPacket, a0, s), p)
<1>1. ASSUME NEW s \in Seq(GoodPackets)
      PROVE  InTurn(OnMoldPacket, a0, s) \in Listeners /\ (s = << >> => InTurn(OnMoldPacket, a0, s) = a0)
  <2>1. PICK F, h : FoldedBy(F, h, Listeners, a0, Len(s)) /\ InTurn(OnMoldPacket, a0, s) = Whole(h, Len(s))
    BY HearFoldIs, Zenon
  <2>2. /\ Whole(h, 0) = a0
        /\ \A i \in 0 .. Len(s) : Whole(h, i) \in Listeners
    BY <2>1, FoldStep DEF FoldedBy
  <2> QED BY <2>1, <2>2
<1>2. ASSUME NEW s \in Seq(GoodPackets), NEW p \in GoodPackets
      PROVE  InTurn(OnMoldPacket, a0, Append(s, p)) = OnMoldPacket(InTurn(OnMoldPacket, a0, s), p)
  <2> DEFINE n == Len(s)
             r == Append(s, p)
  <2>1. /\ n \in Nat /\ r \in Seq(GoodPackets) /\ Len(r) = n + 1 /\ r[n + 1] = p
        /\ \A i \in 1 .. n : r[i] = s[i]
    OBVIOUS
  <2>2. PICK F, f : /\ FoldedBy(F, f, Listeners, a0, n)
                    /\ \A a \in Listeners, i \in 1 .. n : F[<<a, i>>] = OnMoldPacket(a, s[i])
                    /\ InTurn(OnMoldPacket, a0, s) = Whole(f, n)
    BY HearFoldIs, Zenon
  <2> HIDE DEF n, r
  <2>3. PICK G, g : /\ FoldedBy(G, g, Listeners, a0, Len(r))
                    /\ \A a \in Listeners, i \in 1 .. Len(r) : G[<<a, i>>] = OnMoldPacket(a, r[i])
                    /\ InTurn(OnMoldPacket, a0, r) = Whole(g, Len(r))
    BY <2>1, HearFoldIs, Zenon
  <2>4. Agree(F, G, Listeners, n) /\ \A a \in Listeners : G[<<a, n + 1>>] = OnMoldPacket(a, p)
    BY <2>1, <2>2, <2>3 DEF Agree
  <2>5. FoldedBy(G, g, Listeners, a0, n + 1) /\ InTurn(OnMoldPacket, a0, r) = Whole(g, n + 1)
    BY <2>1, <2>3
  <2>6. Whole(f, n) \in Listeners /\ Whole(g, n + 1) = G[<<Whole(f, n), n + 1>>]
    BY <2>1, <2>2, <2>4, <2>5, FoldAppend
  <2> QED BY <2>2, <2>4, <2>5, <2>6 DEF r
<1>3. << >> \in Seq(GoodPackets)
  BY EmptySeq
<1> QED BY <1>1, <1>2, <1>3, Zenon

(* A listener that has heard the packets q and nothing else. *)
Heard(l, q) ==
  /\ l \in Listeners /\ ~l.had_gap
  /\ l.expected = NextOf(q) /\ l.applied = UpTo(NextOf(q) - 1)
  /\ l.ended <=> q # << >> /\ q[Len(q)].count = EosCount

(* A replay of packets that tile the stream hears all of it, without a gap. *)
LEMMA ReplayHears ==
  ASSUME NEW q, Tiled(q)
  PROVE  Heard(InTurn(OnMoldPacket, NewListener, q), q)
<1> DEFINE L(s) == InTurn(OnMoldPacket, NewListener, s)
           T == {s \in Seq(GoodPackets) : Tiled(s) => Heard(L(s), s)}
<1>1. NewListener \in Listeners
  BY EmptySeq DEF NewListener, Listeners
<1>2. /\ L(<< >>) = NewListener
      /\ \A s \in Seq(GoodPackets) : L(s) \in Listeners
      /\ \A s \in Seq(GoodPackets), p \in GoodPackets : L(Append(s, p)) = OnMoldPacket(L(s), p)
  BY <1>1, HearFold, Zenon
<1> HIDE DEF L
<1>3. << >> \in T
  <2>1. Heard(NewListener, << >>)
    <3>1. NewListener.applied = << >> /\ NewListener.expected = 1 /\ ~NewListener.ended
          /\ ~NewListener.had_gap
      BY DEF NewListener
    <3>2. << >> = UpTo(1 - 1)
      BY DEF UpTo
    <3> QED BY <1>1, <3>1, <3>2, TiledEmpty DEF Heard
  <2>2. << >> \in Seq(GoodPackets)
    BY EmptySeq
  <2> QED BY <1>2, <2>1, <2>2
<1>4. ASSUME NEW s \in Seq(GoodPackets), NEW p \in GoodPackets, s \in T
      PROVE  Append(s, p) \in T
  <2>1. Append(s, p) \in Seq(GoodPackets) /\ Append(s, p) # << >>
        /\ Append(s, p)[Len(Append(s, p))] = p
    OBVIOUS
  <2> SUFFICES ASSUME Tiled(Append(s, p)) PROVE Heard(L(Append(s, p)), Append(s, p))
    BY <2>1
  <2>2. s \in Seq(Packet) /\ p \in Packet
    <3>1. GoodPackets \subseteq Packet
      BY DEF GoodPackets
    <3> QED BY <3>1
  <2>3. Tiled(s) /\ Good(p) /\ p.seq = NextOf(s)
    BY <2>2, TiledButLast
  <2>4. Heard(L(s), s)
    BY <1>4, <2>3
  <2>5. NextOf(Append(s, p)) = After(p)
    BY <2>3, TiledAppend
  <2> DEFINE l == L(s)
             r == OnMoldPacket(l, p)
  <2>6. L(Append(s, p)) = r
    BY <1>2
  <2>7. /\ l \in Listeners /\ ~l.had_gap /\ l.expected = p.seq /\ l.applied = UpTo(p.seq - 1)
    BY <2>3, <2>4 DEF Heard
  <2> HIDE DEF l
  <2>8. /\ r \in Listeners
        /\ r.expected = IF After(p) > l.expected THEN After(p) ELSE l.expected
        /\ r.had_gap <=> l.had_gap \/ p.seq > l.expected
        /\ r.applied = l.applied \o Msgs(p)
        /\ r.ended <=> p.count = EosCount
    BY <2>3, <2>7, Hears, Zenon
  <2>9. p.seq \in Nat /\ Len(p.blocks) \in Nat /\ After(p) = p.seq + Len(p.blocks)
    BY <2>3, GoodNumbers
  <2> HIDE DEF r
  <2>10. r.expected = After(p)
    BY <2>7, <2>8, <2>9
  <2>11. r.applied = UpTo(After(p) - 1)
    BY <2>3, <2>7, <2>8, UpToMore, Zenon
  <2>12. ~r.had_gap
    BY <2>7, <2>8, <2>9
  <2> QED BY <2>1, <2>5, <2>6, <2>8, <2>10, <2>11, <2>12 DEF Heard
<1> HIDE DEF T
<1>5. Seq(GoodPackets) \subseteq T
  BY <1>3, <1>4, SeqInduct
<1>6. q \in Seq(GoodPackets)
  <2>1. q \in Seq(Packet) /\ \A k \in 1 .. Len(q) : q[k] \in GoodPackets
    BY DEF Tiled, Good, GoodPackets
  <2> QED BY <2>1
<1> QED BY <1>5, <1>6 DEF T, L

(***************************************************************************)
(* itchreplay gives every prefix of the capture file to a listener without *)
(* a gap and in order, and the capture of a closed session to its end,     *)
(* whatever the network did to the live listener.                          *)
(***************************************************************************)
THEOREM CaptureReplaysThm == Spec => []CaptureReplays
<1>1. FInv => CaptureReplays
  <2> SUFFICES ASSUME FInv, NEW k \in 0 .. Len(capture)
               PROVE  /\ ~Replayed(k).had_gap
                      /\ Replayed(k).applied = [i \in 1 .. Replayed(k).expected - 1 |-> i]
                      /\ k = Len(capture) /\ ~publishing =>
                           Replayed(k).ended /\ Replayed(k).expected = packetizer.next_seq
    BY DEF CaptureReplays
  <2> DEFINE q == SubSeq(capture, 1, k)
             l == Replayed(k)
  <2>1. Tiled(capture) /\ capture \in Seq(Packet)
    BY DEF FInv, SentTiled, Tiled
  <2>2. Tiled(q)
    BY <2>1, TiledPrefix
  <2>3. l = InTurn(OnMoldPacket, NewListener, q)
    BY DEF Replayed
  <2>4. k = Len(capture) => q = capture
    BY <2>1
  <2> HIDE DEF q, l
  <2>5. Heard(l, q)
    BY <2>2, <2>3, ReplayHears
  <2>6. ~l.had_gap /\ l.applied = [i \in 1 .. l.expected - 1 |-> i]
    BY <2>5 DEF Heard, UpTo
  <2>7. ASSUME k = Len(capture), ~publishing
        PROVE  l.ended /\ l.expected = packetizer.next_seq
    <3>1. /\ capture # << >> /\ capture[Len(capture)].count = EosCount
          /\ packetizer.next_seq = NextOf(capture)
      BY <2>7 DEF FInv, SentTiled
    <3> QED BY <2>4, <2>5, <2>7, <3>1 DEF Heard
  <2> QED BY <2>6, <2>7 DEF l
<1> QED BY <1>1, FeedInvariance, PTL

=============================================================================
