--------------------------- MODULE GatewayProofs ---------------------------
(***************************************************************************)
(* Proofs about Gateway for any number of peers, packets, descriptors and  *)
(* heartbeats.                                                             *)
(*                                                                         *)
(* The handlers are functions on the record State, so the invariant is     *)
(* split: Good(s, n) says that a state s of the connections is well formed *)
(* when n peers have been accepted, Flagged(s, x) that the write filters   *)
(* are right except on the connection x a handler is working on.  The      *)
(* argument rests on next_client_id counting the accepts: the n-th         *)
(* connection has the id n and belongs to the n-th peer for ever, while    *)
(* its descriptor may be used again.                                       *)
(***************************************************************************)
EXTENDS Gateway, FoldLemmas

Numbers == Nat

(* A packet for the peer p, the connection with the id id, an order read   *)
(* from a socket, a socket, and an order or a response of the engine for   *)
(* one of the first n clients.                                             *)
Msg(p) == [kind : {"login", "risk", "heartbeat", "engine"}, peer : {p}, nr : Numbers]
Conn(id) ==
  [fd : Fd, state : {"AwaitingLogin", "LoggedIn", "Closed"},
   outbuf : Seq(Msg(id)), write_enabled : BOOLEAN]
Pkt == [type : Packets, nr : Numbers]
Sock == [peer : Peer, here : BOOLEAN, unread : Seq(Pkt)]
Cmd(n) == {c \in [client : 1 .. n, peer : 1 .. n, nr : Numbers] : c.client = c.peer}

IsFn(f) == f = [x \in DOMAIN f |-> f[x]]

Shape(s) ==
  s = [conns |-> s.conns, by_fd |-> s.by_fd, sock |-> s.sock, cmds |-> s.cmds,
       received |-> s.received, touched |-> s.touched]

Connections(s, n) ==
  /\ IsFn(s.conns) /\ DOMAIN s.conns \subseteq 1 .. n
  /\ \A j \in DOMAIN s.conns : s.conns[j] \in Conn(j)

Descriptors(s) ==
  /\ IsFn(s.by_fd) /\ IsFn(s.sock)
  /\ DOMAIN s.by_fd \subseteq Fd /\ DOMAIN s.sock = DOMAIN s.by_fd
  /\ \A fd \in DOMAIN s.sock : s.sock[fd] \in Sock

Linked(s) ==
  /\ \A j \in DOMAIN s.conns :
       /\ s.conns[j].fd \in DOMAIN s.by_fd
       /\ s.by_fd[s.conns[j].fd] = j
       /\ s.sock[s.conns[j].fd].peer = j
  /\ \A fd \in DOMAIN s.by_fd :
       /\ s.by_fd[fd] \in DOMAIN s.conns
       /\ s.conns[s.by_fd[fd]].fd = fd

Delivered(s, n) ==
  /\ IsFn(s.received) /\ DOMAIN s.received = Peer
  /\ \A p \in Peer : s.received[p] \in Seq(Msg(p))
  /\ \A p \in Peer : p > n => s.received[p] = << >>

Good(s, n) ==
  /\ Shape(s) /\ Connections(s, n) /\ Descriptors(s) /\ Linked(s)
  /\ s.cmds \in Seq(Cmd(n)) /\ Delivered(s, n)

Flagged(s, x) ==
  \A j \in DOMAIN s.conns :
    /\ s.conns[j].write_enabled => s.conns[j].outbuf # << >>
    /\ j # x /\ s.conns[j].outbuf # << >> => s.conns[j].write_enabled

(* All that was ever queued for a connection, and the engine's part of it. *)
Out(s, j) == s.received[j] \o s.conns[j].outbuf
Told(s, j) == EngineNrs(Out(s, j))

Counted ==
  /\ backlog \in Nat /\ accepted \in Nat /\ backlog + accepted <= MaxPeers
  /\ next_client_id = accepted + 1
  /\ IsFn(sent) /\ DOMAIN sent = Peer /\ \A p \in Peer : sent[p] \in Numbers

Answering ==
  /\ resps \in Seq(Cmd(accepted)) /\ pumping \in Seq(Cmd(accepted))
  /\ pc # "pump" => pumping = << >>
  /\ IsFn(answered) /\ DOMAIN answered = Peer
  /\ \A p \in Peer : answered[p] \in Seq(Numbers)
  /\ \A p \in Peer : p > accepted => answered[p] = << >>

Ticking == unticked \subseteq DOMAIN conns /\ (pc # "tick" => unticked = {})

Complete ==
  \A j \in DOMAIN conns :
    (Told(State, j) \o Due(pumping, j)) \o Due(resps, j) = answered[j]

GInv ==
  /\ Good(State, accepted) /\ Flagged(State, 0)
  /\ Counted /\ Answering /\ Ticking /\ Complete

----------------------------------------------------------------------------
(* What EngineNrs and Due return. *)

Nrs == Seq(Numbers)
Noted == [kind : {"login", "risk", "heartbeat", "engine"}, peer : Nat, nr : Numbers]
Asked == [client : Nat, peer : Nat, nr : Numbers]

Note(nrs, m) == IF m.kind = "engine" THEN Append(nrs, m.nr) ELSE nrs
NoteFor(nrs, id, m) == IF m.client = id THEN Append(nrs, m.nr) ELSE nrs

EngineFrom(a, q) ==
  InTurn(LAMBDA nrs, m : IF m.kind = "engine" THEN Append(nrs, m.nr) ELSE nrs, a, q)
DueFrom(id, a, q) ==
  InTurn(LAMBDA nrs, m : IF m.client = id THEN Append(nrs, m.nr) ELSE nrs, a, q)

(* One step of EngineNrs, typed. *)
LEMMA NoteTyped == \A a \in Nrs, m \in Noted : Note(a, m) \in Nrs
<1> SUFFICES ASSUME NEW a \in Nrs, NEW m \in Noted PROVE Note(a, m) \in Nrs
  OBVIOUS
<1>1. a \in Seq(Numbers) /\ m.nr \in Numbers
  BY DEF Nrs, Noted
<1>2. Append(a, m.nr) \in Seq(Numbers)
  BY <1>1
<1> QED BY <1>1, <1>2 DEF Nrs, Note

(* One step of Due, typed. *)
LEMMA NoteForTyped ==
  ASSUME NEW id
  PROVE  \A a \in Nrs, m \in Asked : NoteFor(a, id, m) \in Nrs
<1> SUFFICES ASSUME NEW a \in Nrs, NEW m \in Asked PROVE NoteFor(a, id, m) \in Nrs
  OBVIOUS
<1>1. a \in Seq(Numbers) /\ m.nr \in Numbers
  BY DEF Nrs, Asked
<1>2. Append(a, m.nr) \in Seq(Numbers)
  BY <1>1
<1> QED BY <1>1, <1>2 DEF Nrs, NoteFor

(* EngineNrs as a fold with the steps of Note. *)
LEMMA EngineFoldIs ==
  ASSUME NEW a0 \in Nrs, NEW s \in Seq(Noted)
  PROVE  \E F, h : /\ FoldedBy(F, h, Nrs, a0, Len(s))
                   /\ \A a \in Nrs, i \in 1 .. Len(s) : F[<<a, i>>] = Note(a, s[i])
                   /\ EngineFrom(a0, s) = Whole(h, Len(s))
<1> DEFINE n == Len(s)
           F == [x \in Nrs \X (1 .. n) |-> Note(x[1], s[x[2]])]
           Q(f) == f = [t \in SUBSET DOMAIN s |->
                          IF t = {} THEN a0 ELSE Note(f[t \ {Max(t)}], s[Max(t)])]
<1>1. n \in Nat /\ DOMAIN s = 1 .. n /\ \A i \in 1 .. n : s[i] \in Noted
  OBVIOUS
<1>2. \A a \in Nrs, i \in 1 .. n : F[<<a, i>>] = Note(a, s[i])
  OBVIOUS
<1> HIDE DEF n, F
<1>3. StepOn(F, Nrs, n)
  <2>1. \A a \in Nrs, p \in Noted : Note(a, p) \in Nrs
    BY NoteTyped
  <2> QED BY <1>1, <1>2, <2>1, Zenon DEF StepOn
<1>4. \E f : Q(f)
  <2>1. PICK f : FoldsIn(f, F, Nrs, a0, n)
    BY <1>1, <1>3, FoldExists
  <2>2. Q(f)
    BY <1>1, <1>2, <2>1, Zenon DEF FoldsIn
  <2> QED BY <2>2, Zenon
<1>5. PICK h : Q(h) /\ EngineFrom(a0, s) = Whole(h, n)
  <2> DEFINE c == CHOOSE f : Q(f)
  <2>1. Q(c)
    BY <1>4, Zenon
  <2>2. EngineFrom(a0, s) = c[1 .. n]
    BY <1>1 DEF EngineFrom, Note, InTurn, MapThenFoldSet
  <2> HIDE DEF c
  <2> QED BY <2>1, <2>2, Zenon DEF Whole
<1>6. Folds(h, F, Nrs, a0, n)
  BY <1>1, <1>2, <1>5, Zenon DEF Folds
<1>7. FoldedBy(F, h, Nrs, a0, n)
  BY <1>3, <1>6 DEF FoldedBy
<1>8. /\ FoldedBy(F, h, Nrs, a0, Len(s))
      /\ \A a \in Nrs, i \in 1 .. Len(s) : F[<<a, i>>] = Note(a, s[i])
      /\ EngineFrom(a0, s) = Whole(h, Len(s))
  BY <1>2, <1>5, <1>7 DEF n
<1> QED BY <1>8, Zenon

(* The two equations of the fold, and its type. *)
LEMMA EngineFold ==
  ASSUME NEW a0 \in Nrs
  PROVE  /\ EngineFrom(a0, << >>) = a0
         /\ \A s \in Seq(Noted) : EngineFrom(a0, s) \in Nrs
         /\ \A s \in Seq(Noted), p \in Noted :
              EngineFrom(a0, Append(s, p)) = Note(EngineFrom(a0, s), p)
<1>1. ASSUME NEW s \in Seq(Noted)
      PROVE  EngineFrom(a0, s) \in Nrs /\ (s = << >> => EngineFrom(a0, s) = a0)
  <2>1. PICK F, h : FoldedBy(F, h, Nrs, a0, Len(s)) /\ EngineFrom(a0, s) = Whole(h, Len(s))
    BY EngineFoldIs
  <2>2. /\ Whole(h, 0) = a0
        /\ \A i \in 0 .. Len(s) : Whole(h, i) \in Nrs
    <3>1. Len(s) \in Nat
      OBVIOUS
    <3> QED BY <2>1, <3>1, FoldStep DEF FoldedBy
  <2> QED BY <2>1, <2>2
<1>2. ASSUME NEW s \in Seq(Noted), NEW p \in Noted
      PROVE  EngineFrom(a0, Append(s, p)) = Note(EngineFrom(a0, s), p)
  <2> DEFINE n == Len(s)
             r == Append(s, p)
  <2>1. /\ n \in Nat /\ r \in Seq(Noted) /\ Len(r) = n + 1 /\ r[n + 1] = p
        /\ \A i \in 1 .. n : r[i] = s[i]
    OBVIOUS
  <2>2. PICK F, f : /\ FoldedBy(F, f, Nrs, a0, n)
                    /\ \A a \in Nrs, i \in 1 .. n : F[<<a, i>>] = Note(a, s[i])
                    /\ EngineFrom(a0, s) = Whole(f, n)
    BY EngineFoldIs
  <2> HIDE DEF n, r
  <2>3. PICK G, g : /\ FoldedBy(G, g, Nrs, a0, Len(r))
                    /\ \A a \in Nrs, i \in 1 .. Len(r) : G[<<a, i>>] = Note(a, r[i])
                    /\ EngineFrom(a0, r) = Whole(g, Len(r))
    BY <2>1, EngineFoldIs
  <2>4. Agree(F, G, Nrs, n) /\ \A a \in Nrs : G[<<a, n + 1>>] = Note(a, p)
    BY <2>1, <2>2, <2>3 DEF Agree
  <2>5. FoldedBy(G, g, Nrs, a0, n + 1) /\ EngineFrom(a0, r) = Whole(g, n + 1)
    BY <2>1, <2>3
  <2>6. Whole(f, n) \in Nrs /\ Whole(g, n + 1) = G[<<Whole(f, n), n + 1>>]
    BY <2>1, <2>2, <2>4, <2>5, FoldAppend
  <2> QED BY <2>2, <2>4, <2>5, <2>6 DEF r
<1>3. << >> \in Seq(Noted)
  BY EmptySeq
<1> QED BY <1>1, <1>2, <1>3, Zenon
(* Due as a fold with the steps of NoteFor. *)
LEMMA DueFoldIs ==
  ASSUME NEW id, NEW a0 \in Nrs, NEW s \in Seq(Asked)
  PROVE  \E F, h : /\ FoldedBy(F, h, Nrs, a0, Len(s))
                   /\ \A a \in Nrs, i \in 1 .. Len(s) : F[<<a, i>>] = NoteFor(a, id, s[i])
                   /\ DueFrom(id, a0, s) = Whole(h, Len(s))
<1> DEFINE n == Len(s)
           F == [x \in Nrs \X (1 .. n) |-> NoteFor(x[1], id, s[x[2]])]
           Q(f) == f = [t \in SUBSET DOMAIN s |->
                          IF t = {} THEN a0 ELSE NoteFor(f[t \ {Max(t)}], id, s[Max(t)])]
<1>1. n \in Nat /\ DOMAIN s = 1 .. n /\ \A i \in 1 .. n : s[i] \in Asked
  OBVIOUS
<1>2. \A a \in Nrs, i \in 1 .. n : F[<<a, i>>] = NoteFor(a, id, s[i])
  OBVIOUS
<1> HIDE DEF n, F
<1>3. StepOn(F, Nrs, n)
  <2>1. \A a \in Nrs, p \in Asked : NoteFor(a, id, p) \in Nrs
    BY NoteForTyped
  <2> QED BY <1>1, <1>2, <2>1, Zenon DEF StepOn
<1>4. \E f : Q(f)
  <2>1. PICK f : FoldsIn(f, F, Nrs, a0, n)
    BY <1>1, <1>3, FoldExists
  <2>2. Q(f)
    BY <1>1, <1>2, <2>1, Zenon DEF FoldsIn
  <2> QED BY <2>2, Zenon
<1>5. PICK h : Q(h) /\ DueFrom(id, a0, s) = Whole(h, n)
  <2> DEFINE c == CHOOSE f : Q(f)
  <2>1. Q(c)
    BY <1>4, Zenon
  <2>2. DueFrom(id, a0, s) = c[1 .. n]
    BY <1>1 DEF DueFrom, NoteFor, InTurn, MapThenFoldSet
  <2> HIDE DEF c
  <2> QED BY <2>1, <2>2, Zenon DEF Whole
<1>6. Folds(h, F, Nrs, a0, n)
  BY <1>1, <1>2, <1>5, Zenon DEF Folds
<1>7. FoldedBy(F, h, Nrs, a0, n)
  BY <1>3, <1>6 DEF FoldedBy
<1>8. /\ FoldedBy(F, h, Nrs, a0, Len(s))
      /\ \A a \in Nrs, i \in 1 .. Len(s) : F[<<a, i>>] = NoteFor(a, id, s[i])
      /\ DueFrom(id, a0, s) = Whole(h, Len(s))
  BY <1>2, <1>5, <1>7 DEF n
<1> QED BY <1>8, Zenon

(* The two equations of the fold, and its type. *)
LEMMA DueFold ==
  ASSUME NEW id, NEW a0 \in Nrs
  PROVE  /\ DueFrom(id, a0, << >>) = a0
         /\ \A s \in Seq(Asked) : DueFrom(id, a0, s) \in Nrs
         /\ \A s \in Seq(Asked), p \in Asked :
              DueFrom(id, a0, Append(s, p)) = NoteFor(DueFrom(id, a0, s), id, p)
<1>1. ASSUME NEW s \in Seq(Asked)
      PROVE  DueFrom(id, a0, s) \in Nrs /\ (s = << >> => DueFrom(id, a0, s) = a0)
  <2>1. PICK F, h : FoldedBy(F, h, Nrs, a0, Len(s)) /\ DueFrom(id, a0, s) = Whole(h, Len(s))
    BY DueFoldIs, Zenon
  <2>2. /\ Whole(h, 0) = a0
        /\ \A i \in 0 .. Len(s) : Whole(h, i) \in Nrs
    <3>1. Len(s) \in Nat
      OBVIOUS
    <3> QED BY <2>1, <3>1, FoldStep DEF FoldedBy
  <2> QED BY <2>1, <2>2
<1>2. ASSUME NEW s \in Seq(Asked), NEW p \in Asked
      PROVE  DueFrom(id, a0, Append(s, p)) = NoteFor(DueFrom(id, a0, s), id, p)
  <2> DEFINE n == Len(s)
             r == Append(s, p)
  <2>1. /\ n \in Nat /\ r \in Seq(Asked) /\ Len(r) = n + 1 /\ r[n + 1] = p
        /\ \A i \in 1 .. n : r[i] = s[i]
    OBVIOUS
  <2>2. PICK F, f : /\ FoldedBy(F, f, Nrs, a0, n)
                    /\ \A a \in Nrs, i \in 1 .. n : F[<<a, i>>] = NoteFor(a, id, s[i])
                    /\ DueFrom(id, a0, s) = Whole(f, n)
    BY DueFoldIs
  <2> HIDE DEF n, r
  <2>3. PICK G, g : /\ FoldedBy(G, g, Nrs, a0, Len(r))
                    /\ \A a \in Nrs, i \in 1 .. Len(r) : G[<<a, i>>] = NoteFor(a, id, r[i])
                    /\ DueFrom(id, a0, r) = Whole(g, Len(r))
    BY <2>1, DueFoldIs, Zenon
  <2>4. Agree(F, G, Nrs, n) /\ \A a \in Nrs : G[<<a, n + 1>>] = NoteFor(a, id, p)
    BY <2>1, <2>2, <2>3 DEF Agree
  <2>5. FoldedBy(G, g, Nrs, a0, n + 1) /\ DueFrom(id, a0, r) = Whole(g, n + 1)
    BY <2>1, <2>3
  <2>6. Whole(f, n) \in Nrs /\ Whole(g, n + 1) = G[<<Whole(f, n), n + 1>>]
    BY <2>1, <2>2, <2>4, <2>5, FoldAppend
  <2> QED BY <2>2, <2>4, <2>5, <2>6 DEF r
<1>3. << >> \in Seq(Asked)
  BY EmptySeq
<1> QED BY <1>1, <1>2, <1>3, Zenon

(* EngineNrs grows by the number of an engine's answer, by nothing else. *)
LEMMA EngineNrsIs ==
  /\ EngineNrs(<< >>) = << >>
  /\ \A q \in Seq(Noted) : EngineNrs(q) \in Seq(Numbers)
  /\ \A q \in Seq(Noted), m \in Noted :
       EngineNrs(Append(q, m)) = IF m.kind = "engine" THEN Append(EngineNrs(q), m.nr)
                                                      ELSE EngineNrs(q)
<1>1. << >> \in Nrs
  BY EmptySeq DEF Nrs
<1>2. \A q : EngineNrs(q) = EngineFrom(<< >>, q)
  BY Zenon DEF EngineNrs, EngineFrom
<1> QED BY <1>1, <1>2, EngineFold, Zenon DEF Nrs, Note

(* What is due to a client grows by its own commands only. *)
LEMMA DueIs ==
  ASSUME NEW id
  PROVE  /\ Due(<< >>, id) = << >>
         /\ \A q \in Seq(Asked) : Due(q, id) \in Seq(Numbers)
         /\ \A q \in Seq(Asked), m \in Asked :
              Due(Append(q, m), id) = IF m.client = id THEN Append(Due(q, id), m.nr)
                                                       ELSE Due(q, id)
<1>1. << >> \in Nrs
  BY EmptySeq DEF Nrs
<1>2. \A q : Due(q, id) = DueFrom(id, << >>, q)
  BY Zenon DEF Due, DueFrom
<1>3. /\ DueFrom(id, << >>, << >>) = << >>
      /\ \A s \in Seq(Asked) : DueFrom(id, << >>, s) \in Nrs
      /\ \A s \in Seq(Asked), p \in Asked :
           DueFrom(id, << >>, Append(s, p)) = NoteFor(DueFrom(id, << >>, s), id, p)
  BY <1>1, DueFold, Zenon
<1> QED BY <1>2, <1>3, Zenon DEF Nrs, NoteFor

(* Nothing is due to a client that no response names. *)
LEMMA DueNone ==
  ASSUME NEW id, NEW q \in Seq({m \in Asked : m.client # id})
  PROVE  Due(q, id) = << >>
<1> DEFINE P == {m \in Asked : m.client # id}
           T == {s \in Seq(P) : Due(s, id) = << >>}
<1>1. << >> \in T
  BY DueIs, EmptySeq
<1>2. ASSUME NEW s \in Seq(P), NEW m \in P, s \in T
      PROVE  Append(s, m) \in T
  <2>1. s \in Seq(Asked) /\ m \in Asked /\ m.client # id /\ Append(s, m) \in Seq(P)
    OBVIOUS
  <2>2. Due(Append(s, m), id) = Due(s, id)
    BY <2>1, DueIs, Zenon
  <2> QED BY <1>2, <2>1, <2>2
<1> HIDE DEF T
<1>3. Seq(P) \subseteq T
  <2> HIDE DEF P
  <2> QED BY <1>1, <1>2, SeqInduct
<1> QED BY <1>3 DEF T

(* Appending to the second of two sequences appends to both. *)
Joined(a, b, e) == Append(a \o b, e) = a \o Append(b, e)

(* Appending to a concatenation appends to its second part. *)
LEMMA AppendLast ==
  ASSUME NEW S
  PROVE  \A a, b \in Seq(S), e \in S : Joined(a, b, e)
<1> SUFFICES ASSUME NEW a \in Seq(S), NEW b \in Seq(S), NEW e \in S
             PROVE  Append(a \o b, e) = a \o Append(b, e)
  BY Zenon DEF Joined
<1> DEFINE x == Append(a \o b, e)
           y == a \o Append(b, e)
<1>1. a \o b \in Seq(S) /\ Len(a \o b) = Len(a) + Len(b) /\ Append(b, e) \in Seq(S)
      /\ Len(Append(b, e)) = Len(b) + 1 /\ Len(a) \in Nat /\ Len(b) \in Nat
  BY ConcatProperties
<1>2. x \in Seq(S) /\ Len(x) = Len(a) + Len(b) + 1
  BY <1>1
<1>3. y \in Seq(S) /\ Len(y) = Len(a) + Len(b) + 1
  BY <1>1, ConcatProperties
<1>4. ASSUME NEW i \in 1 .. Len(x) PROVE x[i] = y[i]
  <2>1. i \in 1 .. Len(a) + Len(b) + 1
    BY <1>2
  <2> HIDE DEF x, y
  <2>2. CASE i \in 1 .. Len(a)
    BY <1>1, <2>2 DEF x, y
  <2>3. CASE i \in Len(a) + 1 .. Len(a) + Len(b)
    BY <1>1, <2>3 DEF x, y
  <2>4. CASE i = Len(a) + Len(b) + 1
    BY <1>1, <2>4 DEF x, y
  <2> QED BY <1>1, <2>1, <2>2, <2>3, <2>4
<1> HIDE DEF x, y
<1>5. x = y
  BY <1>2, <1>3, <1>4, SeqEqual
<1> QED BY <1>5 DEF x, y

(* Likewise the element between two sequences may go to either. *)
Bridged(a, e, b) == a \o (<<e>> \o b) = Append(a, e) \o b

(* A first element moves over to the sequence before it. *)
LEMMA AppendFirst ==
  ASSUME NEW S
  PROVE  \A a, b \in Seq(S), e \in S : Bridged(a, e, b)
<1> SUFFICES ASSUME NEW a \in Seq(S), NEW b \in Seq(S), NEW e \in S
             PROVE  a \o (<<e>> \o b) = Append(a, e) \o b
  BY DEF Bridged
<1> DEFINE c == <<e>> \o b
           d == Append(a, e)
           x == a \o c
           y == d \o b
<1>1. c \in Seq(S) /\ Len(c) = Len(b) + 1 /\ Len(a) \in Nat /\ Len(b) \in Nat
  OBVIOUS
<1>2. d \in Seq(S) /\ Len(d) = Len(a) + 1
  OBVIOUS
<1>3. c[1] = e /\ \A i \in 1 .. Len(b) : c[i + 1] = b[i]
  OBVIOUS
<1>4. d[Len(a) + 1] = e /\ \A i \in 1 .. Len(a) : d[i] = a[i]
  OBVIOUS
<1> HIDE DEF c, d
<1>5. x \in Seq(S) /\ Len(x) = Len(a) + Len(b) + 1
  BY <1>1
<1>6. y \in Seq(S) /\ Len(y) = Len(a) + Len(b) + 1
  <2>1. y \in Seq(S) /\ Len(y) = Len(d) + Len(b)
    BY <1>2
  <2> HIDE DEF y
  <2> QED BY <1>1, <1>2, <2>1
<1>7. ASSUME NEW i \in 1 .. Len(x) PROVE x[i] = y[i]
  <2>1. i \in 1 .. Len(a) + Len(b) + 1
    BY <1>5
  <2> HIDE DEF x, y
  <2>2. CASE i \in 1 .. Len(a)
    BY <1>1, <1>2, <1>4, <2>2 DEF x, y
  <2>3. CASE i = Len(a) + 1
    BY <1>1, <1>2, <1>3, <1>4, <2>3 DEF x, y
  <2>4. CASE i \in Len(a) + 2 .. Len(a) + Len(b) + 1
    <3> DEFINE j == i - (Len(a) + 1)
    <3>1. j \in 1 .. Len(b) /\ i = Len(a) + (j + 1) /\ i = Len(d) + j
      BY <1>1, <1>2, <2>4
    <3> HIDE DEF j
    <3>2. x[i] = c[j + 1] /\ y[i] = b[j]
      BY <1>1, <1>2, <3>1 DEF x, y
    <3> QED BY <1>3, <3>1, <3>2
  <2> QED BY <1>1, <2>1, <2>2, <2>3, <2>4
<1> HIDE DEF x, y
<1>8. x = y
  BY <1>5, <1>6, <1>7, SeqEqual
<1> QED BY <1>8 DEF x, y, c, d

(* What is due is due in the order of the responses: the first comes first. *)
LEMMA DueHead ==
  ASSUME NEW id, NEW q \in Seq(Asked), q # << >>
  PROVE  Due(q, id) = (IF Head(q).client = id THEN <<Head(q).nr>> ELSE << >>)
                        \o Due(Tail(q), id)
<1> DEFINE h == Head(q)
           first == IF h.client = id THEN <<h.nr>> ELSE << >>
           T == {s \in Seq(Asked) : Due(<<h>> \o s, id) = first \o Due(s, id)}
<1>1. h \in Asked /\ h.nr \in Numbers
  <2>1. h \in Asked
    OBVIOUS
  <2> QED BY <2>1 DEF Asked
<1>2. first \in Seq(Numbers)
  BY <1>1
<1>3. << >> \in T
  <2>1. Due(<< >>, id) = << >> /\ << >> \in Seq(Asked)
    BY DueIs, EmptySeq
  <2>2. Due(Append(<< >>, h), id) = IF h.client = id THEN Append(<< >>, h.nr) ELSE << >>
    BY <1>1, <2>1, DueIs, Zenon
  <2>3. Due(<<h>>, id) = first
    BY <2>2
  <2>4. <<h>> \o << >> = <<h>> /\ first \o << >> = first
    BY <1>1, <1>2
  <2> QED BY <2>1, <2>3, <2>4, Zenon
<1>4. ASSUME NEW s \in Seq(Asked), NEW m \in Asked, s \in T
      PROVE  Append(s, m) \in T
  <2> DEFINE r == <<h>> \o s
             d == Due(s, id)
  <2>1. r \in Seq(Asked) /\ Append(s, m) \in Seq(Asked) /\ m.nr \in Numbers
    BY <1>1 DEF Asked
  <2>2. <<h>> \o Append(s, m) = Append(r, m)
    BY <1>1
  <2>3. d \in Seq(Numbers) /\ Due(r, id) = first \o d
    BY <1>4, DueIs, Zenon
  <2>4. Due(Append(r, m), id) = IF m.client = id THEN Append(Due(r, id), m.nr) ELSE Due(r, id)
    BY <2>1, DueIs, Zenon
  <2>5. Due(Append(s, m), id) = IF m.client = id THEN Append(d, m.nr) ELSE d
    BY DueIs, Zenon
  <2> HIDE DEF r, d, first, h
  <2>6. Append(first \o d, m.nr) = first \o Append(d, m.nr)
    <3>1. Joined(first, d, m.nr)
      BY <1>2, <2>1, <2>3, AppendLast
    <3> QED BY <3>1 DEF Joined
  <2>7. Due(Append(r, m), id) = first \o Due(Append(s, m), id)
    BY <2>3, <2>4, <2>5, <2>6, Zenon
  <2> QED BY <2>1, <2>2, <2>7, Zenon DEF r
<1>5. q = <<h>> \o Tail(q) /\ Tail(q) \in Seq(Asked)
  OBVIOUS
<1> HIDE DEF T, h
<1>6. Seq(Asked) \subseteq T
  BY <1>3, <1>4, SeqInduct
<1>7. Due(<<h>> \o Tail(q), id) = first \o Due(Tail(q), id)
  BY <1>5, <1>6, Zenon DEF T
<1> QED BY <1>5, <1>7, Zenon DEF h

----------------------------------------------------------------------------
(* What the handlers' helpers do to a well-formed state. *)

(* Only one connection, the orders sent and what its peer got may differ. *)
Changes(s, t, id) ==
  /\ Shape(t) /\ t.by_fd = s.by_fd /\ t.sock = s.sock
  /\ IsFn(t.conns) /\ DOMAIN t.conns = DOMAIN s.conns
  /\ \A j \in DOMAIN s.conns \ {id} : t.conns[j] = s.conns[j]
  /\ t.conns[id] \in Conn(id) /\ t.conns[id].fd = s.conns[id].fd
  /\ IsFn(t.received) /\ DOMAIN t.received = DOMAIN s.received
  /\ \A p \in Peer \ {id} : t.received[p] = s.received[p]
  /\ t.received[id] \in Seq(Msg(id))

(* A handler that changes one connection leaves a good state. *)
LEMMA ChangesGood ==
  ASSUME NEW n, NEW s, Good(s, n), NEW id \in DOMAIN s.conns, n \in Nat, n <= MaxPeers,
         NEW t, Changes(s, t, id), t.cmds \in Seq(Cmd(n))
  PROVE  Good(t, n)
<1>1. Connections(t, n)
  BY DEF Good, Connections, Changes
<1>2. Descriptors(t)
  BY DEF Good, Descriptors, Changes
<1>3. Linked(t)
  <2>1. \A j \in DOMAIN s.conns : t.conns[j].fd = s.conns[j].fd
    BY DEF Changes
  <2> QED BY <2>1 DEF Good, Linked, Changes
<1>4. Delivered(t, n)
  <2>1. id \in Nat /\ id <= n
    BY DEF Good, Connections
  <2>2. \A p \in Peer : t.received[p] \in Seq(Msg(p))
    BY DEF Good, Delivered, Changes
  <2>3. \A p \in Peer : p > n => p # id /\ t.received[p] = << >>
    BY <2>1 DEF Good, Delivered, Changes
  <2> QED BY <2>2, <2>3 DEF Good, Delivered, Changes
<1> QED BY <1>1, <1>2, <1>3, <1>4 DEF Good, Changes

(* A connection that is there has its id for a peer. *)
LEMMA IdIsPeer ==
  ASSUME NEW n \in Nat, n <= MaxPeers, NEW s, Good(s, n), NEW id \in DOMAIN s.conns
  PROVE  /\ id \in Peer /\ id \in Nat /\ id # 0 /\ id <= n
         /\ PeerOf(s, id) = id
         /\ s.conns[id] \in Conn(id)
         /\ s.received[id] \in Seq(Msg(id))
<1>1. MaxPeers \in Nat
  BY GatewayAssumption
<1>2. id \in 1 .. n
  BY DEF Good, Connections
<1>3. id \in Peer
  BY <1>1, <1>2 DEF Peer
<1> QED BY <1>2, <1>3 DEF Good, Linked, Connections, Delivered, PeerOf

(* What a step on the connection id may never do: lose or invent an answer *)
(* of the engine for a connection that stays, close another connection, or *)
(* give a descriptor to another one.                                       *)
Kept(s, t, id) ==
  /\ DOMAIN s.conns \ {id} \subseteq DOMAIN t.conns
  /\ DOMAIN t.conns \subseteq DOMAIN s.conns
  /\ \A j \in DOMAIN t.conns : Told(t, j) = Told(s, j)
  /\ \A f \in DOMAIN t.by_fd : f \in DOMAIN s.by_fd /\ t.by_fd[f] = s.by_fd[f]

(* Two handlers in a row keep what each of them keeps. *)
LEMMA KeptTrans ==
  ASSUME NEW id, NEW r, NEW s, NEW t, Kept(r, s, id), Kept(s, t, id)
  PROVE  Kept(r, t, id)
BY DEF Kept

(* A step on one connection that keeps its own output keeps all outputs. *)
LEMMA ChangesKept ==
  ASSUME NEW s, NEW t, NEW id \in DOMAIN s.conns, Changes(s, t, id), Told(t, id) = Told(s, id),
         DOMAIN s.conns \subseteq Peer
  PROVE  Kept(s, t, id)
<1>1. ASSUME NEW j \in DOMAIN s.conns, j # id PROVE Told(t, j) = Told(s, j)
  BY <1>1 DEF Changes, Told, Out
<1> QED BY <1>1 DEF Kept, Changes

(* close_conn takes the connection out of every map, and nothing else. *)
LEMMA CloseGood ==
  ASSUME NEW n \in Nat, NEW s, Good(s, n), NEW id \in DOMAIN s.conns
  PROVE  LET t == CloseConn(s, id)
         IN  /\ Good(t, n) /\ Kept(s, t, id)
             /\ DOMAIN t.conns = DOMAIN s.conns \ {id}
             /\ s.conns[id].fd \notin DOMAIN t.by_fd
             /\ \A j \in DOMAIN t.conns : t.conns[j] = s.conns[j]
<1> DEFINE t == CloseConn(s, id)
           fd == s.conns[id].fd
<1>1. /\ Shape(t)
      /\ t.sock = [x \in DOMAIN s.sock \ {fd} |-> s.sock[x]]
      /\ t.by_fd = [x \in DOMAIN s.by_fd \ {fd} |-> s.by_fd[x]]
      /\ t.conns = [x \in DOMAIN s.conns \ {id} |-> s.conns[x]]
      /\ t.cmds = s.cmds /\ t.received = s.received /\ t.touched = s.touched
  <2> DEFINE A == [x \in DOMAIN s.sock \ {fd} |-> s.sock[x]]
             B == [x \in DOMAIN s.by_fd \ {fd} |-> s.by_fd[x]]
             C == [x \in DOMAIN s.conns \ {id} |-> s.conns[x]]
  <2>1. t = [s EXCEPT !.sock = A, !.by_fd = B, !.conns = C]
    BY DEF CloseConn, Without, Restrict
  <2>2. Shape(s)
    BY DEF Good
  <2> HIDE DEF A, B, C, t
  <2>3. t = [conns |-> C, by_fd |-> B, sock |-> A, cmds |-> s.cmds,
             received |-> s.received, touched |-> s.touched]
    BY <2>1, <2>2, Zenon DEF Shape
  <2>4. /\ t.conns = C /\ t.by_fd = B /\ t.sock = A /\ t.cmds = s.cmds
        /\ t.received = s.received /\ t.touched = s.touched
    BY <2>3
  <2> QED BY <2>3, <2>4 DEF Shape, A, B, C
<1> HIDE DEF t
<1>2. /\ IsFn(t.sock) /\ DOMAIN t.sock = DOMAIN s.sock \ {fd}
      /\ \A x \in DOMAIN t.sock : t.sock[x] = s.sock[x]
  BY <1>1 DEF IsFn
<1>3. /\ IsFn(t.by_fd) /\ DOMAIN t.by_fd = DOMAIN s.by_fd \ {fd}
      /\ \A x \in DOMAIN t.by_fd : t.by_fd[x] = s.by_fd[x]
  BY <1>1 DEF IsFn
<1>4. /\ IsFn(t.conns) /\ DOMAIN t.conns = DOMAIN s.conns \ {id}
      /\ \A x \in DOMAIN t.conns : t.conns[x] = s.conns[x]
  BY <1>1 DEF IsFn
<1>5. Connections(t, n)
  BY <1>4 DEF Good, Connections
<1>6. Descriptors(t)
  BY <1>2, <1>3 DEF Good, Descriptors
<1>7. Linked(t)
  <2>1. \A j \in DOMAIN t.conns : t.conns[j].fd # fd
    BY <1>4 DEF Good, Linked
  <2>2. \A f \in DOMAIN t.by_fd : t.by_fd[f] # id
    BY <1>3 DEF Good, Linked
  <2>3. \A j \in DOMAIN t.conns :
          /\ t.conns[j].fd \in DOMAIN t.by_fd
          /\ t.by_fd[t.conns[j].fd] = j
          /\ t.sock[t.conns[j].fd].peer = j
    BY <1>2, <1>3, <1>4, <2>1 DEF Good, Linked, Descriptors
  <2>4. \A f \in DOMAIN t.by_fd : t.by_fd[f] \in DOMAIN t.conns /\ t.conns[t.by_fd[f]].fd = f
    BY <1>3, <1>4, <2>2 DEF Good, Linked
  <2> QED BY <2>3, <2>4 DEF Linked
<1>8. Good(t, n)
  BY <1>1, <1>5, <1>6, <1>7 DEF Good, Delivered
<1>9. Kept(s, t, id)
  BY <1>1, <1>3, <1>4 DEF Kept, Told, Out
<1> QED BY <1>3, <1>4, <1>8, <1>9 DEF t


(* A connection's output is packets, and the engine's part of it numbers. *)
LEMMA OutTyped ==
  ASSUME NEW n \in Nat, n <= MaxPeers, NEW s, Good(s, n), NEW id \in DOMAIN s.conns
  PROVE  /\ s.received[id] \in Seq(Noted) /\ s.conns[id].outbuf \in Seq(Noted)
         /\ Out(s, id) \in Seq(Noted) /\ Told(s, id) \in Seq(Numbers)
<1>1. /\ id \in Nat /\ s.received[id] \in Seq(Msg(id))
      /\ s.conns[id].outbuf \in Seq(Msg(id))
  BY IdIsPeer DEF Conn
<1>2. Msg(id) \subseteq Noted
  BY <1>1 DEF Msg, Noted
<1> HIDE DEF Msg, Noted
<1>3. s.received[id] \in Seq(Noted) /\ s.conns[id].outbuf \in Seq(Noted)
  BY <1>1, <1>2
<1>4. Out(s, id) \in Seq(Noted)
  BY <1>3 DEF Out
<1> QED BY <1>3, <1>4, EngineNrsIs DEF Told

(* Replacing one connection by another with the same descriptor. *)
LEMMA SetConn ==
  ASSUME NEW n \in Nat, n <= MaxPeers, NEW s, Good(s, n), NEW id \in DOMAIN s.conns,
         NEW c \in Conn(id), c.fd = s.conns[id].fd
  PROVE  LET t == [s EXCEPT !.conns[id] = c]
         IN  /\ Changes(s, t, id) /\ Good(t, n) /\ t.conns[id] = c
             /\ t.cmds = s.cmds /\ t.received = s.received /\ t.touched = s.touched
<1> DEFINE C == [s.conns EXCEPT ![id] = c]
           t == [s EXCEPT !.conns[id] = c]
<1>1. /\ IsFn(C) /\ DOMAIN C = DOMAIN s.conns /\ C[id] = c
      /\ \A j \in DOMAIN s.conns \ {id} : C[j] = s.conns[j]
  BY DEF IsFn
<1>2. t = [s EXCEPT !.conns = C]
  OBVIOUS
<1>3. Shape(s)
  BY DEF Good
<1> HIDE DEF C, t
<1>4. t = [conns |-> C, by_fd |-> s.by_fd, sock |-> s.sock, cmds |-> s.cmds,
           received |-> s.received, touched |-> s.touched]
  BY <1>2, <1>3 DEF Shape
<1>5. /\ t.conns = C /\ t.by_fd = s.by_fd /\ t.sock = s.sock /\ t.cmds = s.cmds
      /\ t.received = s.received /\ t.touched = s.touched
  BY <1>4
<1>6. Shape(t)
  BY <1>4, <1>5 DEF Shape
<1>7. IsFn(s.received) /\ s.received[id] \in Seq(Msg(id))
  BY IdIsPeer DEF Good, Delivered
<1>8. Changes(s, t, id)
  BY <1>1, <1>5, <1>6, <1>7 DEF Changes
<1>9. Good(t, n)
  <2>1. t.cmds \in Seq(Cmd(n))
    BY <1>5 DEF Good
  <2> QED BY <1>8, <2>1, ChangesGood
<1> QED BY <1>1, <1>5, <1>8, <1>9 DEF t

(* queue() adds one packet to the output of one connection. *)
LEMMA QueueGood ==
  ASSUME NEW n \in Nat, n <= MaxPeers, NEW s, Good(s, n), NEW id \in DOMAIN s.conns,
         Flagged(s, id), NEW nr \in Numbers,
         NEW kind \in {"login", "risk", "heartbeat", "engine"}
  PROVE  LET t == Queue(s, id, kind, id, nr)
         IN  /\ Changes(s, t, id) /\ Good(t, n) /\ Flagged(t, id)
             /\ t.cmds = s.cmds /\ t.received = s.received /\ t.touched = s.touched
             /\ t.conns[id].state = s.conns[id].state
             /\ Told(t, id) = IF kind = "engine" THEN Append(Told(s, id), nr) ELSE Told(s, id)
<1> DEFINE m == [kind |-> kind, peer |-> id, nr |-> nr]
           out == s.conns[id].outbuf
           c == [s.conns[id] EXCEPT !.outbuf = Append(out, m)]
           t == Queue(s, id, kind, id, nr)
<1>1. s.conns[id] \in Conn(id) /\ id \in Nat
  BY IdIsPeer
<1>2. m \in Msg(id) /\ m \in Noted /\ out \in Seq(Msg(id))
  BY <1>1 DEF Msg, Noted, Conn
<1>3. Append(out, m) \in Seq(Msg(id)) /\ Append(out, m) # << >>
  BY <1>2
<1> HIDE DEF m
<1>4. /\ c \in Conn(id) /\ c.fd = s.conns[id].fd /\ c.outbuf = Append(out, m)
      /\ c.state = s.conns[id].state /\ c.write_enabled = s.conns[id].write_enabled
  BY <1>1, <1>3, Zenon DEF Conn
<1>5. t = [s EXCEPT !.conns[id] = c]
  BY DEF Queue, m
<1> HIDE DEF c, t
<1>6. /\ Changes(s, t, id) /\ Good(t, n) /\ t.conns[id] = c
      /\ t.cmds = s.cmds /\ t.received = s.received /\ t.touched = s.touched
  BY <1>4, <1>5, SetConn
<1>7. Flagged(t, id)
  BY <1>3, <1>4, <1>6 DEF Flagged, Changes
<1>8. Out(t, id) = Append(Out(s, id), m)
  <2>1. s.received[id] \in Seq(Noted) /\ out \in Seq(Noted)
    BY OutTyped
  <2>2. Joined(s.received[id], out, m)
    BY <1>2, <2>1, AppendLast
  <2> QED BY <1>4, <1>6, <2>2, Zenon DEF Joined, Out
<1>9. m.kind = kind /\ m.nr = nr /\ Out(s, id) \in Seq(Noted)
  BY OutTyped DEF m
<1>10. Told(t, id) = IF kind = "engine" THEN Append(Told(s, id), nr) ELSE Told(s, id)
  BY <1>2, <1>8, <1>9, EngineNrsIs DEF Told
<1> QED BY <1>4, <1>6, <1>7, <1>10 DEF t

(* In particular an answer of the engine. *)
LEMMA AnswerQueued ==
  ASSUME NEW n \in Nat, n <= MaxPeers, NEW s, Good(s, n), NEW id \in DOMAIN s.conns,
         Flagged(s, id), NEW nr \in Numbers
  PROVE  /\ Changes(s, Queue(s, id, "engine", id, nr), id)
         /\ Good(Queue(s, id, "engine", id, nr), n)
         /\ Flagged(Queue(s, id, "engine", id, nr), id)
         /\ Told(Queue(s, id, "engine", id, nr), id) = Append(Told(s, id), nr)
<1>1. "engine" \in {"login", "risk", "heartbeat", "engine"}
  OBVIOUS
<1> DEFINE t == Queue(s, id, "engine", id, nr)
<1>2. /\ Changes(s, t, id) /\ Good(t, n) /\ Flagged(t, id)
      /\ Told(t, id) = IF "engine" = "engine" THEN Append(Told(s, id), nr) ELSE Told(s, id)
  BY <1>1, QueueGood
<1> QED BY <1>2

(* A session changes its state. *)
LEMMA StateGood ==
  ASSUME NEW n \in Nat, n <= MaxPeers, NEW s, Good(s, n), NEW id \in DOMAIN s.conns,
         Flagged(s, id), NEW st \in {"AwaitingLogin", "LoggedIn", "Closed"}
  PROVE  LET t == [s EXCEPT !.conns[id].state = st]
         IN  /\ Changes(s, t, id) /\ Good(t, n) /\ Flagged(t, id)
             /\ t.cmds = s.cmds /\ t.received = s.received /\ t.touched = s.touched
             /\ Told(t, id) = Told(s, id)
<1> DEFINE c == [s.conns[id] EXCEPT !.state = st]
           t == [s EXCEPT !.conns[id].state = st]
<1>1. s.conns[id] \in Conn(id)
  BY IdIsPeer
<1>2. /\ c \in Conn(id) /\ c.fd = s.conns[id].fd /\ c.outbuf = s.conns[id].outbuf
      /\ c.write_enabled = s.conns[id].write_enabled
  BY <1>1 DEF Conn
<1>3. t = [s EXCEPT !.conns[id] = c]
  OBVIOUS
<1> HIDE DEF c, t
<1>4. /\ Changes(s, t, id) /\ Good(t, n) /\ t.conns[id] = c
      /\ t.cmds = s.cmds /\ t.received = s.received /\ t.touched = s.touched
  BY <1>2, <1>3, SetConn
<1>5. Flagged(t, id)
  BY <1>2, <1>4 DEF Flagged, Changes
<1>6. Told(t, id) = Told(s, id)
  BY <1>2, <1>4 DEF Told, Out
<1> QED BY <1>4, <1>5, <1>6 DEF t

(* on_bytes and handle_ouch for one packet. *)
LEMMA ChangesTrans ==
  ASSUME NEW id, NEW r, NEW s, NEW t, Changes(r, s, id), Changes(s, t, id)
  PROVE  Changes(r, t, id)
BY DEF Changes

(* on_packet leaves a good state, and the answers of the engine as they were. *)
LEMMA OnPacketGood ==
  ASSUME NEW n \in Nat, n <= MaxPeers, NEW s, Good(s, n), NEW id \in DOMAIN s.conns,
         Flagged(s, id), NEW pkt \in Pkt
  PROVE  LET t == OnPacket(s, id, pkt)
         IN  /\ Changes(s, t, id) /\ Good(t, n) /\ Flagged(t, id)
             /\ t.received = s.received /\ t.touched = s.touched
             /\ Told(t, id) = Told(s, id)
<1> DEFINE t == OnPacket(s, id, pkt)
           state == s.conns[id].state
           u == [s EXCEPT !.conns[id].state = "LoggedIn"]
           c == [client |-> id, peer |-> id, nr |-> pkt.nr]
<1>1. /\ PeerOf(s, id) = id /\ id \in 1 .. n /\ s.conns[id] \in Conn(id)
      /\ s.received[id] \in Seq(Msg(id)) /\ Shape(s) /\ s.cmds \in Seq(Cmd(n))
      /\ IsFn(s.conns) /\ IsFn(s.received)
  BY IdIsPeer DEF Good, Connections, Delivered
<1>2. pkt.nr \in Numbers /\ 0 \in Numbers
  BY DEF Pkt, Numbers
<1>3. Changes(s, s, id)
  BY <1>1 DEF Changes
<1>4. CASE state = "AwaitingLogin" /\ pkt.type = "login"
  <2>1. t = Queue(u, id, "login", id, 0)
    BY <1>1, <1>4 DEF OnPacket
  <2>2. /\ Changes(s, u, id) /\ Good(u, n) /\ Flagged(u, id)
        /\ u.received = s.received /\ u.touched = s.touched /\ Told(u, id) = Told(s, id)
    BY StateGood, Zenon
  <2>3. id \in DOMAIN u.conns
    BY <2>2 DEF Changes
  <2> HIDE DEF t, u
  <2>4. /\ Changes(u, t, id) /\ Good(t, n) /\ Flagged(t, id)
        /\ t.received = u.received /\ t.touched = u.touched /\ Told(t, id) = Told(u, id)
    BY <1>2, <2>1, <2>2, <2>3, QueueGood
  <2>5. Changes(s, t, id)
    BY <2>2, <2>4, ChangesTrans
  <2> QED BY <2>2, <2>4, <2>5 DEF t
<1>5. CASE state = "LoggedIn" /\ pkt.type = "order"
  <2>1. t = [s EXCEPT !.cmds = Append(s.cmds, c)]
    BY <1>1, <1>5 DEF OnPacket
  <2>2. c \in Cmd(n)
    BY <1>1, <1>2 DEF Cmd
  <2> HIDE DEF c, t
  <2>3. t = [conns |-> s.conns, by_fd |-> s.by_fd, sock |-> s.sock, cmds |-> Append(s.cmds, c),
             received |-> s.received, touched |-> s.touched]
    BY <1>1, <2>1, Zenon DEF Shape
  <2>4. /\ t.conns = s.conns /\ t.by_fd = s.by_fd /\ t.sock = s.sock
        /\ t.cmds = Append(s.cmds, c) /\ t.received = s.received /\ t.touched = s.touched
    BY <2>3
  <2>5. Changes(s, t, id)
    <3>1. Shape(t)
      BY <2>3, <2>4 DEF Shape
    <3> QED BY <1>3, <2>4, <3>1 DEF Changes
  <2>6. t.cmds \in Seq(Cmd(n))
    BY <1>1, <2>2, <2>4
  <2>7. Good(t, n)
    BY <2>5, <2>6, ChangesGood
  <2>8. Flagged(t, id) /\ Told(t, id) = Told(s, id)
    BY <2>4 DEF Flagged, Told, Out
  <2> QED BY <2>4, <2>5, <2>7, <2>8 DEF t
<1>6. CASE state = "LoggedIn" /\ pkt.type = "risky_order"
  <2>1. t = Queue(s, id, "risk", id, pkt.nr)
    BY <1>1, <1>6 DEF OnPacket
  <2> HIDE DEF t
  <2>2. /\ Changes(s, t, id) /\ Good(t, n) /\ Flagged(t, id)
        /\ t.received = s.received /\ t.touched = s.touched /\ Told(t, id) = Told(s, id)
    BY <1>2, <2>1, QueueGood
  <2> QED BY <2>2 DEF t
<1>7. CASE state = "LoggedIn" /\ pkt.type = "logout"
  <2>1. t = [s EXCEPT !.conns[id].state = "Closed"]
    BY <1>1, <1>7 DEF OnPacket
  <2> HIDE DEF t
  <2>2. /\ Changes(s, t, id) /\ Good(t, n) /\ Flagged(t, id)
        /\ t.received = s.received /\ t.touched = s.touched /\ Told(t, id) = Told(s, id)
    BY <2>1, StateGood, Zenon
  <2> QED BY <2>2 DEF t
<1>8. CASE /\ ~(state = "AwaitingLogin" /\ pkt.type = "login")
           /\ ~(state = "LoggedIn" /\ pkt.type \in {"order", "risky_order", "logout"})
  <2>1. t = s
    BY <1>8 DEF OnPacket
  <2> QED BY <1>3, <2>1
<1> QED BY <1>4, <1>5, <1>6, <1>7, <1>8

(* handle_readable's loop over the packets that a read completed. *)
Feed(id, a, q) == InTurn(LAMBDA s, pkt : OnPacket(s, id, pkt), a, q)

(* What every packet preserves, the whole read preserves. *)
LEMMA FeedStays ==
  ASSUME NEW id, NEW A, \A a \in A, p \in Pkt : OnPacket(a, id, p) \in A,
         NEW a0 \in A, NEW s \in Seq(Pkt)
  PROVE  Feed(id, a0, s) \in A
<1> DEFINE n == Len(s)
           F == [x \in A \X (1 .. n) |-> OnPacket(x[1], id, s[x[2]])]
           Q(f) == f = [t \in SUBSET DOMAIN s |->
                          IF t = {} THEN a0 ELSE OnPacket(f[t \ {Max(t)}], id, s[Max(t)])]
<1>1. n \in Nat /\ DOMAIN s = 1 .. n /\ \A i \in 1 .. n : s[i] \in Pkt
  OBVIOUS
<1>2. \A a \in A, i \in 1 .. n : F[<<a, i>>] = OnPacket(a, id, s[i])
  OBVIOUS
<1> HIDE DEF n, F
<1>3. StepOn(F, A, n)
  BY <1>1, <1>2, Zenon DEF StepOn
<1>4. \E f : Q(f)
  <2>1. PICK f : FoldsIn(f, F, A, a0, n)
    BY <1>1, <1>3, FoldExists
  <2>2. Q(f)
    BY <1>1, <1>2, <2>1, Zenon DEF FoldsIn
  <2> QED BY <2>2, Zenon
<1>5. PICK h : Q(h) /\ Feed(id, a0, s) = Whole(h, n)
  <2> DEFINE c == CHOOSE f : Q(f)
  <2>1. Q(c)
    BY <1>4, Zenon
  <2>2. Feed(id, a0, s) = c[1 .. n]
    BY <1>1 DEF Feed, InTurn, MapThenFoldSet
  <2> HIDE DEF c
  <2> QED BY <2>1, <2>2, Zenon DEF Whole
<1>6. Folds(h, F, A, a0, n)
  BY <1>1, <1>2, <1>5, Zenon DEF Folds
<1>7. Whole(h, n) \in A
  BY <1>1, <1>3, <1>6, FoldStep
<1> QED BY <1>5, <1>7

(* A read leaves a well-formed state, and may leave output to be flushed. *)
LEMMA FeedGood ==
  ASSUME NEW n \in Nat, n <= MaxPeers, NEW s, Good(s, n), NEW id \in DOMAIN s.conns,
         Flagged(s, id), NEW q \in Seq(Pkt)
  PROVE  LET t == Feed(id, s, q)
         IN  /\ Good(t, n) /\ Flagged(t, id) /\ Kept(s, t, id)
             /\ id \in DOMAIN t.conns /\ t.by_fd = s.by_fd
<1> DEFINE D == DOMAIN s.conns
           R == [conns : [D -> UNION {Conn(j) : j \in D}], by_fd : {s.by_fd}, sock : {s.sock},
                 cmds : Seq(Cmd(n)), received : {s.received}, touched : {s.touched}]
           Fine(a) == /\ Good(a, n) /\ Flagged(a, id) /\ Kept(s, a, id)
                      /\ id \in DOMAIN a.conns /\ a.by_fd = s.by_fd
           A == {a \in R : Fine(a)}
<1>1. ASSUME NEW a, Shape(a), Fine(a), DOMAIN a.conns = D, a.sock = s.sock,
             a.received = s.received, a.touched = s.touched
      PROVE  a \in A
  <2>1. a.conns \in [D -> UNION {Conn(j) : j \in D}]
    <3>1. IsFn(a.conns) /\ \A j \in D : a.conns[j] \in Conn(j)
      BY <1>1 DEF Good, Connections
    <3> QED BY <1>1, <3>1, Zenon DEF IsFn
  <2>2. a.cmds \in Seq(Cmd(n))
    BY <1>1 DEF Good
  <2> DEFINE C == [D -> UNION {Conn(j) : j \in D}]
             E == Seq(Cmd(n))
  <2> HIDE DEF C, E, Fine
  <2>3. a \in R
    <3>1. a.conns \in C /\ a.cmds \in E
      BY <2>1, <2>2 DEF C, E
    <3> DEFINE RR == [conns : C, by_fd : {s.by_fd}, sock : {s.sock},
                      cmds : E, received : {s.received}, touched : {s.touched}]
    <3>2. a.by_fd = s.by_fd
      BY <1>1 DEF Fine
    <3>3. a \in RR
      BY <1>1, <3>1, <3>2 DEF Shape
    <3> QED BY <3>3 DEF C, E
  <2> QED BY <1>1, <2>3
<1>2. s \in A
  <2>1. Kept(s, s, id)
    BY DEF Kept
  <2> QED BY <1>1, <2>1 DEF Good
<1>3. ASSUME NEW a \in A, NEW p \in Pkt PROVE OnPacket(a, id, p) \in A
  <2> DEFINE t == OnPacket(a, id, p)
  <2>1. /\ Fine(a) /\ DOMAIN a.conns = D /\ a.sock = s.sock
        /\ a.received = s.received /\ a.touched = s.touched
    OBVIOUS
  <2> HIDE DEF A, R, t
  <2>2. /\ Changes(a, t, id) /\ Good(t, n) /\ Flagged(t, id)
        /\ t.received = a.received /\ t.touched = a.touched /\ Told(t, id) = Told(a, id)
    BY <2>1, OnPacketGood DEF t
  <2>3. DOMAIN a.conns \subseteq Peer
    BY <2>1, IdIsPeer
  <2>4. Kept(a, t, id)
    BY <2>1, <2>2, <2>3, ChangesKept
  <2>5. Kept(s, t, id)
    BY <2>1, <2>4, KeptTrans
  <2>6. /\ Shape(t) /\ DOMAIN t.conns = D /\ t.sock = s.sock /\ t.by_fd = s.by_fd
        /\ t.received = s.received /\ t.touched = s.touched
    BY <2>1, <2>2 DEF Changes
  <2> QED BY <1>1, <2>2, <2>5, <2>6 DEF t
<1>4. Feed(id, s, q) \in A
  <2> HIDE DEF A
  <2> QED BY <1>2, <1>3, FeedStays
<1> QED BY <1>4

(* Concatenation is associative. *)
Regrouped(s, t, r) == (s \o t) \o r = s \o (t \o r)

(* Concatenation is associative, in the form the provers match. *)
LEMMA Associative ==
  ASSUME NEW M
  PROVE  \A s, t, r \in Seq(M) : Regrouped(s, t, r)
BY ConcatAssociative DEF Regrouped

(* flush(): what the socket took is sent, the rest stays, in order; after  *)
(* it the write filter is right again.                                     *)
LEMMA FlushGood ==
  ASSUME NEW n \in Nat, n <= MaxPeers, NEW s, Good(s, n), NEW id \in DOMAIN s.conns,
         Flagged(s, id), NEW k \in SendResults(s, id)
  PROVE  LET t == Flush(s, id, k)
         IN  Good(t, n) /\ Flagged(t, 0) /\ Kept(s, t, id)
<1> DEFINE t == Flush(s, id, k)
           out == s.conns[id].outbuf
           a == SubSeq(out, 1, k)
           b == SubSeq(out, k + 1, Len(out))
<1>1. /\ PeerOf(s, id) = id /\ id \in Peer /\ s.conns[id] \in Conn(id)
      /\ s.received[id] \in Seq(Msg(id)) /\ out \in Seq(Msg(id))
      /\ DOMAIN s.conns \subseteq Peer
  BY IdIsPeer DEF Conn
<1>2. CASE out = << >>
  <2>1. t = s
    BY <1>2 DEF Flush
  <2>2. Flagged(s, 0)
    BY <1>2 DEF Flagged
  <2>3. Kept(s, s, id)
    BY DEF Kept
  <2> QED BY <2>1, <2>2, <2>3
<1>3. CASE out # << >> /\ k = -1
  <2>1. t = CloseConn(s, id)
    BY <1>3 DEF Flush
  <2> HIDE DEF t
  <2>2. /\ Good(t, n) /\ Kept(s, t, id) /\ DOMAIN t.conns = DOMAIN s.conns \ {id}
        /\ \A j \in DOMAIN t.conns : t.conns[j] = s.conns[j]
    BY <2>1, CloseGood
  <2>3. Flagged(t, 0)
    BY <2>2 DEF Flagged
  <2> QED BY <2>2, <2>3 DEF t
<1>4. CASE out # << >> /\ k # -1
  <2> DEFINE c == [s.conns[id] EXCEPT !.outbuf = b, !.write_enabled = k < Len(out)]
             C == [s.conns EXCEPT ![id] = c]
             R == [s.received EXCEPT ![id] = s.received[id] \o a]
  <2>1. k \in 0 .. Len(out)
    BY <1>1, <1>4 DEF SendResults
  <2>2. a \in Seq(Msg(id)) /\ b \in Seq(Msg(id)) /\ out = a \o b /\ Len(b) = Len(out) - k
    <3> HIDE DEF out
    <3> QED BY <1>1, <2>1, SplitSeq, Zenon
  <2>3. t = [s EXCEPT !.conns = C, !.received = R]
    BY <1>1, <1>4, Zenon DEF Flush
  <2> HIDE DEF a, b, t
  <2>4. (k < Len(out)) \in BOOLEAN /\ (k < Len(out) <=> b # << >>)
    BY <1>1, <2>1, <2>2
  <2>5. /\ c \in Conn(id) /\ c.fd = s.conns[id].fd /\ c.outbuf = b
        /\ c.write_enabled = (k < Len(out))
    BY <1>1, <2>2, <2>4, Zenon DEF Conn
  <2> HIDE DEF out, c
  <2>6. /\ IsFn(C) /\ DOMAIN C = DOMAIN s.conns /\ C[id] = c
        /\ \A j \in DOMAIN s.conns \ {id} : C[j] = s.conns[j]
    BY DEF IsFn
  <2>7. DOMAIN s.received = Peer
    BY DEF Good, Delivered
  <2>8. /\ IsFn(R) /\ DOMAIN R = DOMAIN s.received /\ R[id] = s.received[id] \o a
        /\ \A p \in Peer \ {id} : R[p] = s.received[p]
    BY <1>1, <2>7, Zenon DEF IsFn
  <2>9. R[id] \in Seq(Msg(id))
    BY <1>1, <2>2, <2>8
  <2>10. Shape(s)
    BY DEF Good
  <2> HIDE DEF C, R
  <2>11. t = [conns |-> C, by_fd |-> s.by_fd, sock |-> s.sock, cmds |-> s.cmds,
              received |-> R, touched |-> s.touched]
    BY <2>3, <2>10, Zenon DEF Shape
  <2>12. /\ t.conns = C /\ t.by_fd = s.by_fd /\ t.sock = s.sock /\ t.cmds = s.cmds
         /\ t.received = R /\ t.touched = s.touched
    BY <2>11
  <2>13. Changes(s, t, id)
    <3>1. Shape(t)
      BY <2>11, <2>12 DEF Shape
    <3> QED BY <2>5, <2>6, <2>8, <2>9, <2>12, <3>1, Zenon DEF Changes
  <2>14. Good(t, n)
    <3>1. t.cmds \in Seq(Cmd(n))
      BY <2>12 DEF Good
    <3> QED BY <2>13, <3>1, ChangesGood
  <2>15. Flagged(t, 0)
    BY <2>4, <2>5, <2>6, <2>12, Zenon DEF Flagged
  <2>16. Told(t, id) = Told(s, id)
    <3>1. Regrouped(s.received[id], a, b)
      BY <1>1, <2>2, Associative
    <3>2. Out(t, id) = Out(s, id)
      BY <2>2, <2>5, <2>6, <2>8, <2>12, <3>1, Zenon DEF Out, out, Regrouped
    <3> QED BY <3>2 DEF Told
  <2>17. Kept(s, t, id)
    BY <1>1, <2>13, <2>16, ChangesKept
  <2> QED BY <2>14, <2>15, <2>17 DEF t
<1> QED BY <1>2, <1>3, <1>4

(* The check after flush(): it closes a finished connection, or touches    *)
(* one that flush() has closed.                                            *)
LEMMA ReapGood ==
  ASSUME NEW n \in Nat, NEW s, Good(s, n), Flagged(s, 0), NEW id
  PROVE  LET t == ReapIfClosed(s, id)
         IN  Good(t, n) /\ Flagged(t, 0) /\ Kept(s, t, id)
<1> DEFINE t == ReapIfClosed(s, id)
<1>1. CASE id \notin DOMAIN s.conns
  <2>1. t = [s EXCEPT !.touched = TRUE]
    BY <1>1 DEF ReapIfClosed
  <2>2. Shape(s)
    BY DEF Good
  <2> HIDE DEF t
  <2>3. t = [conns |-> s.conns, by_fd |-> s.by_fd, sock |-> s.sock, cmds |-> s.cmds,
             received |-> s.received, touched |-> TRUE]
    BY <2>1, <2>2, Zenon DEF Shape
  <2>4. /\ t.conns = s.conns /\ t.by_fd = s.by_fd /\ t.sock = s.sock /\ t.cmds = s.cmds
        /\ t.received = s.received /\ t.touched = TRUE
    BY <2>3
  <2>5. Shape(t)
    BY <2>3, <2>4 DEF Shape
  <2>6. Good(t, n)
    <3>1. Connections(t, n) /\ Delivered(t, n)
      BY <2>4, Zenon DEF Good, Connections, Delivered
    <3>2. Descriptors(t)
      BY <2>4, Zenon DEF Good, Descriptors
    <3>3. Linked(t)
      BY <2>4 DEF Good, Linked
    <3> QED BY <2>4, <2>5, <3>1, <3>2, <3>3, Zenon DEF Good
  <2>7. Flagged(t, 0) /\ Kept(s, t, id)
    BY <2>4 DEF Flagged, Kept, Told, Out
  <2> QED BY <2>6, <2>7 DEF t
<1>2. CASE id \in DOMAIN s.conns /\ s.conns[id].state = "Closed" /\ s.conns[id].outbuf = << >>
  <2>1. t = CloseConn(s, id)
    BY <1>2 DEF ReapIfClosed
  <2> HIDE DEF t
  <2>2. /\ Good(t, n) /\ Kept(s, t, id) /\ DOMAIN t.conns = DOMAIN s.conns \ {id}
        /\ \A j \in DOMAIN t.conns : t.conns[j] = s.conns[j]
    BY <1>2, <2>1, CloseGood
  <2>3. Flagged(t, 0)
    BY <2>2 DEF Flagged
  <2> QED BY <2>2, <2>3 DEF t
<1>3. CASE /\ id \in DOMAIN s.conns
           /\ ~(s.conns[id].state = "Closed" /\ s.conns[id].outbuf = << >>)
  <2>1. t = s
    BY <1>3 DEF ReapIfClosed
  <2>2. Kept(s, s, id)
    BY DEF Kept
  <2> QED BY <2>1, <2>2
<1> QED BY <1>1, <1>2, <1>3

----------------------------------------------------------------------------
(* GInv holds initially and is preserved by every step. *)

(* The gateway as it starts. *)
LEMMA InitGInv == Init => GInv
<1> SUFFICES ASSUME Init PROVE GInv
  OBVIOUS
<1>1. IsFn(<< >>) /\ DOMAIN << >> = {}
  BY DEF IsFn
<1>2. \A S : << >> \in Seq(S)
  BY EmptySeq
<1>3. MaxPeers \in Nat
  BY GatewayAssumption
<1>4. /\ conns = << >> /\ by_fd = << >> /\ sock = << >> /\ cmds = << >> /\ resps = << >>
      /\ pumping = << >> /\ unticked = {} /\ accepted = 0 /\ backlog = 0 /\ next_client_id = 1
      /\ received = [p \in Peer |-> << >>] /\ answered = [p \in Peer |-> << >>]
      /\ sent = [p \in Peer |-> 0]
  BY DEF Init
<1>5. /\ State.conns = conns /\ State.by_fd = by_fd /\ State.sock = sock /\ State.cmds = cmds
      /\ State.received = received /\ Shape(State)
  BY DEF State, Shape
<1>6. Connections(State, accepted) /\ Descriptors(State) /\ Linked(State)
  BY <1>1, <1>4, <1>5 DEF Connections, Descriptors, Linked
<1>7. Delivered(State, accepted)
  BY <1>2, <1>4, <1>5 DEF Delivered, IsFn
<1>8. Good(State, accepted) /\ Flagged(State, 0)
  BY <1>1, <1>2, <1>4, <1>5, <1>6, <1>7 DEF Good, Flagged
<1>9. Counted
  BY <1>3, <1>4 DEF Counted, IsFn, Numbers
<1>10. Answering
  BY <1>2, <1>4 DEF Answering, IsFn
<1>11. Ticking /\ Complete
  BY <1>1, <1>4 DEF Ticking, Complete
<1> QED BY <1>8, <1>9, <1>10, <1>11 DEF GInv

(* The record State holds the variables. *)
LEMMA StateFields ==
  /\ State.conns = conns /\ State.by_fd = by_fd /\ State.sock = sock /\ State.cmds = cmds
  /\ State.received = received /\ State.touched = touched /\ Shape(State)
BY DEF State, Shape

(* The variables after a handler are the fields of the state it computed. *)
LEMMA BecomesIs ==
  ASSUME NEW t, Shape(t), Becomes(t)
  PROVE  State' = t
BY DEF Becomes, State, Shape

(* Bounds that every step uses. *)
LEMMA AcceptedBound ==
  ASSUME GInv
  PROVE  /\ accepted \in Nat /\ accepted <= MaxPeers
         /\ Good(State, accepted) /\ Flagged(State, 0)
         /\ \A id : Flagged(State, id)
<1>1. backlog \in Nat /\ accepted \in Nat /\ backlog + accepted <= MaxPeers
  BY DEF GInv, Counted
<1>2. MaxPeers \in Nat
  BY GatewayAssumption
<1>3. accepted <= MaxPeers
  BY <1>1, <1>2
<1>4. Good(State, accepted) /\ Flagged(State, 0)
  BY DEF GInv
<1>5. 0 \notin DOMAIN State.conns
  BY <1>1, <1>4 DEF Good, Connections
<1>6. \A id : Flagged(State, id)
  BY <1>4, <1>5 DEF Flagged
<1> QED BY <1>1, <1>3, <1>4, <1>6

(* A step that leaves the connections and the responses alone. *)
LEMMA QuietStep ==
  ASSUME GInv, UNCHANGED <<peers, next_client_id, engine, handled, pumping>>, Ticking',
         pc' # "pump" => pumping = << >>
  PROVE  GInv'
<1>1. State' = State /\ accepted' = accepted
  BY DEF State, handled, peers
<1>2. Good(State, accepted)' /\ Flagged(State, 0)'
  BY <1>1 DEF GInv
<1>3. Counted'
  BY DEF GInv, Counted, peers
<1>4. Answering'
  BY DEF GInv, Answering, peers, engine
<1>5. Complete'
  BY <1>1 DEF GInv, Complete, handled, engine
<1> QED BY <1>2, <1>3, <1>4, <1>5 DEF GInv

(* A handler's work on one connection. *)
LEMMA HandlerStep ==
  ASSUME GInv, NEW t, NEW id, Becomes(t), Good(t, accepted), Flagged(t, 0), Kept(State, t, id),
         UNCHANGED <<peers, next_client_id, engine, pumping, pc>>,
         unticked' \subseteq unticked \ {id} \/ (unticked' = {} /\ unticked = {})
  PROVE  GInv'
<1>1. State' = t
  BY BecomesIs DEF Good
<1>2. accepted' = accepted /\ conns' = t.conns
  BY DEF peers, Becomes
<1>3. Good(State, accepted)' /\ Flagged(State, 0)'
  BY <1>1, <1>2
<1>4. Counted'
  BY DEF GInv, Counted, peers
<1>5. Answering'
  BY DEF GInv, Answering, peers, engine
<1>6. Ticking'
  BY <1>2, StateFields DEF GInv, Ticking, Kept
<1>7. Complete'
  BY <1>1, <1>2, StateFields, Zenon DEF GInv, Complete, Kept, engine
<1> QED BY <1>3, <1>4, <1>5, <1>6, <1>7 DEF GInv

(* A change of the sockets that leaves each with its peer. *)
LEMMA SockGood ==
  ASSUME NEW n, NEW s, Good(s, n), NEW t, Shape(t),
         t.conns = s.conns, t.by_fd = s.by_fd, t.cmds = s.cmds, t.received = s.received,
         IsFn(t.sock), DOMAIN t.sock = DOMAIN s.sock,
         \A fd \in DOMAIN s.sock : t.sock[fd] \in Sock /\ t.sock[fd].peer = s.sock[fd].peer
  PROVE  /\ Good(t, n)
         /\ \A id : (Flagged(s, id) => Flagged(t, id)) /\ Told(t, id) = Told(s, id)
         /\ \A id : Kept(s, t, id)
<1>1. Connections(t, n) /\ Descriptors(t) /\ Delivered(t, n)
  <2>1. Connections(t, n) /\ Delivered(t, n)
    BY Zenon DEF Good, Connections, Delivered
  <2>2. Descriptors(t)
    BY Zenon DEF Good, Descriptors
  <2> QED BY <2>1, <2>2
<1>2. Linked(t)
  <2>1. \A fd \in DOMAIN s.by_fd : t.sock[fd].peer = s.sock[fd].peer
    BY Zenon DEF Good, Descriptors
  <2>2. ASSUME NEW j \in DOMAIN s.conns
        PROVE  /\ s.conns[j].fd \in DOMAIN s.by_fd /\ s.by_fd[s.conns[j].fd] = j
               /\ t.sock[s.conns[j].fd].peer = j
    BY <2>1, Zenon DEF Good, Linked
  <2>3. \A fd \in DOMAIN s.by_fd :
          s.by_fd[fd] \in DOMAIN s.conns /\ s.conns[s.by_fd[fd]].fd = fd
    BY Zenon DEF Good, Linked
  <2> QED BY <2>2, <2>3 DEF Linked
<1>3. \A id : (Flagged(s, id) => Flagged(t, id)) /\ Told(t, id) = Told(s, id)
  BY DEF Flagged, Told, Out
<1>4. \A id : Kept(s, t, id)
  BY <1>3 DEF Kept
<1> QED BY <1>1, <1>2, <1>3, <1>4 DEF Good

(* What a socket has unread, or whether its peer is there, changes. *)
LEMMA SockStep ==
  ASSUME GInv, NEW fd \in DOMAIN sock, NEW v \in Sock, v.peer = sock[fd].peer,
         sock' = [sock EXCEPT ![fd] = v],
         UNCHANGED <<accepted, engine, conns, by_fd, cmds, received, touched, loop>>, Counted'
  PROVE  GInv'
<1> DEFINE t == State'
<1>1. /\ t.conns = conns /\ t.by_fd = by_fd /\ t.cmds = cmds /\ t.received = received
      /\ t.sock = sock' /\ Shape(t)
  BY DEF State, Shape
<1>2. IsFn(sock) /\ \A f \in DOMAIN sock : sock[f] \in Sock
  BY StateFields DEF GInv, Good, Descriptors
<1>3. /\ IsFn(sock') /\ DOMAIN sock' = DOMAIN sock
      /\ \A f \in DOMAIN sock : sock'[f] \in Sock /\ sock'[f].peer = sock[f].peer
  BY <1>2, Zenon DEF IsFn
<1> HIDE DEF t
<1>4. Good(State, accepted) /\ Flagged(State, 0)
  BY DEF GInv
<1>5. Good(t, accepted) /\ Flagged(t, 0) /\ \A j : Told(t, j) = Told(State, j)
  <2> DEFINE s == State
  <2>1. /\ t.conns = s.conns /\ t.by_fd = s.by_fd /\ t.cmds = s.cmds /\ t.received = s.received
        /\ IsFn(t.sock) /\ DOMAIN t.sock = DOMAIN s.sock
        /\ \A f \in DOMAIN s.sock : t.sock[f] \in Sock /\ t.sock[f].peer = s.sock[f].peer
    BY <1>1, <1>3, StateFields
  <2> HIDE DEF s
  <2>2. Good(s, accepted) /\ Flagged(s, 0)
    BY <1>4 DEF s
  <2>3. Good(t, accepted) /\ Flagged(t, 0) /\ \A j : Told(t, j) = Told(s, j)
    BY <1>1, <2>1, <2>2, SockGood, Zenon
  <2> QED BY <2>3 DEF s
<1>6. Good(State, accepted)' /\ Flagged(State, 0)'
  BY <1>5 DEF t
<1>7. Answering' /\ Ticking'
  BY DEF GInv, Answering, Ticking, engine, loop
<1>8. Complete'
  BY <1>5, Zenon DEF GInv, Complete, t, engine, loop
<1> QED BY <1>6, <1>7, <1>8 DEF GInv

(* A peer connects: it waits in the backlog. *)
LEMMA ConnectStep == ASSUME GInv, Connect PROVE GInv'
<1>1. Counted'
  BY GatewayAssumption DEF GInv, Counted, Connect
<1>2. State' = State /\ accepted' = accepted
  BY DEF State, handled, Connect
<1>3. Good(State, accepted)' /\ Flagged(State, 0)'
  BY <1>2 DEF GInv
<1>4. Answering' /\ Ticking'
  BY DEF GInv, Answering, Ticking, engine, loop, handled, Connect
<1>5. Complete'
  BY <1>2 DEF GInv, Complete, handled, engine, loop, Connect
<1> QED BY <1>1, <1>3, <1>4, <1>5 DEF GInv

(* A peer sends a packet to its own socket. *)
LEMMA PeerSendsStep ==
  ASSUME GInv, NEW fd \in DOMAIN sock, NEW type \in Packets, PeerSends(fd, type)
  PROVE  GInv'
<1> DEFINE p == sock[fd].peer
           u == Append(sock[fd].unread, [type |-> type, nr |-> sent[p] + 1])
           v == [sock[fd] EXCEPT !.unread = u]
<1>1. sock[fd] \in Sock /\ IsFn(sent) /\ DOMAIN sent = Peer /\ \A q \in Peer : sent[q] \in Numbers
  BY StateFields DEF GInv, Good, Descriptors, Counted
<1>2. p \in Peer /\ sent[p] \in Numbers /\ sent[p] + 1 \in Numbers
  BY <1>1 DEF Sock, Numbers
<1>3. [type |-> type, nr |-> sent[p] + 1] \in Pkt /\ sock[fd].unread \in Seq(Pkt)
  BY <1>1, <1>2 DEF Pkt, Sock
<1>4. u \in Seq(Pkt)
  BY <1>3
<1>5. sock' = [sock EXCEPT ![fd] = v]
  BY DEF PeerSends
<1> HIDE DEF u
<1>6. v \in Sock /\ v.peer = sock[fd].peer
  BY <1>1, <1>4 DEF Sock
<1>7. Counted'
  <2>1. sent' = [sent EXCEPT ![p] = sent[p] + 1]
    BY DEF PeerSends
  <2> HIDE DEF p
  <2>2. IsFn(sent') /\ DOMAIN sent' = Peer /\ \A q \in Peer : sent'[q] \in Numbers
    BY <1>1, <1>2, <2>1, Zenon DEF IsFn
  <2> QED BY <2>2 DEF GInv, Counted, PeerSends
<1> HIDE DEF v
<1> QED BY <1>5, <1>6, <1>7, SockStep, Zenon DEF PeerSends

(* A peer goes away; its socket stays until the gateway notices. *)
LEMMA PeerLeavesStep ==
  ASSUME GInv, NEW fd \in DOMAIN sock, PeerLeaves(fd)
  PROVE  GInv'
<1> DEFINE v == [sock[fd] EXCEPT !.here = FALSE]
<1>1. sock[fd] \in Sock
  BY StateFields DEF GInv, Good, Descriptors
<1>2. v \in Sock /\ v.peer = sock[fd].peer
  BY <1>1, Zenon DEF Sock
<1>3. sock' = [sock EXCEPT ![fd] = v]
  BY DEF PeerLeaves
<1>4. Counted'
  BY DEF GInv, Counted, PeerLeaves, peers
<1> HIDE DEF v
<1> QED BY <1>2, <1>3, <1>4, SockStep, Zenon DEF PeerLeaves, peers

(* The engine answers: the answer is on its way. *)
LEMMA EngineAnswersStep == ASSUME GInv, EngineAnswers PROVE GInv'
<1> DEFINE h == Head(cmds)
           t == State'
<1>1. /\ cmds # << >> /\ cmds' = Tail(cmds) /\ resps' = Append(resps, h)
      /\ answered' = [answered EXCEPT ![h.peer] = Append(answered[h.peer], h.nr)]
  BY DEF EngineAnswers
<1>2. UNCHANGED <<peers, next_client_id, conns, by_fd, sock, received, touched, loop>>
  BY DEF EngineAnswers
<1>3. cmds \in Seq(Cmd(accepted)) /\ resps \in Seq(Cmd(accepted))
  BY StateFields DEF GInv, Good, Answering
<1>4. h \in Cmd(accepted) /\ cmds' \in Seq(Cmd(accepted)) /\ resps' \in Seq(Cmd(accepted))
  <2>1. h \in Cmd(accepted) /\ cmds' \in Seq(Cmd(accepted))
    BY <1>1, <1>3
  <2> HIDE DEF h
  <2> QED BY <1>1, <1>3, <2>1
<1>5. accepted \in Nat /\ accepted <= MaxPeers /\ MaxPeers \in Nat
  BY AcceptedBound, GatewayAssumption
<1> HIDE DEF h
<1>6. h.client = h.peer /\ h.peer \in Peer /\ h.nr \in Numbers /\ ~(h.peer > accepted)
  BY <1>4, <1>5 DEF Cmd, Peer
<1>7. Cmd(accepted) \subseteq Asked
  BY <1>5 DEF Cmd, Asked
<1>8. t.conns = conns /\ t.by_fd = by_fd /\ t.sock = sock /\ t.received = received
      /\ t.cmds = cmds' /\ Shape(t)
  BY <1>2 DEF State, Shape
<1>9. Good(State, accepted)' /\ Flagged(State, 0)' /\ \A j : Told(t, j) = Told(State, j)
  <2>1. accepted' = accepted /\ Good(State, accepted) /\ Flagged(State, 0)
    BY <1>2 DEF GInv, peers
  <2> HIDE DEF t
  <2>2. Good(t, accepted)
    BY <1>4, <1>8, <2>1, StateFields, Zenon
       DEF Good, Connections, Descriptors, Linked, Delivered
  <2>3. Flagged(t, 0) /\ \A j : Told(t, j) = Told(State, j)
    BY <1>8, <2>1, StateFields, Zenon DEF Flagged, Told, Out
  <2> QED BY <2>1, <2>2, <2>3 DEF t
<1>10. Counted' /\ Ticking'
  BY <1>2 DEF GInv, Counted, Ticking, peers, loop
<1>11. \A p \in Peer : answered[p] \in Seq(Numbers)
  BY DEF GInv, Answering
<1>12. Answering'
  <2>1. Append(answered[h.peer], h.nr) \in Seq(Numbers)
    BY <1>6, <1>11
  <2> DEFINE w == Append(answered[h.peer], h.nr)
  <2> HIDE DEF w
  <2>2. answered' = [answered EXCEPT ![h.peer] = w] /\ w \in Seq(Numbers)
    BY <1>1, <2>1 DEF w
  <2>3. /\ IsFn(answered') /\ DOMAIN answered' = Peer
        /\ \A p \in Peer : answered'[p] \in Seq(Numbers)
        /\ \A p \in Peer : p > accepted => answered'[p] = << >>
    BY <1>6, <2>2, Zenon DEF GInv, Answering, IsFn
  <2> QED BY <1>2, <1>4, <2>3 DEF GInv, Answering, peers, loop
<1>13. ASSUME NEW j \in DOMAIN conns
       PROVE  (Told(t, j) \o Due(pumping, j)) \o Due(resps', j) = answered'[j]
  <2> DEFINE x == Told(State, j) \o Due(pumping, j)
             d == Due(resps, j)
  <2>1. x \o d = answered[j]
    BY DEF GInv, Complete
  <2>2. j \in Peer
    BY <1>5, IdIsPeer, StateFields DEF GInv
  <2>3. pumping \in Seq(Asked) /\ resps \in Seq(Asked) /\ h \in Asked
    BY <1>4, <1>7 DEF GInv, Answering
  <2>4. x \in Seq(Numbers) /\ d \in Seq(Numbers)
    <3>1. Told(State, j) \in Seq(Numbers)
      BY <1>5, OutTyped, StateFields DEF GInv
    <3>2. Due(pumping, j) \in Seq(Numbers) /\ d \in Seq(Numbers)
      BY <2>3, DueIs, Zenon
    <3> QED BY <3>1, <3>2
  <2>5. Due(resps', j) = IF h.client = j THEN Append(d, h.nr) ELSE d
    BY <1>1, <2>3, DueIs, Zenon
  <2> HIDE DEF x, d
  <2>6. CASE h.client = j
    <3>1. Joined(x, d, h.nr)
      BY <1>6, <2>4, AppendLast
    <3>2. x \o Due(resps', j) = Append(answered[j], h.nr)
      BY <2>1, <2>5, <2>6, <3>1 DEF Joined
    <3>3. answered'[j] = Append(answered[j], h.nr)
      BY <1>1, <1>6, <2>2, <2>6 DEF GInv, Answering
    <3> QED BY <1>9, <3>2, <3>3, Zenon DEF x
  <2>7. CASE h.client # j
    <3>1. answered'[j] = answered[j]
      BY <1>1, <1>6, <2>2, <2>7 DEF GInv, Answering
    <3> QED BY <1>9, <2>1, <2>5, <2>7, <3>1, Zenon DEF x, d
  <2> QED BY <2>6, <2>7
<1>14. Complete'
  BY <1>2, <1>13 DEF Complete, loop
<1> QED BY <1>9, <1>10, <1>12, <1>14 DEF GInv

(* accept(): the new connection has the next id, the next peer and a free  *)
(* descriptor, and nothing has ever been queued for it.                    *)
LEMMA AcceptStep ==
  ASSUME GInv, NEW fd \in Fd \ DOMAIN sock, Accept(fd)
  PROVE  GInv'
<1> DEFINE n == accepted
           k == accepted + 1
           c == [fd |-> fd, state |-> "AwaitingLogin", outbuf |-> << >>, write_enabled |-> FALSE]
           v == [peer |-> k, here |-> TRUE, unread |-> << >>]
           t == State'
<1>1. /\ n \in Nat /\ backlog \in Nat /\ backlog > 0 /\ n + backlog <= MaxPeers
      /\ MaxPeers \in Nat /\ next_client_id = k
  BY GatewayAssumption DEF GInv, Counted, Accept
<1>2. k \in Nat /\ k \in Peer /\ k # 0 /\ n < k
  BY <1>1 DEF Peer
<1>3. << >> \in Seq(Pkt) /\ << >> \in Seq(Msg(k))
  BY EmptySeq
<1>4. c \in Conn(k) /\ v \in Sock /\ v.peer = k /\ c.fd = fd /\ c.outbuf = << >>
      /\ c.write_enabled = FALSE
  BY <1>2, <1>3 DEF Conn, Sock
<1>5. /\ accepted' = k /\ next_client_id' = k + 1 /\ backlog' = backlog - 1
      /\ sock' = With(sock, fd, v) /\ by_fd' = With(by_fd, fd, k) /\ conns' = With(conns, k, c)
      /\ UNCHANGED <<sent, engine, cmds, received, touched, loop>>
  BY <1>1, Zenon DEF Accept, FreshId
<1> HIDE DEF c, v, k
<1>6. /\ IsFn(sock') /\ DOMAIN sock' = DOMAIN sock \cup {fd} /\ sock'[fd] = v
      /\ \A f \in DOMAIN sock : sock'[f] = sock[f]
  BY <1>5, Zenon DEF With, IsFn
<1>7. Good(State, n) /\ Flagged(State, 0) /\ DOMAIN sock = DOMAIN by_fd
  BY StateFields, Zenon DEF GInv, Good, Descriptors
<1>8. /\ IsFn(by_fd') /\ DOMAIN by_fd' = DOMAIN by_fd \cup {fd} /\ by_fd'[fd] = k
      /\ \A f \in DOMAIN by_fd : by_fd'[f] = by_fd[f]
  BY <1>5, <1>7, Zenon DEF With, IsFn
<1>9. k \notin DOMAIN conns /\ DOMAIN conns \subseteq 1 .. n
  BY <1>1, <1>2, <1>7, StateFields DEF Good, Connections
<1>10. /\ IsFn(conns') /\ DOMAIN conns' = DOMAIN conns \cup {k} /\ conns'[k] = c
       /\ \A j \in DOMAIN conns : conns'[j] = conns[j]
  BY <1>5, <1>9 DEF With, IsFn
<1>11. /\ t.conns = conns' /\ t.by_fd = by_fd' /\ t.sock = sock' /\ t.cmds = cmds
       /\ t.received = received /\ Shape(t)
  BY <1>5 DEF State, Shape
<1> HIDE DEF t
<1>12. Connections(t, k)
  <2>1. DOMAIN conns' \subseteq 1 .. k
    BY <1>1, <1>2, <1>9, <1>10
  <2>2. \A j \in DOMAIN conns' : conns'[j] \in Conn(j)
    BY <1>4, <1>7, <1>10, StateFields DEF Good, Connections
  <2> QED BY <1>10, <1>11, <2>1, <2>2 DEF Connections
<1>13. Descriptors(t)
  BY <1>4, <1>6, <1>7, <1>8, <1>11, StateFields, Zenon DEF Good, Descriptors
<1>14. Linked(t)
  <2>1. \A j \in DOMAIN conns :
          /\ conns[j].fd \in DOMAIN by_fd /\ by_fd[conns[j].fd] = j
          /\ sock[conns[j].fd].peer = j
    BY <1>7, StateFields, Zenon DEF Good, Linked
  <2>2. \A f \in DOMAIN by_fd : by_fd[f] \in DOMAIN conns /\ conns[by_fd[f]].fd = f
    BY <1>7, StateFields, Zenon DEF Good, Linked
  <2>3. \A j \in DOMAIN conns' :
          /\ conns'[j].fd \in DOMAIN by_fd' /\ by_fd'[conns'[j].fd] = j
          /\ sock'[conns'[j].fd].peer = j
    <3>1. ASSUME NEW j \in DOMAIN conns
          PROVE  /\ conns'[j].fd \in DOMAIN by_fd' /\ by_fd'[conns'[j].fd] = j
                 /\ sock'[conns'[j].fd].peer = j
      BY <1>6, <1>7, <1>8, <1>10, <2>1, Zenon
    <3>2. /\ conns'[k].fd \in DOMAIN by_fd' /\ by_fd'[conns'[k].fd] = k
          /\ sock'[conns'[k].fd].peer = k
      BY <1>4, <1>6, <1>8, <1>10, Zenon
    <3> QED BY <1>10, <3>1, <3>2, Zenon
  <2>4. \A f \in DOMAIN by_fd' : by_fd'[f] \in DOMAIN conns' /\ conns'[by_fd'[f]].fd = f
    BY <1>4, <1>8, <1>10, <2>2
  <2> QED BY <1>11, <2>3, <2>4, Zenon DEF Linked
<1>15. Delivered(t, k) /\ received[k] = << >>
  <2>1. /\ IsFn(received) /\ DOMAIN received = Peer
        /\ \A p \in Peer : received[p] \in Seq(Msg(p))
        /\ \A p \in Peer : p > n => received[p] = << >>
    BY <1>7, StateFields DEF Good, Delivered
  <2>2. \A p \in Peer : p > k => p > n
    BY <1>1, <1>2 DEF Peer
  <2> QED BY <1>2, <1>11, <2>1, <2>2, Zenon DEF Delivered
<1>16. Cmd(n) \subseteq Cmd(k)
  <2>1. 1 .. n \subseteq 1 .. k
    BY <1>1, <1>2
  <2> QED BY <2>1 DEF Cmd
<1>17. Good(t, k)
  <2>1. t.cmds \in Seq(Cmd(k))
    <3>1. cmds \in Seq(Cmd(n))
      BY <1>7, StateFields DEF Good
    <3> QED BY <1>11, <1>16, <3>1
  <2> QED BY <1>11, <1>12, <1>13, <1>14, <1>15, <2>1 DEF Good
<1>18. Flagged(t, 0)
  <2>1. \A j \in DOMAIN conns :
          /\ conns[j].write_enabled => conns[j].outbuf # << >>
          /\ j # 0 /\ conns[j].outbuf # << >> => conns[j].write_enabled
    BY <1>7, StateFields, Zenon DEF Flagged
  <2>2. c.outbuf = << >> /\ ~c.write_enabled
    BY <1>4
  <2>3. \A j \in DOMAIN conns' :
          /\ conns'[j].write_enabled => conns'[j].outbuf # << >>
          /\ j # 0 /\ conns'[j].outbuf # << >> => conns'[j].write_enabled
    BY <1>10, <2>1, <2>2, Zenon
  <2> QED BY <1>11, <2>3, Zenon DEF Flagged
<1>19. Good(State, accepted)' /\ Flagged(State, 0)'
  BY <1>5, <1>17, <1>18 DEF t
<1>20. Counted'
  BY <1>1, <1>2, <1>5 DEF GInv, Counted, k
<1>21. /\ resps \in Seq(Cmd(n)) /\ pumping \in Seq(Cmd(n)) /\ answered[k] = << >>
       /\ \A p \in Peer : p > k => answered[p] = << >>
  <2>1. \A p \in Peer : p > k => p > n
    BY <1>1, <1>2 DEF Peer
  <2> QED BY <1>2, <2>1, Zenon DEF GInv, Answering
<1>22. Answering'
  <2>1. resps \in Seq(Cmd(k)) /\ pumping \in Seq(Cmd(k))
    BY <1>16, <1>21
  <2> QED BY <1>5, <1>21, <2>1 DEF GInv, Answering, engine, loop
<1>23. Ticking'
  BY <1>5, <1>10 DEF GInv, Ticking, loop
<1>24. \A j \in DOMAIN conns : Told(t, j) = Told(State, j)
  BY <1>10, <1>11, StateFields DEF Told, Out
<1>25. Told(t, k) = << >> /\ Due(pumping, k) = << >> /\ Due(resps, k) = << >>
  <2>1. << >> \o << >> = << >>
    BY <1>3
  <2>2. Out(t, k) = << >>
    BY <1>4, <1>10, <1>11, <1>15, <2>1 DEF Out
  <2>3. Cmd(n) \subseteq {m \in Asked : m.client # k}
    BY <1>1, <1>2 DEF Cmd, Asked
  <2> DEFINE M == {m \in Asked : m.client # k}
  <2> HIDE DEF M
  <2>4. resps \in Seq(M) /\ pumping \in Seq(M)
    BY <1>21, <2>3 DEF M
  <2> QED BY <2>2, <2>4, EngineNrsIs, DueNone DEF Told, M
<1>26. Complete'
  <2>1. (<< >> \o << >>) \o << >> = << >>
    BY <1>3
  <2>2. \A j \in DOMAIN conns' :
          (Told(t, j) \o Due(pumping, j)) \o Due(resps, j) = answered[j]
    BY <1>10, <1>21, <1>24, <1>25, <2>1, Zenon DEF GInv, Complete
  <2> QED BY <1>5, <2>2 DEF Complete, t, engine, loop
<1> QED BY <1>19, <1>20, <1>22, <1>23, <1>26 DEF GInv

(* One turn of tick_sessions. *)
LEMMA TickSessionStep ==
  ASSUME GInv, NEW id \in unticked, TickSession(id)
  PROVE  GInv'
<1>1. /\ accepted \in Nat /\ accepted <= MaxPeers /\ Good(State, accepted)
      /\ Flagged(State, id)
  BY AcceptedBound
<1>2. id \in DOMAIN State.conns
  BY StateFields DEF GInv, Ticking
<1>3. Kept(State, State, id) /\ PeerOf(State, id) = id /\ DOMAIN State.conns \subseteq Peer
  BY <1>1, <1>2, IdIsPeer DEF Kept
<1>4. PICK s \in SessionTick(id) : \E k \in SendResults(s, id) :
        Becomes(ReapIfClosed(Flush(s, id, k), id))
  BY DEF TickSession
<1>5. Good(s, accepted) /\ Flagged(s, id) /\ Kept(State, s, id) /\ id \in DOMAIN s.conns
  <2>1. CASE s = State
    BY <1>1, <1>2, <1>3, <2>1
  <2>2. CASE s = [State EXCEPT !.conns[id].state = "Closed"]
    <3>1. /\ Changes(State, s, id) /\ Good(s, accepted) /\ Flagged(s, id)
          /\ Told(s, id) = Told(State, id)
      BY <1>1, <1>2, <2>2, StateGood, Zenon
    <3>2. Kept(State, s, id)
      BY <1>2, <1>3, <3>1, ChangesKept
    <3> QED BY <1>2, <3>1, <3>2, Zenon DEF Changes
  <2>3. CASE s = Queue(State, id, "heartbeat", id, 0)
    <3>1. /\ Changes(State, s, id) /\ Good(s, accepted) /\ Flagged(s, id)
          /\ Told(s, id) = Told(State, id)
      <4>1. 0 \in Numbers
        BY DEF Numbers
      <4> QED BY <1>1, <1>2, <2>3, <4>1, QueueGood
    <3>2. Kept(State, s, id)
      BY <1>2, <1>3, <3>1, ChangesKept
    <3> QED BY <1>2, <3>1, <3>2, Zenon DEF Changes
  <2> QED BY <1>3, <2>1, <2>2, <2>3 DEF SessionTick
<1>6. PICK k \in SendResults(s, id) : Becomes(ReapIfClosed(Flush(s, id, k), id))
  BY <1>4
<1> DEFINE u == Flush(s, id, k)
           t == ReapIfClosed(u, id)
<1>7. Good(u, accepted) /\ Flagged(u, 0) /\ Kept(s, u, id)
  BY <1>1, <1>5, FlushGood
<1> HIDE DEF u
<1>8. Good(t, accepted) /\ Flagged(t, 0) /\ Kept(u, t, id)
  BY <1>1, <1>7, ReapGood
<1>9. Becomes(t)
  BY <1>6 DEF u
<1> HIDE DEF t
<1>10. Kept(State, t, id)
  BY <1>5, <1>7, <1>8, KeptTrans
<1> QED BY <1>8, <1>9, <1>10, HandlerStep DEF TickSession

(* handle_readable and handle_writable on one connection. *)
LEMMA HandleConnStep ==
  ASSUME GInv, NEW ev, HandleConn(ev)
  PROVE  GInv'
<1> DEFINE fd == ev.fd
           id == by_fd[fd]
           s0 == [State EXCEPT !.sock[fd].unread = << >>]
           fed == Feed(id, s0, sock[fd].unread)
           read == IF ev.r THEN fed ELSE State
           Fine(t) == Good(t, accepted) /\ Flagged(t, 0) /\ Kept(State, t, id)
<1>1. /\ accepted \in Nat /\ accepted <= MaxPeers /\ Good(State, accepted)
      /\ Flagged(State, 0) /\ Flagged(State, id)
  BY AcceptedBound
<1>2. fd \in DOMAIN by_fd /\ pc = "dispatch" /\ pc' = pc
  BY Zenon DEF HandleConn, Take
<1>3. /\ id \in DOMAIN State.conns /\ fd \in DOMAIN sock /\ sock[fd] \in Sock /\ IsFn(sock)
      /\ \A f \in DOMAIN sock : sock[f] \in Sock
  BY <1>1, <1>2, StateFields DEF Good, Linked, Descriptors
<1>4. Good(s0, accepted) /\ Flagged(s0, id) /\ Kept(State, s0, id) /\ s0.by_fd = by_fd
      /\ id \in DOMAIN s0.conns
  <2> DEFINE v == [sock[fd] EXCEPT !.unread = << >>]
             S == [sock EXCEPT ![fd] = v]
  <2>1. << >> \in Seq(Pkt)
    BY EmptySeq
  <2>2. v \in Sock /\ v.peer = sock[fd].peer
    BY <1>3, <2>1, Zenon DEF Sock
  <2>3. s0 = [conns |-> conns, by_fd |-> by_fd, sock |-> S, cmds |-> cmds,
              received |-> received, touched |-> touched]
    BY DEF State
  <2> HIDE DEF v, s0, fd
  <2>4. /\ IsFn(S) /\ DOMAIN S = DOMAIN sock
        /\ \A f \in DOMAIN sock : S[f] \in Sock /\ S[f].peer = sock[f].peer
    BY <1>3, <2>2 DEF IsFn
  <2> HIDE DEF S
  <2> DEFINE s == State
  <2>5. /\ s0.conns = s.conns /\ s0.by_fd = s.by_fd /\ s0.cmds = s.cmds
        /\ s0.received = s.received /\ Shape(s0) /\ s0.sock = S
    BY <2>3, StateFields DEF Shape
  <2>6. /\ IsFn(s0.sock) /\ DOMAIN s0.sock = DOMAIN s.sock
        /\ \A f \in DOMAIN s.sock : s0.sock[f] \in Sock /\ s0.sock[f].peer = s.sock[f].peer
    BY <2>4, <2>5, StateFields
  <2>7. Good(s, accepted) /\ Flagged(s, id)
    BY <1>1
  <2> HIDE DEF s, id
  <2>8. Good(s0, accepted) /\ Flagged(s0, id) /\ Kept(s, s0, id)
    BY <2>5, <2>6, <2>7, SockGood
  <2> QED BY <1>3, <2>5, <2>8, StateFields DEF s
<1>5. sock[fd].unread \in Seq(Pkt)
  BY <1>3 DEF Sock
<1> HIDE DEF s0, id
<1>6. /\ Good(fed, accepted) /\ Flagged(fed, id) /\ Kept(s0, fed, id)
      /\ id \in DOMAIN fed.conns
  BY <1>1, <1>4, <1>5, FeedGood
<1> HIDE DEF fed
<1>7. Kept(State, fed, id)
  BY <1>4, <1>6, KeptTrans
<1>8. CASE ev.r /\ ~sock[fd].here
  <2> DEFINE t == CloseConn(fed, id)
  <2>1. Becomes(t)
    BY <1>8, Zenon DEF HandleConn, fed, Feed, id, s0
  <2>2. /\ Good(t, accepted) /\ Kept(fed, t, id) /\ DOMAIN t.conns = DOMAIN fed.conns \ {id}
        /\ \A j \in DOMAIN t.conns : t.conns[j] = fed.conns[j]
    BY <1>1, <1>6, CloseGood
  <2> HIDE DEF t
  <2>3. Flagged(t, 0)
    BY <1>6, <2>2 DEF Flagged
  <2>4. Kept(State, t, id)
    BY <1>7, <2>2, KeptTrans
  <2> QED BY <1>2, <2>1, <2>2, <2>3, <2>4, HandlerStep, Zenon DEF HandleConn, GInv, Ticking
<1>9. CASE ~(ev.r /\ ~sock[fd].here)
  <2>1. PICK n \in SendResults(read, id), m \in SendResults(read, id) :
          LET s == IF ev.r THEN ReapIfClosed(Flush(read, id, n), id) ELSE State
          IN  IF ev.w /\ ev.fd \in DOMAIN s.by_fd
                THEN m \in SendResults(s, id) /\ Becomes(Flush(s, id, m))
                ELSE m = n /\ Becomes(s)
    BY <1>9, Zenon DEF HandleConn, fed, Feed, id, s0
  <2> DEFINE s == IF ev.r THEN ReapIfClosed(Flush(read, id, n), id) ELSE State
  <2>2. Fine(s)
    <3>1. CASE ev.r
      <4> DEFINE u == Flush(fed, id, n)
      <4>1. Good(u, accepted) /\ Flagged(u, 0) /\ Kept(fed, u, id)
        BY <1>1, <1>6, <2>1, <3>1, FlushGood, Zenon
      <4>2. s = ReapIfClosed(u, id)
        BY <3>1
      <4> HIDE DEF u, s
      <4>3. Good(s, accepted) /\ Flagged(s, 0) /\ Kept(u, s, id)
        BY <1>1, <4>1, <4>2, ReapGood
      <4>4. Kept(State, s, id)
        BY <1>7, <4>1, <4>3, KeptTrans
      <4> QED BY <4>3, <4>4
    <3>2. CASE ~ev.r
      <4>1. Kept(State, State, id)
        BY DEF Kept
      <4> QED BY <1>1, <3>2, <4>1
    <3> QED BY <3>1, <3>2
  <2>3. IF ev.w /\ fd \in DOMAIN s.by_fd
          THEN m \in SendResults(s, id) /\ Becomes(Flush(s, id, m))
          ELSE Becomes(s)
    BY <2>1, Zenon
  <2> HIDE DEF s
  <2>4. PICK t : Fine(t) /\ Becomes(t)
    <3>1. CASE ev.w /\ fd \in DOMAIN s.by_fd
      <4>1. s.by_fd[fd] = id
        BY <2>2, <3>1, StateFields, Zenon DEF Kept, id
      <4>2. id \in DOMAIN s.conns
        BY <2>2, <3>1, <4>1, Zenon DEF Good, Linked
      <4>3. 0 \notin DOMAIN s.conns
        BY <1>1, <2>2 DEF Good, Connections
      <4>4. Flagged(s, id)
        BY <2>2, <4>3 DEF Flagged
      <4> DEFINE t == Flush(s, id, m)
      <4>5. Good(t, accepted) /\ Flagged(t, 0) /\ Kept(s, t, id)
        BY <1>1, <2>2, <2>3, <3>1, <4>2, <4>4, FlushGood, Zenon
      <4>6. Becomes(t)
        BY <2>3, <3>1
      <4> HIDE DEF t
      <4>7. Kept(State, t, id)
        BY <2>2, <4>5, KeptTrans
      <4> QED BY <4>5, <4>6, <4>7
    <3>2. CASE ~(ev.w /\ fd \in DOMAIN s.by_fd)
      BY <2>2, <2>3, <3>2
    <3> QED BY <3>1, <3>2
  <2> QED BY <1>2, <2>4, HandlerStep, Zenon DEF HandleConn, GInv, Ticking
<1> QED BY <1>8, <1>9

(* pump_responses takes the queue: what was due stays due. *)
LEMMA HandleWakeStep ==
  ASSUME GInv, NEW ev, HandleWake(ev)
  PROVE  GInv'
<1>1. /\ pc = "dispatch" /\ pumping' = resps /\ resps' = << >> /\ pc' = "pump"
      /\ UNCHANGED <<peers, next_client_id, answered, handled, unticked>>
  BY DEF HandleWake, Take
<1>2. State' = State /\ accepted' = accepted
  BY <1>1 DEF State, handled, peers
<1>3. Good(State, accepted)' /\ Flagged(State, 0)'
  BY <1>2 DEF GInv
<1>4. Counted' /\ Ticking'
  BY <1>1 DEF GInv, Counted, Ticking, peers, handled
<1>5. << >> \in Seq(Cmd(accepted)) /\ pumping = << >>
  BY <1>1, EmptySeq DEF GInv, Answering
<1>6. Answering'
  BY <1>1, <1>5 DEF GInv, Answering, peers
<1>7. ASSUME NEW j \in DOMAIN conns
      PROVE  (Told(State, j) \o Due(resps, j)) \o Due(<< >>, j) = answered[j]
  <2> DEFINE x == Told(State, j)
             d == Due(resps, j)
  <2>1. accepted \in Nat /\ accepted <= MaxPeers /\ Good(State, accepted)
    BY AcceptedBound
  <2>2. Cmd(accepted) \subseteq Asked
    BY <2>1 DEF Cmd, Asked
  <2>3. resps \in Seq(Asked)
    BY <2>2 DEF GInv, Answering
  <2>4. x \in Seq(Numbers) /\ d \in Seq(Numbers) /\ Due(<< >>, j) = << >>
    BY <2>1, <2>3, OutTyped, DueIs, StateFields, Zenon
  <2>5. (x \o << >>) \o d = answered[j]
    BY <1>5, <2>4, Zenon DEF GInv, Complete
  <2> HIDE DEF x, d
  <2>6. x \o << >> = x /\ (x \o d) \o << >> = x \o d
    BY <2>4
  <2> QED BY <2>4, <2>5, <2>6 DEF x, d
<1>8. Complete'
  BY <1>1, <1>2, <1>7 DEF Complete, handled
<1> QED BY <1>3, <1>4, <1>6, <1>8 DEF GInv

(* One response: queued for its own client and flushed, or dropped. *)
LEMMA PumpResponseStep == ASSUME GInv, PumpResponse PROVE GInv'
<1> DEFINE r == Head(pumping)
           c == r.client
           rest == Tail(pumping)
<1>1. /\ pc = "pump" /\ pumping # << >> /\ pumping' = rest
      /\ UNCHANGED <<peers, next_client_id, engine, pc, events, unticked>>
  BY Zenon DEF PumpResponse
<1>2. /\ accepted \in Nat /\ accepted <= MaxPeers /\ Good(State, accepted)
      /\ Flagged(State, 0) /\ \A j : Flagged(State, j)
  BY AcceptedBound
<1>3. pumping \in Seq(Cmd(accepted)) /\ resps \in Seq(Cmd(accepted))
  BY DEF GInv, Answering
<1>4. r \in Cmd(accepted) /\ rest \in Seq(Cmd(accepted))
  BY <1>1, <1>3
<1>5. Cmd(accepted) \subseteq Asked
  BY <1>2 DEF Cmd, Asked
<1>6. pumping \in Seq(Asked) /\ rest \in Seq(Asked)
  <2> HIDE DEF rest
  <2> QED BY <1>3, <1>4, <1>5
<1>7. r.peer = c /\ r.nr \in Numbers
  <2> HIDE DEF r
  <2> QED BY <1>4 DEF Cmd
<1>8. \A j : /\ Due(pumping, j) = (IF c = j THEN <<r.nr>> ELSE << >>) \o Due(rest, j)
             /\ Due(rest, j) \in Seq(Numbers)
  BY <1>1, <1>6, DueHead, DueIs, Zenon
<1> HIDE DEF r, c, rest
<1>9. \A j \in DOMAIN conns : Told(State, j) \in Seq(Numbers)
  BY <1>2, OutTyped, StateFields
<1>10. PICK t : /\ Good(t, accepted) /\ Flagged(t, 0) /\ State' = t
                /\ DOMAIN State.conns \ {c} \subseteq DOMAIN t.conns
                /\ DOMAIN t.conns \subseteq DOMAIN State.conns
                /\ \A j \in DOMAIN t.conns :
                     Told(t, j) = IF j = c THEN Append(Told(State, j), r.nr) ELSE Told(State, j)
  <2>1. CASE c \in DOMAIN conns
    <3> DEFINE s == Queue(State, c, "engine", c, r.nr)
    <3>1. PICK k \in SendResults(s, c) : Becomes(Flush(s, c, k))
      BY <1>7, <2>1 DEF PumpResponse, r, c
    <3>2. c \in DOMAIN State.conns
      BY <2>1, StateFields
    <3>3. /\ Changes(State, s, c) /\ Good(s, accepted) /\ Flagged(s, c)
          /\ Told(s, c) = Append(Told(State, c), r.nr)
      BY <1>2, <1>7, <3>2, AnswerQueued, Zenon
    <3> HIDE DEF s
    <3> DEFINE t == Flush(s, c, k)
    <3>4. DOMAIN s.conns = DOMAIN State.conns
      BY <3>3, Zenon DEF Changes
    <3>5. Good(t, accepted) /\ Flagged(t, 0) /\ Kept(s, t, c)
      BY <1>2, <3>2, <3>3, <3>4, FlushGood, Zenon
    <3>6. Becomes(t)
      BY <3>1
    <3> HIDE DEF t
    <3>7. State' = t
      BY <3>5, <3>6, BecomesIs DEF Good
    <3>8. ASSUME NEW j \in DOMAIN State.conns, j # c PROVE Told(s, j) = Told(State, j)
      <4>1. j \in Peer
        BY <1>2, IdIsPeer
      <4> QED BY <3>3, <3>8, <4>1 DEF Changes, Told, Out
    <3> QED BY <3>3, <3>4, <3>5, <3>7, <3>8, Zenon DEF Kept
  <2>2. CASE c \notin DOMAIN conns
    <3>1. State' = State
      BY <2>2, Zenon DEF PumpResponse, r, c, State, handled
    <3> QED BY <1>2, <2>2, <3>1, StateFields
  <2> QED BY <2>1, <2>2
<1>11. accepted' = accepted /\ conns' = t.conns
  <2>1. (State.conns = conns)'
    BY DEF State
  <2> QED BY <1>1, <1>10, <2>1 DEF peers
<1>12. Good(State, accepted)' /\ Flagged(State, 0)'
  BY <1>10, <1>11
<1>13. Counted'
  BY <1>1 DEF GInv, Counted, peers
<1>14. Answering'
  BY <1>1, <1>4, <1>11 DEF GInv, Answering, engine, rest
<1>15. Ticking'
  BY <1>1 DEF GInv, Ticking
<1>16. ASSUME NEW j \in DOMAIN conns'
       PROVE  (Told(t, j) \o Due(rest, j)) \o Due(resps, j) = answered[j]
  <2>1. j \in DOMAIN conns /\ j \in DOMAIN t.conns
    BY <1>10, <1>11, <1>16, StateFields
  <2>2. (Told(State, j) \o Due(pumping, j)) \o Due(resps, j) = answered[j]
    BY <2>1 DEF GInv, Complete
  <2> DEFINE x == Told(State, j)
             d == Due(rest, j)
  <2>3. x \in Seq(Numbers) /\ d \in Seq(Numbers)
    BY <1>8, <1>9, <2>1
  <2>4. /\ Told(t, j) = IF j = c THEN Append(x, r.nr) ELSE x
        /\ Due(pumping, j) = (IF c = j THEN <<r.nr>> ELSE << >>) \o d
    BY <1>8, <1>10, <2>1
  <2> HIDE DEF x, d
  <2>5. Told(t, j) \o d = x \o Due(pumping, j)
    <3>1. CASE j = c
      <4>1. Bridged(x, r.nr, d)
        BY <1>7, <2>3, AppendFirst
      <4> QED BY <2>4, <3>1, <4>1 DEF Bridged
    <3>2. CASE j # c
      <4>1. << >> \o d = d
        BY <2>3
      <4> QED BY <2>4, <3>2, <4>1
    <3> QED BY <3>1, <3>2
  <2> QED BY <2>2, <2>5 DEF x, d
<1>17. Complete'
  BY <1>1, <1>10, <1>16 DEF Complete, engine
<1> QED BY <1>12, <1>13, <1>14, <1>15, <1>17 DEF GInv

(* Every step keeps the invariant. *)
LEMMA StepGInv == GInv /\ [Next]_vars => GInv'
<1> SUFFICES ASSUME GInv, [Next]_vars PROVE GInv'
  OBVIOUS
<1>1. CASE Connect
  BY <1>1, ConnectStep
<1>2. CASE EngineAnswers
  BY <1>2, EngineAnswersStep
<1>3. ASSUME NEW fd \in DOMAIN sock, PeerLeaves(fd) PROVE GInv'
  BY <1>3, PeerLeavesStep
<1>4. ASSUME NEW fd \in DOMAIN sock, NEW t \in Packets, PeerSends(fd, t) PROVE GInv'
  BY <1>4, PeerSendsStep
<1>5. CASE Poll
  <2>1. Ticking' /\ (pc' # "pump" => pumping = << >>)
    BY <1>5 DEF GInv, Ticking, Answering, Poll, handled
  <2> QED BY <1>5, <2>1, QuietStep DEF Poll
<1>6. CASE TicksDone \/ EndRound \/ AcceptFails \/ PumpDone
  <2>1. /\ UNCHANGED <<peers, next_client_id, engine, handled, unticked, pumping>>
        /\ unticked = {} /\ pumping = << >>
    BY <1>6 DEF GInv, Ticking, Answering, TicksDone, EndRound, AcceptFails, PumpDone
  <2>2. Ticking'
    BY <2>1 DEF Ticking
  <2> QED BY <2>1, <2>2, QuietStep
<1>7. CASE PumpResponse
  BY <1>7, PumpResponseStep
<1>8. ASSUME NEW id \in unticked, TickSession(id) PROVE GInv'
  BY <1>8, TickSessionStep
<1>9. ASSUME NEW fd \in Fd \ DOMAIN sock, Accept(fd) PROVE GInv'
  BY <1>9, AcceptStep
<1>10. ASSUME NEW ev \in events, HandleAccept(ev) \/ HandleStale(ev) PROVE GInv'
  <2>1. /\ UNCHANGED <<peers, next_client_id, engine, handled, unticked, pumping>>
        /\ unticked = {} /\ pumping = << >>
    BY <1>10 DEF GInv, Ticking, Answering, HandleAccept, HandleStale, Take
  <2>2. Ticking'
    BY <2>1 DEF Ticking
  <2> QED BY <2>1, <2>2, QuietStep
<1>11. ASSUME NEW ev \in events, HandleConn(ev) PROVE GInv'
  BY <1>11, HandleConnStep
<1>12. ASSUME NEW ev \in events, HandleWake(ev) PROVE GInv'
  BY <1>12, HandleWakeStep
<1>13. CASE UNCHANGED vars
  <2>1. Ticking' /\ (pc' # "pump" => pumping = << >>)
    BY <1>13 DEF GInv, Ticking, Answering, vars, handled, loop
  <2> QED BY <1>13, <2>1, QuietStep DEF vars, loop
<1>14. CASE Gateway
  BY <1>5, <1>6, <1>7, <1>8, <1>9, <1>10, <1>11, <1>12, <1>14 DEF Gateway
<1> QED BY <1>1, <1>2, <1>3, <1>4, <1>13, <1>14 DEF Next

(***************************************************************************)
(* The handlers of Gateway::run keep the connections, the descriptors, the *)
(* write filters and the answers on their way consistent with each other,  *)
(* for any number of peers, descriptors and packets.                       *)
(***************************************************************************)
THEOREM Invariance == Spec => []GInv
<1> QED BY InitGInv, StepGInv, PTL DEF Spec

(***************************************************************************)
(* conns_ and by_fd_ name the same connections, and exactly the open       *)
(* descriptors, whatever accept, close_conn and a failing send() do: no    *)
(* descriptor leaks and none leads to a destroyed connection.              *)
(***************************************************************************)
THEOREM MapsAgreeThm == Spec => []MapsAgree
<1>1. ASSUME GInv PROVE MapsAgree
  <2>1. /\ \A j \in DOMAIN conns : conns[j].fd \in DOMAIN by_fd /\ by_fd[conns[j].fd] = j
        /\ \A fd \in DOMAIN by_fd : by_fd[fd] \in DOMAIN conns /\ conns[by_fd[fd]].fd = fd
        /\ DOMAIN sock = DOMAIN by_fd
    BY <1>1, StateFields DEF GInv, Good, Linked, Descriptors
  <2>2. DOMAIN by_fd = {conns[id].fd : id \in DOMAIN conns}
    BY <2>1, Zenon
  <2> QED BY <2>1, <2>2 DEF MapsAgree
<1> QED BY <1>1, Invariance, PTL

(***************************************************************************)
(* What pump_responses, handle_ouch and tick() queue and flush() sends     *)
(* belongs to the peer of the connection: a response that outlived its     *)
(* connection never reaches whoever got the descriptor next.               *)
(***************************************************************************)
THEOREM OwnAnswersOnlyThm == Spec => []OwnAnswersOnly
<1>1. ASSUME GInv PROVE OwnAnswersOnly
  <2>1. accepted \in Nat /\ accepted <= MaxPeers /\ Good(State, accepted)
    BY <1>1, AcceptedBound
  <2>2. ASSUME NEW id \in DOMAIN conns, NEW i \in DOMAIN conns[id].outbuf
        PROVE  conns[id].outbuf[i].peer = PeerOf(State, id)
    <3>1. PeerOf(State, id) = id /\ conns[id].outbuf \in Seq(Msg(id))
      BY <2>1, IdIsPeer, StateFields DEF Conn
    <3> DEFINE q == conns[id].outbuf
    <3> HIDE DEF q
    <3>2. q[i] \in Msg(id)
      BY <3>1 DEF q
    <3> QED BY <3>1, <3>2 DEF q, Msg
  <2>3. ASSUME NEW p \in Peer, NEW i \in DOMAIN received[p]
        PROVE  received[p][i].peer = p
    <3>1. received[p] \in Seq(Msg(p))
      BY <2>1, StateFields DEF Good, Delivered
    <3>2. received[p][i] \in Msg(p)
      BY <3>1
    <3> QED BY <3>2 DEF Msg
  <2> QED BY <2>2, <2>3 DEF OwnAnswersOnly
<1> QED BY <1>1, Invariance, PTL

(***************************************************************************)
(* While a connection lives, what it was sent, what waits in its output    *)
(* and what is on its way are together exactly the engine's answers to it, *)
(* in order and once each, and the write filter is set exactly while       *)
(* output waits: through short writes, full socket buffers, wake-ups and   *)
(* the closing of other connections.                                       *)
(***************************************************************************)
THEOREM NoAnswerLostThm == Spec => []NoAnswerLost
<1>1. ASSUME GInv PROVE NoAnswerLost
  <2>1. accepted \in Nat /\ accepted <= MaxPeers /\ Good(State, accepted) /\ Flagged(State, 0)
    BY <1>1, AcceptedBound
  <2>2. ASSUME NEW id \in DOMAIN conns
        PROVE  LET p == PeerOf(State, id)
               IN  /\ EngineNrs(received[p] \o conns[id].outbuf)
                        \o Due(pumping, id) \o Due(resps, id) = answered[p]
                   /\ conns[id].write_enabled <=> conns[id].outbuf # << >>
    <3>1. PeerOf(State, id) = id /\ id # 0
      BY <2>1, IdIsPeer, StateFields
    <3>2. (Told(State, id) \o Due(pumping, id)) \o Due(resps, id) = answered[id]
      BY <1>1 DEF GInv, Complete
    <3>3. Told(State, id) = EngineNrs(received[id] \o conns[id].outbuf)
      BY StateFields DEF Told, Out
    <3>4. conns[id].write_enabled <=> conns[id].outbuf # << >>
      BY <2>1, <3>1, StateFields DEF Flagged
    <3> QED BY <3>1, <3>2, <3>3, <3>4
  <2> QED BY <2>2 DEF NoAnswerLost
<1> QED BY <1>1, Invariance, PTL

============================================================================
