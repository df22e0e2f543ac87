-------------------------- MODULE OrderBookProofs --------------------------
(***************************************************************************)
(* Proofs about OrderBook for any ids, prices, quantities and Qty width.   *)
(*                                                                         *)
(* No book invariant is inductive alone: a fill reads the order at the     *)
(* front of the best level, which exists only if levels and order map      *)
(* agree; and what is left of the incoming order may rest only because     *)
(* the loop ended with nothing to cross and its id is in no map.  IInv     *)
(* puts these facts together.                                              *)
(***************************************************************************)
EXTENDS OrderBook, FoldLemmas

GoodBook(b) == BookTyped(b) /\ Consistent(b) /\ Uncrossed(b)

(* The order being matched: not indexed, and its fills never exceed a Qty. *)
GoodTaker(t, b) ==
  /\ t \in TakerRec
  /\ t.qty + t.filled \in Qty
  /\ t.id \notin DOMAIN b.order

IInv ==
  /\ GoodBook(book)
  /\ taker = NoTaker \/ GoodTaker(taker, book)
  /\ ret \in ResultRec

----------------------------------------------------------------------------

(* Arithmetic on Qty stays in Qty. *)
LEMMA ModInQty ==
  ASSUME NEW n \in Int
  PROVE  n % QtyMod \in Qty
BY QtyModAssumption DEF Qty

(***************************************************************************)
(* What std::list::erase does to a level's queue: the entries before the   *)
(* erased one stay, the ones behind it move up by one.                     *)
(***************************************************************************)
LEMMA RemoveFirstIs ==
  ASSUME NEW S, NEW q \in Seq(S), Distinct(q), NEW i \in 1 .. Len(q)
  PROVE  LET r == RemoveFirst(q, q[i])
         IN /\ r \in Seq(S)
            /\ Len(r) = Len(q) - 1
            /\ \A j \in 1 .. Len(q) - 1 : r[j] = IF j < i THEN q[j] ELSE q[j + 1]
<1> DEFINE I == {j \in 1 .. Len(q) : q[j] = q[i]}
<1>1. I = {i}
  BY DEF Distinct
<1>2. Min(I) = i
  BY <1>1 DEF Min
<1>3. SelectInSeq(q, LAMBDA v : v = q[i]) = i
  BY <1>1, <1>2 DEF SelectInSeq
<1>4. RemoveFirst(q, q[i]) = SubSeq(q, 1, i - 1) \o SubSeq(q, i + 1, Len(q))
  BY <1>3 DEF RemoveFirst, RemoveAt
<1> DEFINE a == SubSeq(q, 1, i - 1)
           b == SubSeq(q, i + 1, Len(q))
<1>5. a \in Seq(S) /\ Len(a) = i - 1 /\ \A j \in 1 .. i - 1 : a[j] = q[j]
  OBVIOUS
<1>6. b \in Seq(S) /\ Len(b) = Len(q) - i /\ \A j \in 1 .. Len(q) - i : b[j] = q[i + j]
  OBVIOUS
<1>7. RemoveFirst(q, q[i]) = a \o b
  BY <1>4
<1> HIDE DEF a, b
<1>8. a \o b \in Seq(S) /\ Len(a \o b) = Len(q) - 1
  <2>1. a \o b \in Seq(S) /\ Len(a \o b) = Len(a) + Len(b)
    BY <1>5, <1>6, ConcatProperties
  <2>2. Len(q) \in Nat /\ i \in Nat
    OBVIOUS
  <2>3. (i - 1) + (Len(q) - i) = Len(q) - 1
    BY <2>2
  <2> QED BY <1>5, <1>6, <2>1, <2>3
<1>9. ASSUME NEW j \in 1 .. Len(q) - 1
      PROVE  (a \o b)[j] = IF j < i THEN q[j] ELSE q[j + 1]
  <2>1. CASE j < i
    BY <1>5, <1>6, <2>1
  <2>2. CASE ~(j < i)
    <3>1. (a \o b)[j] = b[j - Len(a)]
      BY <1>5, <1>6, <2>2
    <3>2. j - Len(a) \in 1 .. Len(q) - i /\ i + (j - Len(a)) = j + 1
      BY <1>5, <2>2
    <3> QED BY <1>6, <2>2, <3>1, <3>2
  <2> QED BY <2>1, <2>2
<1> QED BY <1>7, <1>8, <1>9

(* PricesOf is the set of prices whose level exists on the side. *)
LEMMA PriceHasLevel ==
  ASSUME NEW b, BookTyped(b), NEW side \in Side
  PROVE  /\ \A p : p \in PricesOf(b, side) <=> <<side, p>> \in DOMAIN b.level
         /\ PricesOf(b, side) \in SUBSET ValidPrice
<1>1. \A k \in DOMAIN b.level : k = <<k[1], k[2]>> /\ k[1] \in Side /\ k[2] \in ValidPrice
  BY DEF BookTyped, IsPartialFn
<1> QED BY <1>1 DEF PricesOf

(* begin() of a side's map is its best price. *)
LEMMA BestIsBest ==
  ASSUME NEW b, BookTyped(b), NEW side \in Side, PricesOf(b, side) # {}
  PROVE  /\ BestOf(b, side) \in PricesOf(b, side)
         /\ \A p \in PricesOf(b, side) :
              IF side = "Buy" THEN BestOf(b, side) >= p ELSE BestOf(b, side) <= p
<1> DEFINE S == PricesOf(b, side)
<1>1. S \in SUBSET ValidPrice
  BY PriceHasLevel
<1>2. PICK top \in Nat : \A p \in Prices : p <= top
  <2>1. PICK m \in Prices \cup {0} : m >= 0 /\ \A p \in Prices : p <= m
    BY PricesAssumption
  <2>2. m \in Nat
    BY <2>1, PricesAssumption
  <2> QED BY <2>1, <2>2
<1>3. S \in SUBSET Nat /\ \A p \in S : p <= top
  <2>1. \A p \in ValidPrice : p \in Nat /\ p <= top
    BY <1>2, PricesAssumption DEF ValidPrice
  <2> QED BY <1>1, <2>1
<1> HIDE DEF S
<1>4. Min(S) \in S /\ \A y \in S : Min(S) <= y
  BY <1>3, MinOfNats DEF S
<1>5. Max(S) \in S /\ \A y \in S : Max(S) >= y
  BY <1>3, MaxOfNats DEF S
<1> QED BY <1>4, <1>5 DEF BestOf, S

(* An order the best opposite price does not cross is crossed by none. *)
LEMMA NoneCross ==
  ASSUME NEW b, BookTyped(b), NEW side \in Side, NEW price \in ValidPrice,
         ~WouldCross(b, side, price)
  PROVE  \A p \in PricesOf(b, Opposite(side)) : ~Crosses(side, price, p)
<1> SUFFICES ASSUME NEW p \in PricesOf(b, Opposite(side))
             PROVE  ~Crosses(side, price, p)
  OBVIOUS
<1> DEFINE other == Opposite(side)
           best  == BestOf(b, other)
<1>1. other \in Side /\ (other = "Buy" <=> side # "Buy")
  BY DEF Side, Opposite
<1>2. /\ best \in PricesOf(b, other)
      /\ IF other = "Buy" THEN best >= p ELSE best <= p
  BY <1>1, BestIsBest
<1>3. best \in Int /\ p \in Int /\ price \in Int
  BY <1>1, <1>2, PriceHasLevel, PricesAssumption DEF ValidPrice
<1>4. ~Crosses(side, price, best)
  BY DEF WouldCross
<1> QED BY <1>1, <1>2, <1>3, <1>4 DEF Crosses

(* LevelAt is a typed level; a queue it returns holds ids of the index. *)
LEMMA LevelAtTyped ==
  ASSUME NEW b, BookTyped(b), QueuesIndexed(b), NEW k
  PROVE  LET lv == LevelAt(b, k)
         IN /\ lv \in LevelRec
            /\ Distinct(lv.queue)
            /\ \A i \in 1 .. Len(lv.queue) :
                 lv.queue[i] \in DOMAIN b.order /\ Key(b.order[lv.queue[i]]) = k
<1>1. CASE k \in DOMAIN b.level
  BY <1>1 DEF LevelAt, BookTyped, IsPartialFn, QueuesIndexed
<1>2. CASE k \notin DOMAIN b.level
  <2>1. LevelAt(b, k) = [total |-> 0, queue |-> << >>]
    BY <1>2 DEF LevelAt, EmptyLevel
  <2>2. 0 \in Qty /\ << >> \in Seq(OrderId) /\ Len(<< >>) = 0
    BY QtyModAssumption DEF Qty
  <2> QED BY <2>1, <2>2 DEF LevelRec, Distinct
<1> QED BY <1>1, <1>2

(* rest keeps a book well formed when the resting price crosses nothing. *)
LEMMA RestGood ==
  ASSUME NEW b, GoodBook(b), NEW id \in OrderId, id \notin DOMAIN b.order,
         NEW side \in Side, NEW price \in ValidPrice, NEW qty \in Qty \ {0},
         ~WouldCross(b, side, price)
  PROVE  GoodBook(Rest(b, id, side, price, qty))
<1> DEFINE k  == <<side, price>>
           lv == LevelAt(b, k)
           n  == Rest(b, id, side, price, qty)
           nl == [total |-> (lv.total + qty) % QtyMod, queue |-> Append(lv.queue, id)]
           no == [side |-> side, price |-> price, open |-> qty]
<1>1. /\ lv \in LevelRec
      /\ Distinct(lv.queue)
      /\ \A i \in 1 .. Len(lv.queue) :
           lv.queue[i] \in DOMAIN b.order /\ Key(b.order[lv.queue[i]]) = k
  BY LevelAtTyped DEF GoodBook, Consistent
<1>2. /\ n = [level |-> Put(b.level, k, nl), order |-> Put(b.order, id, no)]
      /\ n.level = Put(b.level, k, nl)
      /\ n.order = Put(b.order, id, no)
  BY DEF Rest
<1>3. /\ DOMAIN n.level = DOMAIN b.level \cup {k}
      /\ n.level[k] = nl
      /\ \A x \in DOMAIN b.level \ {k} : n.level[x] = b.level[x]
  BY <1>2 DEF Put
<1>4. /\ DOMAIN n.order = DOMAIN b.order \cup {id}
      /\ n.order[id] = no
      /\ \A x \in DOMAIN b.order : x # id /\ n.order[x] = b.order[x]
  BY <1>2 DEF Put
<1>5. k \in Side \X ValidPrice /\ nl \in LevelRec /\ no \in OrderRec /\ Key(no) = k
  <2>1. lv.total + qty \in Int
    BY <1>1 DEF LevelRec, Qty
  <2>2. (lv.total + qty) % QtyMod \in Qty
    BY <2>1, ModInQty
  <2>3. Append(lv.queue, id) \in Seq(OrderId)
    BY <1>1 DEF LevelRec
  <2> QED BY <2>2, <2>3 DEF LevelRec, OrderRec, Key
<1>6. /\ nl.queue = Append(lv.queue, id)
      /\ lv.queue \in Seq(OrderId)
      /\ Len(nl.queue) = Len(lv.queue) + 1
      /\ nl.queue[Len(lv.queue) + 1] = id
      /\ \A i \in 1 .. Len(lv.queue) : nl.queue[i] = lv.queue[i]
  BY <1>1 DEF LevelRec
<1>7. k \in DOMAIN b.level => lv = b.level[k]
  BY DEF LevelAt
<1> HIDE DEF n, nl, no, lv, k
<1>8. BookTyped(n)
  <2>1. n.level \in [DOMAIN n.level -> LevelRec] /\ DOMAIN n.level \subseteq Side \X ValidPrice
    BY <1>2, <1>3, <1>5 DEF GoodBook, BookTyped, IsPartialFn, Put
  <2>2. n.order \in [DOMAIN n.order -> OrderRec] /\ DOMAIN n.order \subseteq OrderId
    BY <1>2, <1>4, <1>5 DEF GoodBook, BookTyped, IsPartialFn, Put
  <2> QED BY <1>2, <2>1, <2>2 DEF BookTyped, IsPartialFn
<1>9. QueuesIndexed(n)
  <2> SUFFICES ASSUME NEW x \in DOMAIN n.level
               PROVE  /\ n.level[x].queue # << >>
                      /\ Distinct(n.level[x].queue)
                      /\ \A i \in 1 .. Len(n.level[x].queue) :
                           /\ n.level[x].queue[i] \in DOMAIN n.order
                           /\ Key(n.order[n.level[x].queue[i]]) = x
    BY DEF QueuesIndexed
  <2>1. CASE x = k
    <3>1. nl.queue # << >>
      BY <1>6
    <3>2. \A i \in 1 .. Len(lv.queue) : lv.queue[i] # id
      BY <1>1
    <3>3. Distinct(nl.queue)
      <4> SUFFICES ASSUME NEW i \in 1 .. Len(nl.queue), NEW j \in 1 .. Len(nl.queue),
                          nl.queue[i] = nl.queue[j]
                   PROVE  i = j
        BY DEF Distinct
      <4>1. \A m \in 1 .. Len(nl.queue) :
              \/ m \in 1 .. Len(lv.queue) /\ nl.queue[m] = lv.queue[m] /\ nl.queue[m] # id
              \/ m = Len(lv.queue) + 1 /\ nl.queue[m] = id
        BY <1>6, <3>2
      <4>2. CASE i \in 1 .. Len(lv.queue) /\ j \in 1 .. Len(lv.queue)
        BY <1>1, <1>6, <4>2 DEF Distinct
      <4> QED BY <4>1, <4>2
    <3>4. \A i \in 1 .. Len(nl.queue) :
            nl.queue[i] \in DOMAIN n.order /\ Key(n.order[nl.queue[i]]) = k
      BY <1>1, <1>4, <1>5, <1>6
    <3> QED BY <1>3, <2>1, <3>1, <3>3, <3>4
  <2>2. CASE x # k
    BY <1>3, <1>4, <2>2 DEF GoodBook, Consistent, QueuesIndexed
  <2> QED BY <2>1, <2>2
<1>10. OrdersQueued(n)
  <2> SUFFICES ASSUME NEW x \in DOMAIN n.order
               PROVE  /\ n.order[x].open > 0
                      /\ Key(n.order[x]) \in DOMAIN n.level
                      /\ \E i \in 1 .. Len(n.level[Key(n.order[x])].queue) :
                           n.level[Key(n.order[x])].queue[i] = x
    BY DEF OrdersQueued
  <2>1. CASE x = id
    <3>1. n.order[x].open > 0
      BY <1>4, <2>1 DEF no, Qty
    <3>2. Len(lv.queue) + 1 \in 1 .. Len(nl.queue)
      BY <1>6
    <3> QED BY <1>3, <1>4, <1>5, <1>6, <2>1, <3>1, <3>2
  <2>2. CASE x # id
    <3>1. /\ x \in DOMAIN b.order
          /\ n.order[x] = b.order[x]
          /\ b.order[x].open > 0
          /\ Key(b.order[x]) \in DOMAIN b.level
      BY <1>4, <2>2 DEF GoodBook, Consistent, OrdersQueued
    <3>2. PICK i \in 1 .. Len(b.level[Key(b.order[x])].queue) :
            b.level[Key(b.order[x])].queue[i] = x
      BY <3>1 DEF GoodBook, Consistent, OrdersQueued
    <3>3. CASE Key(b.order[x]) = k
      <4>1. i \in 1 .. Len(nl.queue) /\ nl.queue[i] = x
        BY <1>6, <1>7, <3>1, <3>2, <3>3
      <4> QED BY <1>3, <3>1, <3>3, <4>1
    <3>4. CASE Key(b.order[x]) # k
      BY <1>3, <3>1, <3>2, <3>4
    <3> QED BY <3>3, <3>4
  <2> QED BY <2>1, <2>2
<1>11. Uncrossed(n)
  <2> SUFFICES ASSUME NEW bid \in PricesOf(n, "Buy"), NEW ask \in PricesOf(n, "Sell")
               PROVE  bid < ask
    BY DEF Uncrossed
  <2>1. "Buy" \in Side /\ "Sell" \in Side
    BY DEF Side
  <2>2. <<"Buy", bid>> \in DOMAIN n.level /\ <<"Sell", ask>> \in DOMAIN n.level
    BY <1>8, <2>1, PriceHasLevel
  <2>3. bid \in Int /\ ask \in Int /\ price \in Int
    BY <1>8, <2>1, PriceHasLevel, PricesAssumption DEF ValidPrice
  <2>4. CASE <<"Buy", bid>> \in DOMAIN b.level /\ <<"Sell", ask>> \in DOMAIN b.level
    BY <2>1, <2>4, PriceHasLevel DEF GoodBook, Uncrossed
  <2>5. CASE <<"Buy", bid>> \notin DOMAIN b.level
    <3>1. side = "Buy" /\ bid = price
      BY <1>3, <2>2, <2>5 DEF k
    <3>2. <<"Sell", ask>> \in DOMAIN b.level
      BY <1>3, <2>2, <3>1 DEF k
    <3>3. ask \in PricesOf(b, Opposite(side))
      BY <2>1, <3>1, <3>2, PriceHasLevel DEF Opposite, GoodBook
    <3>4. ~Crosses(side, price, ask)
      BY <3>3, NoneCross DEF GoodBook
    <3> QED BY <2>3, <3>1, <3>4 DEF Crosses
  <2>6. CASE <<"Sell", ask>> \notin DOMAIN b.level
    <3>1. side = "Sell" /\ ask = price
      BY <1>3, <2>2, <2>6 DEF k
    <3>2. <<"Buy", bid>> \in DOMAIN b.level
      BY <1>3, <2>2, <3>1 DEF k
    <3>3. bid \in PricesOf(b, Opposite(side))
      BY <2>1, <3>1, <3>2, PriceHasLevel DEF Opposite, GoodBook
    <3>4. ~Crosses(side, price, bid)
      BY <3>3, NoneCross DEF GoodBook
    <3> QED BY <2>3, <3>1, <3>4 DEF Crosses
  <2> QED BY <2>4, <2>5, <2>6
<1> QED BY <1>8, <1>9, <1>10, <1>11 DEF GoodBook, Consistent, n

(* A book whose levels are among those of an uncrossed book is uncrossed. *)
LEMMA FewerLevelsUncrossed ==
  ASSUME NEW b, NEW n, BookTyped(b), BookTyped(n), Uncrossed(b),
         DOMAIN n.level \subseteq DOMAIN b.level
  PROVE  Uncrossed(n)
<1>1. "Buy" \in Side /\ "Sell" \in Side
  BY DEF Side
<1>2. \A side \in Side : PricesOf(n, side) \subseteq PricesOf(b, side)
  BY PriceHasLevel
<1> QED BY <1>1, <1>2 DEF Uncrossed

(* remove keeps a book well formed and takes only the one id out of it. *)
LEMMA RemoveGood ==
  ASSUME NEW b, GoodBook(b), NEW id \in DOMAIN b.order
  PROVE  /\ GoodBook(RemoveOrder(b, id))
         /\ DOMAIN RemoveOrder(b, id).order = DOMAIN b.order \ {id}
<1> DEFINE k  == Key(b.order[id])
           q  == b.level[k].queue
           r  == RemoveFirst(q, id)
           n  == RemoveOrder(b, id)
           nl == [total |-> (b.level[k].total - b.order[id].open) % QtyMod, queue |-> r]
<1>1. /\ b.order[id] \in OrderRec
      /\ k \in DOMAIN b.level
      /\ k \in Side \X ValidPrice
      /\ b.level[k] \in LevelRec
      /\ q \in Seq(OrderId)
      /\ Distinct(q)
  BY DEF GoodBook, BookTyped, IsPartialFn, Consistent, OrdersQueued, QueuesIndexed, LevelRec
<1>2. PICK at \in 1 .. Len(q) : q[at] = id
  BY DEF GoodBook, Consistent, OrdersQueued
<1>3. /\ r \in Seq(OrderId)
      /\ Len(r) = Len(q) - 1
      /\ \A j \in 1 .. Len(q) - 1 : r[j] = IF j < at THEN q[j] ELSE q[j + 1]
  <2> HIDE DEF q
  <2>1. r = RemoveFirst(q, q[at])
    BY <1>2
  <2> DEFINE rr == RemoveFirst(q, q[at])
  <2>2. /\ rr \in Seq(OrderId)
        /\ Len(rr) = Len(q) - 1
        /\ \A j \in 1 .. Len(q) - 1 : rr[j] = IF j < at THEN q[j] ELSE q[j + 1]
    BY <1>1, RemoveFirstIs
  <2> HIDE DEF r, rr
  <2> QED BY <2>1, <2>2 DEF rr
<1>4. /\ n.order = Drop(b.order, id)
      /\ n.level = IF r = << >> THEN Drop(b.level, k) ELSE Put(b.level, k, nl)
      /\ n = [level |-> n.level, order |-> n.order]
  BY DEF RemoveOrder
<1>5. /\ DOMAIN n.order = DOMAIN b.order \ {id}
      /\ \A x \in DOMAIN n.order : n.order[x] = b.order[x]
  BY <1>4 DEF Drop
<1>6. /\ DOMAIN n.level \subseteq DOMAIN b.level
      /\ \A x \in DOMAIN b.level \ {k} : x \in DOMAIN n.level /\ n.level[x] = b.level[x]
      /\ r # << >> => k \in DOMAIN n.level /\ n.level[k] = nl
      /\ r = << >> => k \notin DOMAIN n.level
  BY <1>1, <1>4 DEF Drop, Put
<1>7. nl \in LevelRec /\ nl.queue = r
  <2>1. b.level[k].total - b.order[id].open \in Int
    BY <1>1 DEF LevelRec, OrderRec, Qty
  <2>2. (b.level[k].total - b.order[id].open) % QtyMod \in Qty
    BY <2>1, ModInQty
  <2> QED BY <1>3, <2>2 DEF LevelRec
<1> HIDE DEF n, nl, r
<1>8. \A j \in 1 .. Len(r) : \E i \in 1 .. Len(q) : i # at /\ r[j] = q[i]
  <2> SUFFICES ASSUME NEW j \in 1 .. Len(r)
               PROVE  \E i \in 1 .. Len(q) : i # at /\ r[j] = q[i]
    OBVIOUS
  <2> HIDE DEF q
  <2>1. CASE j < at
    <3>1. j \in 1 .. Len(q) - 1 /\ j \in 1 .. Len(q) /\ j # at
      BY <1>1, <1>3, <2>1
    <3> QED BY <1>3, <2>1, <3>1
  <2>2. CASE ~(j < at)
    <3>1. j + 1 \in 1 .. Len(q) /\ j + 1 # at /\ r[j] = q[j + 1]
      BY <1>1, <1>3, <2>2
    <3> QED BY <3>1
  <2> QED BY <2>1, <2>2
<1>9. \A i \in 1 .. Len(q) : i # at => \E j \in 1 .. Len(r) : r[j] = q[i]
  <2> SUFFICES ASSUME NEW i \in 1 .. Len(q), i # at
               PROVE  \E j \in 1 .. Len(r) : r[j] = q[i]
    OBVIOUS
  <2> HIDE DEF q
  <2>1. CASE i < at
    <3>1. i \in 1 .. Len(r) /\ r[i] = q[i]
      BY <1>1, <1>3, <2>1
    <3> QED BY <3>1
  <2>2. CASE i > at
    <3>1. i - 1 \in 1 .. Len(q) - 1 /\ ~(i - 1 < at) /\ (i - 1) + 1 = i
      BY <1>1, <2>2
    <3>2. i - 1 \in 1 .. Len(r) /\ r[i - 1] = q[i]
      BY <1>3, <3>1
    <3> QED BY <3>2
  <2> QED BY <1>1, <2>1, <2>2
<1>10. Distinct(r)
  <2> SUFFICES ASSUME NEW i \in 1 .. Len(r), NEW j \in 1 .. Len(r), r[i] = r[j]
               PROVE  i = j
    BY DEF Distinct
  <2> DEFINE up(x) == IF x < at THEN x ELSE x + 1
  <2> HIDE DEF q
  <2>1. Len(q) \in Nat /\ at \in 1 .. Len(q) /\ i \in 1 .. Len(q) - 1 /\ j \in 1 .. Len(q) - 1
    BY <1>1, <1>3
  <2>2. up(i) \in 1 .. Len(q) /\ up(j) \in 1 .. Len(q)
    BY <2>1
  <2>3. r[i] = q[up(i)] /\ r[j] = q[up(j)]
    BY <1>3, <2>1
  <2> HIDE DEF up
  <2>4. up(i) = up(j)
    BY <1>1, <2>2, <2>3 DEF Distinct
  <2> QED BY <2>1, <2>4 DEF up
<1>11. BookTyped(n)
  <2>1. n.level \in [DOMAIN n.level -> LevelRec]
    BY <1>1, <1>4, <1>7 DEF GoodBook, BookTyped, IsPartialFn, Put, Drop
  <2>2. n.order \in [DOMAIN n.order -> OrderRec]
    BY <1>4 DEF GoodBook, BookTyped, IsPartialFn, Drop
  <2>3. DOMAIN n.level \subseteq Side \X ValidPrice /\ DOMAIN n.order \subseteq OrderId
    BY <1>5, <1>6 DEF GoodBook, BookTyped, IsPartialFn
  <2> QED BY <1>4, <2>1, <2>2, <2>3 DEF BookTyped, IsPartialFn
<1>12. QueuesIndexed(n)
  <2> SUFFICES ASSUME NEW x \in DOMAIN n.level
               PROVE  /\ n.level[x].queue # << >>
                      /\ Distinct(n.level[x].queue)
                      /\ \A i \in 1 .. Len(n.level[x].queue) :
                           /\ n.level[x].queue[i] \in DOMAIN n.order
                           /\ Key(n.order[n.level[x].queue[i]]) = x
    BY DEF QueuesIndexed
  <2>1. CASE x = k
    <3>1. r # << >> /\ n.level[x].queue = r
      BY <1>6, <1>7, <2>1
    <3>2. ASSUME NEW j \in 1 .. Len(r)
          PROVE  r[j] \in DOMAIN n.order /\ Key(n.order[r[j]]) = k
      <4>1. PICK i \in 1 .. Len(q) : i # at /\ r[j] = q[i]
        BY <1>8
      <4>2. q[i] # id
        BY <1>1, <1>2, <4>1 DEF Distinct
      <4>3. q[i] \in DOMAIN b.order /\ Key(b.order[q[i]]) = k
        BY <1>1 DEF GoodBook, Consistent, QueuesIndexed
      <4> QED BY <1>5, <4>1, <4>2, <4>3
    <3> QED BY <1>10, <2>1, <3>1, <3>2
  <2>2. CASE x # k
    <3>1. x \in DOMAIN b.level /\ n.level[x] = b.level[x]
      BY <1>6, <2>2
    <3>2. \A i \in 1 .. Len(b.level[x].queue) :
            /\ b.level[x].queue[i] \in DOMAIN b.order
            /\ Key(b.order[b.level[x].queue[i]]) = x
      BY <3>1 DEF GoodBook, Consistent, QueuesIndexed
    <3>3. \A i \in 1 .. Len(b.level[x].queue) : b.level[x].queue[i] # id
      BY <2>2, <3>2
    <3> QED BY <1>5, <3>1, <3>2, <3>3 DEF GoodBook, Consistent, QueuesIndexed
  <2> QED BY <2>1, <2>2
<1>13. OrdersQueued(n)
  <2> SUFFICES ASSUME NEW x \in DOMAIN n.order
               PROVE  /\ n.order[x].open > 0
                      /\ Key(n.order[x]) \in DOMAIN n.level
                      /\ \E i \in 1 .. Len(n.level[Key(n.order[x])].queue) :
                           n.level[Key(n.order[x])].queue[i] = x
    BY DEF OrdersQueued
  <2>1. /\ x \in DOMAIN b.order
        /\ x # id
        /\ n.order[x] = b.order[x]
        /\ b.order[x].open > 0
        /\ Key(b.order[x]) \in DOMAIN b.level
    BY <1>5 DEF GoodBook, Consistent, OrdersQueued
  <2>2. PICK i \in 1 .. Len(b.level[Key(b.order[x])].queue) :
          b.level[Key(b.order[x])].queue[i] = x
    BY <2>1 DEF GoodBook, Consistent, OrdersQueued
  <2>3. CASE Key(b.order[x]) = k
    <3>1. i \in 1 .. Len(q) /\ q[i] = x /\ i # at
      BY <1>2, <2>1, <2>2, <2>3
    <3>2. PICK j \in 1 .. Len(r) : r[j] = x
      BY <1>9, <3>1
    <3>3. r # << >>
      BY <3>2
    <3> QED BY <1>6, <1>7, <2>1, <2>3, <3>2, <3>3
  <2>4. CASE Key(b.order[x]) # k
    BY <1>6, <2>1, <2>2, <2>4
  <2> QED BY <2>3, <2>4
<1>14. Uncrossed(n)
  BY <1>6, <1>11, FewerLevelsUncrossed DEF GoodBook
<1> QED BY <1>5, <1>11, <1>12, <1>13, <1>14 DEF GoodBook, Consistent, n

(* A partial fill or cancel keeps a book well formed, and its ids. *)
LEMMA ReduceGood ==
  ASSUME NEW b, GoodBook(b), NEW id \in DOMAIN b.order, NEW by \in Qty,
         by < b.order[id].open
  PROVE  /\ GoodBook(ReduceOrder(b, id, by))
         /\ DOMAIN ReduceOrder(b, id, by).order = DOMAIN b.order
<1> DEFINE k  == Key(b.order[id])
           n  == ReduceOrder(b, id, by)
<1>1. /\ b.order[id] \in OrderRec
      /\ k \in DOMAIN b.level
      /\ b.level[k] \in LevelRec
  BY DEF GoodBook, BookTyped, IsPartialFn, Consistent, OrdersQueued
<1>2. /\ n.level = [b.level EXCEPT ![k].total = (@ - by) % QtyMod]
      /\ n.order = [b.order EXCEPT ![id].open = @ - by]
      /\ n = [level |-> n.level, order |-> n.order]
  BY DEF ReduceOrder
<1>3. (b.level[k].total - by) % QtyMod \in Qty
  <2>1. b.level[k].total - by \in Int
    BY <1>1 DEF LevelRec, Qty
  <2> QED BY <2>1, ModInQty
<1>4. b.order[id].open - by \in Qty \ {0}
  BY <1>1, QtyModAssumption DEF OrderRec, Qty
<1> HIDE DEF n
<1>5. /\ DOMAIN n.level = DOMAIN b.level
      /\ n.level \in [DOMAIN b.level -> LevelRec]
      /\ \A x \in DOMAIN b.level : n.level[x].queue = b.level[x].queue
  <2>1. b.level \in [DOMAIN b.level -> LevelRec]
    BY DEF GoodBook, BookTyped, IsPartialFn
  <2>2. n.level[k] = [b.level[k] EXCEPT !.total = (b.level[k].total - by) % QtyMod]
    BY <1>1, <1>2
  <2>3. n.level[k] \in LevelRec /\ n.level[k].queue = b.level[k].queue
    BY <1>1, <1>3, <2>2 DEF LevelRec
  <2>4. \A x \in DOMAIN b.level \ {k} : n.level[x] = b.level[x]
    BY <1>2
  <2>5. DOMAIN n.level = DOMAIN b.level
    BY <1>2
  <2> HIDE DEF k
  <2> QED BY <1>2, <2>1, <2>3, <2>4, <2>5
<1>6. /\ DOMAIN n.order = DOMAIN b.order
      /\ n.order \in [DOMAIN b.order -> OrderRec]
      /\ \A x \in DOMAIN b.order : Key(n.order[x]) = Key(b.order[x])
      /\ \A x \in DOMAIN b.order : n.order[x].open > 0
  <2>1. b.order \in [DOMAIN b.order -> OrderRec] /\ \A x \in DOMAIN b.order : b.order[x].open > 0
    BY DEF GoodBook, BookTyped, IsPartialFn, Consistent, OrdersQueued
  <2>2. n.order[id] = [b.order[id] EXCEPT !.open = b.order[id].open - by]
    BY <1>2
  <2>3. n.order[id] \in OrderRec /\ Key(n.order[id]) = k /\ n.order[id].open > 0
    BY <1>1, <1>4, <2>2 DEF OrderRec, Key, Qty
  <2>4. \A x \in DOMAIN b.order \ {id} : n.order[x] = b.order[x]
    BY <1>2
  <2> QED BY <1>2, <2>1, <2>3, <2>4
<1>7. BookTyped(n)
  BY <1>2, <1>5, <1>6 DEF GoodBook, BookTyped, IsPartialFn
<1>8. QueuesIndexed(n)
  BY <1>5, <1>6 DEF GoodBook, Consistent, QueuesIndexed
<1>9. OrdersQueued(n)
  BY <1>5, <1>6 DEF GoodBook, Consistent, OrdersQueued
<1>10. Uncrossed(n)
  BY <1>5, <1>7, FewerLevelsUncrossed DEF GoodBook
<1> QED BY <1>6, <1>7, <1>8, <1>9, <1>10 DEF GoodBook, Consistent, n

(* The order a matching step fills is indexed and has open shares. *)
LEMMA FrontIsIndexed ==
  ASSUME NEW b, GoodBook(b), NEW t \in TakerRec, CanMatch(b, t)
  PROVE  /\ RestingFront(b, t) \in DOMAIN b.order
         /\ b.order[RestingFront(b, t)] \in OrderRec
         /\ b.order[RestingFront(b, t)].open > 0
<1> DEFINE s == Opposite(t.side)
           k == <<s, BestOf(b, s)>>
<1>1. s \in Side
  BY DEF TakerRec, Opposite, Side
<1>2. k \in DOMAIN b.level
  BY <1>1, BestIsBest, PriceHasLevel DEF CanMatch, WouldCross, GoodBook
<1>3. b.level[k].queue \in Seq(OrderId) /\ b.level[k].queue # << >>
  BY <1>2 DEF GoodBook, BookTyped, IsPartialFn, LevelRec, Consistent, QueuesIndexed
<1>4. 1 \in 1 .. Len(b.level[k].queue) /\ Head(b.level[k].queue) = b.level[k].queue[1]
  BY <1>3
<1>5. RestingFront(b, t) = b.level[k].queue[1]
  BY <1>4 DEF RestingFront, BestLevel
<1>6. b.level[k].queue[1] \in DOMAIN b.order
  BY <1>2, <1>4 DEF GoodBook, Consistent, QueuesIndexed
<1> HIDE DEF k
<1> QED BY <1>5, <1>6 DEF GoodBook, BookTyped, IsPartialFn, Consistent, OrdersQueued

(* One fill keeps the book well formed and moves shares, without wrapping. *)
LEMMA ConsumeGood ==
  ASSUME NEW b, GoodBook(b), NEW t \in TakerRec, CanMatch(b, t)
  PROVE  /\ GoodBook(Consume(b, t))
         /\ DOMAIN Consume(b, t).order \subseteq DOMAIN b.order
         /\ ExecQty(b, t) \in 1 .. t.qty
<1> DEFINE id == RestingFront(b, t)
           x  == ExecQty(b, t)
<1>1. id \in DOMAIN b.order /\ b.order[id] \in OrderRec /\ b.order[id].open > 0
  BY FrontIsIndexed
<1>2. x = IF t.qty < b.order[id].open THEN t.qty ELSE b.order[id].open
  BY DEF ExecQty
<1>3. t.qty \in Qty /\ t.qty > 0 /\ b.order[id].open \in Qty
  BY <1>1 DEF TakerRec, OrderRec, CanMatch
<1> HIDE DEF id, x
<1>4. x \in 1 .. t.qty /\ x \in Qty /\ x <= b.order[id].open
  BY <1>1, <1>2, <1>3, QtyModAssumption DEF Qty
<1>5. CASE x = b.order[id].open
  <2>1. Consume(b, t) = RemoveOrder(b, id)
    BY <1>5 DEF Consume, id, x
  <2> QED BY <1>1, <1>4, <2>1, RemoveGood DEF x
<1>6. CASE x # b.order[id].open
  <2>1. Consume(b, t) = ReduceOrder(b, id, x)
    BY <1>6 DEF Consume, id, x
  <2>2. x < b.order[id].open
    BY <1>3, <1>4, <1>6 DEF Qty
  <2> QED BY <1>1, <1>4, <2>1, <2>2, ReduceGood DEF x
<1> QED BY <1>5, <1>6

----------------------------------------------------------------------------

(* Every value a call returns has its type. *)
LEMMA Returns ==
  /\ \A status \in Status, filled \in Qty, resting \in Qty :
       Result(status, filled, resting) \in ResultRec
  /\ Pending \in ResultRec
  /\ \A t \in TakerRec : ReturnOf(t) \in ResultRec
<1>1. 0 \in Qty
  BY QtyModAssumption DEF Qty
<1>2. \A status \in Status, filled \in Qty, resting \in Qty :
        Result(status, filled, resting) \in ResultRec
  BY DEF Result, ResultRec
<1>3. Pending \in ResultRec
  BY <1>1, <1>2 DEF Pending, Status
<1>4. \A t \in TakerRec : ReturnOf(t) \in ResultRec
  BY <1>1, <1>2 DEF TakerRec, ReturnOf, Status
<1> QED BY <1>2, <1>3, <1>4

(* What add, execute_ioc and a crossing replace start to match is well formed. *)
LEMMA TakerStarts ==
  ASSUME NEW b, NEW op \in {"add", "ioc", "replace"}, NEW id \in OrderId,
         id \notin DOMAIN b.order, NEW side \in Side, NEW limit \in Prices, limit > 0,
         NEW qty \in Qtys
  PROVE  GoodTaker(Taker(op, id, side, limit, qty), b)
<1>1. limit \in ValidPrice /\ qty \in Qty /\ 0 \in Qty /\ qty + 0 = qty
  BY QtysAssumption, QtyModAssumption DEF ValidPrice, Qty
<1> QED BY <1>1 DEF GoodTaker, Taker, TakerRec

(* The empty book is well formed. *)
LEMMA InitIInv == Init => IInv
<1> SUFFICES ASSUME Init PROVE IInv
  OBVIOUS
<1>1. book = [level |-> EmptyFn, order |-> EmptyFn] /\ DOMAIN EmptyFn = {}
  BY DEF Init, EmptyBook, EmptyFn
<1>2. BookTyped(book)
  BY <1>1 DEF BookTyped, IsPartialFn, EmptyFn
<1>3. Consistent(book) /\ Uncrossed(book)
  BY <1>1 DEF Consistent, QueuesIndexed, OrdersQueued, Uncrossed, PricesOf
<1> QED BY <1>2, <1>3, Returns DEF Init, IInv, GoodBook

(* Every step of every call keeps the invariant. *)
LEMMA StepIInv == IInv /\ [Next]_vars => IInv'
<1> SUFFICES ASSUME IInv, [Next]_vars PROVE IInv'
  OBVIOUS
<1>1. ASSUME NEW id \in OrderId, NEW side \in Side, NEW price \in Prices, NEW qty \in Qtys,
             Add(id, side, price, qty)
      PROVE  IInv'
  <2>1. GoodBook(book') /\ book' = book
    BY <1>1 DEF Add, IInv
  <2>2. CASE AddStatus(id, price, qty) = "Ok"
    <3>1. id \notin DOMAIN book.order /\ price > 0
      BY <2>2, PricesAssumption DEF AddStatus
    <3>2. GoodTaker(Taker("add", id, side, price, qty), book)
      BY <3>1, TakerStarts
    <3>3. taker' = Taker("add", id, side, price, qty) /\ ret' = Pending
      BY <1>1, <2>2 DEF Add
    <3> QED BY <2>1, <3>2, <3>3, Returns DEF IInv
  <2>3. CASE AddStatus(id, price, qty) # "Ok"
    <3>1. taker' = taker /\ taker = NoTaker /\ ret' = Result(AddStatus(id, price, qty), 0, 0)
      BY <1>1, <2>3 DEF Add
    <3>2. AddStatus(id, price, qty) \in Status /\ 0 \in Qty
      BY QtyModAssumption DEF AddStatus, Status, Qty
    <3> QED BY <2>1, <3>1, <3>2, Returns DEF IInv
  <2> QED BY <2>2, <2>3
<1>2. ASSUME NEW id \in OrderId, NEW side \in Side, NEW price \in Prices, NEW qty \in Qtys,
             ExecuteIoc(id, side, price, qty)
      PROVE  IInv'
  <2>1. id \notin DOMAIN book.order /\ price > 0
    BY <1>2, PricesAssumption DEF ExecuteIoc, AddStatus
  <2>2. GoodTaker(Taker("ioc", id, side, price, qty), book)
    BY <2>1, TakerStarts
  <2> QED BY <1>2, <2>2, Returns DEF ExecuteIoc, IInv
<1>3. CASE MatchStep
  <2>1. GoodBook(book) /\ GoodTaker(taker, book) /\ taker \in TakerRec /\ CanMatch(book, taker)
    BY <1>3 DEF IInv, MatchStep, GoodTaker
  <2> DEFINE x == ExecQty(book, taker)
  <2>2. /\ GoodBook(book')
        /\ DOMAIN book'.order \subseteq DOMAIN book.order
        /\ x \in 1 .. taker.qty
    BY <1>3, <2>1, ConsumeGood DEF MatchStep
  <2>3. taker' = [taker EXCEPT !.qty = @ - x, !.filled = @ + x] /\ ret' = ret
    BY <1>3 DEF MatchStep, TakerAfter
  <2> HIDE DEF x
  <2>4. taker.qty - x \in Qty /\ taker.filled + x \in Qty
        /\ (taker.qty - x) + (taker.filled + x) = taker.qty + taker.filled
    BY <2>1, <2>2, QtyModAssumption DEF GoodTaker, TakerRec, Qty
  <2>5. GoodTaker(taker', book')
    BY <2>1, <2>2, <2>3, <2>4 DEF GoodTaker, TakerRec
  <2> QED BY <2>2, <2>3, <2>5 DEF IInv
<1>4. CASE Finish
  <2>1. /\ GoodBook(book) /\ GoodTaker(taker, book) /\ taker \in TakerRec
        /\ taker' = NoTaker /\ ret' = ReturnOf(taker) /\ ~CanMatch(book, taker)
    BY <1>4 DEF IInv, Finish, GoodTaker
  <2>2. GoodBook(book')
    <3>1. CASE taker.qty > 0 /\ taker.op # "ioc"
      <4>1. ~WouldCross(book, taker.side, taker.limit)
        BY <2>1, <3>1 DEF CanMatch
      <4>2. taker.qty \in Qty \ {0} /\ taker.id \in OrderId /\ taker.side \in Side
            /\ taker.limit \in ValidPrice /\ taker.id \notin DOMAIN book.order
        BY <2>1, <3>1 DEF TakerRec, GoodTaker
      <4>3. book' = Rest(book, taker.id, taker.side, taker.limit, taker.qty)
        BY <1>4, <2>1, <3>1 DEF Finish, TakerRec, Qty
      <4> QED BY <2>1, <4>1, <4>2, <4>3, RestGood
    <3>2. CASE ~(taker.qty > 0 /\ taker.op # "ioc")
      BY <1>4, <2>1, <3>2 DEF Finish
    <3> QED BY <3>1, <3>2
  <2> QED BY <2>1, <2>2, Returns DEF IInv
<1>5. ASSUME NEW id \in OrderId, NEW keep \in Qtys, Cancel(id, keep)
      PROVE  IInv'
  <2>1. GoodBook(book) /\ taker' = NoTaker
    BY <1>5 DEF IInv, Cancel
  <2>2. ret' \in ResultRec
    <3>1. 0 \in Qty /\ "True" \in Status /\ "False" \in Status
      BY QtyModAssumption DEF Qty, Status
    <3> QED BY <1>5, <3>1, Returns DEF Cancel
  <2>3. GoodBook(book')
    <3>1. CASE ~CancelOk(id, keep)
      BY <1>5, <2>1, <3>1 DEF Cancel
    <3>2. CASE CancelOk(id, keep) /\ keep = 0
      <4>1. id \in DOMAIN book.order
        BY <3>2 DEF CancelOk
      <4>2. CancelOk(id, keep) /\ ~(keep > 0)
        BY <3>2
      <4>3. book' = RemoveOrder(book, id)
        BY <1>5, <4>2, Zenon DEF Cancel
      <4> QED BY <2>1, <4>1, <4>3, RemoveGood
    <3>3. CASE CancelOk(id, keep) /\ keep # 0
      <4>1. keep \in Qty /\ keep > 0
        BY <3>3, QtysAssumption DEF Qty
      <4>2. /\ id \in DOMAIN book.order
            /\ book.order[id] \in OrderRec
            /\ keep < book.order[id].open
            /\ book' = ReduceOrder(book, id, book.order[id].open - keep)
        BY <1>5, <2>1, <3>3, <4>1 DEF Cancel, CancelOk, GoodBook, BookTyped, IsPartialFn
      <4>3. /\ book.order[id].open - keep \in Qty
            /\ book.order[id].open - keep < book.order[id].open
        BY <4>1, <4>2, QtyModAssumption DEF OrderRec, Qty
      <4> QED BY <2>1, <4>2, <4>3, ReduceGood
    <3> QED BY <3>1, <3>2, <3>3
  <2> QED BY <2>1, <2>2, <2>3 DEF IInv
<1>6. ASSUME NEW old \in OrderId, NEW new \in OrderId, NEW price \in Prices, NEW qty \in Qtys,
             Replace(old, new, price, qty)
      PROVE  IInv'
  <2> DEFINE left == RemoveOrder(book, old)
             side == book.order[old].side
  <2>1. ASSUME ReplaceOk(old, new, price, qty)
        PROVE  /\ GoodBook(left)
               /\ new \notin DOMAIN left.order
               /\ side \in Side
               /\ price > 0
               /\ qty # 0
    BY <2>1, RemoveGood DEF IInv, ReplaceOk, GoodBook, BookTyped, IsPartialFn, OrderRec
  <2>2. 0 \in Qty /\ "True" \in Status /\ "False" \in Status
    BY QtyModAssumption DEF Qty, Status
  <2>3. CASE ReplaceRefused(old, new, price, qty)
    BY <2>2, <2>3, Returns DEF ReplaceRefused, IInv
  <2>4. CASE ReplaceCrossing(old, new, price, qty)
    <3>1. book' = left /\ taker' = Taker("replace", new, side, price, qty) /\ ret' = Pending
          /\ ReplaceOk(old, new, price, qty)
      BY <2>4 DEF ReplaceCrossing
    <3> HIDE DEF left, side
    <3>2. GoodTaker(Taker("replace", new, side, price, qty), left)
      BY <2>1, <3>1, TakerStarts
    <3> QED BY <2>1, <3>1, <3>2, Returns DEF IInv
  <2>5. CASE ReplaceResting(old, new, price, qty)
    <3>1. /\ book' = Rest(left, new, side, price, qty)
          /\ ~WouldCross(left, side, price)
          /\ taker' = NoTaker
          /\ ret' = Result("True", 0, 0)
          /\ ReplaceOk(old, new, price, qty)
      BY <2>5 DEF ReplaceResting
    <3>2. price \in ValidPrice /\ qty \in Qty \ {0}
      BY <2>1, <3>1, QtysAssumption DEF ValidPrice
    <3> HIDE DEF left, side
    <3>3. GoodBook(book')
      BY <2>1, <3>1, <3>2, RestGood
    <3> QED BY <2>2, <3>1, <3>3, Returns DEF IInv
  <2> QED BY <1>6, <2>3, <2>4, <2>5 DEF Replace
<1>7. CASE UNCHANGED vars
  BY <1>7 DEF vars, IInv
<1> QED BY <1>1, <1>2, <1>3, <1>4, <1>5, <1>6, <1>7 DEF Next

(* IInv is invariant: it is inductive and holds of the empty book. *)
THEOREM Invariance == Spec => []IInv
BY InitIInv, StepIInv, PTL DEF Spec

(***************************************************************************)
(* For any ids, prices and quantities, every state of the book is well     *)
(* typed: no subtraction of quantities in match or cancel wraps.           *)
(***************************************************************************)
THEOREM TypeCorrect == Spec => []TypeOK
<1>1. IInv => TypeOK
  BY DEF IInv, GoodBook, GoodTaker, TypeOK
<1> QED BY <1>1, Invariance, PTL

(***************************************************************************)
(* For any ids, prices and quantities, the best bid stays below the best   *)
(* ask, in the middle of a sweep as well.                                  *)
(***************************************************************************)
THEOREM BookNeverCrossed == Spec => []NeverCrossed
<1>1. IInv => NeverCrossed
  BY DEF IInv, GoodBook, NeverCrossed
<1> QED BY <1>1, Invariance, PTL

(***************************************************************************)
(* For any ids, prices and quantities, index_ and the level queues name    *)
(* the same orders, each exactly once and with open shares.                *)
(***************************************************************************)
THEOREM IndexAlwaysConsistent == Spec => []IndexConsistent
<1>1. IInv => IndexConsistent
  BY DEF IInv, GoodBook, GoodTaker, IndexConsistent
<1> QED BY <1>1, Invariance, PTL

----------------------------------------------------------------------------
(***************************************************************************)
(* The level totals.  Each call changes a total by one addition or         *)
(* subtraction that may wrap; that the result is again the sum of the      *)
(* queue, which is a fold, is shown by induction on the queue.             *)
(***************************************************************************)

(* Quantities are the numbers below QtyMod. *)
LEMMA QtyBelow == QtyMod \in Nat \ {0} /\ Qty = Below(QtyMod)
BY QtyModAssumption DEF Qty, Below

(* TotalsAgree in terms of Sum. *)
LEMMA TotalsAre ==
  ASSUME NEW b
  PROVE  TotalsAgree(b) <=>
           \A k \in DOMAIN b.level : b.level[k].total = Sum(QtyMod, b.order, b.level[k].queue)
BY DEF TotalsAgree, Sum, OpenSum, FoldLeft

(* The queues of a well-formed book hold indexed orders with quantities. *)
LEMMA QueuesOpen ==
  ASSUME NEW b, GoodBook(b)
  PROVE  /\ Opens(QtyMod, b.order, DOMAIN b.order)
         /\ \A k \in DOMAIN b.level :
              /\ b.level[k].queue \in Seq(DOMAIN b.order)
              /\ Distinct(b.level[k].queue)
<1>1. Opens(QtyMod, b.order, DOMAIN b.order)
  BY QtyBelow DEF GoodBook, BookTyped, IsPartialFn, OrderRec, Opens
<1>2. ASSUME NEW k \in DOMAIN b.level
      PROVE  b.level[k].queue \in Seq(DOMAIN b.order) /\ Distinct(b.level[k].queue)
  <2> DEFINE q == b.level[k].queue
  <2>1. q \in Seq(OrderId)
    BY DEF GoodBook, BookTyped, IsPartialFn, LevelRec
  <2>2. Distinct(q) /\ \A i \in 1 .. Len(q) : q[i] \in DOMAIN b.order
    BY DEF GoodBook, Consistent, QueuesIndexed
  <2> HIDE DEF q
  <2>3. q \in Seq(DOMAIN b.order)
    BY <2>1, <2>2
  <2> QED BY <2>2, <2>3 DEF q
<1> QED BY <1>1, <1>2

(* rest adds the resting quantity to its level's total and no other. *)
LEMMA RestTotals ==
  ASSUME NEW b, GoodBook(b), TotalsAgree(b), NEW id \in OrderId, id \notin DOMAIN b.order,
         NEW side \in Side, NEW price \in ValidPrice, NEW qty \in Qty \ {0}
  PROVE  TotalsAgree(Rest(b, id, side, price, qty))
<1> DEFINE k  == <<side, price>>
           lv == LevelAt(b, k)
           n  == Rest(b, id, side, price, qty)
           D  == DOMAIN b.order
           E  == D \cup {id}
<1>1. /\ DOMAIN n.level = DOMAIN b.level \cup {k}
      /\ n.level[k] = [total |-> (lv.total + qty) % QtyMod, queue |-> Append(lv.queue, id)]
      /\ \A x \in DOMAIN b.level \ {k} : n.level[x] = b.level[x]
  BY DEF Rest, Put
<1>2. n.order[id].open = qty /\ \A x \in D : n.order[x] = b.order[x]
  BY DEF Rest, Put
<1>3. Opens(QtyMod, b.order, D) /\ Opens(QtyMod, n.order, E)
  BY <1>2, QueuesOpen, QtyBelow DEF Opens
<1>4. ASSUME NEW q \in Seq(D)
      PROVE  q \in Seq(E) /\ Sum(QtyMod, n.order, q) = Sum(QtyMod, b.order, q)
  <2>1. \A x \in D : n.order[x].open = b.order[x].open
    BY <1>2
  <2>2. q \in Seq(E)
    OBVIOUS
  <2> HIDE DEF n, E, D
  <2> QED BY <1>3, <2>1, <2>2, SumCongruent, QtyBelow
<1>5. lv.queue \in Seq(D) /\ lv.total = Sum(QtyMod, b.order, lv.queue)
  <2>1. CASE k \in DOMAIN b.level
    BY <2>1, QueuesOpen, TotalsAre DEF LevelAt
  <2>2. CASE k \notin DOMAIN b.level
    BY <1>3, <2>2, SumIs, QtyBelow, EmptySeq DEF LevelAt, EmptyLevel
  <2> QED BY <2>1, <2>2
<1>6. id \in E
  OBVIOUS
<1> HIDE DEF n, lv, k, E
<1>7. Sum(QtyMod, n.order, Append(lv.queue, id)) = Plus(QtyMod, Sum(QtyMod, b.order, lv.queue), qty)
  BY <1>2, <1>3, <1>4, <1>5, <1>6, SumIs, QtyBelow
<1>8. n.level[k].total = Sum(QtyMod, n.order, n.level[k].queue)
  BY <1>1, <1>5, <1>7 DEF Plus
<1>9. \A x \in DOMAIN b.level \ {k} : n.level[x].total = Sum(QtyMod, n.order, n.level[x].queue)
  BY <1>1, <1>4, QueuesOpen, TotalsAre
<1>10. TotalsAgree(n)
  BY <1>1, <1>8, <1>9, TotalsAre
<1> QED BY <1>10 DEF n

(* remove takes the order's open quantity off its level's total. *)
LEMMA RemoveTotals ==
  ASSUME NEW b, GoodBook(b), TotalsAgree(b), NEW id \in DOMAIN b.order
  PROVE  TotalsAgree(RemoveOrder(b, id))
<1> DEFINE k  == Key(b.order[id])
           q  == b.level[k].queue
           r  == RemoveFirst(q, id)
           n  == RemoveOrder(b, id)
           D  == DOMAIN b.order
<1>1. GoodBook(n) /\ DOMAIN n.order = D \ {id}
  BY RemoveGood
<1>2. k \in DOMAIN b.level /\ q \in Seq(D) /\ Distinct(q) /\ Opens(QtyMod, b.order, D)
  BY QueuesOpen DEF GoodBook, Consistent, OrdersQueued
<1>3. PICK at \in 1 .. Len(q) : q[at] = id
  BY DEF GoodBook, Consistent, OrdersQueued
<1>4. n.order = Drop(b.order, id)
      /\ n.level = IF r = << >> THEN Drop(b.level, k)
                   ELSE Put(b.level, k, [total |-> (b.level[k].total - b.order[id].open) % QtyMod,
                                         queue |-> r])
  BY DEF RemoveOrder
<1>5. \A x \in D \ {id} : n.order[x].open = b.order[x].open
  BY <1>4 DEF Drop
<1>6. /\ \A x \in DOMAIN n.level : x = k \/ (x \in DOMAIN b.level /\ n.level[x] = b.level[x])
      /\ k \in DOMAIN n.level => n.level[k] =
           [total |-> (b.level[k].total - b.order[id].open) % QtyMod, queue |-> r]
  BY <1>2, <1>4 DEF Drop, Put
<1>7. Opens(QtyMod, b.order, D \ {id})
  BY <1>2 DEF Opens
<1>8. Sum(QtyMod, b.order, r) = Minus(QtyMod, Sum(QtyMod, b.order, q), b.order[id].open)
  <2> HIDE DEF q, D
  <2>1. Sum(QtyMod, b.order, Erased(q, at))
        = Minus(QtyMod, Sum(QtyMod, b.order, q), b.order[id].open)
    BY <1>2, <1>3, SumErased, QtyBelow
  <2>2. r = RemoveFirst(q, q[at])
    BY <1>3
  <2> DEFINE rr == RemoveFirst(q, q[at])
  <2>3. /\ rr \in Seq(D)
        /\ Len(rr) = Len(q) - 1
        /\ \A j \in 1 .. Len(q) - 1 : rr[j] = IF j < at THEN q[j] ELSE q[j + 1]
    BY <1>2, RemoveFirstIs
  <2> HIDE DEF r, rr
  <2>4. rr = [j \in 1 .. Len(q) - 1 |-> rr[j]]
    BY <2>3
  <2>5. rr = Erased(q, at)
    BY <2>3, <2>4 DEF Erased
  <2> QED BY <2>1, <2>2, <2>5 DEF rr
<1>9. b.level[k].total = Sum(QtyMod, b.order, q)
  BY <1>2, TotalsAre
<1> HIDE DEF n, r, D, q, k
<1>10. ASSUME NEW x \in DOMAIN n.level
       PROVE  n.level[x].total = Sum(QtyMod, n.order, n.level[x].queue)
  <2>1. n.level[x].queue \in Seq(D \ {id})
    BY <1>1, QueuesOpen
  <2>2. Sum(QtyMod, n.order, n.level[x].queue) = Sum(QtyMod, b.order, n.level[x].queue)
    BY <1>5, <1>7, <2>1, SumCongruent, QtyBelow
  <2>3. CASE x = k
    <3>1. /\ n.level[k].queue = r
          /\ n.level[k].total = Minus(QtyMod, b.level[k].total, b.order[id].open)
      BY <1>6, <2>3 DEF Minus
    <3> QED BY <1>8, <1>9, <2>2, <2>3, <3>1
  <2>4. CASE x # k
    BY <1>6, <2>2, <2>4, TotalsAre
  <2> QED BY <2>3, <2>4
<1>11. TotalsAgree(n)
  BY <1>10, TotalsAre
<1> QED BY <1>11 DEF n

(* A partial fill or cancel takes as much off the order as off its level. *)
LEMMA ReduceTotals ==
  ASSUME NEW b, GoodBook(b), TotalsAgree(b), NEW id \in DOMAIN b.order, NEW by \in Qty,
         by < b.order[id].open
  PROVE  TotalsAgree(ReduceOrder(b, id, by))
<1> DEFINE k == Key(b.order[id])
           n == ReduceOrder(b, id, by)
           D == DOMAIN b.order
           q == b.level[k].queue
<1>1. GoodBook(n) /\ DOMAIN n.order = D
  BY ReduceGood
<1>2. k \in DOMAIN b.level /\ q \in Seq(D) /\ Distinct(q) /\ Opens(QtyMod, b.order, D)
      /\ Opens(QtyMod, n.order, D)
  BY <1>1, QueuesOpen DEF GoodBook, Consistent, OrdersQueued
<1>3. PICK at \in 1 .. Len(q) : q[at] = id
  BY DEF GoodBook, Consistent, OrdersQueued
<1>4. /\ n.level = [b.level EXCEPT ![k].total = (@ - by) % QtyMod]
      /\ n.order = [b.order EXCEPT ![id].open = @ - by]
  BY DEF ReduceOrder
<1>5. b.order[id] \in OrderRec /\ b.level[k] \in LevelRec
  BY <1>2 DEF GoodBook, BookTyped, IsPartialFn
<1>6. /\ n.order[id].open = b.order[id].open - by
      /\ \A x \in D \ {id} : n.order[x].open = b.order[x].open
  BY <1>4, <1>5 DEF OrderRec
<1>7. /\ DOMAIN n.level = DOMAIN b.level
      /\ n.level[k].total = Minus(QtyMod, b.level[k].total, by) /\ n.level[k].queue = q
      /\ \A x \in DOMAIN b.level \ {k} : n.level[x] = b.level[x]
  BY <1>2, <1>4, <1>5 DEF LevelRec, Minus
<1>8. by <= b.order[id].open
  BY <1>5 DEF OrderRec, Qty
<1>9. b.level[k].total = Sum(QtyMod, b.order, q)
  BY <1>2, TotalsAre
<1> HIDE DEF n, D, q
<1>10. Sum(QtyMod, n.order, q) = Minus(QtyMod, Sum(QtyMod, b.order, q), by)
  <2> DEFINE o == b.order
             p == n.order
  <2>1. /\ Opens(QtyMod, o, D) /\ Opens(QtyMod, p, D) /\ q \in Seq(D) /\ Distinct(q)
        /\ by <= o[q[at]].open /\ p[q[at]].open = o[q[at]].open - by
        /\ \A x \in D \ {q[at]} : p[x].open = o[x].open
    BY <1>2, <1>3, <1>6, <1>8
  <2> HIDE DEF o, p, k
  <2>2. Sum(QtyMod, p, q) = Minus(QtyMod, Sum(QtyMod, o, q), by)
    BY <2>1, SumReduced, QtyBelow DEF Distinct
  <2> QED BY <2>2 DEF o, p
<1>11. ASSUME NEW x \in DOMAIN b.level \ {k}
       PROVE  n.level[x].total = Sum(QtyMod, n.order, n.level[x].queue)
  <2> DEFINE s == b.level[x].queue
  <2>1. s \in Seq(D) /\ \A i \in 1 .. Len(s) : Key(b.order[s[i]]) = x
    BY QueuesOpen DEF D, GoodBook, Consistent, QueuesIndexed
  <2>2. \A i \in 1 .. Len(s) : s[i] # id
    BY <2>1
  <2> HIDE DEF s
  <2>3. s \in Seq(D \ {id})
    BY <2>1, <2>2
  <2>4. Opens(QtyMod, b.order, D \ {id})
    BY <1>2 DEF Opens
  <2>5. Sum(QtyMod, n.order, s) = Sum(QtyMod, b.order, s)
    BY <1>6, <2>3, <2>4, SumCongruent, QtyBelow
  <2> QED BY <1>7, <2>5, TotalsAre DEF s
<1>12. TotalsAgree(n)
  <2> HIDE DEF k
  <2> QED BY <1>7, <1>10, <1>11, <1>9, TotalsAre
<1> QED BY <1>12 DEF n

(* One fill keeps the totals. *)
LEMMA ConsumeTotals ==
  ASSUME NEW b, GoodBook(b), TotalsAgree(b), NEW t \in TakerRec, CanMatch(b, t)
  PROVE  TotalsAgree(Consume(b, t))
<1> DEFINE id == RestingFront(b, t)
           x  == ExecQty(b, t)
<1>1. id \in DOMAIN b.order /\ b.order[id] \in OrderRec /\ b.order[id].open > 0
  BY FrontIsIndexed
<1>2. x = IF t.qty < b.order[id].open THEN t.qty ELSE b.order[id].open
  BY DEF ExecQty
<1>3. t.qty \in Qty /\ b.order[id].open \in Qty
  BY <1>1 DEF TakerRec, OrderRec
<1>4. Consume(b, t) = IF x = b.order[id].open THEN RemoveOrder(b, id) ELSE ReduceOrder(b, id, x)
  BY DEF Consume
<1> HIDE DEF id, x
<1>5. CASE x = b.order[id].open
  BY <1>1, <1>4, <1>5, RemoveTotals
<1>6. CASE x # b.order[id].open
  <2>1. x \in Qty /\ x < b.order[id].open
    BY <1>2, <1>3, <1>6 DEF Qty
  <2> QED BY <1>1, <1>4, <1>6, <2>1, ReduceTotals
<1> QED BY <1>5, <1>6

(* Every step of every call keeps the totals of a well-formed book. *)
LEMMA StepTotals == IInv /\ LevelTotals /\ [Next]_vars => LevelTotals'
<1> SUFFICES ASSUME IInv, TotalsAgree(book), [Next]_vars PROVE TotalsAgree(book')
  BY DEF LevelTotals
<1>1. GoodBook(book)
  BY DEF IInv
<1>2. CASE book' = book
  BY <1>2
<1>3. CASE MatchStep
  <2>1. taker \in TakerRec /\ CanMatch(book, taker) /\ book' = Consume(book, taker)
    BY <1>3 DEF IInv, MatchStep, GoodTaker
  <2> QED BY <1>1, <2>1, ConsumeTotals
<1>4. CASE Finish
  <2>1. GoodTaker(taker, book) /\ taker \in TakerRec
    BY <1>4 DEF IInv, Finish, GoodTaker
  <2>2. CASE taker.qty > 0 /\ taker.op # "ioc"
    <3>1. taker.qty \in Qty \ {0} /\ taker.id \in OrderId /\ taker.side \in Side
          /\ taker.limit \in ValidPrice /\ taker.id \notin DOMAIN book.order
      BY <2>1, <2>2 DEF TakerRec, GoodTaker
    <3>2. book' = Rest(book, taker.id, taker.side, taker.limit, taker.qty)
      BY <1>4, <2>2 DEF Finish
    <3> QED BY <1>1, <3>1, <3>2, RestTotals
  <2>3. CASE ~(taker.qty > 0 /\ taker.op # "ioc")
    BY <1>4, <2>3 DEF Finish
  <2> QED BY <2>2, <2>3
<1>5. ASSUME NEW id \in OrderId, NEW keep \in Qtys, Cancel(id, keep)
      PROVE  TotalsAgree(book')
  <2>1. CASE ~CancelOk(id, keep)
    BY <1>5, <2>1 DEF Cancel
  <2>2. CASE CancelOk(id, keep) /\ ~(keep > 0)
    <3>1. id \in DOMAIN book.order
      BY <2>2 DEF CancelOk
    <3>2. book' = RemoveOrder(book, id)
      BY <1>5, <2>2, Zenon DEF Cancel
    <3> QED BY <1>1, <3>1, <3>2, RemoveTotals
  <2>3. CASE CancelOk(id, keep) /\ keep > 0
    <3>1. /\ id \in DOMAIN book.order
          /\ book.order[id] \in OrderRec
          /\ keep < book.order[id].open
          /\ book' = ReduceOrder(book, id, book.order[id].open - keep)
      <4>1. id \in DOMAIN book.order /\ keep < book.order[id].open
        BY <2>3 DEF CancelOk
      <4>2. book' = ReduceOrder(book, id, book.order[id].open - keep)
        <5>1. keep # 0
          BY <2>3
        <5> QED BY <1>5, <2>3, <5>1, Zenon DEF Cancel
      <4> QED BY <1>1, <4>1, <4>2 DEF GoodBook, BookTyped, IsPartialFn
    <3>2. /\ book.order[id].open - keep \in Qty
          /\ book.order[id].open - keep < book.order[id].open
      BY <2>3, <3>1, QtysAssumption, QtyModAssumption DEF OrderRec, Qty
    <3> QED BY <1>1, <3>1, <3>2, ReduceTotals
  <2> QED BY <2>1, <2>2, <2>3
<1>6. ASSUME NEW old \in OrderId, NEW new \in OrderId, NEW price \in Prices, NEW qty \in Qtys,
             Replace(old, new, price, qty)
      PROVE  TotalsAgree(book')
  <2> DEFINE left == RemoveOrder(book, old)
             side == book.order[old].side
  <2>1. CASE ReplaceRefused(old, new, price, qty)
    BY <2>1 DEF ReplaceRefused
  <2>2. ASSUME ReplaceOk(old, new, price, qty)
        PROVE  /\ GoodBook(left) /\ TotalsAgree(left)
               /\ new \notin DOMAIN left.order
               /\ side \in Side
               /\ price \in ValidPrice
               /\ qty \in Qty \ {0}
    <3>1. old \in DOMAIN book.order /\ price > 0 /\ qty # 0
          /\ (new \notin DOMAIN book.order \/ new = old)
      BY <2>2 DEF ReplaceOk
    <3>2. GoodBook(left) /\ TotalsAgree(left) /\ DOMAIN left.order = DOMAIN book.order \ {old}
      BY <1>1, <3>1, RemoveGood, RemoveTotals
    <3>3. side \in Side
      BY <1>1, <3>1 DEF GoodBook, BookTyped, IsPartialFn, OrderRec
    <3> QED BY <3>1, <3>2, <3>3, QtysAssumption DEF ValidPrice
  <2>3. CASE ReplaceCrossing(old, new, price, qty)
    BY <2>2, <2>3 DEF ReplaceCrossing
  <2>4. CASE ReplaceResting(old, new, price, qty)
    <3>1. book' = Rest(left, new, side, price, qty) /\ ReplaceOk(old, new, price, qty)
      BY <2>4 DEF ReplaceResting
    <3> HIDE DEF left, side
    <3> QED BY <2>2, <3>1, RestTotals
  <2> QED BY <1>6, <2>1, <2>3, <2>4 DEF Replace
<1>7. \A id \in OrderId, side \in Side, price \in Prices, qty \in Qtys :
        Add(id, side, price, qty) \/ ExecuteIoc(id, side, price, qty) => book' = book
  BY DEF Add, ExecuteIoc
<1>8. UNCHANGED vars => book' = book
  BY DEF vars
<1> QED BY <1>2, <1>3, <1>4, <1>5, <1>6, <1>7, <1>8 DEF Next

(***************************************************************************)
(* For any ids, prices, quantities and width of Qty, the aggregate that a  *)
(* level keeps, which rest, match, cancel and remove change by one         *)
(* addition or subtraction each, is the sum of the level's open orders     *)
(* modulo that width, between the fills of a sweep as well.                *)
(***************************************************************************)
THEOREM TotalsNeverDrift == Spec => []LevelTotals
<1>1. Init => LevelTotals
  <2> SUFFICES ASSUME Init PROVE TotalsAgree(book)
    BY DEF LevelTotals
  <2>1. DOMAIN book.level = {}
    BY DEF Init, EmptyBook, EmptyFn
  <2> QED BY <2>1, TotalsAre
<1> QED BY <1>1, StepTotals, Invariance, PTL DEF Spec

============================================================================
