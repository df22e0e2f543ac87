------------------------------ MODULE BookOps ------------------------------
(***************************************************************************)
(* The limit order book of one symbol as a value, and what the private     *)
(* helpers of OrderBook (src/src/book/order_book.cpp) compute on it.       *)
(*                                                                         *)
(* bids_ and asks_ are one partial function `level`, keyed by side and     *)
(* price; its domain is the set of levels that exist in the two maps.  A   *)
(* level is its running `total` and the FIFO list of its order ids.  The   *)
(* list node of an order and the index_ handle that points at it are one   *)
(* entry of the partial function `order`.                                  *)
(***************************************************************************)
EXTENDS Integers, SequencesExt

CONSTANTS OrderId,  \* the ids a caller may give an order
          QtyMod    \* Qty arithmetic is modulo QtyMod (2^32 in the code)

ASSUME QtyModAssumption == QtyMod \in Nat \ {0, 1}

Side == {"Buy", "Sell"}

Opposite(side) == IF side = "Buy" THEN "Sell" ELSE "Buy"

Qty == 0 .. QtyMod - 1

Put(f, k, v) == [x \in DOMAIN f \cup {k} |-> IF x = k THEN v ELSE f[x]]

Drop(f, k) == [x \in DOMAIN f \ {k} |-> f[x]]

IsPartialFn(f, S, T) == DOMAIN f \subseteq S /\ f \in [DOMAIN f -> T]

EmptyFn == [x \in {} |-> x]

----------------------------------------------------------------------------

EmptyBook == [level |-> EmptyFn, order |-> EmptyFn]

EmptyLevel == [total |-> 0, queue |-> << >>]

Key(o) == <<o.side, o.price>>

PricesOf(b, side) == {k[2] : k \in {kk \in DOMAIN b.level : kk[1] = side}}

(* begin() of the side's map: the highest bid or the lowest ask. *)
BestOf(b, side) ==
  IF side = "Buy" THEN Max(PricesOf(b, side)) ELSE Min(PricesOf(b, side))

(* Mutant: an order at the best opposite price does not trade. *)
CrossesStrictly(side, limit, price) ==
  IF side = "Buy" THEN price < limit ELSE price > limit

Crosses(side, limit, price) ==
  IF side = "Buy" THEN price <= limit ELSE price >= limit

WouldCross(b, side, price) ==
  /\ PricesOf(b, Opposite(side)) # {}
  /\ Crosses(side, price, BestOf(b, Opposite(side)))

(***************************************************************************)
(* rest: push_back at the level, created when the price is new.            *)
(***************************************************************************)
LevelAt(b, k) == IF k \in DOMAIN b.level THEN b.level[k] ELSE EmptyLevel

(* Mutant: a new order jumps its queue. *)
RestAtFront(b, id, side, price, qty) ==
  LET k  == <<side, price>>
      lv == LevelAt(b, k)
  IN [level |-> Put(b.level, k, [total |-> (lv.total + qty) % QtyMod,
                                 queue |-> <<id>> \o lv.queue]),
      order |-> Put(b.order, id, [side |-> side, price |-> price, open |-> qty])]

Rest(b, id, side, price, qty) ==
  LET k  == <<side, price>>
      lv == LevelAt(b, k)
  IN [level |-> Put(b.level, k, [total |-> (lv.total + qty) % QtyMod,
                                 queue |-> Append(lv.queue, id)]),
      order |-> Put(b.order, id, [side |-> side, price |-> price, open |-> qty])]

(***************************************************************************)
(* remove: unlink the order from its level, erase the level when it is     *)
(* left empty, and erase the index entry.                                  *)
(***************************************************************************)
(* Mutant: a level left empty is not erased. *)
RemoveKeepingLevel(b, id) ==
  LET o == b.order[id]
      k == Key(o)
  IN [level |-> Put(b.level, k, [total |-> (b.level[k].total - o.open) % QtyMod,
                                 queue |-> RemoveFirst(b.level[k].queue, id)]),
      order |-> Drop(b.order, id)]

RemoveOrder(b, id) ==
  LET o    == b.order[id]
      k    == Key(o)
      left == RemoveFirst(b.level[k].queue, id)
  IN [level |-> IF left = << >>
                THEN Drop(b.level, k)
                ELSE Put(b.level, k,
                         [total |-> (b.level[k].total - o.open) % QtyMod,
                          queue |-> left]),
      order |-> Drop(b.order, id)]

(***************************************************************************)
(* The order keeps its place in the queue and loses `by` open shares.      *)
(***************************************************************************)
(* Mutant: the level's running total is not lowered. *)
ReduceKeepingTotal(b, id, by) == [b EXCEPT !.order[id].open = @ - by]

ReduceOrder(b, id, by) ==
  LET k == Key(b.order[id])
  IN [level |-> [b.level EXCEPT ![k].total = (@ - by) % QtyMod],
      order |-> [b.order EXCEPT ![id].open = @ - by]]

(***************************************************************************)
(* The incoming order while it is matched (`qty` is what is left of it),   *)
(* the listener's callbacks, and the values the public calls return.       *)
(***************************************************************************)
NoTaker == [op |-> "none"]

Taker(op, id, side, limit, qty) ==
  [op |-> op, id |-> id, side |-> side, limit |-> limit, qty |-> qty, filled |-> 0]

NoEvent == [type |-> "None"]

Added(id, side, price, qty) ==
  [type |-> "Added", id |-> id, side |-> side, price |-> price, qty |-> qty]

Executed(resting, t, price, qty) ==
  [type |-> "Executed", resting |-> resting, aggressor |-> t.id,
   side |-> t.side, price |-> price, qty |-> qty]

Canceled(id, qty, removed) ==
  [type |-> "Canceled", id |-> id, qty |-> qty, removed |-> removed]

Replaced(old, new, side, price, qty) ==
  [type |-> "Replaced", old |-> old, new |-> new, side |-> side,
   price |-> price, qty |-> qty]

Result(status, filled, resting) ==
  [status |-> status, filled |-> filled, resting |-> resting]

Pending == Result("Pending", 0, 0)

(* AddResult for add, the filled quantity for execute_ioc, true for replace. *)
ReturnOf(t) ==
  CASE t.op = "add"     -> Result("Ok", t.filled, t.qty)
    [] t.op = "ioc"     -> Result("Filled", t.filled, 0)
    [] t.op = "replace" -> Result("True", 0, 0)

(***************************************************************************)
(* One iteration of the loops in match: a fill against the first order of  *)
(* the best opposite level.                                                *)
(***************************************************************************)
CanMatch(b, t) == t.qty > 0 /\ WouldCross(b, t.side, t.limit)

BestLevel(b, t) == LET s == Opposite(t.side) IN b.level[<<s, BestOf(b, s)>>]

RestingFront(b, t) == Head(BestLevel(b, t).queue)

(* Mutant: the fill takes all of the resting order. *)
ExecQtyOpen(b, t) == b.order[RestingFront(b, t)].open

ExecQty(b, t) ==
  LET open == b.order[RestingFront(b, t)].open
  IN IF t.qty < open THEN t.qty ELSE open

(* Mutant: a resting order filled in full stays at the front. *)
ConsumeNeverRemoves(b, t) == ReduceOrder(b, RestingFront(b, t), ExecQty(b, t))

Consume(b, t) ==
  LET id == RestingFront(b, t)
  IN IF ExecQty(b, t) = b.order[id].open
     THEN RemoveOrder(b, id)
     ELSE ReduceOrder(b, id, ExecQty(b, t))

TakerAfter(t, exec) == [t EXCEPT !.qty = @ - exec, !.filled = @ + exec]

ExecutedBy(b, t) ==
  Executed(RestingFront(b, t), t, b.order[RestingFront(b, t)].price, ExecQty(b, t))

----------------------------------------------------------------------------

(* A book holds no crossed or locked prices: check_invariants' last test. *)
Uncrossed(b) ==
  \A bid \in PricesOf(b, "Buy"), ask \in PricesOf(b, "Sell") : bid < ask

Distinct(q) == \A i, j \in 1 .. Len(q) : q[i] = q[j] => i = j

(* No level is empty and every queued id is indexed under its level, once. *)
QueuesIndexed(b) ==
  \A k \in DOMAIN b.level :
    /\ b.level[k].queue # << >>
    /\ Distinct(b.level[k].queue)
    /\ \A i \in 1 .. Len(b.level[k].queue) :
         /\ b.level[k].queue[i] \in DOMAIN b.order
         /\ Key(b.order[b.level[k].queue[i]]) = k

(* Every indexed id has open shares and waits in the queue of its level. *)
OrdersQueued(b) ==
  \A id \in DOMAIN b.order :
    /\ b.order[id].open > 0
    /\ Key(b.order[id]) \in DOMAIN b.level
    /\ \E i \in 1 .. Len(b.level[Key(b.order[id])].queue) :
         b.level[Key(b.order[id])].queue[i] = id

Consistent(b) == QueuesIndexed(b) /\ OrdersQueued(b)

(* Each level's running total is the sum of its open quantities, in Qty. *)
TotalsAgree(b) ==
  \A k \in DOMAIN b.level :
    b.level[k].total =
      FoldLeft(LAMBDA sum, id : (sum + b.order[id].open) % QtyMod, 0,
               b.level[k].queue)

============================================================================
