----------------------------- MODULE OrderBook -----------------------------
(***************************************************************************)
(* The reference book (src/src/book/order_book.{hpp,cpp}): add, cancel and *)
(* replace, and execute_ioc, which only FastBook has                       *)
(* (src/src/book/fast_book.cpp) but means the same on this state.          *)
(*                                                                         *)
(* A call that matches is several steps: the call itself, one MatchStep    *)
(* per fill (the listener is called after every fill, and what it pushes   *)
(* is visible to other threads at once), and Finish, which rests what is   *)
(* left and returns.  While `taker` holds an order no other call can       *)
(* start.  `event` is the listener callback made by the last step and      *)
(* `ret` the value returned by the last call that completed.               *)
(***************************************************************************)
EXTENDS BookOps

CONSTANTS Prices,   \* the prices callers pass, invalid ones included
          Qtys      \* the quantities callers pass, 0 included

(* Price is a machine integer: the prices callers can pass have a maximum. *)
ASSUME PricesAssumption ==
  /\ Prices \subseteq Int
  /\ \E top \in Prices \cup {0} : top >= 0 /\ \A p \in Prices : p <= top
ASSUME QtysAssumption == Qtys \subseteq Qty

VARIABLES book, taker, event, ret

vars == <<book, taker, event, ret>>

----------------------------------------------------------------------------

Init ==
  /\ book = EmptyBook
  /\ taker = NoTaker
  /\ event = NoEvent
  /\ ret = Pending

(* The checks at the top of add, in their order. *)
AddStatus(id, price, qty) ==
  IF price <= 0 THEN "BadPrice"
  ELSE IF qty = 0 THEN "BadQty"
  ELSE IF id \in DOMAIN book.order THEN "DuplicateId"
  ELSE "Ok"

Add(id, side, price, qty) ==
  /\ taker = NoTaker
  /\ event' = NoEvent
  /\ \/ /\ AddStatus(id, price, qty) = "Ok"
        /\ taker' = Taker("add", id, side, price, qty)
        /\ ret' = Pending
     \/ /\ AddStatus(id, price, qty) # "Ok"
        /\ ret' = Result(AddStatus(id, price, qty), 0, 0)
        /\ UNCHANGED taker
  /\ UNCHANGED book

(***************************************************************************)
(* execute_ioc checks nothing: its caller, Engine, passes a fresh id, a    *)
(* positive limit and a positive quantity, and so do these steps.          *)
(***************************************************************************)
ExecuteIoc(id, side, limit, qty) ==
  /\ taker = NoTaker
  /\ AddStatus(id, limit, qty) = "Ok"
  /\ taker' = Taker("ioc", id, side, limit, qty)
  /\ event' = NoEvent
  /\ ret' = Pending
  /\ UNCHANGED book

MatchStep ==
  /\ taker # NoTaker
  /\ CanMatch(book, taker)
  /\ book' = Consume(book, taker)
  /\ taker' = TakerAfter(taker, ExecQty(book, taker))
  /\ event' = ExecutedBy(book, taker)
  /\ UNCHANGED ret

(* The end of add, execute_ioc and a crossing replace. *)
Finish ==
  /\ taker # NoTaker
  /\ ~CanMatch(book, taker)
  /\ taker' = NoTaker
  /\ ret' = ReturnOf(taker)
  /\ \/ /\ taker.qty > 0
        /\ taker.op # "ioc"
        /\ book' = Rest(book, taker.id, taker.side, taker.limit, taker.qty)
        /\ event' = Added(taker.id, taker.side, taker.limit, taker.qty)
     \/ /\ taker.qty = 0 \/ taker.op = "ioc"
        /\ event' = NoEvent
        /\ UNCHANGED book

CancelOk(id, keep) == id \in DOMAIN book.order /\ keep < book.order[id].open

Cancel(id, keep) ==
  /\ taker = NoTaker
  /\ UNCHANGED taker
  /\ \/ /\ ~CancelOk(id, keep)
        /\ event' = NoEvent
        /\ ret' = Result("False", 0, 0)
        /\ UNCHANGED book
     \/ /\ CancelOk(id, keep)
        /\ keep = 0
        /\ event' = Canceled(id, book.order[id].open, TRUE)
        /\ book' = RemoveOrder(book, id)
        /\ ret' = Result("True", 0, 0)
     \/ /\ CancelOk(id, keep)
        /\ keep > 0
        /\ event' = Canceled(id, book.order[id].open - keep, FALSE)
        /\ book' = ReduceOrder(book, id, book.order[id].open - keep)
        /\ ret' = Result("True", 0, 0)

ReplaceOk(old, new, price, qty) ==
  /\ old \in DOMAIN book.order
  /\ new # old
  /\ new \notin DOMAIN book.order
  /\ price > 0
  /\ qty # 0

ReplaceRefused(old, new, price, qty) ==
  /\ taker = NoTaker
  /\ ~ReplaceOk(old, new, price, qty)
  /\ event' = NoEvent
  /\ ret' = Result("False", 0, 0)
  /\ UNCHANGED <<book, taker>>

(* The new price crosses: a delete, then the life of a fresh order. *)
ReplaceCrossing(old, new, price, qty) ==
  LET side == book.order[old].side
      left == RemoveOrder(book, old)
  IN /\ taker = NoTaker
     /\ ReplaceOk(old, new, price, qty)
     /\ event' = Canceled(old, book.order[old].open, TRUE)
     /\ taker' = Taker("replace", new, side, price, qty)
     /\ ret' = Pending
     /\ WouldCross(left, side, price)
     /\ book' = left

ReplaceResting(old, new, price, qty) ==
  LET side == book.order[old].side
      left == RemoveOrder(book, old)
  IN /\ taker = NoTaker
     /\ ReplaceOk(old, new, price, qty)
     /\ event' = Replaced(old, new, side, price, qty)
     /\ ret' = Result("True", 0, 0)
     /\ UNCHANGED taker
     /\ ~WouldCross(left, side, price)
     /\ book' = Rest(left, new, side, price, qty)

Replace(old, new, price, qty) ==
  \/ ReplaceRefused(old, new, price, qty)
  \/ ReplaceCrossing(old, new, price, qty)
  \/ ReplaceResting(old, new, price, qty)

Next ==
  \/ MatchStep
  \/ Finish
  \/ \E id \in OrderId, keep \in Qtys : Cancel(id, keep)
  \/ \E id \in OrderId, side \in Side, price \in Prices, qty \in Qtys :
       Add(id, side, price, qty) \/ ExecuteIoc(id, side, price, qty)
  \/ \E old, new \in OrderId, price \in Prices, qty \in Qtys :
       Replace(old, new, price, qty)

Spec == Init /\ [][Next]_vars


----------------------------------------------------------------------------
(* Properties *)

ValidPrice == {p \in Prices : p > 0}
OrderRec == [side : Side, price : ValidPrice, open : Qty]
LevelRec == [total : Qty, queue : Seq(OrderId)]
TakerRec ==
  [op : {"add", "ioc", "replace"}, id : OrderId, side : Side, limit : ValidPrice,
   qty : Qty, filled : Qty]
Status ==
  {"Ok", "BadPrice", "BadQty", "DuplicateId", "Filled", "True", "False", "Pending"}

ResultRec == [status : Status, filled : Qty, resting : Qty]

BookTyped(b) ==
  /\ b = [level |-> b.level, order |-> b.order]
  /\ IsPartialFn(b.level, Side \X ValidPrice, LevelRec)
  /\ IsPartialFn(b.order, OrderId, OrderRec)

(***************************************************************************)
(* The book maps side and valid price to levels and ids to orders, and all *)
(* quantities fit a Qty: open -= exec, qty -= exec and filled += exec in   *)
(* match never wrap.                                                       *)
(***************************************************************************)
TypeOK ==
  /\ BookTyped(book)
  /\ taker = NoTaker \/ taker \in TakerRec
  /\ ret \in ResultRec

(***************************************************************************)
(* Best bid < best ask in every state, between the fills of a sweep        *)
(* included (design.md invariant 3 asks it at rest only).                  *)
(***************************************************************************)
NeverCrossed == Uncrossed(book)

(***************************************************************************)
(* Order map and levels agree (design.md invariant 4), between the fills   *)
(* of a sweep included; the order being matched is in neither.             *)
(***************************************************************************)
IndexConsistent ==
  /\ Consistent(book)
  /\ taker # NoTaker => taker.id \notin DOMAIN book.order

(***************************************************************************)
(* Each level's aggregate is the sum of its resting orders (design.md      *)
(* invariant 1), modulo the width of Qty.                                  *)
(***************************************************************************)
LevelTotals == TotalsAgree(book)

(* A call that has started to match returns: no fill makes no progress. *)
CallReturns == (taker # NoTaker) ~> (taker = NoTaker)

============================================================================
