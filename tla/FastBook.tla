------------------------------ MODULE FastBook ------------------------------
(***************************************************************************)
(* The optimised book (src/src/book/fast_book.{hpp,cpp}): a price ladder   *)
(* around the first price that rests, two fallback maps for prices outside *)
(* the band or off the tick, a pool of orders with a free list, intrusive  *)
(* doubly linked queues, and lazy cursors towards the best prices.         *)
(*                                                                         *)
(* The whole object is one record, `fast`.  A pool slot is an index        *)
(* 1 .. Len(pool) (0 .. in the code), and Nil stands for kNil.  index_ is  *)
(* a function here; FlatMap, the hash table behind it, is a component of   *)
(* its own.  Calls, `taker`, `event` and `ret` are as in OrderBook.        *)
(***************************************************************************)
EXTENDS BookOps

CONSTANTS Prices, Qtys,
          Tick,       \* Config::tick
          HalfTicks   \* Config::band_half_ticks

ASSUME ConfigAssumption == Tick \in Nat \ {0} /\ HalfTicks \in Nat

VARIABLES fast, taker, event, ret

vars == <<fast, taker, event, ret>>

Nil == 0

NilLevel == [total |-> 0, head |-> Nil, tail |-> Nil]

EmptyFastBook ==
  [bandSet |-> FALSE, base |-> 0, ladder |-> EmptyFn, fallback |-> EmptyFn,
   bidCursor |-> -1, askCursor |-> 0, pool |-> << >>, free |-> << >>,
   index |-> EmptyFn]

LadderSize(f) == IF f.bandSet THEN 2 * HalfTicks + 1 ELSE 0

PriceAt(f, t) == f.base + t * Tick

(* The ladder index of a price, -1 when out of band or off tick. *)
TickIndex(f, price) ==
  LET off == price - f.base
  IN IF f.bandSet /\ off >= 0 /\ off % Tick = 0 /\ off \div Tick < LadderSize(f)
     THEN off \div Tick
     ELSE -1

(* level_for: operator[] of the fallback maps creates a missing level. *)
GetLevel(f, side, price) ==
  LET t == TickIndex(f, price)
      k == <<side, price>>
  IN IF t >= 0 THEN f.ladder[t]
     ELSE IF k \in DOMAIN f.fallback THEN f.fallback[k] ELSE NilLevel

SetLevel(f, side, price, lv) ==
  LET t == TickIndex(f, price)
  IN IF t >= 0 THEN [f EXCEPT !.ladder[t] = lv]
     ELSE [f EXCEPT !.fallback = Put(@, <<side, price>>, lv)]

EraseLevelIfFallback(f, side, price) ==
  IF GetLevel(f, side, price).head = Nil /\ TickIndex(f, price) = -1
  THEN [f EXCEPT !.fallback = Drop(@, <<side, price>>)]
  ELSE f

----------------------------------------------------------------------------
(* The order pool and its intrusive lists. *)

(* The slot alloc_order hands out: the last freed one, else a new one. *)
NewSlot(f) == IF f.free # << >> THEN Last(f.free) ELSE Len(f.pool) + 1

(* Mutant: the freed slot is reused but stays on the free list. *)
AllocKeepingFree(f, o) ==
  IF f.free # << >>
  THEN [f EXCEPT !.pool[Last(f.free)] = o]
  ELSE [f EXCEPT !.pool = Append(@, o)]

AllocOrder(f, o) ==
  IF f.free # << >>
  THEN [f EXCEPT !.pool[Last(f.free)] = o, !.free = Front(@)]
  ELSE [f EXCEPT !.pool = Append(@, o)]

(* Nothing reads a freed slot before alloc_order overwrites it. *)
Blank == [id |-> Nil, price |-> 0, open |-> 0, prev |-> Nil, next |-> Nil, side |-> "Buy"]

FreeOrder(f, slot) == [f EXCEPT !.free = Append(@, slot), !.pool[slot] = Blank]

Unlink(f, slot) ==
  LET o     == f.pool[slot]
      lv    == GetLevel(f, o.side, o.price)
      after == [i \in DOMAIN f.pool |->
                  [f.pool[i] EXCEPT
                     !.next = IF i = o.prev THEN o.next ELSE IF i = slot THEN Nil ELSE @,
                     !.prev = IF i = o.next THEN o.prev ELSE IF i = slot THEN Nil ELSE @]]
  IN SetLevel([f EXCEPT !.pool = after], o.side, o.price,
              [lv EXCEPT !.head = IF o.prev = Nil THEN o.next ELSE @,
                         !.tail = IF o.next = Nil THEN o.prev ELSE @])

(* The first order that rests fixes the band around its price. *)
SetBand(f, price) ==
  IF f.bandSet THEN f
  ELSE [f EXCEPT !.bandSet = TRUE,
                 !.base = price - HalfTicks * Tick,
                 !.ladder = [t \in 0 .. 2 * HalfTicks |-> NilLevel],
                 !.bidCursor = -1,
                 !.askCursor = 2 * HalfTicks + 1]

(* Mutant: the ask cursor is not lowered when a better ask rests. *)
RaiseBidCursor(f, side, price) ==
  LET t == TickIndex(f, price)
  IN [f EXCEPT !.bidCursor = IF t >= 0 /\ side = "Buy" /\ t > @ THEN t ELSE @]

RaiseCursors(f, side, price) ==
  LET t == TickIndex(f, price)
  IN [f EXCEPT
        !.bidCursor = IF t >= 0 /\ side = "Buy" /\ t > @ THEN t ELSE @,
        !.askCursor = IF t >= 0 /\ side = "Sell" /\ t < @ THEN t ELSE @]

RestFast(f, id, side, price, qty) ==
  LET banded == SetBand(f, price)
      lv     == GetLevel(banded, side, price)
      slot   == NewSlot(banded)
      alloc  == AllocOrder(banded, [id |-> id, price |-> price, open |-> qty,
                                    prev |-> lv.tail, next |-> Nil, side |-> side])
      linked == IF lv.tail # Nil
                THEN [alloc EXCEPT !.pool[lv.tail].next = slot]
                ELSE alloc
      levels == SetLevel(linked, side, price,
                         [total |-> (lv.total + qty) % QtyMod,
                          head |-> IF lv.tail = Nil THEN slot ELSE lv.head,
                          tail |-> slot])
  IN RaiseCursors([levels EXCEPT !.index = Put(@, id, slot)], side, price)

SubTotal(f, side, price, by) ==
  LET lv == GetLevel(f, side, price)
  IN SetLevel(f, side, price, [lv EXCEPT !.total = (@ - by) % QtyMod])

RemoveResting(f, slot) ==
  LET o    == f.pool[slot]
      gone == FreeOrder([Unlink(SubTotal(f, o.side, o.price, o.open), slot)
                           EXCEPT !.index = Drop(@, o.id)], slot)
  IN EraseLevelIfFallback(gone, o.side, o.price)

ReduceFast(f, slot, by) ==
  LET o == f.pool[slot]
  IN SubTotal([f EXCEPT !.pool[slot].open = @ - by], o.side, o.price, by)

----------------------------------------------------------------------------
(* Best prices. *)

HoldsSide(f, t, side) ==
  f.ladder[t].head # Nil /\ f.pool[f.ladder[t].head].side = side

LadderBestBid(f) ==
  Max({-1} \cup {t \in 0 .. Min({f.bidCursor, LadderSize(f) - 1}) :
                   HoldsSide(f, t, "Buy")})

LadderBestAsk(f) ==
  Min({LadderSize(f)} \cup {t \in Max({f.askCursor, 0}) .. LadderSize(f) - 1 :
                              HoldsSide(f, t, "Sell")})

(* Mutant: the bid scan leaves its cursor one past the level it found. *)
SettleOvershoot(f, side) ==
  IF ~f.bandSet THEN f
  ELSE IF side = "Buy" THEN [f EXCEPT !.bidCursor = LadderBestBid(f) - 1]
  ELSE [f EXCEPT !.askCursor = LadderBestAsk(f)]

(* ladder_best_bid / ladder_best_ask leave the cursor where the scan ended. *)
Settle(f, side) ==
  IF ~f.bandSet THEN f
  ELSE IF side = "Buy" THEN [f EXCEPT !.bidCursor = LadderBestBid(f)]
  ELSE [f EXCEPT !.askCursor = LadderBestAsk(f)]

LadderBest(f, side) ==
  LET t == IF side = "Buy" THEN LadderBestBid(f) ELSE LadderBestAsk(f)
  IN IF t \in 0 .. LadderSize(f) - 1 THEN {PriceAt(f, t)} ELSE {}

FallbackPrices(f, side) == {k[2] : k \in {kk \in DOMAIN f.fallback : kk[1] = side}}

(* What best_bid and best_ask choose from; empty stands for nullopt. *)
Candidates(f, side) == LadderBest(f, side) \cup FallbackPrices(f, side)

BestPrice(f, side) ==
  IF side = "Buy" THEN Max(Candidates(f, side)) ELSE Min(Candidates(f, side))

WouldCrossFast(f, side, price) ==
  /\ Candidates(f, Opposite(side)) # {}
  /\ Crosses(side, price, BestPrice(f, Opposite(side)))

(***************************************************************************)
(* matchable: walk the ladder from the best tick, then the fallback map,   *)
(* adding level totals, until the limit stops crossing; a Qty sum.         *)
(***************************************************************************)
(* Mutant: levels that hold the order's own side count too. *)
MatchableAnySide(f, side, limit) ==
  {t \in 0 .. LadderSize(f) - 1 : Crosses(side, limit, PriceAt(f, t))}

MatchableTicks(f, side, limit) ==
  LET s     == Opposite(side)
      start == IF s = "Buy" THEN LadderBestBid(f) ELSE LadderBestAsk(f)
  IN {t \in 0 .. LadderSize(f) - 1 :
        /\ IF s = "Buy" THEN t <= start ELSE t >= start
        /\ HoldsSide(f, t, s)
        /\ Crosses(side, limit, PriceAt(f, t))}

Matchable(f, side, limit) ==
  LET s == Opposite(side)
  IN ( MapThenSumSet(LAMBDA t : f.ladder[t].total, MatchableTicks(f, side, limit))
     + MapThenSumSet(LAMBDA p : f.fallback[<<s, p>>].total,
                     {p \in FallbackPrices(f, s) : Crosses(side, limit, p)}) ) % QtyMod

----------------------------------------------------------------------------
(* One iteration of consume_level, with the level match picked. *)

CanMatchFast(f, t) == t.qty > 0 /\ WouldCrossFast(f, t.side, t.limit)

FrontSlot(f, t) ==
  LET s == Opposite(t.side) IN GetLevel(f, s, BestPrice(f, s)).head

FastExecQty(f, t) ==
  LET open == f.pool[FrontSlot(f, t)].open IN IF t.qty < open THEN t.qty ELSE open

ConsumeFast(f, t) ==
  LET slot == FrontSlot(f, t)
      exec == FastExecQty(f, t)
      hit  == ReduceFast(Settle(f, Opposite(t.side)), slot, exec)
  IN IF hit.pool[slot].open = 0 THEN RemoveResting(hit, slot) ELSE hit

----------------------------------------------------------------------------
(* The public calls. *)

Init ==
  /\ fast = EmptyFastBook
  /\ taker = NoTaker
  /\ event = NoEvent
  /\ ret = Pending

AddStatus(id, price, qty) ==
  IF price <= 0 THEN "BadPrice"
  ELSE IF qty = 0 THEN "BadQty"
  ELSE IF id \in DOMAIN fast.index THEN "DuplicateId"
  ELSE "Ok"

Add(id, side, price, qty) ==
  /\ taker = NoTaker
  /\ event' = NoEvent
  /\ UNCHANGED fast
  /\ \/ /\ AddStatus(id, price, qty) = "Ok"
        /\ taker' = Taker("add", id, side, price, qty)
        /\ ret' = Pending
     \/ /\ AddStatus(id, price, qty) # "Ok"
        /\ ret' = Result(AddStatus(id, price, qty), 0, 0)
        /\ UNCHANGED taker

(* Engine passes a fresh id, a positive limit and a positive quantity. *)
ExecuteIoc(id, side, limit, qty) ==
  /\ taker = NoTaker
  /\ AddStatus(id, limit, qty) = "Ok"
  /\ taker' = Taker("ioc", id, side, limit, qty)
  /\ event' = NoEvent
  /\ ret' = Pending
  /\ UNCHANGED fast

MatchStep ==
  /\ taker # NoTaker
  /\ CanMatchFast(fast, taker)
  /\ fast' = ConsumeFast(fast, taker)
  /\ taker' = TakerAfter(taker, FastExecQty(fast, taker))
  /\ event' = Executed(fast.pool[FrontSlot(fast, taker)].id, taker,
                       BestPrice(fast, Opposite(taker.side)),
                       FastExecQty(fast, taker))
  /\ UNCHANGED ret

(* A loop that ends with shares left has just looked for the best level. *)
AfterScan(f, t) == IF t.qty > 0 THEN Settle(f, Opposite(t.side)) ELSE f

Finish ==
  /\ taker # NoTaker
  /\ ~CanMatchFast(fast, taker)
  /\ taker' = NoTaker
  /\ ret' = ReturnOf(taker)
  /\ \/ /\ taker.qty > 0
        /\ taker.op # "ioc"
        /\ fast' = RestFast(AfterScan(fast, taker), taker.id, taker.side,
                            taker.limit, taker.qty)
        /\ event' = Added(taker.id, taker.side, taker.limit, taker.qty)
     \/ /\ taker.qty = 0 \/ taker.op = "ioc"
        /\ fast' = AfterScan(fast, taker)
        /\ event' = NoEvent

OpenOf(id) == fast.pool[fast.index[id]].open

CancelOk(id, keep) == id \in DOMAIN fast.index /\ keep < OpenOf(id)

Cancel(id, keep) ==
  /\ taker = NoTaker
  /\ UNCHANGED taker
  /\ \/ /\ ~CancelOk(id, keep)
        /\ event' = NoEvent
        /\ ret' = Result("False", 0, 0)
        /\ UNCHANGED fast
     \/ /\ CancelOk(id, keep)
        /\ keep = 0
        /\ fast' = RemoveResting(fast, fast.index[id])
        /\ event' = Canceled(id, OpenOf(id), TRUE)
        /\ ret' = Result("True", 0, 0)
     \/ /\ CancelOk(id, keep)
        /\ keep > 0
        /\ fast' = ReduceFast(fast, fast.index[id], OpenOf(id) - keep)
        /\ event' = Canceled(id, OpenOf(id) - keep, FALSE)
        /\ ret' = Result("True", 0, 0)

ReplaceOk(old, new, price, qty) ==
  /\ old \in DOMAIN fast.index
  /\ new # old
  /\ new \notin DOMAIN fast.index
  /\ price > 0
  /\ qty # 0

Replace(old, new, price, qty) ==
  /\ taker = NoTaker
  /\ \/ /\ ~ReplaceOk(old, new, price, qty)
        /\ event' = NoEvent
        /\ ret' = Result("False", 0, 0)
        /\ UNCHANGED <<fast, taker>>
     \/ /\ ReplaceOk(old, new, price, qty)
        /\ LET slot    == fast.index[old]
               side    == fast.pool[slot].side
               left    == RemoveResting(fast, slot)
               scanned == Settle(left, Opposite(side))
           IN \/ /\ WouldCrossFast(left, side, price)
                 /\ fast' = scanned
                 /\ taker' = Taker("replace", new, side, price, qty)
                 /\ event' = Canceled(old, OpenOf(old), TRUE)
                 /\ ret' = Pending
              \/ /\ ~WouldCrossFast(left, side, price)
                 /\ fast' = RestFast(scanned, new, side, price, qty)
                 /\ event' = Replaced(old, new, side, price, qty)
                 /\ ret' = Result("True", 0, 0)
                 /\ UNCHANGED taker

(***************************************************************************)
(* best_bid, best_ask and matchable between calls: they emit nothing and   *)
(* return nothing the caller keeps, but they move a cursor.                *)
(***************************************************************************)
Query(side) ==
  /\ taker = NoTaker
  /\ fast' = Settle(fast, side)
  /\ UNCHANGED <<taker, event, ret>>

Next ==
  \/ \E id \in OrderId, side \in Side, price \in Prices, qty \in Qtys :
       Add(id, side, price, qty) \/ ExecuteIoc(id, side, price, qty)
  \/ MatchStep
  \/ Finish
  \/ \E id \in OrderId, keep \in Qtys : Cancel(id, keep)
  \/ \E old, new \in OrderId, price \in Prices, qty \in Qtys :
       Replace(old, new, price, qty)
  \/ \E side \in Side : Query(side)

Spec == Init /\ [][Next]_vars

----------------------------------------------------------------------------
(* The book this object stands for. *)

Walk(f, head) ==
  LET ids[k \in 0 .. Len(f.pool), slot \in 0 .. Len(f.pool)] ==
        IF slot = Nil \/ k = 0 THEN << >>
        ELSE <<f.pool[slot].id>> \o ids[k - 1, f.pool[slot].next]
  IN ids[Len(f.pool), head]

LadderKeys(f) ==
  {<<f.pool[f.ladder[t].head].side, PriceAt(f, t)>> :
     t \in {u \in DOMAIN f.ladder : f.ladder[u].head # Nil}}

BookOf(f) ==
  [level |-> [k \in LadderKeys(f) \cup DOMAIN f.fallback |->
                LET lv == GetLevel(f, k[1], k[2])
                IN [total |-> lv.total, queue |-> Walk(f, lv.head)]],
   order |-> [id \in DOMAIN f.index |->
                LET o == f.pool[f.index[id]]
                IN [side |-> o.side, price |-> o.price, open |-> o.open]]]

----------------------------------------------------------------------------
(* Properties *)

(***************************************************************************)
(* Every pool slot is either on the free list, once, or holds the order    *)
(* the index finds there: no slot leaks, none is handed out twice.         *)
(***************************************************************************)
PoolPartitioned ==
  LET held == {fast.index[id] : id \in DOMAIN fast.index}
      free == ToSet(fast.free)
  IN /\ held \cap free = {}
     /\ held \cup free = DOMAIN fast.pool
     /\ Cardinality(free) = Len(fast.free)
     /\ \A id \in DOMAIN fast.index : fast.pool[fast.index[id]].id = id

(***************************************************************************)
(* The lazy cursors are bounds: no bid in the ladder lies above            *)
(* bid_cursor_, no ask below ask_cursor_, whatever calls and queries came  *)
(* before (the scans would skip such an order for good).                   *)
(***************************************************************************)
CursorsBound ==
  \A t \in DOMAIN fast.ladder :
    /\ HoldsSide(fast, t, "Buy") => t <= fast.bidCursor
    /\ HoldsSide(fast, t, "Sell") => t >= fast.askCursor

(* The open shares on the other side that an order could trade with. *)
CrossingShares(side, limit) ==
  LET b == BookOf(fast)
  IN MapThenSumSet(LAMBDA id : b.order[id].open,
                   {id \in DOMAIN b.order : /\ b.order[id].side = Opposite(side)
                                            /\ Crosses(side, limit, b.order[id].price)})

(***************************************************************************)
(* matchable, computed from level totals over ladder and fallback maps, is *)
(* the sum over the orders themselves, modulo the width of Qty.            *)
(***************************************************************************)
MatchableAgrees ==
  \A side \in Side, limit \in Prices :
    Matchable(fast, side, limit) = CrossingShares(side, limit) % QtyMod

============================================================================
