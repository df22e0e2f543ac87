------------------------------- MODULE Engine -------------------------------
(***************************************************************************)
(* The matching engine (src/src/engine/engine.{hpp,cpp}): commands from    *)
(* the gateway, the token and order bookkeeping around the books, and the  *)
(* two output queues.  The books are OrderBook values, one per symbol;     *)
(* FastBook, which the engine really uses, implements OrderBook.           *)
(*                                                                         *)
(* The engine thread runs one command at a time.  A command that matches   *)
(* is several steps, as in OrderBook, because each fill pushes to both     *)
(* queues and their readers run concurrently.  `resp` and `feed` are what  *)
(* the last step pushed to to_gateway_ and to to_feed_, in order.          *)
(* OrderId bounds next_ref_: a command that would need a reference outside *)
(* it is not given.                                                        *)
(***************************************************************************)
EXTENDS BookOps

CONSTANTS Client, Token, Symbol,
          Enters,       \* the EnterOrder messages clients send, invalid ones included
          Prices,       \* prices in ReplaceOrder, invalid ones included
          Qtys,         \* shares in ReplaceOrder and CancelOrder, 0 included
          MarketPrice,  \* ouch::kMarketPrice
          PriceMax      \* numeric_limits<Price>::max()

ASSUME EngineAssumption ==
  /\ Enters \subseteq [side : Side \cup {"?"}, price : Int, shares : Qty,
                        ioc : BOOLEAN, minQty : Qty, stock : Symbol]
  /\ Prices \subseteq Int
  /\ Qtys \subseteq Qty
  /\ OrderId \subseteq Nat
  /\ MarketPrice \in Int
  /\ PriceMax \in Nat
  /\ \A p \in Prices \cup {m.price : m \in Enters} : p <= PriceMax

VARIABLES books,    \* books_: every symbol's book, empty until book_for makes one
          orders,   \* orders_: ref -> OrderInfo
          live,     \* live_tokens_: <<client, token>> -> ref
          used,     \* used_tokens_
          nextRef,  \* next_ref_
          symbol,   \* current_symbol_
          cmd,      \* locals of the running handler
          taker, resp, feed

vars == <<books, orders, live, used, nextRef, symbol, cmd, taker, resp, feed>>

NoCmd == [type |-> "none"]

NoSymbol == "none"

Response(type, ct, qty, detail) ==
  [type |-> type, client |-> ct[1], token |-> ct[2], qty |-> qty, detail |-> detail]

Init ==
  /\ books = [s \in Symbol |-> EmptyBook]
  /\ orders = EmptyFn
  /\ live = EmptyFn
  /\ used = {}
  /\ nextRef = 1
  /\ symbol = NoSymbol
  /\ cmd = NoCmd
  /\ taker = NoTaker
  /\ resp = << >>
  /\ feed = << >>

----------------------------------------------------------------------------
(* Bookkeeping of the listener callbacks, on e = [orders, live, resp]. *)

Now == [orders |-> orders, live |-> live, resp |-> << >>]

Owner(e, ref) == <<e.orders[ref].client, e.orders[ref].token>>

(* Mutant: the token of a finished order stays live. *)
ReduceOpenKeepingToken(e, ref, by) ==
  IF ref \notin DOMAIN e.orders THEN e
  ELSE IF e.orders[ref].open = by
       THEN [e EXCEPT !.orders = Drop(@, ref)]
       ELSE [e EXCEPT !.orders[ref].open = (@ - by) % QtyMod]

ReduceOpen(e, ref, by) ==
  IF ref \notin DOMAIN e.orders THEN e
  ELSE IF e.orders[ref].open = by
       THEN [e EXCEPT !.orders = Drop(@, ref), !.live = Drop(@, Owner(e, ref))]
       ELSE [e EXCEPT !.orders[ref].open = (@ - by) % QtyMod]

Notify(e, ref, type, qty, detail) ==
  IF ref \notin DOMAIN e.orders THEN e
  ELSE [e EXCEPT !.resp = Append(@, Response(type, Owner(e, ref), qty, detail))]

OnExecuted(e, ev) ==
  LET told == Notify(Notify(e, ev.resting, "Executed", ev.qty, "A"),
                     ev.aggressor, "Executed", ev.qty, "R")
  IN ReduceOpen(ReduceOpen(told, ev.resting, ev.qty), ev.aggressor, ev.qty)

(* A partial cancel lowers the open shares without ReduceOpen's test for 0. *)
OnCanceled(e, ev, suppress) ==
  LET told == IF suppress THEN e ELSE Notify(e, ev.id, "Canceled", ev.qty, "U")
  IN IF ev.removed THEN ReduceOpen(told, ev.id, ev.qty)
     ELSE IF ev.id \notin DOMAIN told.orders THEN told
     ELSE [told EXCEPT !.orders[ev.id].open = (@ - ev.qty) % QtyMod]

(* Mutant: the shares that never rested stay on the engine's books. *)
CancelUnrestedOnWire(e, ref, ct, qty, reason) ==
  [e EXCEPT !.resp = Append(@, Response("Canceled", ct, qty, reason))]

CancelUnrested(e, ref, ct, qty, reason) ==
  [orders |-> Drop(e.orders, ref),
   live   |-> Drop(e.live, ct),
   resp   |-> Append(e.resp, Response("Canceled", ct, qty, reason))]

Settled(e) ==
  /\ orders' = e.orders
  /\ live' = e.live
  /\ resp' = e.resp

Events(evs) == feed' = [i \in 1 .. Len(evs) |-> [symbol |-> symbol', ev |-> evs[i]]]

----------------------------------------------------------------------------
(* handle(EnterOrder) *)

RejectReason(ct, m) ==
  IF ct \in used THEN "T"
  ELSE IF m.price # MarketPrice /\ m.price <= 0 THEN "X"
  ELSE IF m.shares = 0 THEN "Z"
  ELSE IF m.side \notin Side THEN "S"
  ELSE "None"

Reject(ct, m) ==
  /\ taker = NoTaker
  /\ RejectReason(ct, m) # "None"
  /\ resp' = <<Response("Rejected", ct, 0, RejectReason(ct, m))>>
  /\ feed' = << >>
  /\ UNCHANGED <<books, orders, live, used, nextRef, symbol, cmd, taker>>

Limit(m) ==
  IF m.price # MarketPrice THEN m.price
  ELSE IF m.side = "Buy" THEN PriceMax ELSE 1

(* matchable, over the totals of the levels the order would cross. *)
MatchableShares(b, side, limit) ==
  MapThenSumSet(LAMBDA k : b.level[k].total,
                {k \in DOMAIN b.level : /\ k[1] = Opposite(side)
                                        /\ Crosses(side, limit, k[2])}) % QtyMod

(* Mutant: the minimum is compared with what is offered at any price. *)
MinQtyUnmetAnyPrice(m) ==
  m.minQty > 0 /\ MatchableShares(books[m.stock], m.side, IF m.side = "Buy" THEN PriceMax ELSE 1) < m.minQty

MinQtyUnmet(m) ==
  m.minQty > 0 /\ MatchableShares(books[m.stock], m.side, Limit(m)) < m.minQty

Enter(ct, m) ==
  LET ref  == nextRef
      info == [client |-> ct[1], token |-> ct[2], symbol |-> m.stock,
               side |-> m.side, open |-> m.shares]
      e    == [orders |-> Put(orders, ref, info),
               live   |-> Put(live, ct, ref),
               resp   |-> <<Response("Accepted", ct, m.shares, ref)>>]
      op   == IF m.price = MarketPrice \/ m.ioc THEN "ioc" ELSE "add"
  IN /\ taker = NoTaker
     /\ RejectReason(ct, m) = "None"
     /\ ref \in OrderId
     /\ nextRef' = nextRef + 1
     /\ used' = used \cup {ct}
     /\ symbol' = m.stock
     /\ feed' = << >>
     /\ UNCHANGED books
     /\ \/ /\ MinQtyUnmet(m)
           /\ Settled(CancelUnrested(e, ref, ct, m.shares, "D"))
           /\ UNCHANGED <<cmd, taker>>
        \/ /\ ~MinQtyUnmet(m)
           /\ Settled(e)
           /\ cmd' = [type |-> "Enter", ct |-> ct, minQty |-> m.minQty, shares |-> m.shares]
           /\ taker' = Taker(op, ref, m.side, Limit(m), m.shares)

----------------------------------------------------------------------------
(* The matching loop and the end of Enter and of a crossing Replace. *)

Book == books[symbol]

MatchStep ==
  /\ taker # NoTaker
  /\ CanMatch(Book, taker)
  /\ books' = [books EXCEPT ![symbol] = Consume(@, taker)]
  /\ taker' = TakerAfter(taker, ExecQty(Book, taker))
  /\ Settled(OnExecuted(Now, ExecutedBy(Book, taker)))
  /\ UNCHANGED <<used, nextRef, symbol, cmd>>
  /\ Events(<<ExecutedBy(Book, taker)>>)

FinishResting ==
  /\ taker # NoTaker
  /\ ~CanMatch(Book, taker)
  /\ taker.op # "ioc"
  /\ taker.qty > 0
  /\ books' = [books EXCEPT ![symbol] =
                 Rest(@, taker.id, taker.side, taker.limit, taker.qty)]
  /\ taker' = NoTaker
  /\ cmd' = NoCmd
  /\ Settled(Now)
  /\ UNCHANGED <<used, nextRef, symbol>>
  /\ Events(<<Added(taker.id, taker.side, taker.limit, taker.qty)>>)

FinishDone ==
  /\ taker # NoTaker
  /\ ~CanMatch(Book, taker)
  /\ taker.op = "ioc" \/ taker.qty = 0
  /\ Settled(IF taker.qty > 0
             THEN CancelUnrested(Now, taker.id, cmd.ct, taker.qty, "I")
             ELSE Now)
  /\ taker' = NoTaker
  /\ cmd' = NoCmd
  /\ feed' = << >>
  /\ UNCHANGED <<books, used, nextRef, symbol>>

----------------------------------------------------------------------------
(* handle(CancelOrder): shares is what the client wants to keep. *)

Known(ct) == ct \in DOMAIN live /\ live[ct] \in DOMAIN orders

CancelIgnored(ct) ==
  /\ taker = NoTaker
  /\ ~Known(ct)
  /\ resp' = << >>
  /\ feed' = << >>
  /\ UNCHANGED <<books, orders, live, used, nextRef, symbol, cmd, taker>>

Cancel(ct, keep) ==
  LET ref == live[ct]
      sym == orders[ref].symbol
      b   == books[sym]
      cut == b.order[ref].open - keep
      ev  == Canceled(ref, cut, keep = 0)
  IN /\ taker = NoTaker
     /\ Known(ct)
     /\ symbol' = sym
     /\ UNCHANGED <<used, nextRef, cmd, taker>>
     /\ \/ /\ ref \in DOMAIN b.order => keep >= b.order[ref].open
           /\ Settled(Now)
           /\ feed' = << >>
           /\ UNCHANGED books
        \/ /\ ref \in DOMAIN b.order /\ keep < b.order[ref].open
           /\ books' = [books EXCEPT ![sym] =
                          IF keep = 0 THEN RemoveOrder(@, ref) ELSE ReduceOrder(@, ref, cut)]
           /\ Settled(OnCanceled(Now, ev, FALSE))
           /\ Events(<<ev>>)

----------------------------------------------------------------------------
(* handle(ReplaceOrder) *)

ReplaceIgnored(ct, new, price, shares) ==
  /\ taker = NoTaker
  /\ \/ ~Known(ct)
     \/ <<ct[1], new>> \in used
     \/ price <= 0
     \/ shares = 0
  /\ resp' = << >>
  /\ feed' = << >>
  /\ UNCHANGED <<books, orders, live, used, nextRef, symbol, cmd, taker>>

(* Replaced is sent first, then the bookkeeping moves to the new order. *)
SwapBookkeeping(ct, nct, info) ==
  [orders |-> Put(Drop(orders, live[ct]), nextRef, info),
   live   |-> Put(Drop(live, ct), nct, nextRef),
   resp   |-> <<Response("Replaced", nct, info.open, ct[2])>>]

Replace(ct, new, price, shares) ==
  LET old  == live[ct]
      sym  == orders[old].symbol
      side == orders[old].side
      nct  == <<ct[1], new>>
      e    == SwapBookkeeping(ct, nct, [client |-> ct[1], token |-> new, symbol |-> sym,
                                        side |-> side, open |-> shares])
      b    == books[sym]
      left == RemoveOrder(b, old)
      gone == Canceled(old, b.order[old].open, TRUE)
  IN /\ taker = NoTaker
     /\ Known(ct)
     /\ nct \notin used
     /\ price > 0
     /\ shares # 0
     /\ nextRef \in OrderId
     /\ nextRef' = nextRef + 1
     /\ used' = used \cup {nct}
     /\ symbol' = sym
     /\ \/ /\ WouldCross(left, side, price)
           /\ books' = [books EXCEPT ![sym] = left]
           /\ cmd' = [type |-> "Replace", ct |-> nct, minQty |-> 0, shares |-> shares]
           /\ taker' = Taker("replace", nextRef, side, price, shares)
           /\ Settled(OnCanceled(e, gone, TRUE))
           /\ Events(<<gone>>)
        \/ /\ ~WouldCross(left, side, price)
           /\ books' = [books EXCEPT ![sym] = Rest(left, nextRef, side, price, shares)]
           /\ UNCHANGED <<cmd, taker>>
           /\ Settled(e)
           /\ Events(<<Replaced(old, nextRef, side, price, shares)>>)

Next ==
  \/ \E ct \in Client \X Token, m \in Enters : Reject(ct, m) \/ Enter(ct, m)
  \/ MatchStep
  \/ FinishResting
  \/ FinishDone
  \/ \E ct \in Client \X Token : CancelIgnored(ct)
  \/ \E ct \in Client \X Token, keep \in Qtys : Cancel(ct, keep)
  \/ \E ct \in Client \X Token, new \in Token, price \in Prices, shares \in Qtys :
       ReplaceIgnored(ct, new, price, shares) \/ Replace(ct, new, price, shares)

Spec == Init /\ [][Next]_vars

----------------------------------------------------------------------------
(* Properties *)

(***************************************************************************)
(* The engine's maps and the books agree after every callback.  An order   *)
(* in orders_ has open shares and rests in its symbol's book with the same *)
(* side and shares, or is the order being matched and has exactly what     *)
(* that has left; no book holds an order the engine has forgotten.  Tokens *)
(* and orders are in one-to-one correspondence: each live token names a    *)
(* recorded order that carries it back, each recorded order's token is     *)
(* live, and a live token can never be accepted again.                     *)
(***************************************************************************)
MapsMatchBooks ==
  /\ \A ref \in DOMAIN orders :
       LET o == orders[ref]
           b == books[o.symbol]
           ct == <<o.client, o.token>>
       IN  /\ o.open > 0 /\ ref < nextRef
           /\ ct \in DOMAIN live /\ live[ct] = ref
           /\ IF taker # NoTaker /\ ref = taker.id
                THEN o.open = taker.qty /\ o.side = taker.side /\ o.symbol = symbol
                ELSE /\ ref \in DOMAIN b.order
                     /\ o.open = b.order[ref].open
                     /\ o.side = b.order[ref].side
  /\ \A sym \in Symbol : \A ref \in DOMAIN books[sym].order :
       ref \in DOMAIN orders /\ orders[ref].symbol = sym
  /\ \A ct \in DOMAIN live :
       ct \in used /\ live[ct] \in DOMAIN orders /\ ct = Owner(Now, live[ct])

Completes == taker # NoTaker /\ taker' = NoTaker

(***************************************************************************)
(* An order that passed the minimum-quantity gate fills at least its       *)
(* minimum, or all its shares when the minimum is larger: what matchable   *)
(* promised is still there when the matching loop runs.                    *)
(***************************************************************************)
MinQtyHonoured ==
  [][Completes => taker.filled >= cmd.minQty \/ taker.filled = cmd.shares]_vars

============================================================================
