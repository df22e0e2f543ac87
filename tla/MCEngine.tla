------------------------------ MODULE MCEngine ------------------------------
(***************************************************************************)
(* The engine with an observer on each output.  `view` is what the clients *)
(* can work out from their OUCH responses alone: the open shares of every  *)
(* token.  `mirror` is an ITCH listener's books, built from the feed alone *)
(* and received without loss; `filtered` has, for every symbol, the books  *)
(* process_raw_itch builds from a file of the same messages when it tracks *)
(* that symbol only, the adds attributed and the executions priced.        *)
(***************************************************************************)
EXTENDS Engine, ItchBook

VARIABLES view, mirror, filtered

EnterMsg(side, price, shares, ioc, minQty, sym) ==
  [side |-> side, price |-> price, shares |-> shares, ioc |-> ioc,
   minQty |-> minQty, stock |-> sym]

(***************************************************************************)
(* Limit, IOC and market orders with and without a minimum quantity, which *)
(* may exceed the shares, and one message per reason for rejection.        *)
(***************************************************************************)
MCEnters ==
  UNION {
    {EnterMsg(side, price, shares, ioc, 0, sym) :
       side \in Side, price \in {1, 2}, shares \in {1, 2}, ioc \in BOOLEAN, sym \in Symbol},
    {EnterMsg(side, price, 2, ioc, 2, sym) :
       side \in Side, price \in {1, 2}, ioc \in BOOLEAN, sym \in Symbol},
    {EnterMsg(side, 1, 1, TRUE, 2, sym) : side \in Side, sym \in Symbol},
    {EnterMsg(side, MarketPrice, 2, FALSE, min, sym) :
       side \in Side, min \in {0, 2}, sym \in Symbol},
    {EnterMsg("Buy", 0, 1, FALSE, 0, sym) : sym \in Symbol},
    {EnterMsg("Sell", 1, 0, FALSE, 0, sym) : sym \in Symbol},
    {EnterMsg("?", 1, 1, FALSE, 0, sym) : sym \in Symbol}}

ViewReduce(v, ct, by) ==
  IF v[ct] = by THEN Drop(v, ct) ELSE [v EXCEPT ![ct] = @ - by]

ViewApply(v, r) ==
  LET ct == <<r.client, r.token>>
  IN CASE r.type = "Accepted" -> Put(v, ct, r.qty)
       [] r.type = "Replaced" -> Put(Drop(v, <<r.client, r.detail>>), ct, r.qty)
       [] r.type \in {"Executed", "Canceled"} -> ViewReduce(v, ct, r.qty)
       [] r.type = "Rejected" -> v

(* The same message as an F or as a C. *)
Variant(m) ==
  [m EXCEPT !.type = IF m.type = "A" THEN "F" ELSE IF m.type = "E" THEN "C" ELSE m.type]

MCInit ==
  /\ Init
  /\ view = EmptyFn
  /\ mirror = EmptyBuilder
  /\ filtered = [sym \in Symbol |-> EmptyBuilder]

MCNext ==
  /\ Next
  /\ view' = FoldLeft(ViewApply, view, resp')
  /\ mirror' = FoldLeft(LAMBDA b, f : OnMessage(b, ToItch(f.symbol, f.ev)), mirror, feed')
  /\ filtered' = [sym \in Symbol |->
       FoldLeft(LAMBDA b, f : Process(sym, b, Variant(ToItch(f.symbol, f.ev))),
                filtered[sym], feed')]

mcvars == <<vars, view, mirror, filtered>>

MCSpec == MCInit /\ [][MCNext]_mcvars

(* No step reads resp or feed. *)
Observed == <<books, orders, live, used, nextRef, symbol, cmd, taker, view, mirror, filtered>>

ClientSymmetry == Permutations(Client) \cup Permutations(Token) \cup Permutations(Symbol)

----------------------------------------------------------------------------

(***************************************************************************)
(* The OUCH stream accounts for every share: at any point the responses    *)
(* sent so far determine which tokens are live and with how many open      *)
(* shares, fills of a sweep in progress included.                          *)
(***************************************************************************)
ClientViewExact == view = [ct \in DOMAIN live |-> orders[live[ct]].open]

(***************************************************************************)
(* A listener that gets every feed message has the engine's books, order   *)
(* by order and in queue order, after every event (design.md invariant 5). *)
(***************************************************************************)
MirrorExact ==
  \A sym \in Symbol : BuilderSnapshot(mirror, sym) = BookSnapshot(books[sym])

(***************************************************************************)
(* itch_file_processor.hpp:45-46: dropping the adds of untracked symbols   *)
(* is enough, because later messages for their orders do nothing.  What    *)
(* the filter leaves is the tracked symbol's book, and no order of another *)
(* symbol is kept, replacements and executions of such orders included.    *)
(***************************************************************************)
FilteredExact ==
  \A sym \in Symbol :
    /\ BuilderSnapshot(filtered[sym], sym) = BookSnapshot(books[sym])
    /\ DOMAIN filtered[sym].orders = DOMAIN books[sym].order

============================================================================
