------------------------------ MODULE ItchBook ------------------------------
(***************************************************************************)
(* The market-data side of one book event: to_itch (src/src/feed/feed.cpp) *)
(* turns it into an ITCH message, and ItchBookBuilder                      *)
(* (src/src/client/itch_book.cpp) applies the message to a listener's      *)
(* books.  A builder is its orders_ map and its price levels, keyed by     *)
(* symbol, side and price.                                                 *)
(***************************************************************************)
EXTENDS BookOps

EmptyBuilder == [orders |-> EmptyFn, levels |-> EmptyFn]

(***************************************************************************)
(* to_itch: A, E, D, X and U.  An Add names the stock; the other messages  *)
(* find it through the reference number.                                   *)
(***************************************************************************)
ToItch(sym, ev) ==
  CASE ev.type = "Added" ->
         [type |-> "A", ref |-> ev.id, stock |-> sym, side |-> ev.side,
          price |-> ev.price, shares |-> ev.qty]
    [] ev.type = "Executed" ->
         [type |-> "E", ref |-> ev.resting, shares |-> ev.qty]
    [] ev.type = "Canceled" /\ ev.removed ->
         [type |-> "D", ref |-> ev.id]
    [] ev.type = "Canceled" /\ ~ev.removed ->
         [type |-> "X", ref |-> ev.id, shares |-> ev.qty]
    [] ev.type = "Replaced" ->
         [type |-> "U", ref |-> ev.old, new |-> ev.new, shares |-> ev.qty,
          price |-> ev.price]

BuilderKey(o) == <<o.symbol, o.side, o.price>>

(* add_order: an order number already in use is overwritten and queued again. *)
BuilderAdd(b, ref, sym, side, price, shares) ==
  LET k == <<sym, side, price>>
      q == IF k \in DOMAIN b.levels THEN b.levels[k] ELSE << >>
  IN [orders |-> Put(b.orders, ref, [symbol |-> sym, side |-> side,
                                     price |-> price, qty |-> shares]),
      levels |-> Put(b.levels, k, Append(q, ref))]

(* remove_order: list::remove drops every entry of the reference. *)
BuilderRemove(b, ref) ==
  LET k    == BuilderKey(b.orders[ref])
      left == Remove(b.levels[k], ref)
  IN IF ref \notin DOMAIN b.orders THEN b
     ELSE [orders |-> Drop(b.orders, ref),
           levels |-> IF k \notin DOMAIN b.levels THEN b.levels
                      ELSE IF left = << >> THEN Drop(b.levels, k)
                      ELSE [b.levels EXCEPT ![k] = left]]

(* Mutant: an order executed in full is left in the book with no shares. *)
BuilderReduceOnly(b, ref, by) ==
  IF ref \notin DOMAIN b.orders THEN b
  ELSE IF by > b.orders[ref].qty THEN BuilderRemove(b, ref)
  ELSE [b EXCEPT !.orders[ref].qty = @ - by]

BuilderReduce(b, ref, by) ==
  IF ref \notin DOMAIN b.orders THEN b
  ELSE IF by >= b.orders[ref].qty THEN BuilderRemove(b, ref)
  ELSE [b EXCEPT !.orders[ref].qty = @ - by]

OnMessage(b, m) ==
  CASE m.type \in {"A", "F"} -> BuilderAdd(b, m.ref, m.stock, m.side, m.price, m.shares)
    [] m.type \in {"E", "C", "X"} -> BuilderReduce(b, m.ref, m.shares)
    [] m.type = "D" -> BuilderRemove(b, m.ref)
    [] m.type = "U" ->
         IF m.ref \notin DOMAIN b.orders THEN b
         ELSE LET o == b.orders[m.ref]
              IN BuilderAdd(BuilderRemove(b, m.ref), m.new, o.symbol, o.side,
                            m.price, m.shares)

(* Mutant: an add with attribution is not filtered. *)
ProcessUnattributed(sym, b, m) ==
  IF m.type = "A" /\ m.stock # sym THEN b ELSE OnMessage(b, m)

(* process_raw_itch for one tracked symbol: an add of another is dropped,  *)
(* and what refers to it later finds no order.                             *)
Process(sym, b, m) ==
  IF m.type \in {"A", "F"} /\ m.stock # sym THEN b ELSE OnMessage(b, m)

(* snapshot: per level, the references and their shares in queue order. *)
BuilderSnapshot(b, sym) ==
  [k \in {<<kk[2], kk[3]>> : kk \in {k3 \in DOMAIN b.levels : k3[1] = sym}} |->
     [i \in DOMAIN b.levels[<<sym, k[1], k[2]>>] |->
        LET ref == b.levels[<<sym, k[1], k[2]>>][i]
        IN [ref |-> ref, qty |-> b.orders[ref].qty]]]

BookSnapshot(b) ==
  [k \in DOMAIN b.level |->
     [i \in DOMAIN b.level[k].queue |->
        LET id == b.level[k].queue[i] IN [ref |-> id, qty |-> b.order[id].open]]]

============================================================================
