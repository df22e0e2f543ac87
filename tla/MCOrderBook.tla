---------------------------- MODULE MCOrderBook ----------------------------
(***************************************************************************)
(* OrderBook with a history: `arrivals` is the sequence of the ids that    *)
(* rest in the book in the order in which Added and Replaced announced     *)
(* them, kept from the events alone.                                       *)
(***************************************************************************)
EXTENDS OrderBook

VARIABLE arrivals

ArrivalsNext ==
  LET e    == event'
      kept == SelectSeq(arrivals, LAMBDA id : id \in DOMAIN book'.order)
  IN arrivals' = CASE e.type = "Added"    -> Append(kept, e.id)
                   [] e.type = "Replaced" -> Append(kept, e.new)
                   [] OTHER               -> kept

MCInit == Init /\ arrivals = << >>

MCNext == Next /\ ArrivalsNext

mcvars == <<vars, arrivals>>

(* A call that has started runs on: the engine thread never stops inside one. *)
MCSpec ==
  /\ MCInit
  /\ [][MCNext]_mcvars
  /\ WF_mcvars((MatchStep \/ Finish) /\ ArrivalsNext)

(***************************************************************************)
(* Price-time priority (design.md invariant 2): whoever is executed, no    *)
(* order of that side had a better price, none with the same price arrived *)
(* earlier, and the trade prints at the resting order's price.             *)
(***************************************************************************)
PriceTimePriority ==
  [][\A i \in 1 .. Len(arrivals) :
       (event'.type = "Executed" /\ event'.resting = arrivals[i]) =>
         LET hit == book.order[arrivals[i]]
         IN /\ event'.price = hit.price
            /\ \A j \in 1 .. Len(arrivals) :
                 LET other == book.order[arrivals[j]]
                 IN (j # i /\ other.side = hit.side) =>
                      \/ other.price = hit.price /\ i < j
                      \/ hit.side = "Sell" /\ hit.price < other.price
                      \/ hit.side = "Buy" /\ hit.price > other.price
    ]_mcvars

============================================================================
