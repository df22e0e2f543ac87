----------------------------- MODULE MCFastBook -----------------------------
(***************************************************************************)
(* FastBook against OrderBook.  `book` records, step by step, the book     *)
(* that `fast` stands for, so that the reference specification can be      *)
(* checked on it.                                                          *)
(***************************************************************************)
EXTENDS FastBook

VARIABLE book

MCInit == Init /\ book = BookOf(fast)

MCNext == Next /\ book' = BookOf(fast')

MCSpec == MCInit /\ [][MCNext]_<<vars, book>>

IdSymmetry == Permutations(OrderId)

(* No step reads event or ret: states that differ only there have the same steps. *)
Observed == <<fast, taker, book>>

Reference == INSTANCE OrderBook

(***************************************************************************)
(* FastBook implements OrderBook: the same calls make the same callbacks   *)
(* in the same order, return the same values and leave the same book       *)
(* (design.md: "proven equivalent by differential fuzzing").               *)
(***************************************************************************)
ImplementsReference == Reference!Spec

============================================================================
