-------------------------------- MODULE Loops --------------------------------
(***************************************************************************)
(* A loop over the elements of a sequence.  It is a fold of the module     *)
(* Folds in the order of the indices, with only the definitions it needs,  *)
(* so that the proofs about the modules that use it stay small.            *)
(***************************************************************************)
EXTENDS Integers, Sequences, FiniteSetsExt

(* op applied to a value and the elements of q in turn, beginning with a. *)
InTurn(op(_, _), a, q) ==
  MapThenFoldSet(LAMBDA x, y : op(y, x), a, LAMBDA i : q[i], LAMBDA S : Max(S), DOMAIN q)

============================================================================
