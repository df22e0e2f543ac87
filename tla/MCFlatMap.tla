----------------------------- MODULE MCFlatMap -----------------------------
(* FlatMap with interchangeable keys: the hash is part of the state. *)
EXTENDS FlatMap, TLC

KeySymmetry == Permutations(Key)

============================================================================
