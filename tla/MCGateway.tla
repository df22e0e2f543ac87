----------------------------- MODULE MCGateway -----------------------------
(* Gateway with descriptors that are interchangeable: nothing orders them. *)
EXTENDS Gateway, TLC

FdSymmetry == Permutations(Fd)

============================================================================
