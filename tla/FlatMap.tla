------------------------------- MODULE FlatMap -------------------------------
(***************************************************************************)
(* The open-addressing hash map behind FastBook's order index: linear      *)
(* probing, deletion that shifts entries back, doubling above 70% load.    *)
(* The hash is an arbitrary function of the key, chosen once; `map` is     *)
(* what the calls so far ought to have left in the map.                    *)
(***************************************************************************)
EXTENDS Loops

CONSTANTS Key, Val,
          HashValues,   \* what the multiplication may leave in the low bits
          InitialCap,   \* a power of two; 16 in the code
          Free          \* an unused slot

ASSUME MapAssumption ==
  /\ InitialCap \in Nat \ {0}
  /\ HashValues \subseteq Nat
  /\ Free \notin [key : Key, val : Val]

VARIABLES slots, size, hash, map

vars == <<slots, size, hash, map>>

Cap(s) == Cardinality(DOMAIN s)

(* & mask() with a power of two. *)
Ideal(s, key) == hash[key] % Cap(s)

(* The first place at or after the key's own, cyclically, that satisfies P: *)
(* where a probing loop stops.                                              *)
ProbeFrom(s, start, P(_)) ==
  (start + Min({d \in 0 .. Cap(s) - 1 : P((start + d) % Cap(s))})) % Cap(s)

Holds(s, i, key) == s[i] # Free /\ s[i].key = key

StopsAt(s, key) ==
  ProbeFrom(s, Ideal(s, key), LAMBDA i : s[i] = Free \/ Holds(s, i, key))

(* find_slot, and what find() returns: nothing or the value. *)
Find(s, key) ==
  LET i == StopsAt(s, key) IN IF s[i] = Free THEN << >> ELSE <<s[i].val>>

Place(s, key, val) == [s EXCEPT ![StopsAt(s, key)] = [key |-> key, val |-> val]]

(* grow(): every used slot is inserted again, in order. *)
Grow(s) ==
  InTurn(LAMBDA t, i : IF s[i - 1] = Free THEN t ELSE Place(t, s[i - 1].key, s[i - 1].val),
           [i \in 0 .. 2 * Cap(s) - 1 |-> Free],
           [i \in 1 .. Cap(s) |-> i])

(* Mutant: the load limit allows the last slot to be taken. *)
FullAtCap == size + 1 > Cap(slots)

LoadExceeded == (size + 1) * 10 > Cap(slots) * 7

(* Mutant: the range is not taken cyclically. *)
MovableLinear(hole, j, home) == home <= hole

(* One round of erase()'s loop: entry j fills the hole unless its home     *)
(* lies cyclically between the two.                                        *)
Movable(hole, j, home) ==
  IF hole <= j THEN home <= hole \/ home > j ELSE home <= hole /\ home > j

ShiftBack(e, j) ==
  CASE e.done \/ e.slots[j] = Free -> [e EXCEPT !.done = TRUE]
    [] ~e.done /\ e.slots[j] # Free /\ Movable(e.hole, j, Ideal(e.slots, e.slots[j].key)) ->
         [e EXCEPT !.slots[e.hole] = e.slots[j], !.hole = j]
    [] OTHER -> e

EraseSlot(s, key) ==
  LET i == StopsAt(s, key)
      e == InTurn(ShiftBack, [slots |-> s, hole |-> i, done |-> FALSE],
                    [d \in 1 .. Cap(s) - 1 |-> (i + d) % Cap(s)])
  IN  [e.slots EXCEPT ![e.hole] = Free]

----------------------------------------------------------------------------

Init ==
  /\ slots = [i \in 0 .. InitialCap - 1 |-> Free]
  /\ size = 0
  /\ hash \in [Key -> HashValues]
  /\ map = [k \in Key |-> << >>]

Insert(key, val) ==
  LET s == IF LoadExceeded THEN Grow(slots) ELSE slots
  IN  /\ slots' = Place(s, key, val)
      /\ size' = IF Find(s, key) = << >> THEN size + 1 ELSE size
      /\ map' = [map EXCEPT ![key] = <<val>>]
      /\ UNCHANGED hash

Erase(key) ==
  /\ Find(slots, key) # << >>
  /\ slots' = EraseSlot(slots, key)
  /\ size' = size - 1
  /\ map' = [map EXCEPT ![key] = << >>]
  /\ UNCHANGED hash

(* Erasing a key that is not there returns false. *)
EraseAbsent(key) == Find(slots, key) = << >> /\ UNCHANGED vars

Next == \E key \in Key : \/ \E val \in Val : Insert(key, val)
                         \/ Erase(key)
                         \/ EraseAbsent(key)

Spec == Init /\ [][Next]_vars

----------------------------------------------------------------------------
(* Properties *)

(***************************************************************************)
(* Every probe ends: a slot is always free, whatever was inserted, erased  *)
(* and shifted, and size_ counts the used ones.                            *)
(***************************************************************************)
ProbesEnd ==
  /\ size = Cardinality({i \in DOMAIN slots : slots[i] # Free})
  /\ size < Cap(slots)

(***************************************************************************)
(* find() returns exactly what the calls so far stored, for every key and  *)
(* every collision pattern, across deletions that wrap around the end of   *)
(* the table and across growth.                                            *)
(***************************************************************************)
FindsWhatWasStored == \A key \in Key : Find(slots, key) = map[key]

============================================================================
