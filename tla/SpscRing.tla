------------------------------ MODULE SpscRing ------------------------------
(***************************************************************************)
(* The lock-free ring of src/src/common/spsc_ring.hpp: one producer thread *)
(* and one consumer thread, each shared access a step of its own.  A       *)
(* thread reads its own index and the other's in one step, because nobody  *)
(* else writes its own.  Release and acquire order the slot accesses with  *)
(* the index that publishes them, so interleaving the steps is exact.      *)
(***************************************************************************)
EXTENDS Integers, Sequences

CONSTANTS N,      \* the template parameter, a power of two
          Data,
          Blank   \* what a slot holds before its first write

ASSUME RingAssumption == N \in Nat \ {0, 1} /\ Blank \notin Data

VARIABLES head, tail, buf,
          prod,            \* try_push: pc, its argument and its local `next`
          cons,            \* try_pop: pc and its local v
          pushed, popped   \* the results of the last calls to complete

vars == <<head, tail, buf, prod, cons, pushed, popped>>

Index == 0 .. N - 1

(* (i + 1) & (N - 1) *)
NextIndex(i) == IF i = N - 1 THEN 0 ELSE i + 1

ProdIdle == [pc |-> "idle", v |-> Blank, next |-> 0]
ConsIdle == [pc |-> "idle", v |-> Blank]

Init ==
  /\ head = 0
  /\ tail = 0
  /\ buf = [i \in Index |-> Blank]
  /\ prod = ProdIdle
  /\ cons = ConsIdle
  /\ pushed = "none"
  /\ popped = << >>

----------------------------------------------------------------------------
(* try_push *)

(* Mutant: no slot is kept free, so a full ring looks empty. *)
RingFullNever == FALSE

RingFull == NextIndex(tail) = head

PushFull ==
  /\ prod.pc = "idle"
  /\ RingFull
  /\ pushed' = "false"
  /\ UNCHANGED <<head, tail, buf, prod, cons, popped>>

PushBegin(v) ==
  /\ prod.pc = "idle"
  /\ ~RingFull
  /\ prod' = [pc |-> "write", v |-> v, next |-> NextIndex(tail)]
  /\ UNCHANGED <<head, tail, buf, cons, pushed, popped>>

PushWrite ==
  /\ prod.pc = "write"
  /\ buf' = [buf EXCEPT ![tail] = prod.v]
  /\ prod' = [prod EXCEPT !.pc = "publish"]
  /\ UNCHANGED <<head, tail, cons, pushed, popped>>

PushPublish ==
  /\ prod.pc = "publish"
  /\ tail' = prod.next
  /\ prod' = ProdIdle
  /\ pushed' = "true"
  /\ UNCHANGED <<head, buf, cons, popped>>

----------------------------------------------------------------------------
(* try_pop *)

PopEmpty ==
  /\ cons.pc = "idle"
  /\ head = tail
  /\ popped' = << >>
  /\ UNCHANGED <<head, tail, buf, prod, cons, pushed>>

PopBegin ==
  /\ cons.pc = "idle"
  /\ head # tail
  /\ cons' = [cons EXCEPT !.pc = "read"]
  /\ UNCHANGED <<head, tail, buf, prod, pushed, popped>>

PopRead ==
  /\ cons.pc = "read"
  /\ cons' = [pc |-> "advance", v |-> buf[head]]
  /\ UNCHANGED <<head, tail, buf, prod, pushed, popped>>

PopAdvance ==
  /\ cons.pc = "advance"
  /\ head' = NextIndex(head)
  /\ cons' = ConsIdle
  /\ popped' = <<cons.v>>
  /\ UNCHANGED <<tail, buf, prod, pushed>>

Next ==
  \/ PushFull \/ (\E v \in Data : PushBegin(v)) \/ PushWrite \/ PushPublish
  \/ PopEmpty \/ PopBegin \/ PopRead \/ PopAdvance

Spec == Init /\ [][Next]_vars

----------------------------------------------------------------------------
(* Properties *)

(***************************************************************************)
(* Indices stay inside buf_, and a push under way carries the caller's     *)
(* value.                                                                  *)
(***************************************************************************)
TypeOK ==
  /\ head \in Index
  /\ tail \in Index
  /\ buf \in [Index -> Data \cup {Blank}]
  /\ prod \in [pc : {"idle", "write", "publish"}, v : Data \cup {Blank}, next : Index]
  /\ prod.pc # "idle" => prod.v \in Data
  /\ cons \in [pc : {"idle", "read", "advance"}, v : Data \cup {Blank}]

(***************************************************************************)
(* The two threads are never about to access one slot of buf_ at the same  *)
(* time: the ring has no data race although no access to buf_ is atomic.   *)
(***************************************************************************)
NoSlotRace == ~(prod.pc = "write" /\ cons.pc = "read" /\ tail = head)

(* The entries published and not yet taken, oldest first. *)
Size == IF tail >= head THEN tail - head ELSE tail - head + N

Slot(i) == IF head + i - 1 < N THEN head + i - 1 ELSE head + i - 1 - N

Contents == [i \in 1 .. Size |-> buf[Slot(i)]]

Fifo == INSTANCE BoundedFifo WITH Capacity <- N - 1, queue <- Contents

(***************************************************************************)
(* The ring implements a FIFO of N - 1 entries: nothing is lost,           *)
(* duplicated, reordered or read before it is written, try_push fails only *)
(* on a full ring and try_pop only on an empty one.                        *)
(***************************************************************************)
ImplementsFifo == Fifo!Spec

============================================================================
