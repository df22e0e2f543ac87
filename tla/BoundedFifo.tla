---------------------------- MODULE BoundedFifo ----------------------------
(***************************************************************************)
(* What SpscRing promises its two threads: a FIFO of at most Capacity      *)
(* entries.  try_push appends or reports that the queue is full, try_pop   *)
(* takes the oldest entry or reports that the queue is empty.  `pushed`    *)
(* and `popped` are the results of the last calls to complete.             *)
(***************************************************************************)
EXTENDS Naturals, Sequences

CONSTANTS Capacity, Data

VARIABLES queue, pushed, popped

Init ==
  /\ queue = << >>
  /\ pushed = "none"
  /\ popped = << >>

Push(v) ==
  /\ Len(queue) < Capacity
  /\ queue' = Append(queue, v)
  /\ pushed' = "true"
  /\ UNCHANGED popped

PushFull ==
  /\ Len(queue) = Capacity
  /\ pushed' = "false"
  /\ UNCHANGED <<queue, popped>>

(* A value comes back as an optional: a sequence of at most one entry. *)
Pop ==
  /\ queue # << >>
  /\ popped' = <<Head(queue)>>
  /\ queue' = Tail(queue)
  /\ UNCHANGED pushed

PopEmpty ==
  /\ queue = << >>
  /\ popped' = << >>
  /\ UNCHANGED <<queue, pushed>>

Next == (\E v \in Data : Push(v)) \/ PushFull \/ Pop \/ PopEmpty

Spec == Init /\ [][Next]_<<queue, pushed, popped>>

============================================================================
