--------------------------- MODULE SpscRingProofs ---------------------------
(***************************************************************************)
(* The ring is free of data races and is a FIFO, for every capacity and    *)
(* every set of entries.  The inductive invariant Locals ties the values a *)
(* thread has loaded to the shared indices: the producer's index cannot    *)
(* move under it, and the consumer can only make more room.                *)
(***************************************************************************)
EXTENDS SpscRing, TLAPS

Locals ==
  /\ prod.pc # "idle" => prod.next = NextIndex(tail) /\ prod.next # head
  /\ prod.pc = "publish" => buf[tail] = prod.v
  /\ cons.pc # "idle" => head # tail
  /\ cons.pc = "advance" => cons.v = buf[head]
  /\ \A i \in 1 .. Size : buf[Slot(i)] \in Data

IInv == TypeOK /\ Locals

(* The masked successor of an index is an index. *)
LEMMA NextIndexTyped == ASSUME NEW i \in Index PROVE NextIndex(i) \in Index
  BY RingAssumption DEF Index, NextIndex

(* The empty ring. *)
LEMMA InitIInv == Init => IInv
  BY RingAssumption DEF Init, IInv, TypeOK, Locals, Index, ProdIdle, ConsIdle, Size

(* The positions of the stored entries are indices, one for each entry. *)
LEMMA SlotTyped ==
  ASSUME head \in Index, tail \in Index
  PROVE  /\ Size \in 0 .. N - 1
         /\ \A i \in 1 .. N - 1 : Slot(i) \in Index
         /\ \A i \in 1 .. Size : Slot(i) # tail
         /\ Size < N - 1 => Slot(Size + 1) = tail
         /\ (Size = N - 1) <=> (NextIndex(tail) = head)
         /\ (Size = 0) <=> (head = tail)
         /\ Slot(1) = head
  BY RingAssumption DEF Index, Size, Slot, NextIndex

(* Publishing the written slot makes the contents one entry longer. *)
LEMMA Grows ==
  ASSUME head \in Index, tail \in Index, tail' = NextIndex(tail),
         NextIndex(tail) # head, head' = head
  PROVE  /\ Size' = Size + 1
         /\ \A i \in 1 .. N - 1 : Slot(i)' = Slot(i)
  BY RingAssumption DEF Index, Size, Slot, NextIndex

(* Advancing past the front makes the contents one entry shorter. *)
LEMMA Shrinks ==
  ASSUME head \in Index, tail \in Index, head' = NextIndex(head),
         tail' = tail, head # tail
  PROVE  /\ Size' = Size - 1
         /\ \A i \in 1 .. N - 2 : Slot(i)' = Slot(i + 1)
  BY RingAssumption DEF Index, Size, Slot, NextIndex

(* Every access to shared memory keeps the invariant. *)
LEMMA StepIInv == IInv /\ [Next]_vars => IInv'
<1> SUFFICES ASSUME IInv, [Next]_vars PROVE IInv'
  OBVIOUS
<1> USE RingAssumption DEF IInv
<1>s. /\ Size \in 0 .. N - 1
      /\ \A i \in 1 .. N - 1 : Slot(i) \in Index
      /\ \A i \in 1 .. Size : Slot(i) # tail
      /\ Size < N - 1 => Slot(Size + 1) = tail
      /\ (Size = N - 1) <=> (NextIndex(tail) = head)
  BY SlotTyped DEF TypeOK
<1>1. CASE PushFull
  BY <1>1 DEF PushFull, TypeOK, Locals, Size, Slot
<1>2. ASSUME NEW v \in Data, PushBegin(v) PROVE IInv'
  BY <1>2, NextIndexTyped DEF PushBegin, RingFull, TypeOK, Locals, Size, Slot
<1>3. CASE PushWrite
  <2>1. Size' = Size /\ \A i \in 1 .. Size : Slot(i)' = Slot(i)
    BY <1>3 DEF PushWrite, Size, Slot
  <2>2. TypeOK'
    BY <1>3 DEF PushWrite, TypeOK
  <2>3. \A i \in 1 .. Size : buf'[Slot(i)] = buf[Slot(i)]
    BY <1>3, <1>s DEF PushWrite, TypeOK
  <2>4. cons.pc = "advance" => buf'[head] = buf[head]
    BY <1>3 DEF PushWrite, TypeOK, Locals
  <2>5. buf'[tail] = prod.v
    BY <1>3 DEF PushWrite, TypeOK
  <2> QED
    BY <1>3, <2>1, <2>2, <2>3, <2>4, <2>5 DEF PushWrite, Locals, TypeOK
<1>4. CASE PushPublish
  <2>1. tail' = NextIndex(tail) /\ NextIndex(tail) # head /\ head' = head /\ buf' = buf
    BY <1>4 DEF PushPublish, Locals, TypeOK
  <2>2. Size' = Size + 1 /\ \A i \in 1 .. N - 1 : Slot(i)' = Slot(i)
    BY <2>1, Grows DEF TypeOK
  <2>3. Slot(Size + 1) = tail /\ buf[tail] \in Data
    BY <1>4, <1>s, <2>1 DEF PushPublish, Locals, TypeOK
  <2>4. \A i \in 1 .. Size' : buf'[Slot(i)'] \in Data
    BY <1>s, <2>1, <2>2, <2>3 DEF Locals
  <2>5. TypeOK'
    BY <1>4, <2>1, NextIndexTyped DEF PushPublish, TypeOK, ProdIdle, Index
  <2>6. cons.pc # "idle" => head # tail'
    BY <2>1
  <2> QED
    BY <1>4, <2>1, <2>4, <2>5, <2>6 DEF PushPublish, Locals, ProdIdle
<1>5. CASE PopEmpty
  BY <1>5 DEF PopEmpty, TypeOK, Locals, Size, Slot
<1>6. CASE PopBegin
  BY <1>6 DEF PopBegin, TypeOK, Locals, Size, Slot
<1>7. CASE PopRead
  BY <1>7 DEF PopRead, TypeOK, Locals, Size, Slot
<1>8. CASE PopAdvance
  <2>1. head' = NextIndex(head) /\ tail' = tail /\ head # tail /\ buf' = buf /\ prod' = prod
    BY <1>8 DEF PopAdvance, Locals
  <2>2. Size' = Size - 1 /\ \A i \in 1 .. N - 2 : Slot(i)' = Slot(i + 1)
    BY <2>1, Shrinks DEF TypeOK
  <2>3. \A i \in 1 .. Size' : buf'[Slot(i)'] \in Data
    BY <1>s, <2>1, <2>2 DEF Locals
  <2>4. TypeOK'
    BY <1>8, <2>1, NextIndexTyped DEF PopAdvance, TypeOK, ConsIdle
  <2>5. NextIndex(tail) # NextIndex(head)
    BY <2>1 DEF TypeOK, Index, NextIndex
  <2> QED
    BY <1>8, <2>1, <2>3, <2>4, <2>5 DEF PopAdvance, Locals, ConsIdle
<1>9. CASE UNCHANGED vars
  BY <1>9 DEF vars, TypeOK, Locals, Size, Slot
<1> QED
  BY <1>1, <1>2, <1>3, <1>4, <1>5, <1>6, <1>7, <1>8, <1>9 DEF Next

(* The indices, and what a try_push or try_pop under way has loaded. *)
THEOREM Invariance == Spec => []IInv
  BY InitIInv, StepIInv, PTL DEF Spec

(***************************************************************************)
(* Every index stays within the buffer, and a push under way carries the   *)
(* entry it was given, for every power of two (indeed every N above one).  *)
(***************************************************************************)
THEOREM TypeCorrect == Spec => []TypeOK
<1>1. IInv => TypeOK
  BY DEF IInv
<1> QED
  BY <1>1, Invariance, PTL

(***************************************************************************)
(* The producer's write and the consumer's read of buf_ never meet.        *)
(***************************************************************************)
THEOREM RaceFree == Spec => []NoSlotRace
<1>1. IInv => NoSlotRace
  BY DEF IInv, Locals, NoSlotRace
<1> QED
  BY <1>1, Invariance, PTL

ContentsSeq ==
  /\ Contents \in Seq(Data)
  /\ Len(Contents) = Size
  /\ Contents = << >> <=> head = tail
  /\ \A i \in 1 .. Size : Contents[i] = buf[Slot(i)]

(* While the invariant holds the contents are a sequence of entries. *)
LEMMA ContentsTyped == IInv => ContentsSeq
<1> SUFFICES ASSUME IInv PROVE ContentsSeq
  OBVIOUS
<1>1. Size \in Nat
  BY SlotTyped, RingAssumption DEF IInv, TypeOK
<1>2. Contents \in [1 .. Size -> Data]
  BY DEF IInv, Locals, Contents
<1>3. Contents \in Seq(Data)
  BY <1>1, <1>2
<1>4. Len(Contents) = Size
  BY <1>1, <1>2, <1>3
<1>5. Contents = << >> <=> Size = 0
  BY <1>3, <1>4
<1>6. (Size = 0) <=> (head = tail)
  BY SlotTyped DEF IInv, TypeOK
<1> QED
  BY <1>3, <1>4, <1>5, <1>6 DEF Contents, ContentsSeq

(* Every step of the ring is a step of the FIFO or leaves it unchanged. *)
LEMMA StepImplements ==
  ASSUME IInv, IInv', [Next]_vars
  PROVE  [Fifo!Next]_<<Contents, pushed, popped>>
<1> USE RingAssumption
<1>c. /\ Contents \in Seq(Data) /\ Len(Contents) = Size
      /\ Contents = << >> <=> head = tail
      /\ \A i \in 1 .. Size : Contents[i] = buf[Slot(i)]
  BY ContentsTyped DEF ContentsSeq
<1>d. /\ Contents' \in Seq(Data) /\ Len(Contents') = Size'
      /\ \A i \in 1 .. Size' : Contents'[i] = buf'[Slot(i)']
  <2>1. ContentsSeq'
    BY ContentsTyped, PTL
  <2> QED
    BY <2>1 DEF ContentsSeq
<1>s. /\ Size \in 0 .. N - 1
      /\ \A i \in 1 .. N - 1 : Slot(i) \in Index
      /\ \A i \in 1 .. Size : Slot(i) # tail
      /\ Size < N - 1 => Slot(Size + 1) = tail
      /\ (Size = N - 1) <=> (NextIndex(tail) = head)
      /\ Slot(1) = head
  BY SlotTyped DEF IInv, TypeOK
<1>q. ASSUME head' = head, tail' = tail, buf' = buf PROVE Contents' = Contents
  BY <1>q DEF Contents, Size, Slot
<1>1. CASE PushFull
  <2>1. Contents' = Contents
    BY <1>1, <1>q DEF PushFull
  <2>2. Fifo!PushFull
    BY <1>1, <1>c, <1>s, <2>1 DEF PushFull, RingFull, Fifo!PushFull
  <2> QED
    BY <2>2 DEF Fifo!Next
<1>2. ASSUME NEW v \in Data, PushBegin(v) PROVE UNCHANGED <<Contents, pushed, popped>>
  BY <1>2, <1>q DEF PushBegin
<1>3. CASE PushWrite
  <2>1. Size' = Size /\ \A i \in 1 .. Size : Slot(i)' = Slot(i)
    BY <1>3 DEF PushWrite, Size, Slot
  <2>2. \A i \in 1 .. Size : buf'[Slot(i)] = buf[Slot(i)]
    BY <1>3, <1>s DEF PushWrite, IInv, TypeOK
  <2>3. Contents' = Contents
    BY <2>1, <2>2 DEF Contents
  <2> QED
    BY <1>3, <2>3 DEF PushWrite
<1>4. CASE PushPublish
  <2>1. /\ tail' = NextIndex(tail) /\ NextIndex(tail) # head
        /\ head' = head /\ buf' = buf /\ prod.v = buf[tail] /\ prod.v \in Data
    BY <1>4 DEF PushPublish, IInv, Locals, TypeOK
  <2>2. Size' = Size + 1 /\ \A i \in 1 .. N - 1 : Slot(i)' = Slot(i)
    BY <2>1, Grows DEF IInv, TypeOK
  <2>3. \A i \in 1 .. Size : Contents'[i] = Contents[i]
    BY <1>c, <1>d, <1>s, <2>1, <2>2
  <2>4. Contents'[Size + 1] = prod.v
    BY <1>d, <1>s, <2>1, <2>2
  <2>5. Contents' = Append(Contents, prod.v)
    BY <1>c, <1>d, <1>s, <2>1, <2>2, <2>3, <2>4
  <2>6. Len(Contents) < N - 1
    BY <1>c, <1>s, <2>1
  <2>7. Fifo!Push(prod.v)
    BY <1>4, <2>5, <2>6 DEF PushPublish, Fifo!Push
  <2> QED
    BY <2>1, <2>7 DEF Fifo!Next
<1>5. CASE PopEmpty
  <2>1. Contents' = Contents
    BY <1>5, <1>q DEF PopEmpty
  <2>2. Fifo!PopEmpty
    BY <1>5, <1>c, <2>1 DEF PopEmpty, Fifo!PopEmpty
  <2> QED
    BY <2>2 DEF Fifo!Next
<1>6. CASE PopBegin
  BY <1>6, <1>q DEF PopBegin
<1>7. CASE PopRead
  BY <1>7, <1>q DEF PopRead
<1>8. CASE PopAdvance
  <2>1. /\ head' = NextIndex(head) /\ tail' = tail /\ head # tail
        /\ buf' = buf /\ cons.v = buf[head]
    BY <1>8 DEF PopAdvance, IInv, Locals
  <2>2. Size' = Size - 1 /\ \A i \in 1 .. N - 2 : Slot(i)' = Slot(i + 1)
    BY <2>1, Shrinks DEF IInv, TypeOK
  <2>3. Contents # << >> /\ Size >= 1
    BY <1>c, <1>s, <2>1
  <2>4. Head(Contents) = cons.v
    BY <1>c, <1>s, <2>1, <2>3
  <2>5. \A i \in 1 .. Size' : Contents'[i] = Contents[i + 1]
    <3>1. TAKE i \in 1 .. Size'
    <3>2. i \in 1 .. N - 2 /\ i + 1 \in 1 .. Size
      BY <1>s, <2>2
    <3>3. Contents'[i] = buf[Slot(i + 1)]
      BY <1>d, <2>1, <2>2, <3>2
    <3> QED
      BY <1>c, <3>2, <3>3
  <2>6. Contents' = Tail(Contents)
    BY <1>c, <1>d, <1>s, <2>2, <2>3, <2>5
  <2>7. Fifo!Pop
    BY <1>8, <2>3, <2>4, <2>6 DEF PopAdvance, Fifo!Pop
  <2> QED
    BY <2>7 DEF Fifo!Next
<1>9. CASE UNCHANGED vars
  BY <1>9, <1>q DEF vars
<1> QED
  BY <1>1, <1>2, <1>3, <1>4, <1>5, <1>6, <1>7, <1>8, <1>9 DEF Next

(***************************************************************************)
(* The ring is a FIFO of N - 1 entries, whatever the interleaving: try_push *)
(* takes effect at its release store of tail_, try_pop at that of head_.   *)
(***************************************************************************)
THEOREM RefinesFifo == Spec => ImplementsFifo
<1>1. Init => Fifo!Init
  BY RingAssumption DEF Init, Fifo!Init, Contents, Size
<1>2. IInv /\ IInv' /\ [Next]_vars => [Fifo!Next]_<<Contents, pushed, popped>>
  BY StepImplements
<1> QED
  BY <1>1, <1>2, Invariance, PTL DEF Spec, ImplementsFifo, Fifo!Spec

============================================================================
