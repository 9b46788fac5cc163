---------------------------- MODULE RingBufProofs ----------------------------
(***************************************************************************)
(* Proofs about RingBuf, for every ring size, byte set and block length:   *)
(* the inductive invariant Inv, the disjointness of the slots the two      *)
(* sides touch, and that the ring implements the bounded queue.            *)
(***************************************************************************)
EXTENDS RingBuf, SequenceTheorems, TLAPS

-----------------------------------------------------------------------------
(* Index arithmetic.  The three facts about % on the ranges an index or a  *)
(* difference of indices can take carry everything else.                   *)

(* The successor of a slot is the next slot, or slot 0 after the last.     *)
LEMMA SuccIs ==
  ASSUME NEW i \in Slot
  PROVE  /\ Succ(i) = IF i = Size - 1 THEN 0 ELSE i + 1
         /\ Succ(i) \in Slot
  BY SizeAssumption DEF Succ, Slot

(* The occupancy is the distance from tail to head going up.               *)
LEMMA AvailableIs ==
  ASSUME NEW h \in Slot, NEW t \in Slot
  PROVE  /\ Available(h, t) = IF t <= h THEN h - t ELSE h - t + Size
         /\ Available(h, t) \in Slot
  BY SizeAssumption DEF Available, Slot

(* A slot reached by going up k < Size slots from a slot.                  *)
LEMMA SlotAt ==
  ASSUME NEW t \in Slot, NEW k \in Slot
  PROVE  /\ (t + k) % Size = IF t + k < Size THEN t + k ELSE t + k - Size
         /\ (t + k) % Size \in Slot
  BY SizeAssumption DEF Slot

(* The ring is full exactly when the slot after head is tail, and empty    *)
(* exactly when the indices agree.                                         *)
LEMMA FullEmpty ==
  ASSUME NEW h \in Slot, NEW t \in Slot
  PROVE  /\ Succ(h) = t <=> Available(h, t) = Size - 1
         /\ h = t <=> Available(h, t) = 0
  <1>1. Succ(h) = IF h = Size - 1 THEN 0 ELSE h + 1
    BY SuccIs
  <1>2. Available(h, t) = IF t <= h THEN h - t ELSE h - t + Size
    BY AvailableIs
  <1>3. QED
    BY <1>1, <1>2, SizeAssumption DEF Slot

(* Publishing adds one to the occupancy of a ring that is not full, and    *)
(* advancing tail takes one from a ring that is not empty.                 *)
LEMMA OccupancyStep ==
  ASSUME NEW h \in Slot, NEW t \in Slot
  PROVE  /\ Available(h, t) < Size - 1 => Available(Succ(h), t) = Available(h, t) + 1
         /\ Available(h, t) > 0 => Available(h, Succ(t)) = Available(h, t) - 1
  <1>1. Succ(h) \in Slot /\ Succ(t) \in Slot
    BY SuccIs
  <1>2. /\ Succ(h) = IF h = Size - 1 THEN 0 ELSE h + 1
        /\ Succ(t) = IF t = Size - 1 THEN 0 ELSE t + 1
    BY SuccIs
  <1>3. Available(h, t) = IF t <= h THEN h - t ELSE h - t + Size
    BY AvailableIs
  <1>4. Available(Succ(h), t)
          = IF t <= Succ(h) THEN Succ(h) - t ELSE Succ(h) - t + Size
    BY <1>1, AvailableIs
  <1>5. Available(h, Succ(t))
          = IF Succ(t) <= h THEN h - Succ(t) ELSE h - Succ(t) + Size
    BY <1>1, AvailableIs
  <1>6. QED
    BY <1>1, <1>2, <1>3, <1>4, <1>5, SizeAssumption DEF Slot
-----------------------------------------------------------------------------
(* The inductive invariant.                                                *)

(* A block is a non-empty sequence of bytes.                               *)
LEMMA BlockIs ==
  ASSUME NEW data \in Blocks
  PROVE  data \in Seq(Byte) /\ data # <<>> /\ Len(data) \in 1..MaxLen
  <1>1. PICK n \in 1..MaxLen : data \in [1..n -> Byte]
    BY DEF Blocks
  <1>2. data \in Seq(Byte) /\ Len(data) = n
    BY <1>1, BlockAssumption
  <1>3. QED
    BY <1>2, BlockAssumption

(* The ring starts empty, with nothing accepted on either side.            *)
LEMMA InitInv == Init => Inv
  <1> SUFFICES ASSUME Init PROVE Inv
    OBVIOUS
  <1>1. 0 \in Slot
    BY SizeAssumption DEF Slot
  <1>2. Available(head, tail) = 0
    BY <1>1, FullEmpty DEF Init
  <1>3. TypeOK
    BY <1>1, BlockAssumption DEF Init, TypeOK
  <1>4. QED
    BY <1>2, <1>3, SizeAssumption
    DEF Init, Inv, RoomForAccepted, BytesForClaimed, CopyStillCurrent, Pending

(* What Inv says of the occupancy, in the form the steps need it.          *)
LEMMA Occupancy ==
  ASSUME TypeOK
  PROVE  /\ Available(head, tail) \in Nat /\ Available(head, tail) <= Size - 1
         /\ Succ(head) \in Slot /\ Succ(tail) \in Slot
         /\ Succ(head) = tail <=> Available(head, tail) = Size - 1
         /\ head = tail <=> Available(head, tail) = 0
         /\ Available(head, tail) < Size - 1
              => Available(Succ(head), tail) = Available(head, tail) + 1
         /\ Available(head, tail) > 0
              => Available(head, Succ(tail)) = Available(head, tail) - 1
  <1>1. head \in Slot /\ tail \in Slot
    BY DEF TypeOK
  <1>2. Available(head, tail) \in Slot
    BY <1>1, AvailableIs
  <1>3. QED
    BY <1>1, <1>2, SuccIs, FullEmpty, OccupancyStep, SizeAssumption DEF Slot

(* Every step of either side preserves the inductive invariant.            *)
LEMMA StepInv == Inv /\ [Next]_vars => Inv'
  <1> SUFFICES ASSUME Inv, [Next]_vars PROVE Inv'
    OBVIOUS
  <1> DEFINE av == Available(head, tail)
  <1> USE SizeAssumption, BlockAssumption
  <1>a. /\ av \in Nat /\ av <= Size - 1
        /\ Succ(head) \in Slot /\ Succ(tail) \in Slot
        /\ Succ(head) = tail <=> av = Size - 1
        /\ head = tail <=> av = 0
        /\ av < Size - 1 => Available(Succ(head), tail) = av + 1
        /\ av > 0 => Available(head, Succ(tail)) = av - 1
    BY Occupancy DEF Inv
  <1>1. ASSUME NEW b \in Byte, BeginWrite(b) PROVE Inv'
    <2>1. UNCHANGED av
      BY <1>1 DEF BeginWrite
    <2>2. <<b>> \in Seq(Byte) /\ Len(<<b>>) = 1
      OBVIOUS
    <2>3. TypeOK'
      BY <1>1, <2>2 DEF Inv, TypeOK, BeginWrite, cvars
    <2>4. RoomForAccepted'
      <3>1. CASE Succ(head) = tail
        BY <1>1, <3>1 DEF BeginWrite, RoomForAccepted
      <3>2. CASE Succ(head) # tail
        <4>1. av + 1 <= Size - 1
          BY <1>a, <3>2
        <4>2. todo' = <<b>> /\ av' = av /\ Size' = Size
          BY <1>1, <2>1, <3>2 DEF BeginWrite
        <4>3. av' + Len(todo') <= Size - 1
          BY <4>1, <4>2, <2>2
        <4>4. QED
          BY <4>3 DEF RoomForAccepted
      <3>3. QED
        BY <3>1, <3>2
    <2>5. BytesForClaimed' /\ CopyStillCurrent' /\ Pending'
      BY <1>1 DEF Inv, TypeOK, BeginWrite, cvars, BytesForClaimed, CopyStillCurrent, Pending
    <2>6. QED
      BY <2>3, <2>4, <2>5 DEF Inv
  <1>2. ASSUME NEW data \in Blocks, BeginWriteBuf(data) PROVE Inv'
    <2>1. data \in Seq(Byte) /\ Len(data) \in Nat
      BY BlockIs
    <2>2. TypeOK'
      BY <1>2, <2>1 DEF Inv, TypeOK, BeginWriteBuf, cvars
    <2>3. RoomForAccepted'
      BY <1>2, <1>a, <2>1 DEF BeginWriteBuf, RoomForAccepted, Free
    <2>4. BytesForClaimed' /\ CopyStillCurrent' /\ Pending'
      BY <1>2 DEF Inv, TypeOK, BeginWriteBuf, cvars, BytesForClaimed, CopyStillCurrent, Pending
    <2>5. QED
      BY <2>2, <2>3, <2>4 DEF Inv
  <1>3. CASE Store
    <2>1. Head(todo) \in Byte /\ Len(todo) \in Nat /\ Len(todo) >= 1
      BY <1>3 DEF Store, Inv, TypeOK
    <2>2. TypeOK'
      BY <1>3, <2>1 DEF Store, Inv, TypeOK, cvars
    <2>3. RoomForAccepted' /\ BytesForClaimed' /\ Pending'
      BY <1>3, <2>1 DEF Store, Inv, TypeOK, cvars, RoomForAccepted, BytesForClaimed, Pending
    <2>4. loaded => head # tail
      \* the consumer holds a copy of a published byte, so the ring is not empty
      BY <1>a DEF Inv, TypeOK, Pending, BytesForClaimed
    <2>5. CopyStillCurrent'
      BY <1>3, <2>4 DEF Store, Inv, TypeOK, cvars, CopyStillCurrent
    <2>6. QED
      BY <2>2, <2>3, <2>5 DEF Inv
  <1>4. CASE Publish
    <2>1. todo # <<>> /\ todo \in Seq(Byte)
      BY <1>4 DEF Publish, Inv, TypeOK, Pending
    <2>2. /\ Len(todo) \in Nat /\ Len(todo) >= 1
          /\ Tail(todo) \in Seq(Byte) /\ Len(Tail(todo)) = Len(todo) - 1
      BY <2>1
    <2>3. av' = av + 1
      BY <1>4, <1>a, <2>1, <2>2 DEF Publish, Inv, RoomForAccepted
    <2>4. TypeOK'
      BY <1>4, <1>a, <2>2 DEF Publish, Inv, TypeOK, cvars
    <2>5. RoomForAccepted'
      BY <1>4, <1>a, <2>1, <2>2, <2>3 DEF Publish, Inv, RoomForAccepted
    <2>6. BytesForClaimed'
      BY <1>4, <1>a, <2>3 DEF Publish, Inv, TypeOK, cvars, BytesForClaimed
    <2>7. CopyStillCurrent' /\ Pending'
      BY <1>4 DEF Publish, Inv, cvars, CopyStillCurrent, Pending
    <2>8. QED
      BY <2>4, <2>5, <2>6, <2>7 DEF Inv
  <1>5. CASE BeginRead
    <2>1. TypeOK'
      BY <1>5 DEF BeginRead, Inv, TypeOK, pvars
    <2>2. BytesForClaimed'
      BY <1>5, <1>a DEF BeginRead, Inv, BytesForClaimed
    <2>3. RoomForAccepted' /\ CopyStillCurrent' /\ Pending'
      BY <1>5 DEF BeginRead, Inv, TypeOK, pvars, RoomForAccepted, CopyStillCurrent, Pending
    <2>4. QED
      BY <2>1, <2>2, <2>3 DEF Inv
  <1>6. ASSUME NEW n \in 1..MaxLen, BeginReadBuf(n) PROVE Inv'
    <2>1. TypeOK'
      BY <1>6 DEF BeginReadBuf, Inv, TypeOK, pvars
    <2>2. BytesForClaimed'
      BY <1>6, <1>a DEF BeginReadBuf, Inv, TypeOK, BytesForClaimed
    <2>3. RoomForAccepted' /\ CopyStillCurrent' /\ Pending'
      BY <1>6 DEF BeginReadBuf, Inv, TypeOK, pvars, RoomForAccepted, CopyStillCurrent, Pending
    <2>4. QED
      BY <2>1, <2>2, <2>3 DEF Inv
  <1>7. CASE Load
    <2>1. TypeOK' /\ CopyStillCurrent'
      BY <1>7 DEF Load, Inv, TypeOK, pvars, CopyStillCurrent
    <2>2. RoomForAccepted' /\ BytesForClaimed' /\ Pending'
      BY <1>7 DEF Load, Inv, TypeOK, pvars, RoomForAccepted, BytesForClaimed, Pending
    <2>3. QED
      BY <2>1, <2>2 DEF Inv
  <1>8. CASE Advance
    <2>1. want \in Nat /\ want > 0 /\ av > 0
      BY <1>8, <1>a DEF Advance, Inv, TypeOK, Pending, BytesForClaimed
    <2>2. av' = av - 1
      BY <1>8, <1>a, <2>1 DEF Advance
    <2>3. TypeOK'
      <3>1. want \in 0..MaxLen /\ want' = want - 1
        BY <1>8 DEF Advance, Inv, TypeOK
      <3>2. tail' \in Slot /\ loaded' \in BOOLEAN
        BY <1>8, <1>a DEF Advance
      <3>3. want' \in 0..MaxLen
        BY <2>1, <3>1
      <3>4. byte' \in Byte /\ got' \in Byte /\ read' \in {0, -1}
        BY <1>8 DEF Advance, Inv, TypeOK
      <3>5. UNCHANGED <<buf, head, todo, stored, wrote>>
        BY <1>8 DEF Advance, pvars
      <3>6. QED
        BY <3>2, <3>3, <3>4, <3>5 DEF Inv, TypeOK, Slot
    <2>4. RoomForAccepted'
      <3>1. Len(todo) \in Nat
        BY DEF Inv, TypeOK
      <3>2. QED
        BY <1>8, <1>a, <2>2, <3>1 DEF Advance, Inv, pvars, RoomForAccepted
    <2>5. BytesForClaimed'
      BY <1>8, <1>a, <2>1, <2>2 DEF Advance, Inv, BytesForClaimed
    <2>6. CopyStillCurrent' /\ Pending'
      BY <1>8 DEF Advance, Inv, pvars, CopyStillCurrent, Pending
    <2>7. QED
      BY <2>3, <2>4, <2>5, <2>6 DEF Inv
  <1>9. CASE UNCHANGED vars
    BY <1>9 DEF vars, pvars, cvars, Inv, TypeOK, RoomForAccepted, BytesForClaimed,
                CopyStillCurrent, Pending
  <1>10. QED
    BY <1>1, <1>2, <1>3, <1>4, <1>5, <1>6, <1>7, <1>8, <1>9
    DEF Next, Producer, Consumer

(* The ring's type, room, byte and copy invariants hold in every reachable *)
(* state (ringbuf_write, _write_buf, _read and _read_buf on two threads).  *)
THEOREM RingInvariant == Spec => []Inv
  BY InitInv, StepInv, PTL DEF Spec

(* No slot an accepted write will fill is one an accepted read will copy:  *)
(* the data-race freedom of the buffer for any interleaving of the two.    *)
THEOREM RingSlotsDisjoint == Spec => []SlotsDisjoint
  <1>1. Inv => SlotsDisjoint
    <2> SUFFICES ASSUME Inv,
                        NEW i \in 0..(Len(todo) - 1), NEW k \in 0..(want - 1)
                 PROVE  (head + i) % Size # (tail + k) % Size
      BY DEF SlotsDisjoint
    <2> DEFINE av == Available(head, tail)
    <2>1. /\ head \in Slot /\ tail \in Slot /\ todo \in Seq(Byte)
          /\ want \in Nat /\ Len(todo) \in Nat
      BY BlockAssumption DEF Inv, TypeOK
    <2>2. av = (IF tail <= head THEN head - tail ELSE head - tail + Size) /\ av \in Slot
      BY <2>1, AvailableIs
    <2>3. todo # <<>>
      BY <2>1
    <2>4. k < av /\ i + av <= Size - 2
      BY <2>1, <2>2, <2>3, SizeAssumption
      DEF Inv, RoomForAccepted, BytesForClaimed, Slot
    <2>5. i \in Slot /\ k \in Slot
      BY <2>1, <2>2, <2>4, SizeAssumption DEF Slot
    <2>6. /\ (head + i) % Size = IF head + i < Size THEN head + i ELSE head + i - Size
          /\ (tail + k) % Size = IF tail + k < Size THEN tail + k ELSE tail + k - Size
      BY <2>1, <2>5, SlotAt
    <2>7. QED
      BY <2>1, <2>2, <2>4, <2>5, <2>6, SizeAssumption DEF Slot
  <1>2. QED
    BY <1>1, RingInvariant, PTL

-----------------------------------------------------------------------------
(* The refinement of the bounded queue.                                    *)

(* The visible bytes are a sequence as long as the ring's occupancy.       *)
LEMMA ContentsIs ==
  ASSUME TypeOK
  PROVE  /\ Contents \in Seq(Byte)
         /\ Len(Contents) = Available(head, tail)
         /\ \A i \in 1..Available(head, tail) :
              /\ Contents[i] = buf[(tail + i - 1) % Size]
              /\ (tail + i - 1) % Size \in Slot
  <1> DEFINE av == Available(head, tail)
  <1>1. tail \in Slot /\ head \in Slot /\ buf \in [Slot -> Byte]
    BY DEF TypeOK
  <1>2. av \in Slot
    BY <1>1, AvailableIs
  <1>3. ASSUME NEW i \in 1..av PROVE (tail + i - 1) % Size \in Slot
    <2>1. i - 1 \in Slot /\ tail + i - 1 = tail + (i - 1)
      BY <1>1, <1>2, SizeAssumption DEF Slot
    <2>2. QED
      BY <1>1, <2>1, SlotAt
  <1>4. Contents \in [1..av -> Byte]
    BY <1>1, <1>3 DEF Contents
  <1>5. av \in Nat
    BY <1>2, SizeAssumption DEF Slot
  <1>6. QED
    BY <1>3, <1>4, <1>5 DEF Contents

(* The slot being filled is not among the visible ones.                    *)
LEMMA HeadNotVisible ==
  ASSUME TypeOK, NEW i \in 1..Available(head, tail)
  PROVE  (tail + i - 1) % Size # head
  <1>1. tail \in Slot /\ head \in Slot
    BY DEF TypeOK
  <1>2. /\ Available(head, tail) = IF tail <= head THEN head - tail ELSE head - tail + Size
        /\ Available(head, tail) \in Slot
    BY <1>1, AvailableIs
  <1>3. i - 1 \in Slot /\ tail + i - 1 = tail + (i - 1)
    BY <1>1, <1>2, SizeAssumption DEF Slot
  <1>4. (tail + i - 1) % Size = IF tail + i - 1 < Size THEN tail + i - 1 ELSE tail + i - 1 - Size
    BY <1>1, <1>3, SlotAt
  <1>5. QED
    BY <1>1, <1>2, <1>3, <1>4, SizeAssumption DEF Slot

(* The abstract queue is unchanged when the ring's slots up to head are.   *)
LEMMA ContentsSame ==
  ASSUME TypeOK, TypeOK', UNCHANGED <<head, tail>>,
         \A s \in Slot : s # head => buf'[s] = buf[s]
  PROVE  Contents' = Contents
  <1> DEFINE av == Available(head, tail)
  <1>1. av' = av
    OBVIOUS
  <1>2. ASSUME NEW i \in 1..av
        PROVE  buf'[(tail + i - 1) % Size] = buf[(tail + i - 1) % Size]
    BY ContentsIs, HeadNotVisible
  <1>3. QED
    BY <1>1, <1>2 DEF Contents

(* Publishing a stored byte appends it to the visible ones.                *)
LEMMA PublishAppends ==
  ASSUME Inv, Inv', Publish
  PROVE  Contents' = Append(Contents, Head(todo))
  <1> DEFINE av == Available(head, tail)
             C == Contents
             D == Append(C, Head(todo))
  <1>1. TypeOK /\ TypeOK' /\ todo # <<>> /\ todo \in Seq(Byte) /\ buf[head] = Head(todo)
    BY DEF Publish, Inv, Pending, TypeOK
  <1>2. Head(todo) \in Byte /\ Len(todo) \in Nat /\ Len(todo) >= 1
    BY <1>1
  <1>3. av \in Nat /\ av < Size - 1 /\ Available(head', tail') = av + 1
    BY <1>1, <1>2, Occupancy, SizeAssumption DEF Publish, Inv, RoomForAccepted
  <1>4. C \in Seq(Byte) /\ Len(C) = av
    BY <1>1, ContentsIs
  <1>5. /\ D \in Seq(Byte) /\ Len(D) = av + 1
        /\ \A i \in 1..av : D[i] = C[i]
        /\ D[av + 1] = Head(todo)
    BY <1>2, <1>4, AppendProperties
  <1>6. UNCHANGED <<buf, tail, Size>>
    BY DEF Publish
  <1>7. /\ C' \in Seq(Byte) /\ Len(C') = av + 1
        /\ \A i \in 1..(av + 1) : C'[i] = buf[(tail + i - 1) % Size]
    <2>1. C' = [i \in 1..(av + 1) |-> buf[(tail + i - 1) % Size]]
      BY <1>3, <1>6 DEF Contents
    <2>2. (C \in Seq(Byte))'
      BY <1>1, ContentsIs, PTL
    <2>3. Len(C') = av + 1
      BY <2>1, <1>3
    <2>4. QED
      BY <2>1, <2>2, <2>3, <1>3
  <1>8. buf[(tail + (av + 1) - 1) % Size] = Head(todo)
    <2>1. head \in Slot /\ tail \in Slot
      BY <1>1 DEF TypeOK
    <2>2. av = (IF tail <= head THEN head - tail ELSE head - tail + Size) /\ av \in Slot
      BY <2>1, AvailableIs
    <2>3. (tail + av) % Size = IF tail + av < Size THEN tail + av ELSE tail + av - Size
      BY <2>1, <2>2, SlotAt
    <2>4. (tail + av) % Size = head
      BY <2>1, <2>2, <2>3, SizeAssumption DEF Slot
    <2>5. tail + (av + 1) - 1 = tail + av
      BY <2>1, <2>2, SizeAssumption DEF Slot
    <2>6. QED
      BY <1>1, <2>4, <2>5
  <1>9. ASSUME NEW i \in 1..(av + 1) PROVE C'[i] = D[i]
    <2>1. CASE i = av + 1
      BY <1>5, <1>7, <1>8, <2>1
    <2>2. CASE i # av + 1
      <3>1. i \in 1..av
        BY <1>3, <2>2
      <3>2. C[i] = buf[(tail + i - 1) % Size]
        BY <1>1, <3>1, ContentsIs
      <3>3. QED
        BY <1>5, <1>7, <3>1, <3>2
    <2>3. QED
      BY <2>1, <2>2
  <1>10. QED
    BY <1>5, <1>7, <1>9, SeqEqual

(* Advancing tail takes the oldest visible byte, the one that was copied.  *)
LEMMA AdvanceTakes ==
  ASSUME Inv, Inv', Advance
  PROVE  /\ Contents # <<>>
         /\ Contents' = Tail(Contents)
         /\ Head(Contents) = byte
  <1> DEFINE av == Available(head, tail)
             C == Contents
             D == Tail(C)
  <1>1. TypeOK /\ TypeOK' /\ byte = buf[tail] /\ want \in Nat /\ want > 0 /\ want <= av
    BY BlockAssumption DEF Advance, Inv, Pending, TypeOK, CopyStillCurrent, BytesForClaimed
  <1>2. av \in Nat /\ av > 0 /\ Available(head', tail') = av - 1
    BY <1>1, Occupancy DEF Advance
  <1>3. C \in Seq(Byte) /\ Len(C) = av
    BY <1>1, ContentsIs
  <1>4. C # <<>>
    BY <1>2, <1>3
  <1>5. /\ D \in Seq(Byte) /\ Len(D) = av - 1
        /\ \A i \in 1..(av - 1) : D[i] = C[i + 1]
        /\ Head(C) = C[1]
    BY <1>2, <1>3, <1>4, HeadTailProperties
  <1>6. head \in Slot /\ tail \in Slot /\ av \in Slot
    BY <1>1, AvailableIs DEF TypeOK
  <1>7. Head(C) = byte
    <2>1. 1 \in 1..av /\ tail + 1 - 1 = tail + 0 /\ 0 \in Slot
      BY <1>2, <1>6, SizeAssumption DEF Slot
    <2>2. C[1] = buf[(tail + 1 - 1) % Size]
      BY <1>1, <2>1, ContentsIs
    <2>3. (tail + 0) % Size = tail
      <3>1. (tail + 0) % Size = IF tail + 0 < Size THEN tail + 0 ELSE tail + 0 - Size
        BY <1>6, <2>1, SlotAt
      <3>2. QED
        BY <1>6, <3>1, SizeAssumption DEF Slot
    <2>4. QED
      BY <1>1, <1>5, <2>1, <2>2, <2>3
  <1>8. UNCHANGED <<buf, Size>> /\ tail' = Succ(tail)
    BY DEF Advance
  <1>9. /\ C' \in Seq(Byte) /\ Len(C') = av - 1
        /\ \A i \in 1..(av - 1) : C'[i] = buf[(Succ(tail) + i - 1) % Size]
    <2>1. C' = [i \in 1..(av - 1) |-> buf[(Succ(tail) + i - 1) % Size]]
      BY <1>2, <1>8 DEF Contents
    <2>2. (C \in Seq(Byte))'
      BY <1>1, ContentsIs, PTL
    <2>3. Len(C') = av - 1
      BY <2>1, <1>2
    <2>4. QED
      BY <2>1, <2>2, <2>3, <1>2
  <1>10. ASSUME NEW i \in 1..(av - 1) PROVE C'[i] = D[i]
    <2>1. i + 1 \in 1..av /\ i \in Slot /\ i - 1 \in Slot
      BY <1>2, <1>6, SizeAssumption DEF Slot
    <2>2. C[i + 1] = buf[(tail + (i + 1) - 1) % Size]
      BY <1>1, <2>1, ContentsIs
    <2>3. Succ(tail) = (IF tail = Size - 1 THEN 0 ELSE tail + 1) /\ Succ(tail) \in Slot
      BY <1>6, SuccIs
    <2>4. (tail + i) % Size = IF tail + i < Size THEN tail + i ELSE tail + i - Size
      BY <1>6, <2>1, SlotAt
    <2>5. (Succ(tail) + (i - 1)) % Size
            = IF Succ(tail) + (i - 1) < Size THEN Succ(tail) + (i - 1)
                                             ELSE Succ(tail) + (i - 1) - Size
      BY <2>1, <2>3, SlotAt
    <2>6. (Succ(tail) + (i - 1)) % Size = (tail + i) % Size
      BY <1>6, <2>1, <2>3, <2>4, <2>5, SizeAssumption DEF Slot
    <2>7. tail + (i + 1) - 1 = tail + i /\ Succ(tail) + i - 1 = Succ(tail) + (i - 1)
      BY <1>6, <2>1, <2>3, SizeAssumption DEF Slot
    <2>8. QED
      BY <1>5, <1>9, <2>2, <2>6, <2>7
  <1>11. QED
    BY <1>4, <1>5, <1>7, <1>9, <1>10, SeqEqual

(* Every initial state of the ring is one of the queue.                    *)
LEMMA InitQueue == Init => Q!QInit
  <1> SUFFICES ASSUME Init PROVE Q!QInit
    OBVIOUS
  <1>1. TypeOK /\ Available(head, tail) = 0
    BY InitInv, Occupancy DEF Init, Inv
  <1>2. Contents \in Seq(Byte) /\ Len(Contents) = 0
    BY <1>1, ContentsIs
  <1>3. Contents = <<>>
    BY <1>2
  <1>4. QED
    BY <1>3, BlockAssumption DEF Init, Q!QInit

(* Every step of the ring is one of the queue or leaves the queue alone:   *)
(* the two checks accept or refuse, Publish enqueues, Advance dequeues.    *)
LEMMA StepQueue == Inv /\ Inv' /\ [Next]_vars => [Q!QNext]_(Q!qvars)
  <1> SUFFICES ASSUME Inv, Inv', [Next]_vars PROVE [Q!QNext]_(Q!qvars)
    OBVIOUS
  <1> DEFINE av == Available(head, tail)
             C == Contents
  <1>a. TypeOK /\ TypeOK'
    BY DEF Inv
  <1>b. C \in Seq(Byte) /\ Len(C) = av /\ av \in Nat /\ av <= Size - 1
    BY <1>a, ContentsIs, Occupancy
  <1>c. UNCHANGED <<buf, head, tail>> => C' = C
    BY DEF Contents
  <1>1. ASSUME NEW b \in Byte, BeginWrite(b) PROVE [Q!QNext]_(Q!qvars)
    <2> DEFINE blk == [i \in 1..1 |-> b]
    <2>1. blk \in Q!Blocks
      BY BlockAssumption DEF Q!Blocks
    <2>2. blk = <<b>> /\ Len(blk) = 1
      OBVIOUS
    <2>3. C' = C
      BY <1>1, <1>c DEF BeginWrite
    <2>4. Succ(head) = tail <=> av = Size - 1
      BY <1>a, Occupancy
    <2>5. CASE Succ(head) = tail
      <3>1. Len(C) + Len(blk) > Size - 1
        BY <1>b, <2>2, <2>4, <2>5, SizeAssumption
      <3>2. Q!RefuseWrite(blk)
        BY <1>1, <2>3, <2>5, <3>1 DEF BeginWrite, cvars, Q!RefuseWrite
      <3>3. QED
        BY <2>1, <3>2 DEF Q!QNext
    <2>6. CASE Succ(head) # tail
      <3>1. Len(C) + Len(blk) <= Size - 1
        BY <1>b, <2>2, <2>4, <2>6, SizeAssumption
      <3>2. Q!AcceptWrite(blk)
        BY <1>1, <2>2, <2>3, <2>6, <3>1 DEF BeginWrite, cvars, Q!AcceptWrite
      <3>3. QED
        BY <2>1, <3>2 DEF Q!QNext
    <2>7. QED
      BY <2>5, <2>6
  <1>2. ASSUME NEW data \in Blocks, BeginWriteBuf(data) PROVE [Q!QNext]_(Q!qvars)
    <2>1. data \in Q!Blocks /\ Len(data) \in Nat
      BY BlockIs DEF Q!Blocks, Blocks
    <2>2. C' = C
      BY <1>2, <1>c DEF BeginWriteBuf
    <2>3. Free(head, tail) < Len(data) <=> Len(C) + Len(data) > Size - 1
      BY <1>b, <2>1, SizeAssumption DEF Free
    <2>4. Q!RefuseWrite(data) \/ Q!AcceptWrite(data)
      <3>1. CASE Free(head, tail) < Len(data)
        BY <1>2, <2>2, <2>3, <3>1 DEF BeginWriteBuf, cvars, Q!RefuseWrite
      <3>2. CASE ~(Free(head, tail) < Len(data))
        <4>1. Len(C) + Len(data) <= Size - 1
          BY <1>b, <2>1, <2>3, <3>2, SizeAssumption
        <4>2. QED
          BY <1>2, <2>2, <3>2, <4>1 DEF BeginWriteBuf, cvars, Q!AcceptWrite
      <3>3. QED
        BY <3>1, <3>2
    <2>5. QED
      BY <2>1, <2>4 DEF Q!QNext
  <1>3. CASE Store
    <2>1. \A s \in Slot : s # head => buf'[s] = buf[s]
      BY <1>3, <1>a DEF Store, TypeOK
    <2>2. C' = C
      BY <1>3, <1>a, <2>1, ContentsSame DEF Store
    <2>3. QED
      BY <1>3, <2>2 DEF Store, cvars, Q!qvars
  <1>4. CASE Publish
    <2>1. C' = Append(C, Head(todo))
      BY <1>4, PublishAppends
    <2>2. todo # <<>> /\ todo \in Seq(Byte)
      BY <1>4, <1>a DEF Publish, Inv, Pending, TypeOK
    <2>3. Len(C) < Size - 1
      <3>1. Len(todo) \in Nat /\ Len(todo) >= 1
        BY <2>2
      <3>2. QED
        BY <1>b, <2>2, <3>1, SizeAssumption DEF Inv, RoomForAccepted
    <2>4. Q!Enqueue
      BY <1>4, <2>1, <2>2, <2>3 DEF Publish, cvars, Q!Enqueue
    <2>5. QED
      BY <2>4 DEF Q!QNext
  <1>5. CASE BeginRead
    <2>1. C' = C /\ 1 \in 1..MaxLen
      BY <1>5, <1>c, BlockAssumption DEF BeginRead
    <2>2. tail = head <=> Len(C) < 1
      BY <1>a, <1>b, Occupancy
    <2>3. Q!AcceptRead(1) \/ Q!RefuseRead(1)
      <3>1. CASE tail = head
        BY <1>5, <2>1, <2>2, <3>1 DEF BeginRead, pvars, Q!RefuseRead
      <3>2. CASE tail # head
        <4>1. Len(C) >= 1
          BY <1>b, <2>2, <3>2
        <4>2. QED
          BY <1>5, <2>1, <3>2, <4>1 DEF BeginRead, pvars, Q!AcceptRead
      <3>3. QED
        BY <3>1, <3>2
    <2>4. QED
      BY <2>1, <2>3 DEF Q!QNext
  <1>6. ASSUME NEW n \in 1..MaxLen, BeginReadBuf(n) PROVE [Q!QNext]_(Q!qvars)
    <2>1. C' = C
      BY <1>6, <1>c DEF BeginReadBuf
    <2>2. Q!AcceptRead(n) \/ Q!RefuseRead(n)
      <3>1. CASE Available(head, tail) < n
        BY <1>6, <1>b, <2>1, <3>1 DEF BeginReadBuf, pvars, Q!RefuseRead
      <3>2. CASE ~(Available(head, tail) < n)
        <4>1. Len(C) >= n
          BY <1>b, <3>2, BlockAssumption
        <4>2. QED
          BY <1>6, <2>1, <3>2, <4>1 DEF BeginReadBuf, pvars, Q!AcceptRead
      <3>3. QED
        BY <3>1, <3>2
    <2>3. QED
      BY <2>2 DEF Q!QNext
  <1>7. CASE Load
    <2>1. C' = C
      BY <1>7, <1>c DEF Load
    <2>2. QED
      BY <1>7, <2>1 DEF Load, pvars, Q!qvars
  <1>8. CASE Advance
    <2>1. C # <<>> /\ C' = Tail(C) /\ Head(C) = byte
      BY <1>8, AdvanceTakes
    <2>2. want > 0
      BY <1>8 DEF Advance, Inv, Pending
    <2>3. Q!Dequeue
      BY <1>8, <2>1, <2>2 DEF Advance, pvars, Q!Dequeue
    <2>4. QED
      BY <2>3 DEF Q!QNext
  <1>9. CASE UNCHANGED vars
    <2>1. C' = C
      BY <1>9, <1>c DEF vars
    <2>2. QED
      BY <1>9, <2>1 DEF vars, pvars, cvars, Q!qvars
  <1>10. QED
    BY <1>1, <1>2, <1>3, <1>4, <1>5, <1>6, <1>7, <1>8, <1>9
    DEF Next, Producer, Consumer

(* The two-index ring, with its separate loads and stores, implements the  *)
(* bounded FIFO: for every ring size and every interleaving no byte is     *)
(* lost, duplicated or reordered, and calls are refused exactly when the   *)
(* queue has not the room or the bytes (platform.h, lines 29-86).          *)
THEOREM RingImplementsQueue == Spec => ImplementsQueue
  <1>1. Inv /\ Inv' /\ [Next]_vars => [Q!QNext]_(Q!qvars)
    BY StepQueue
  <1>2. QED
    BY <1>1, InitQueue, RingInvariant, PTL DEF Spec, ImplementsQueue, Q!QSpec

(* A block that a call has found room for still has it at every store: the *)
(* consumer can only make more (platform.h, lines 40-50 and 62-73).        *)
THEOREM RingRoomForAccepted == Spec => []RoomForAccepted
  <1>1. Inv => RoomForAccepted
    BY DEF Inv
  <1>2. QED
    BY <1>1, RingInvariant, PTL

(* A block that a call has found the bytes for still has them at every     *)
(* load: the producer can only add (platform.h, lines 52-60 and 75-86).    *)
THEOREM RingBytesForClaimed == Spec => []BytesForClaimed
  <1>1. Inv => BytesForClaimed
    BY DEF Inv
  <1>2. QED
    BY <1>1, RingInvariant, PTL

(* What a reader has copied out of a slot is still what the writer put     *)
(* there when tail moves past it (platform.h, lines 79-85).                *)
THEOREM RingCopyStillCurrent == Spec => []CopyStillCurrent
  <1>1. Inv => CopyStillCurrent
    BY DEF Inv
  <1>2. QED
    BY <1>1, RingInvariant, PTL
=============================================================================
