------------------------------ MODULE ByteQueue ------------------------------
(***************************************************************************)
(* What Emu86RingBuf promises its two users: a bounded FIFO of bytes.  A   *)
(* producer's call is either refused as a whole or accepted as a whole;    *)
(* the bytes of an accepted call then become visible one by one, in order, *)
(* and there is always room for the rest of them.  A consumer's call is    *)
(* likewise refused or accepted as a whole, and an accepted one is handed  *)
(* the oldest bytes in order.                                              *)
(***************************************************************************)
EXTENDS Integers, Sequences

CONSTANTS
  Byte,      \* the values a slot can hold
  Capacity,  \* bytes the queue can hold
  MaxLen     \* longest block a caller passes (bounds the model)

VARIABLES
  queue,     \* bytes visible to the consumer, oldest first
  reserved,  \* bytes of the accepted write that are not visible yet
  claimed,   \* bytes of the accepted read that are not handed over yet
  got,       \* the byte handed over last
  wrote,     \* result of the last finished producer call: 0 or -1
  read       \* result of the last finished consumer call: 0 or -1

qvars == <<queue, reserved, claimed, got, wrote, read>>

Blocks == UNION {[1..n -> Byte] : n \in 1..MaxLen}

QInit ==
  /\ queue = <<>> /\ reserved = <<>> /\ claimed = 0
  /\ got \in Byte /\ wrote = 0 /\ read = 0

AcceptWrite(data) ==
  /\ reserved = <<>>
  /\ Len(queue) + Len(data) <= Capacity
  /\ reserved' = data
  /\ UNCHANGED <<queue, claimed, got, wrote, read>>

RefuseWrite(data) ==
  /\ reserved = <<>>
  /\ Len(queue) + Len(data) > Capacity
  /\ wrote' = -1
  /\ UNCHANGED <<queue, reserved, claimed, got, read>>

Enqueue ==
  /\ reserved # <<>>
  /\ Len(queue) < Capacity
  /\ queue' = Append(queue, Head(reserved))
  /\ reserved' = Tail(reserved)
  /\ wrote' = IF Len(reserved) = 1 THEN 0 ELSE wrote
  /\ UNCHANGED <<claimed, got, read>>

AcceptRead(n) ==
  /\ claimed = 0
  /\ Len(queue) >= n
  /\ claimed' = n
  /\ UNCHANGED <<queue, reserved, got, wrote, read>>

RefuseRead(n) ==
  /\ claimed = 0
  /\ Len(queue) < n
  /\ read' = -1
  /\ UNCHANGED <<queue, reserved, claimed, got, wrote>>

Dequeue ==
  /\ claimed > 0
  /\ queue # <<>>
  /\ got' = Head(queue)
  /\ queue' = Tail(queue)
  /\ claimed' = claimed - 1
  /\ read' = IF claimed = 1 THEN 0 ELSE read
  /\ UNCHANGED <<reserved, wrote>>

QNext ==
  \/ \E data \in Blocks : AcceptWrite(data) \/ RefuseWrite(data)
  \/ Enqueue
  \/ \E n \in 1..MaxLen : AcceptRead(n) \/ RefuseRead(n)
  \/ Dequeue

QSpec == QInit /\ [][QNext]_qvars
=============================================================================
