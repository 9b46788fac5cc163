------------------------------- MODULE RingBuf -------------------------------
(***************************************************************************)
(* Emu86RingBuf (platform.h): the single-producer single-consumer ring     *)
(* through which every byte enters or leaves the emulator.  Each access to *)
(* shared memory is a step of its own, so that a producer and a consumer   *)
(* on two threads (the header's browser host) interleave at every load and *)
(* store; the Linux host's single thread is one of these behaviours.       *)
(*                                                                         *)
(* Accesses are taken to be sequentially consistent, as the header demands *)
(* of a threaded host ("Atomics on head/tail").                            *)
(***************************************************************************)
EXTENDS Integers, Sequences

CONSTANTS
  Size,    \* rb->size
  Byte,    \* the values a slot can hold
  Nul,     \* the byte calloc fills the slots with
  MaxLen   \* longest block passed to the _buf calls (bounds the model)

ASSUME SizeAssumption ==
  /\ Size \in Nat /\ Size >= 2
  /\ \E n \in 1..31 : Size = 2 ^ n    \* so that & (size-1) is % size

ASSUME BlockAssumption == Nul \in Byte /\ MaxLen \in Nat /\ MaxLen >= 1

VARIABLES
  buf,       \* rb->buf
  head,      \* *rb->head, written by the producer only
  tail,      \* *rb->tail, written by the consumer only
  todo,      \* producer: bytes of the accepted call still to be published
  stored,    \* producer: buf[head] holds Head(todo), head not yet advanced
  wrote,     \* producer: result of its last finished call
  want,      \* consumer: bytes of the accepted call still to be taken
  loaded,    \* consumer: the byte at tail has been copied, tail not advanced
  byte,      \* consumer: the last byte copied out
  got,       \* consumer: the byte handed over when tail last advanced
  read       \* consumer: result of its last finished call

pvars == <<todo, stored, wrote>>
cvars == <<want, loaded, byte, got, read>>
vars == <<buf, head, tail, pvars, cvars>>

Slot == 0..(Size - 1)

Blocks == UNION {[1..n -> Byte] : n \in 1..MaxLen}

\* (i + 1) & (size - 1)
Succ(i) == (i + 1) % Size

\* ringbuf_available and ringbuf_free, from the two indices
Available(h, t) == (h - t) % Size

\* bugs: the slot that stays empty counted as free, or not counted twice
FreeOneMore(h, t) == Size - Available(h, t)
FreeOneLess(h, t) == Size - 2 - Available(h, t)

Free(h, t) == Size - 1 - Available(h, t)

Init ==
  /\ buf = [s \in Slot |-> Nul]
  /\ head = 0 /\ tail = 0
  /\ todo = <<>> /\ stored = FALSE /\ wrote = 0
  /\ want = 0 /\ loaded = FALSE /\ byte = Nul /\ got = Nul /\ read = 0

-----------------------------------------------------------------------------
(* The producer: ringbuf_write and ringbuf_write_buf.                      *)

\* bug: the result of the check ignored
WriteUnchecked(b) ==
  /\ todo = <<>>
  /\ todo' = <<b>>
  /\ UNCHANGED <<buf, head, tail, stored, wrote, cvars>>

\* ringbuf_write, its check: full when the slot after head is tail
BeginWrite(b) ==
  /\ todo = <<>>
  /\ IF Succ(head) = tail
       THEN wrote' = -1 /\ todo' = todo
       ELSE todo' = <<b>> /\ wrote' = wrote
  /\ UNCHANGED <<buf, head, tail, stored, cvars>>

\* bug: the check of ringbuf_write, for one byte, made for a block
WriteBufOneByte(data) ==
  /\ todo = <<>>
  /\ IF Succ(head) = tail
       THEN wrote' = -1 /\ todo' = todo
       ELSE todo' = data /\ wrote' = wrote
  /\ UNCHANGED <<buf, head, tail, stored, cvars>>

\* ringbuf_write_buf, its check: enough room for the whole block
BeginWriteBuf(data) ==
  /\ todo = <<>>
  /\ IF Free(head, tail) < Len(data)
       THEN wrote' = -1 /\ todo' = todo
       ELSE todo' = data /\ wrote' = wrote
  /\ UNCHANGED <<buf, head, tail, stored, cvars>>

\* rb->buf[h] = byte
Store ==
  /\ todo # <<>> /\ ~stored
  /\ buf' = [buf EXCEPT ![head] = Head(todo)]
  /\ stored' = TRUE
  /\ UNCHANGED <<head, tail, todo, wrote, cvars>>

\* *rb->head = next
Publish ==
  /\ stored
  /\ head' = Succ(head)
  /\ todo' = Tail(todo)
  /\ stored' = FALSE
  /\ wrote' = IF Len(todo) = 1 THEN 0 ELSE wrote
  /\ UNCHANGED <<buf, tail, cvars>>

-----------------------------------------------------------------------------
(* The consumer: ringbuf_read and ringbuf_read_buf.                        *)

\* bug: a ring that holds its last byte taken for an empty one
ReadAllButOne ==
  /\ want = 0
  /\ IF Succ(tail) = head \/ tail = head
       THEN read' = -1 /\ want' = want
       ELSE want' = 1 /\ read' = read
  /\ UNCHANGED <<buf, head, tail, pvars, loaded, byte, got>>

\* ringbuf_read, its check: empty when tail is head
BeginRead ==
  /\ want = 0
  /\ IF tail = head
       THEN read' = -1 /\ want' = want
       ELSE want' = 1 /\ read' = read
  /\ UNCHANGED <<buf, head, tail, pvars, loaded, byte, got>>

\* bug: the check of ringbuf_read, for one byte, made for a block
ReadBufOneByte(n) ==
  /\ want = 0
  /\ IF tail = head
       THEN read' = -1 /\ want' = want
       ELSE want' = n /\ read' = read
  /\ UNCHANGED <<buf, head, tail, pvars, loaded, byte, got>>

\* ringbuf_read_buf, its check: enough bytes for the whole block
BeginReadBuf(n) ==
  /\ want = 0
  /\ IF Available(head, tail) < n
       THEN read' = -1 /\ want' = want
       ELSE want' = n /\ read' = read
  /\ UNCHANGED <<buf, head, tail, pvars, loaded, byte, got>>

\* *byte = rb->buf[t]
Load ==
  /\ want > 0 /\ ~loaded
  /\ byte' = buf[tail]
  /\ loaded' = TRUE
  /\ UNCHANGED <<buf, head, tail, pvars, want, got, read>>

\* *rb->tail = (t + 1) & (size - 1)
Advance ==
  /\ loaded
  /\ tail' = Succ(tail)
  /\ got' = byte
  /\ want' = want - 1
  /\ loaded' = FALSE
  /\ read' = IF want = 1 THEN 0 ELSE read
  /\ UNCHANGED <<buf, head, pvars, byte>>

Producer ==
  \/ \E b \in Byte : BeginWrite(b)
  \/ \E data \in Blocks : BeginWriteBuf(data)
  \/ Store \/ Publish

Consumer ==
  \/ BeginRead
  \/ \E n \in 1..MaxLen : BeginReadBuf(n)
  \/ Load \/ Advance

Next == Producer \/ Consumer

Spec == Init /\ [][Next]_vars

(* A consumer that keeps polling (flush_console on every yield, the timer  *)
(* poll of the emulator) and runs its calls to their end; the producer     *)
(* only finishes the calls it starts.                                      *)
FairSpec ==
  /\ Spec
  /\ WF_vars(Store) /\ WF_vars(Publish)
  /\ SF_vars(BeginRead) /\ WF_vars(Load) /\ WF_vars(Advance)

-----------------------------------------------------------------------------
TypeOK ==
  /\ buf \in [Slot -> Byte]
  /\ head \in Slot /\ tail \in Slot
  /\ todo \in Seq(Byte) /\ stored \in BOOLEAN /\ wrote \in {0, -1}
  /\ want \in 0..MaxLen /\ loaded \in BOOLEAN
  /\ byte \in Byte /\ got \in Byte /\ read \in {0, -1}

(* The producer's room never disappears under it: a call that passed its   *)
(* check can store every byte it has left without catching up with tail,   *)
(* although the check was made against an older tail                       *)
(* (ringbuf_write_buf does not look at tail again).                        *)
RoomForAccepted == todo # <<>> => Available(head, tail) + Len(todo) <= Size - 1

(* The consumer's bytes never disappear under it: a call that passed its   *)
(* check finds every byte it still wants already published                 *)
(* (ringbuf_read_buf does not look at head again).                         *)
BytesForClaimed == want <= Available(head, tail)

(* No slot an accepted write is still to fill is a slot an accepted read   *)
(* is still to copy, whichever side passed its check first and however far *)
(* each has got.  This is the absence of a data race on the buffer; it     *)
(* follows from neither side's own check.                                  *)
SlotsDisjoint ==
  \A i \in 0..(Len(todo) - 1), k \in 0..(want - 1) :
    (head + i) % Size # (tail + k) % Size

(* A byte copied out of the ring is still the byte in its slot when tail   *)
(* moves past it: nothing overwrote it in between.                         *)
CopyStillCurrent == loaded => byte = buf[tail]

(* The inductive strengthening the proofs use.                             *)
Pending ==
  /\ stored => todo # <<>> /\ buf[head] = Head(todo)
  /\ loaded => want > 0

Inv == TypeOK /\ RoomForAccepted /\ BytesForClaimed /\ CopyStillCurrent /\ Pending

(* The ring implements the bounded queue: bytes come out in order, none is *)
(* lost, duplicated or invented, and a call is refused exactly when the    *)
(* queue at that instant has not the room or the bytes for all of it.      *)
Contents == [i \in 1..Available(head, tail) |-> buf[(tail + i - 1) % Size]]

Q == INSTANCE ByteQueue WITH
       Capacity <- Size - 1, queue <- Contents, reserved <- todo, claimed <- want

ImplementsQueue == Q!QSpec

(* What a producer's call accepted is eventually handed over: neither a    *)
(* byte in the ring nor one still to be published stays undelivered while  *)
(* the consumer keeps polling.                                             *)
EventuallyDelivered ==
  \A s \in Slot :
    ((head # tail \/ todo # <<>>) /\ tail = s) ~> (tail # s)
=============================================================================
