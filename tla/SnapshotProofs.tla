---------------------------- MODULE SnapshotProofs ----------------------------
(***************************************************************************)
(* Proofs about Snapshot, for every size of the memory and of the ports,   *)
(* every guest and every value a damaged size may have: what is saved is   *)
(* read back, group by group, and whatever happens to the process and to   *)
(* the file, only a whole save starts a machine.                           *)
(***************************************************************************)
EXTENDS Snapshot, SequenceTheorems, TLAPS

State == [Group -> Nat]

-----------------------------------------------------------------------------
(* The layout.                                                             *)

\* where the pointer must be, counted by hand
Places ==
  LET n == MemSize + IoPorts
  IN  << 0, 4, 8, 12, 40, 44, 48, 48 + MemSize, 48 + n, 84 + n, 100 + n, 118 + n,
         123 + n, 126 + n, 130 + n, 139 + n >>

LEMMA OrderIs ==
  /\ ReadOrder = WriteOrder
  /\ Len(WriteOrder) = 15 /\ DOMAIN WriteOrder = 1..15
  /\ DataSize = 127 + MemSize + IoPorts
  BY SizesAssumption DEF ReadOrder, WriteOrder, DataSize

LEMMA PlacesFit ==
  /\ Places = [i \in 1..16 |-> IF i = 1 THEN 0 ELSE Places[i - 1] + WriteOrder[i - 1][2]]
  BY SizesAssumption DEF Places, WriteOrder

(* The pointers of both orders are there,                                   *)
LEMMA PointerIs == WriteAt = Places /\ ReadAt = Places
  <1> DEFINE def(f) == [i \in 1..16 |-> IF i = 1 THEN 0 ELSE f[i - 1] + WriteOrder[i - 1][2]]
             at == CHOOSE f : f = def(f)
  <1>1. at = def(at)
    <2>1. Places = def(Places)
      BY PlacesFit
    <2> HIDE DEF def
    <2>2. QED
      BY <2>1
  <1>2. WriteAt = [i \in 1..16 |-> at[i]] /\ ReadAt = WriteAt
    BY OrderIs DEF WriteAt, ReadAt, Pointer
  <1> HIDE DEF at
  <1>3. \A i \in 1..16 : at[i] = IF i = 1 THEN 0 ELSE at[i - 1] + WriteOrder[i - 1][2]
    BY <1>1
  <1>4. \A i \in 1..16 : at[i] = Places[i]
    <2>1. at[1] = 0 /\ at[2] = 4 /\ at[3] = 8 /\ at[4] = 12 /\ at[5] = 40
      BY <1>3 DEF WriteOrder
    <2>2. /\ at[6] = 44 /\ at[7] = 48 /\ at[8] = 48 + MemSize
          /\ at[9] = 48 + MemSize + IoPorts
      BY <1>3, <2>1, SizesAssumption DEF WriteOrder
    <2>3. /\ at[10] = 84 + MemSize + IoPorts /\ at[11] = 100 + MemSize + IoPorts
          /\ at[12] = 118 + MemSize + IoPorts
      BY <1>3, <2>2, SizesAssumption DEF WriteOrder
    <2>4. /\ at[13] = 123 + MemSize + IoPorts /\ at[14] = 126 + MemSize + IoPorts
          /\ at[15] = 130 + MemSize + IoPorts /\ at[16] = 139 + MemSize + IoPorts
      BY <1>3, <2>3, SizesAssumption DEF WriteOrder
    <2>5. QED
      BY <2>1, <2>2, <2>3, <2>4, SizesAssumption DEF Places
  <1>5. Places = [i \in 1..16 |-> Places[i]]
    BY PlacesFit
  <1>6. QED
    BY <1>2, <1>4, <1>5

(* each access starts where the one before it ended, and no two share a byte *)
(* or a name.                                                                *)
LEMMA LayoutIs ==
  /\ \A i \in 1..15 : /\ Places[i] \in Nat /\ WriteOrder[i][2] \in Nat \ {0}
                      /\ Places[i + 1] = Places[i] + WriteOrder[i][2]
                      /\ Places[i + 1] <= Places[16]
  /\ Places[16] = HeaderSize + DataSize /\ Places[16] \in Nat
  /\ \A i, j \in 1..15 : i < j => Places[i + 1] <= Places[j]
  /\ \A i, j \in 1..15 : WriteOrder[i][1] = WriteOrder[j][1] => i = j
  /\ \A i \in 1..15 : WriteOrder[i][1] \notin {"lost", "crc"}
  <1>1. \A i \in 1..15 : /\ Places[i] \in Nat /\ WriteOrder[i][2] \in Nat \ {0}
                         /\ Places[i + 1] = Places[i] + WriteOrder[i][2]
                         /\ Places[i + 1] <= Places[16]
    BY SizesAssumption DEF Places, WriteOrder
  <1>2. Places[16] = HeaderSize + DataSize /\ Places[16] \in Nat
    BY OrderIs, SizesAssumption DEF Places, HeaderSize
  <1>3. \A i, j \in 1..15 : i < j => Places[i + 1] <= Places[j]
    BY SizesAssumption DEF Places
  <1>4. \A i, j \in 1..15 : WriteOrder[i][1] = WriteOrder[j][1] => i = j
    BY DEF WriteOrder
  <1>5. \A i \in 1..15 : WriteOrder[i][1] \notin {"lost", "crc"}
    BY DEF WriteOrder
  <1>6. QED
    BY <1>1, <1>2, <1>3, <1>4, <1>5

-----------------------------------------------------------------------------
(* What is saved.                                                           *)
Total == Places[16] + 4

Lost == <<"lost", 0, 0>>

(* A function on the numbers up to n is a sequence.                         *)
LEMMA FunctionIsSeq ==
  \A n \in Nat : \A S : \A f \in [1..n -> S] : f \in Seq(S) /\ Len(f) = n
  BY SeqDef

\* the bytes of the save of s, and the one that is lost
ByteOf(s) ==
  {Written(s)[p] : p \in 1..Places[16]} \cup {<<"crc", k, Written(s)>> : k \in 1..4} \cup {Lost}

(* The access that writes a byte is the one whose range it is in.           *)
LEMMA AccessIs ==
  ASSUME NEW i \in 1..15, NEW k \in 1..WriteOrder[i][2]
  PROVE  /\ Places[i] + k \in 1..Places[16]
         /\ (CHOOSE j \in 1..15 : Places[i] + k \in Places[j] + 1..Places[j + 1]) = i
  <1> DEFINE p == Places[i] + k
  <1>1. /\ Places[i] \in Nat /\ WriteOrder[i][2] \in Nat \ {0} /\ Places[16] \in Nat
        /\ Places[i + 1] = Places[i] + WriteOrder[i][2] /\ Places[i + 1] <= Places[16]
    BY LayoutIs
  <1>2. p \in Places[i] + 1..Places[i + 1] /\ p \in 1..Places[16]
    BY <1>1
  <1>3. ASSUME NEW j \in 1..15, p \in Places[j] + 1..Places[j + 1] PROVE j = i
    <2>1. /\ Places[j] \in Nat /\ WriteOrder[j][2] \in Nat /\ Places[j + 1] = Places[j] + WriteOrder[j][2]
          /\ i < j => Places[i + 1] <= Places[j]
          /\ j < i => Places[j + 1] <= Places[i]
      BY LayoutIs
    <2> HIDE DEF p
    <2>2. Places[j] < p /\ p <= Places[j + 1] /\ Places[i] < p /\ p <= Places[i + 1] /\ p \in Nat
      BY <1>1, <1>2, <1>3, <2>1
    <2>3. QED
      BY <1>1, <2>1, <2>2
  <1> HIDE DEF p
  <1>4. (CHOOSE j \in 1..15 : p \in Places[j] + 1..Places[j + 1]) = i
    BY <1>2, <1>3
  <1>5. QED
    BY <1>2, <1>4 DEF p

(* Every byte before the checksum is in the range of one.                   *)
LEMMA Covered ==
  ASSUME NEW p \in 1..Places[16]
  PROVE  \E i \in 1..15 : \E k \in 1..WriteOrder[i][2] : p = Places[i] + k
  <1>1. \E i \in 1..15 : Places[i] < p /\ p <= Places[i + 1]
    BY SizesAssumption DEF Places
  <1>2. PICK i \in 1..15 : Places[i] < p /\ p <= Places[i + 1]
    BY <1>1
  <1>3. /\ Places[i] \in Nat /\ WriteOrder[i][2] \in Nat
        /\ Places[i + 1] = Places[i] + WriteOrder[i][2] /\ Places[16] \in Nat
    BY LayoutIs
  <1>4. p - Places[i] \in 1..WriteOrder[i][2] /\ p = Places[i] + (p - Places[i])
    BY <1>2, <1>3
  <1>5. QED
    BY <1>4

LEMMA WrittenIs ==
  ASSUME NEW s
  PROVE  /\ Written(s) \in Seq(ByteOf(s)) /\ Len(Written(s)) = Places[16]
         /\ \A i \in 1..15 : \A k \in 1..WriteOrder[i][2] :
              Written(s)[Places[i] + k] = <<WriteOrder[i][1], k, Content(s, WriteOrder[i][1])>>
         /\ \A p \in 1..Places[16] : Written(s)[p][1] \notin {"lost", "crc"}
  <1> DEFINE at(p) == CHOOSE j \in 1..15 : p \in Places[j] + 1..Places[j + 1]
             e(i, k) == Bytes(WriteOrder[i][1], WriteOrder[i][2], Content(s, WriteOrder[i][1]))[k]
  <1>1. Written(s) = [p \in 1..Places[16] |-> e(at(p), p - Places[at(p)])]
    BY OrderIs, PointerIs DEF Written
  <1>2. Places[16] \in Nat
    BY LayoutIs
  <1>3. Written(s) \in Seq(ByteOf(s)) /\ Len(Written(s)) = Places[16]
    <2>1. Written(s) \in [1..Places[16] -> ByteOf(s)]
      <3>1. \A p \in 1..Places[16] : Written(s)[p] \in ByteOf(s)
        BY DEF ByteOf
      <3> HIDE DEF e, at
      <3>2. QED
        BY <1>1, <3>1
    <2>2. QED
      BY <1>2, <2>1, FunctionIsSeq
  <1>4. ASSUME NEW i \in 1..15, NEW k \in 1..WriteOrder[i][2]
        PROVE  Written(s)[Places[i] + k] = <<WriteOrder[i][1], k, Content(s, WriteOrder[i][1])>>
    <2>1. Places[i] + k \in 1..Places[16] /\ at(Places[i] + k) = i
      BY AccessIs
    <2>2. (Places[i] + k) - Places[i] = k
      BY LayoutIs
    <2> HIDE DEF at, e
    <2>3. Written(s)[Places[i] + k] = e(i, k)
      BY <1>1, <2>1, <2>2
    <2>4. QED
      BY <2>3 DEF e, Bytes
  <1>5. ASSUME NEW p \in 1..Places[16] PROVE Written(s)[p][1] \notin {"lost", "crc"}
    <2>1. PICK i \in 1..15 : \E k \in 1..WriteOrder[i][2] : p = Places[i] + k
      BY Covered
    <2>2. PICK k \in 1..WriteOrder[i][2] : p = Places[i] + k
      BY <2>1
    <2>3. Written(s)[p] = <<WriteOrder[i][1], k, Content(s, WriteOrder[i][1])>>
      BY <1>4, <2>2
    <2>4. QED
      BY <2>3, LayoutIs
  <1>6. QED
    BY <1>3, <1>4, <1>5

LEMMA SaveIs ==
  ASSUME NEW s
  PROVE  /\ Save(s) \in Seq(ByteOf(s)) /\ Len(Save(s)) = Total /\ Total \in Nat
         /\ \A p \in 1..Places[16] : Save(s)[p] = Written(s)[p]
         /\ \A k \in 1..4 : Save(s)[Places[16] + k] = <<"crc", k, Written(s)>>
  <1> DEFINE c == Crc(Written(s))
             w == Written(s)
             n == Places[16]
  <1>1. c = [k \in 1..4 |-> <<"crc", k, w>>]
    BY DEF Crc, Bytes, CrcSize
  <1> HIDE DEF c, w
  <1>2. c \in Seq(ByteOf(s)) /\ Len(c) = 4
    <2>1. \A k \in 1..4 : <<"crc", k, w>> \in ByteOf(s)
      BY DEF ByteOf, w
    <2>2. c \in [1..4 -> ByteOf(s)] /\ 4 \in Nat
      BY <1>1, <2>1
    <2>3. QED
      BY <2>2, FunctionIsSeq
  <1>3. w \in Seq(ByteOf(s)) /\ Len(w) = n /\ n \in Nat
    BY WrittenIs, LayoutIs DEF w
  <1> HIDE DEF n
  <1>4. /\ w \o c \in Seq(ByteOf(s)) /\ Len(w \o c) = n + 4
        /\ \A p \in 1..n + 4 : (w \o c)[p] = IF p <= n THEN w[p] ELSE c[p - n]
    <2> DEFINE S == ByteOf(s)
    <2>1. w \in Seq(S) /\ c \in Seq(S)
      BY <1>2, <1>3
    <2> HIDE DEF S
    <2>2. /\ w \o c \in Seq(S) /\ Len(w \o c) = Len(w) + Len(c)
          /\ \A p \in 1..Len(w) + Len(c) :
               (w \o c)[p] = IF p <= Len(w) THEN w[p] ELSE c[p - Len(w)]
      BY <2>1, ConcatProperties
    <2>3. QED
      BY <1>2, <1>3, <2>2 DEF S
  <1>5. Save(s) = w \o c
    BY DEF Save, w, c
  <1>6. \A k \in 1..4 : n + k \in 1..n + 4 /\ ~(n + k <= n) /\ (n + k) - n = k
    BY <1>3
  <1>7. \A k \in 1..4 : Save(s)[n + k] = <<"crc", k, w>>
    BY <1>1, <1>4, <1>5, <1>6
  <1>8. \A p \in 1..n : Save(s)[p] = w[p]
    BY <1>3, <1>4, <1>5
  <1>9. Save(s) \in Seq(ByteOf(s)) /\ Len(Save(s)) = n + 4
    BY <1>4, <1>5
  <1>10. Total = n + 4 /\ Total \in Nat
    BY <1>3 DEF Total, n
  <1>11. QED
    BY <1>7, <1>8, <1>9, <1>10 DEF n, w

-----------------------------------------------------------------------------
(* What is read: a part of a buffer,                                        *)
LEMMA PartIs ==
  ASSUME NEW buf, NEW m \in Nat, NEW n \in Nat
  PROVE  LET part == SubSeq(buf, m + 1, m + n)
         IN  /\ \E S : part \in Seq(S)
             /\ Len(part) = n
             /\ \A k \in 1..n : part[k] = buf[m + k]
  <1> DEFINE S == {buf[p] : p \in m + 1..m + n}
             a == m + 1
             b == m + n
  <1>1. \A p \in a..b : buf[p] \in S
    OBVIOUS
  <1>2. a \in Int /\ b \in Int /\ (a <= b <=> n # 0) /\ b - a + 1 = n
    OBVIOUS
  <1>3. \A k \in 1..n : a + k - 1 = m + k
    OBVIOUS
  <1> HIDE DEF S, a, b
  <1>4. /\ SubSeq(buf, a, b) \in Seq(S)
        /\ Len(SubSeq(buf, a, b)) = IF a <= b THEN b - a + 1 ELSE 0
        /\ \A k \in 1..b - a + 1 : SubSeq(buf, a, b)[k] = buf[a + k - 1]
    BY <1>1, <1>2, SubSeqProperties
  <1>5. Len(SubSeq(buf, a, b)) = n
    BY <1>2, <1>4
  <1>6. \A k \in 1..n : SubSeq(buf, a, b)[k] = buf[m + k]
    BY <1>2, <1>3, <1>4
  <1>7. QED
    BY <1>4, <1>5, <1>6 DEF a, b

(* as one value, when all its bytes are of it,                              *)
LEMMA ValueIs ==
  ASSUME NEW n \in Nat, n # 0, NEW g, NEW v, NEW bytes, bytes = Bytes(g, n, v), Len(bytes) = n
  PROVE  Value(g, bytes) = v
  <1>1. 1 \in 1..n
    OBVIOUS
  <1>2. bytes[1] = <<g, 1, v>>
    BY <1>1 DEF Bytes
  <1>3. bytes[1][3] = v
    BY <1>2
  <1>4. QED
    BY <1>3 DEF Value

(* and as -1 when one is lost.                                              *)
LEMMA ValueIsNot ==
  ASSUME NEW bytes, NEW g, g # "lost", NEW k \in 1..Len(bytes), bytes[k] = Lost
  PROVE  Value(g, bytes) = -1
  <1>1. \A v : Bytes(g, Len(bytes), v)[k] = <<g, k, v>>
    BY DEF Bytes
  <1>2. \A v : bytes # Bytes(g, Len(bytes), v)
    BY <1>1 DEF Lost
  <1>3. QED
    BY <1>2 DEF Value

LEMMA ReadAccess ==
  ASSUME NEW i \in 1..15, NEW buf
  PROVE  Read(buf, WriteOrder[i][1])
           = Value(WriteOrder[i][1],
                   SubSeq(buf, Places[i] + 1, Places[i] + WriteOrder[i][2]))
  <1>1. (CHOOSE j \in 1..15 : WriteOrder[j][1] = WriteOrder[i][1]) = i
    BY LayoutIs
  <1>2. QED
    BY <1>1, OrderIs, PointerIs DEF Read

LEMMA ReadIs ==
  ASSUME NEW i \in 1..15, NEW buf, NEW v,
         \A k \in 1..WriteOrder[i][2] : buf[Places[i] + k] = <<WriteOrder[i][1], k, v>>
  PROVE  Read(buf, WriteOrder[i][1]) = v
  <1> DEFINE m == Places[i]
             n == WriteOrder[i][2]
             g == WriteOrder[i][1]
             part == SubSeq(buf, m + 1, m + n)
  <1>1. m \in Nat /\ n \in Nat /\ n # 0
    BY LayoutIs
  <1>2. \A k \in 1..n : buf[m + k] = <<g, k, v>>
    OBVIOUS
  <1>3. Read(buf, g) = Value(g, part)
    BY ReadAccess
  <1> HIDE DEF m, n, g
  <1>4. (\E S : part \in Seq(S)) /\ Len(part) = n /\ \A k \in 1..n : part[k] = buf[m + k]
    BY <1>1, PartIs
  <1> HIDE DEF part
  <1>5. PICK S : part \in Seq(S)
    BY <1>4
  <1>6. \A k \in 1..n : part[k] = <<g, k, v>>
    BY <1>2, <1>4
  <1>7. part = Bytes(g, n, v)
    <2>1. part \in [1..n -> S]
      BY <1>4, <1>5, LenProperties
    <2>2. QED
      BY <1>6, <2>1 DEF Bytes
  <1>8. Value(g, part) = v
    BY <1>1, <1>4, <1>7, ValueIs
  <1>9. QED
    BY <1>3, <1>8 DEF g

LEMMA ReadIsNot ==
  ASSUME NEW i \in 1..15, NEW buf, NEW k \in 1..WriteOrder[i][2], buf[Places[i] + k] = Lost
  PROVE  Read(buf, WriteOrder[i][1]) = -1
  <1> DEFINE n == WriteOrder[i][2]
             part == SubSeq(buf, Places[i] + 1, Places[i] + n)
  <1>1. Places[i] \in Nat /\ n \in Nat \ {0} /\ k \in 1..n /\ WriteOrder[i][1] # "lost"
    BY LayoutIs
  <1> HIDE DEF n
  <1>2. /\ Len(part) = n
        /\ \A j \in 1..n : part[j] = buf[Places[i] + j]
    BY <1>1, PartIs
  <1> HIDE DEF part
  <1>3. k \in 1..Len(part) /\ part[k] = Lost
    BY <1>1, <1>2
  <1>4. Value(WriteOrder[i][1], part) = -1
    BY <1>1, <1>3, ValueIsNot
  <1>5. QED
    BY <1>4, ReadAccess DEF part, n

-----------------------------------------------------------------------------
(* The checks.                                                              *)

\* the access k belongs to is intact in buf
Intact(buf, s, i) ==
  \A k \in 1..WriteOrder[i][2] : buf[Places[i] + k] = Written(s)[Places[i] + k]

LEMMA IntactIs ==
  ASSUME NEW i \in 1..15, NEW buf, NEW s, Intact(buf, s, i)
  PROVE  Read(buf, WriteOrder[i][1]) = Content(s, WriteOrder[i][1])
  <1>1. \A k \in 1..WriteOrder[i][2] :
          buf[Places[i] + k] = <<WriteOrder[i][1], k, Content(s, WriteOrder[i][1])>>
    BY WrittenIs DEF Intact
  <1>2. QED
    BY <1>1, ReadIs

LEMMA GroupIs ==
  /\ Group = {WriteOrder[i][1] : i \in 4..15}
  /\ \A g \in Group : g \notin Header
  /\ WriteOrder[1][1] = "magic" /\ WriteOrder[2][1] = "version" /\ WriteOrder[3][1] = "size"
  /\ WriteOrder[1][2] = 4 /\ WriteOrder[2][2] = 4 /\ WriteOrder[3][2] = 4
  <1>1. /\ WriteOrder[1][1] = "magic" /\ WriteOrder[2][1] = "version" /\ WriteOrder[3][1] = "size"
        /\ WriteOrder[1][2] = 4 /\ WriteOrder[2][2] = 4 /\ WriteOrder[3][2] = 4
    BY DEF WriteOrder
  <1>2. \A i \in 4..15 : WriteOrder[i][1] \notin Header
    BY DEF WriteOrder, Header
  <1>3. \A i \in 1..15 : i \in 4..15 \/ WriteOrder[i][1] \in Header
    BY <1>1 DEF Header
  <1>4. QED
    BY <1>1, <1>2, <1>3, OrderIs DEF Group

(* A whole save is restored to what was saved.                              *)
LEMMA FieldsIs ==
  ASSUME NEW s \in State, NEW buf, \A i \in 1..15 : Intact(buf, s, i)
  PROVE  Fields(buf) = s
  <1>1. \A g \in Group : Read(buf, g) = s[g]
    <2> SUFFICES ASSUME NEW g \in Group PROVE Read(buf, g) = s[g]
      OBVIOUS
    <2>1. PICK i \in 4..15 : WriteOrder[i][1] = g
      BY GroupIs
    <2>2. Read(buf, g) = Content(s, g)
      BY <2>1, IntactIs
    <2>3. QED
      BY <2>2, GroupIs DEF Content, Header
  <1>2. QED
    BY <1>1 DEF Fields, State

(* The checksum at n of what is before it.                                  *)
LEMMA ChecksumIs ==
  ASSUME NEW buf, NEW n \in Nat, NEW x
  PROVE  SubSeq(buf, n + 1, n + 4) = Crc(x) <=> \A k \in 1..4 : buf[n + k] = <<"crc", k, x>>
  <1> DEFINE part == SubSeq(buf, n + 1, n + 4)
             c == Crc(x)
  <1>1. c = [k \in 1..4 |-> <<"crc", k, x>>]
    BY DEF Crc, Bytes, CrcSize
  <1>2. /\ \E S : part \in Seq(S)
        /\ Len(part) = 4
        /\ \A k \in 1..4 : part[k] = buf[n + k]
    <2>1. PICK j \in Nat : j = 4
      OBVIOUS
    <2>2. /\ \E S : SubSeq(buf, n + 1, n + j) \in Seq(S)
          /\ Len(SubSeq(buf, n + 1, n + j)) = j
          /\ \A k \in 1..j : SubSeq(buf, n + 1, n + j)[k] = buf[n + k]
      BY PartIs
    <2>3. QED
      BY <2>1, <2>2
  <1> HIDE DEF part, c
  <1>3. PICK S : part \in [1..4 -> S]
    BY <1>2, LenProperties
  <1>4. part = c <=> \A k \in 1..4 : part[k] = c[k]
    BY <1>1, <1>3
  <1>5. QED
    BY <1>1, <1>2, <1>4 DEF part, c

(* The beginning of a buffer.                                               *)
LEMMA PrefixIs ==
  ASSUME NEW buf, NEW n \in Nat
  PROVE  /\ \E S : SubSeq(buf, 1, n) \in [1..n -> S]
         /\ Len(SubSeq(buf, 1, n)) = n
         /\ \A k \in 1..n : SubSeq(buf, 1, n)[k] = buf[k]
  <1>1. PICK z \in Nat : z = 0
    OBVIOUS
  <1>2. /\ \E S : SubSeq(buf, z + 1, z + n) \in Seq(S)
        /\ Len(SubSeq(buf, z + 1, z + n)) = n
        /\ \A k \in 1..n : SubSeq(buf, z + 1, z + n)[k] = buf[z + k]
    BY PartIs
  <1>3. z + 1 = 1 /\ z + n = n /\ \A k \in 1..n : z + k = k
    BY <1>1
  <1>4. \E S : SubSeq(buf, 1, n) \in [1..n -> S]
    BY <1>2, <1>3, LenProperties
  <1>5. QED
    BY <1>2, <1>3, <1>4

(* The checks from the length on, for the size ds found in the header.      *)
LEMMA CheckedIs ==
  ASSUME NEW buf, NEW t, NEW ds \in Nat, NEW n, n = HeaderSize + ds,
         NEW x, x = SubSeq(buf, 1, n)
  PROVE  /\ Len(buf) < n + 4 => Checked(buf, t, ds) = Refuse(-4, t)
         /\ ~(Len(buf) < n + 4) /\ (\E k \in 1..4 : buf[n + k] # <<"crc", k, x>>) =>
              Checked(buf, t, ds) = Refuse(-3, t)
         /\ ~(Len(buf) < n + 4) /\ (\A k \in 1..4 : buf[n + k] = <<"crc", k, x>>) =>
              Checked(buf, t, ds) = [rc |-> 0, st |-> Fields(buf)]
  <1> DEFINE total == HeaderSize + ds + CrcSize
  <1>1. n \in Nat /\ total = n + 4 /\ total - 3 = n + 1 /\ total - CrcSize = n
    BY DEF HeaderSize, CrcSize
  <1>2. Checked(buf, t, ds) =
          IF Len(buf) < total THEN Refuse(-4, t)
          ELSE IF SubSeq(buf, total - 3, total) # Crc(SubSeq(buf, 1, total - CrcSize))
          THEN Refuse(-3, t)
          ELSE [rc |-> 0, st |-> Fields(buf)]
    BY DEF Checked
  <1> HIDE DEF total
  <1>3. Checked(buf, t, ds) =
          IF Len(buf) < n + 4 THEN Refuse(-4, t)
          ELSE IF SubSeq(buf, n + 1, n + 4) # Crc(x)
          THEN Refuse(-3, t)
          ELSE [rc |-> 0, st |-> Fields(buf)]
    BY <1>1, <1>2
  <1>4. SubSeq(buf, n + 1, n + 4) = Crc(x) <=> \A k \in 1..4 : buf[n + k] = <<"crc", k, x>>
    <2>1. n \in Nat
      BY <1>1
    <2> DEFINE y == x
    <2>2. SubSeq(buf, n + 1, n + 4) = Crc(y) <=> \A k \in 1..4 : buf[n + k] = <<"crc", k, y>>
      <3> HIDE DEF y
      <3>1. QED
        BY <2>1, ChecksumIs, ZenonT(30)
    <2>3. QED
      BY <2>2
  <1>5. QED
    BY <1>3, <1>4

(* A header of a buffer that is long enough is read access by access.       *)
LEMMA RestoreIs ==
  ASSUME NEW buf, NEW t, ~(Len(buf) < 16), NEW s
  PROVE  /\ Read(buf, "magic") # 0 => Restore(buf, t) = {Refuse(-1, t)}
         /\ Intact(buf, s, 1) /\ Read(buf, "version") # 0 => Restore(buf, t) = {Refuse(-2, t)}
         /\ Intact(buf, s, 1) /\ Intact(buf, s, 2) =>
              /\ Read(buf, "size") = -1 =>
                   Restore(buf, t) = {Checked(buf, t, ds) : ds \in WrongSize}
              /\ Intact(buf, s, 3) => Restore(buf, t) = {Checked(buf, t, DataSize)}
  <1>1. HeaderSize + CrcSize = 16
    BY DEF HeaderSize, CrcSize
  <1>2. Intact(buf, s, 1) => Read(buf, "magic") = 0
    BY IntactIs, GroupIs DEF Content
  <1>3. Intact(buf, s, 2) => Read(buf, "version") = 0
    BY IntactIs, GroupIs DEF Content
  <1>4. Intact(buf, s, 3) => Read(buf, "size") = DataSize
    BY IntactIs, GroupIs DEF Content
  <1>5. DataSize # -1
    BY OrderIs, SizesAssumption
  <1>6. Restore(buf, t) =
          IF Read(buf, "magic") # 0 THEN {Refuse(-1, t)}
          ELSE IF Read(buf, "version") # 0 THEN {Refuse(-2, t)}
          ELSE {Checked(buf, t, ds) :
                  ds \in IF Read(buf, "size") = -1 THEN WrongSize ELSE {Read(buf, "size")}}
    BY <1>1 DEF Restore
  <1>7. QED
    BY <1>2, <1>3, <1>4, <1>5, <1>6

-----------------------------------------------------------------------------
(* What becomes of a whole save,                                            *)
LEMMA RestoreWhole ==
  ASSUME NEW s \in State, NEW t
  PROVE  Restore(Save(s), t) = {[rc |-> 0, st |-> s]}
  <1> DEFINE buf == Save(s)
             n == HeaderSize + DataSize
  <1>1. /\ buf \in Seq(ByteOf(s)) /\ Len(buf) = n + 4 /\ n \in Nat /\ n = Places[16]
        /\ \A p \in 1..n : buf[p] = Written(s)[p]
        /\ \A k \in 1..4 : buf[n + k] = <<"crc", k, Written(s)>>
    BY SaveIs, LayoutIs DEF Total
  <1>2. DataSize \in Nat /\ n >= 12
    BY OrderIs, SizesAssumption DEF HeaderSize
  <1> HIDE DEF buf, n
  <1>3. ASSUME NEW i \in 1..15 PROVE Intact(buf, s, i)
    BY <1>1, AccessIs DEF Intact
  <1>4. SubSeq(buf, 1, n) = Written(s)
    <2>1. PICK S : SubSeq(buf, 1, n) \in [1..n -> S]
      BY <1>1, PrefixIs
    <2>2. Written(s) \in [1..n -> ByteOf(s)]
      BY <1>1, WrittenIs, LenProperties
    <2>3. \A k \in 1..n : SubSeq(buf, 1, n)[k] = Written(s)[k]
      BY <1>1, PrefixIs
    <2> DEFINE f == SubSeq(buf, 1, n)
               g == Written(s)
    <2>4. f \in [1..n -> S] /\ g \in [1..n -> ByteOf(s)] /\ \A k \in 1..n : f[k] = g[k]
      BY <2>1, <2>2, <2>3
    <2> HIDE DEF f, g
    <2>5. f = [k \in 1..n |-> f[k]] /\ g = [k \in 1..n |-> g[k]]
      BY <2>4
    <2>6. f = g
      BY <2>4, <2>5
    <2>7. QED
      BY <2>6 DEF f, g
  <1>5. Checked(buf, t, DataSize) = [rc |-> 0, st |-> Fields(buf)]
    <2>1. ~(Len(buf) < n + 4)
      BY <1>1
    <2>2. n = HeaderSize + DataSize
      BY DEF n
    <2>3. QED
      <3> DEFINE x == Written(s)
      <3>1. x = SubSeq(buf, 1, n) /\ \A k \in 1..4 : buf[n + k] = <<"crc", k, x>>
        BY <1>1, <1>4
      <3> HIDE DEF x
      <3>2. QED
        BY <1>2, <2>1, <2>2, <3>1, CheckedIs, ZenonT(30)
  <1>6. Fields(buf) = s
    BY <1>3, FieldsIs
  <1>7. Restore(buf, t) = {Checked(buf, t, DataSize)}
    <2>1. ~(Len(buf) < 16)
      BY <1>1, <1>2
    <2>2. Intact(buf, s, 1) /\ Intact(buf, s, 2) /\ Intact(buf, s, 3)
      BY <1>3
    <2>3. QED
      BY <2>1, <2>2, RestoreIs
  <1>8. QED
    BY <1>5, <1>6, <1>7 DEF buf

(* of one cut short,                                                        *)
LEMMA RestoreCut ==
  ASSUME NEW s, NEW t, NEW n \in 0..Total - 1
  PROVE  Restore(SubSeq(Save(s), 1, n), t) = {Refuse(-4, t)}
  <1> DEFINE buf == SubSeq(Save(s), 1, n)
  <1>1. n \in Nat /\ n < Total
    BY SaveIs
  <1>2. Len(buf) = n /\ \A k \in 1..n : buf[k] = Save(s)[k]
    BY <1>1, PrefixIs
  <1>3. /\ \A p \in 1..Places[16] : Save(s)[p] = Written(s)[p]
        /\ Total = HeaderSize + DataSize + 4
    BY SaveIs, LayoutIs DEF Total
  <1>4. DataSize \in Nat
    BY OrderIs, SizesAssumption
  <1> HIDE DEF buf
  <1>5. CASE n < 16
    BY <1>2, <1>5 DEF Restore, HeaderSize, CrcSize, buf
  <1>6. CASE ~(n < 16)
    <2>1. ASSUME NEW i \in 1..3 PROVE Intact(buf, s, i)
      <3>1. \A k \in 1..WriteOrder[i][2] :
              Places[i] + k \in 1..Places[16] /\ Places[i] + k \in 1..n
        BY <1>1, <1>6, AccessIs, GroupIs DEF Places
      <3>2. QED
        BY <1>2, <1>3, <3>1 DEF Intact
    <2>2. Restore(buf, t) = {Checked(buf, t, DataSize)}
      BY <1>2, <1>6, <2>1, RestoreIs
    <2>3. Checked(buf, t, DataSize) = Refuse(-4, t)
      BY <1>1, <1>2, <1>3, <1>4, CheckedIs
    <2>4. QED
      BY <2>2, <2>3 DEF buf
  <1>7. QED
    BY <1>5, <1>6

(* and of one with a byte lost.                                             *)
Spoilt(s, p) == [Save(s) EXCEPT ![p] = Lost]

LEMMA SpoiltIs ==
  ASSUME NEW s, NEW p \in 1..Total
  PROVE  /\ Len(Spoilt(s, p)) = Total /\ Spoilt(s, p)[p] = Lost
         /\ \A q \in 1..Places[16] : q # p => Spoilt(s, p)[q] = Written(s)[q]
         /\ \A k \in 1..4 : Places[16] + k # p =>
              Spoilt(s, p)[Places[16] + k] = <<"crc", k, Written(s)>>
         /\ Total = Places[16] + 4 /\ Places[16] \in Nat /\ Places[16] >= 13
  <1>1. /\ Save(s) \in Seq(ByteOf(s)) /\ Len(Save(s)) = Total
        /\ Lost \in ByteOf(s)
    BY SaveIs DEF ByteOf
  <1>2. /\ Len(Spoilt(s, p)) = Total
        /\ \A q \in 1..Total : Spoilt(s, p)[q] = IF q = p THEN Lost ELSE Save(s)[q]
    <2> DEFINE S == ByteOf(s)
               f == Save(s)
    <2>1. f \in Seq(S) /\ Len(f) = Total /\ Lost \in S
      BY <1>1
    <2> HIDE DEF S, f
    <2>2. /\ Len([f EXCEPT ![p] = Lost]) = Total
          /\ \A q \in 1..Total : [f EXCEPT ![p] = Lost][q] = IF q = p THEN Lost ELSE f[q]
      BY <2>1, ExceptSeq
    <2>3. QED
      BY <2>2 DEF Spoilt, f
  <1>3. Total = Places[16] + 4 /\ Places[16] \in Nat /\ Places[16] >= 13
    BY SizesAssumption DEF Total, Places
  <1>4. /\ \A q \in 1..Places[16] : q \in 1..Total
        /\ \A k \in 1..4 : Places[16] + k \in 1..Total
    BY <1>3
  <1>5. QED
    BY <1>2, <1>3, <1>4, SaveIs

\* the part of the file a byte is in
PartOf(p) ==
  IF p <= 4 THEN "magic" ELSE IF p <= 8 THEN "version" ELSE IF p <= 12 THEN "size" ELSE "data"

(* Whatever the size found, the checksum finds the lost byte.               *)
LEMMA CheckedSpoilt ==
  ASSUME NEW s, NEW t, NEW p \in 1..Total, NEW ds \in Nat
  PROVE  /\ Checked(Spoilt(s, p), t, ds) \in {Refuse(-3, t), Refuse(-4, t)}
         /\ ds = DataSize => Checked(Spoilt(s, p), t, ds) = Refuse(-3, t)
  <1> DEFINE buf == Spoilt(s, p)
             n == HeaderSize + ds
             x == SubSeq(buf, 1, n)
             e == Places[16]
             w == Written(s)
  <1>1. /\ Len(buf) = e + 4 /\ buf[p] = Lost /\ p \in 1..e + 4
        /\ \A q \in 1..e : q # p => buf[q] = w[q]
        /\ \A k \in 1..4 : e + k # p => buf[e + k] = <<"crc", k, w>>
        /\ e \in Nat
    BY SpoiltIs
  <1>2. \A q \in 1..e : w[q][1] \notin {"lost", "crc"}
    BY WrittenIs
  <1>3. n \in Nat /\ (ds = DataSize => n = e)
    BY LayoutIs DEF HeaderSize
  <1>4. n = HeaderSize + ds /\ x = SubSeq(buf, 1, n)
    OBVIOUS
  <1>5. \A k \in 1..n : x[k] = buf[k]
    BY <1>3, PrefixIs
  <1> HIDE DEF buf, n, x, e, w
  <1>6. ~(Len(buf) < n + 4) => \E k \in 1..4 : buf[n + k] # <<"crc", k, x>>
    <2> SUFFICES ASSUME ~(Len(buf) < n + 4) PROVE \E k \in 1..4 : buf[n + k] # <<"crc", k, x>>
      OBVIOUS
    <2>1. n <= e
      BY <1>1, <1>3
    <2>2. CASE n < e
      <3>1. n + 1 \in 1..e
        BY <1>1, <1>3, <2>2
      <3>2. buf[n + 1] = Lost \/ buf[n + 1] = w[n + 1]
        BY <1>1, <3>1
      <3>3. buf[n + 1][1] # "crc"
        BY <1>2, <3>1, <3>2 DEF Lost
      <3>4. buf[n + 1] # <<"crc", 1, x>>
        BY <3>3
      <3>5. QED
        BY <3>4
    <2>3. CASE n = e /\ p > e
      <3>1. PICK k \in 1..4 : p = e + k
        BY <1>1, <2>3
      <3>2. buf[n + k] = Lost
        BY <1>1, <2>3, <3>1
      <3>3. Lost # <<"crc", k, x>>
        BY DEF Lost
      <3>4. QED
        BY <3>2, <3>3
    <2>4. CASE n = e /\ ~(p > e)
      <3>1. p \in 1..e
        BY <1>1, <2>4
      <3>2. x[p] # w[p]
        BY <1>1, <1>2, <1>5, <2>4, <3>1 DEF Lost
      <3>3. buf[n + 1] = <<"crc", 1, w>>
        <4>1. e + 1 # p /\ 1 \in 1..4
          BY <1>1, <3>1
        <4>2. QED
          BY <1>1, <2>4, <4>1
      <3>4. <<"crc", 1, w>> # <<"crc", 1, x>>
        BY <3>2
      <3>5. QED
        BY <3>3, <3>4
    <2>5. QED
      BY <1>1, <1>3, <2>1, <2>2, <2>3, <2>4
  <1>7. /\ Len(buf) < n + 4 => Checked(buf, t, ds) = Refuse(-4, t)
        /\ ~(Len(buf) < n + 4) => Checked(buf, t, ds) = Refuse(-3, t)
    BY <1>4, <1>6, CheckedIs, ZenonT(30)
  <1>8. ds = DataSize => ~(Len(buf) < n + 4)
    BY <1>1, <1>3
  <1>9. QED
    BY <1>7, <1>8 DEF buf

(* A byte lost in the header is noticed by the read it belongs to.          *)
LEMMA HeaderSpoilt ==
  ASSUME NEW i \in 1..3, NEW buf, NEW k \in 1..4, buf[Places[i] + k] = Lost
  PROVE  Read(buf, WriteOrder[i][1]) = -1
  <1>1. i \in 1..15 /\ k \in 1..WriteOrder[i][2]
    BY GroupIs
  <1>2. QED
    BY <1>1, ReadIsNot

LEMMA RestoreSpoilt ==
  ASSUME NEW s, NEW t, NEW p \in 1..Total, NEW o \in Restore(Spoilt(s, p), t)
  PROVE  /\ o.st = t
         /\ CASE PartOf(p) = "magic"   -> o.rc = -1
              [] PartOf(p) = "version" -> o.rc = -2
              [] PartOf(p) = "size"    -> o.rc \in {-3, -4}
              [] PartOf(p) = "data"    -> o.rc = -3
  <1> DEFINE buf == Spoilt(s, p)
  <1>1. /\ Len(buf) = Total /\ buf[p] = Lost /\ ~(Len(buf) < 16)
        /\ \A q \in 1..Places[16] : q # p => buf[q] = Written(s)[q]
    BY SpoiltIs
  <1>2. /\ Places[1] = 0 /\ Places[2] = 4 /\ Places[3] = 8
        /\ WriteOrder[1][2] = 4 /\ WriteOrder[2][2] = 4 /\ WriteOrder[3][2] = 4
        /\ WriteOrder[1][1] = "magic" /\ WriteOrder[2][1] = "version" /\ WriteOrder[3][1] = "size"
    BY GroupIs DEF Places
  <1>3. p \in Nat \ {0}
    BY SpoiltIs
  <1> HIDE DEF buf
  <1>4. /\ p > 4 => Intact(buf, s, 1)
        /\ p \notin 5..8 => Intact(buf, s, 2)
        /\ p \notin 9..12 => Intact(buf, s, 3)
    <2>1. \A i \in 1..15 : \A k \in 1..WriteOrder[i][2] : Places[i] + k \in 1..Places[16]
      BY AccessIs
    <2>2. \A i \in 1..15 : (\A k \in 1..WriteOrder[i][2] : Places[i] + k # p) => Intact(buf, s, i)
      BY <1>1, <2>1 DEF Intact
    <2>3. QED
      BY <1>2, <1>3, <2>2
  <1>5. CASE p <= 4
    <2>1. PICK i \in 1..3 : i = 1
      OBVIOUS
    <2>2. Read(buf, "magic") = -1
      <3>1. p \in 1..4 /\ buf[Places[i] + p] = Lost /\ WriteOrder[i][1] = "magic"
        BY <1>1, <1>2, <1>3, <1>5, <2>1
      <3>2. QED
        BY <3>1, HeaderSpoilt
    <2>3. Restore(buf, t) = {Refuse(-1, t)}
      BY <1>1, <2>2, RestoreIs
    <2>4. o = Refuse(-1, t)
      BY <2>3 DEF buf
    <2>5. PartOf(p) = "magic"
      BY <1>3, <1>5 DEF PartOf
    <2>6. QED
      BY <2>4, <2>5 DEF Refuse
  <1>6. CASE p \in 5..8
    <2>1. PICK k \in 1..4 : p = 4 + k
      BY <1>6
    <2>2. PICK i \in 1..3 : i = 2
      OBVIOUS
    <2>3. Read(buf, "version") = -1
      <3>1. buf[Places[i] + k] = Lost /\ WriteOrder[i][1] = "version"
        BY <1>1, <1>2, <2>1, <2>2
      <3>2. QED
        BY <3>1, HeaderSpoilt
    <2>4. Intact(buf, s, 1)
      BY <1>4, <1>6
    <2>5. Restore(buf, t) = {Refuse(-2, t)}
      BY <1>1, <2>3, <2>4, RestoreIs
    <2>6. o = Refuse(-2, t)
      BY <2>5 DEF buf
    <2>7. PartOf(p) = "version"
      BY <1>3, <1>6 DEF PartOf
    <2>8. QED
      BY <2>6, <2>7 DEF Refuse
  <1>7. CASE p \in 9..12
    <2>1. PICK k \in 1..4 : p = 8 + k
      BY <1>7
    <2>2. PICK i \in 1..3 : i = 3
      OBVIOUS
    <2>3. Read(buf, "size") = -1
      <3>1. buf[Places[i] + k] = Lost /\ WriteOrder[i][1] = "size"
        BY <1>1, <1>2, <2>1, <2>2
      <3>2. QED
        BY <3>1, HeaderSpoilt
    <2>4. Intact(buf, s, 1) /\ Intact(buf, s, 2)
      BY <1>4, <1>7
    <2>5. Restore(buf, t) = {Checked(buf, t, ds) : ds \in WrongSize}
      BY <1>1, <2>3, <2>4, RestoreIs
    <2>6. PICK ds \in WrongSize : o = Checked(buf, t, ds)
      BY <2>5 DEF buf
    <2>7. o \in {Refuse(-3, t), Refuse(-4, t)}
      BY <2>6, CheckedSpoilt, SizesAssumption DEF buf
    <2>8. PartOf(p) = "size"
      BY <1>3, <1>7 DEF PartOf
    <2>9. QED
      BY <2>7, <2>8 DEF Refuse
  <1>8. CASE p > 12
    <2>1. Intact(buf, s, 1) /\ Intact(buf, s, 2) /\ Intact(buf, s, 3)
      BY <1>4, <1>8
    <2>2. Restore(buf, t) = {Checked(buf, t, DataSize)}
      BY <1>1, <2>1, RestoreIs
    <2>3. DataSize \in Nat
      BY OrderIs, SizesAssumption
    <2>4. o = Refuse(-3, t)
      BY <2>2, <2>3, CheckedSpoilt DEF buf
    <2>5. PartOf(p) = "data"
      BY <1>3, <1>8 DEF PartOf
    <2>6. QED
      BY <2>4, <2>5 DEF Refuse
  <1>9. p <= 4 \/ p \in 5..8 \/ p \in 9..12 \/ p > 12
    BY <1>3
  <1>10. QED
    BY <1>5, <1>6, <1>7, <1>8, <1>9

-----------------------------------------------------------------------------
(* The inductive invariant: the file is what the damage to it tells, of the *)
(* state last saved, and what Load found is what it finds in that file.     *)
FileOK ==
  /\ damage = "none" => file \in {NoFile, Save(image)}
  /\ damage = "cut" => \E n \in 0..Total - 1 : file = SubSeq(Save(image), 1, n)
  /\ damage \notin {"none", "cut"} =>
       \E p \in 1..Total : file = Spoilt(image, p) /\ damage = PartOf(p)

ProcessOK ==
  /\ st \in State /\ image \in State /\ steps \in Nat
  /\ pc = "off" => st = Fresh
  /\ pc = "opened" => image = st

Inv == FileOK /\ ProcessOK /\ OnlyWholeSaves /\ RefusalTells

LEMMA InvInit == Init => Inv
  BY DEF Init, Inv, FileOK, ProcessOK, State, Fresh, OnlyWholeSaves, RefusalTells

(* What a start from the file can find.                                     *)
LEMMA LoadIs ==
  ASSUME FileOK, ProcessOK, pc = "off", file # NoFile, NEW o \in Restore(file, st)
  PROVE  /\ o.rc = 0 => o.st = image /\ damage = "none"
         /\ o.rc # 0 => /\ o.st = Fresh
                        /\ CASE damage = "cut"     -> o.rc = -4
                             [] damage = "magic"   -> o.rc = -1
                             [] damage = "version" -> o.rc = -2
                             [] damage = "size"    -> o.rc \in {-3, -4}
                             [] damage = "data"    -> o.rc = -3
                             [] damage = "none"    -> FALSE
  <1>1. st = Fresh /\ image \in State
    BY DEF ProcessOK
  <1>2. CASE damage = "none"
    <2>1. file = Save(image)
      BY <1>2 DEF FileOK
    <2>2. o = [rc |-> 0, st |-> image]
      BY <1>1, <2>1, RestoreWhole
    <2>3. QED
      BY <1>2, <2>2
  <1>3. CASE damage = "cut"
    <2>1. PICK n \in 0..Total - 1 : file = SubSeq(Save(image), 1, n)
      BY <1>3 DEF FileOK
    <2>2. o = Refuse(-4, st)
      BY <2>1, RestoreCut
    <2>3. QED
      BY <1>1, <1>3, <2>2 DEF Refuse
  <1>4. CASE damage \notin {"none", "cut"}
    <2>1. PICK p \in 1..Total : file = Spoilt(image, p) /\ damage = PartOf(p)
      BY <1>4 DEF FileOK
    <2>2. /\ o.st = st
          /\ CASE PartOf(p) = "magic"   -> o.rc = -1
               [] PartOf(p) = "version" -> o.rc = -2
               [] PartOf(p) = "size"    -> o.rc \in {-3, -4}
               [] PartOf(p) = "data"    -> o.rc = -3
      BY <2>1, RestoreSpoilt
    <2>3. PartOf(p) \in {"magic", "version", "size", "data"}
      BY DEF PartOf
    <2>4. /\ damage = "magic" => o.rc = -1
          /\ damage = "version" => o.rc = -2
          /\ damage = "size" => o.rc \in {-3, -4}
          /\ damage = "data" => o.rc = -3
      BY <2>1, <2>2
    <2>5. o.st = Fresh /\ damage \in {"magic", "version", "size", "data"}
      BY <1>1, <2>1, <2>2, <2>3
    <2>6. o.rc # 0
      BY <2>4, <2>5
    <2>7. QED
      BY <2>4, <2>5, <2>6
  <1>5. QED
    BY <1>2, <1>3, <1>4

LEMMA SaveNamed ==
  ASSUME NEW s, NEW p \in 1..Total
  PROVE  (IF Save(s)[p][1] \in Header THEN Save(s)[p][1] ELSE "data") = PartOf(p)
  <1>1. /\ Places[1] = 0 /\ Places[2] = 4 /\ Places[3] = 8 /\ Places[4] = 12
        /\ Places[16] \in Nat /\ Places[16] >= 13 /\ Total = Places[16] + 4
    BY SpoiltIs DEF Places
  <1>2. CASE p \in 1..Places[16]
    <2>1. PICK i \in 1..15 : \E k \in 1..WriteOrder[i][2] : p = Places[i] + k
      BY <1>2, Covered
    <2>2. PICK k \in 1..WriteOrder[i][2] : p = Places[i] + k
      BY <2>1
    <2>3. Save(s)[p] = <<WriteOrder[i][1], k, Content(s, WriteOrder[i][1])>>
      <3>1. Save(s)[p] = Written(s)[p]
        BY <1>2, SaveIs
      <3>2. Written(s)[Places[i] + k] = <<WriteOrder[i][1], k, Content(s, WriteOrder[i][1])>>
        BY WrittenIs
      <3>3. QED
        BY <2>2, <3>1, <3>2
    <2>4. Save(s)[p][1] = WriteOrder[i][1]
      BY <2>3
    <2>5. /\ i = 1 => p \in 1..4 /\ WriteOrder[i][1] = "magic"
          /\ i = 2 => p \in 5..8 /\ WriteOrder[i][1] = "version"
          /\ i = 3 => p \in 9..12 /\ WriteOrder[i][1] = "size"
      BY <1>1, <2>2, GroupIs
    <2>6. i \in 4..15 => p > 12 /\ WriteOrder[i][1] \notin Header
      <3>1. i \in 4..15 => WriteOrder[i][1] \notin Header
        BY GroupIs
      <3>2. i \in 4..15 => Places[i] >= 12
        BY SizesAssumption DEF Places
      <3>3. QED
        BY <2>2, <3>1, <3>2, LayoutIs
    <2>7. i = 1 \/ i = 2 \/ i = 3 \/ i \in 4..15
      OBVIOUS
    <2>8. QED
      BY <2>4, <2>5, <2>6, <2>7 DEF PartOf, Header
  <1>3. CASE p \notin 1..Places[16]
    <2>1. PICK k \in 1..4 : p = Places[16] + k
      BY <1>1, <1>3
    <2>2. Save(s)[p] = <<"crc", k, Written(s)>>
      BY <2>1, SaveIs
    <2>3. Save(s)[p][1] = "crc" /\ "crc" \notin Header /\ p > 12
      BY <1>1, <1>3, <2>2 DEF Header
    <2>4. QED
      BY <2>3 DEF PartOf
  <1>4. QED
    BY <1>2, <1>3

LEMMA InvStep == Inv /\ [Next]_vars => Inv'
  <1> SUFFICES ASSUME Inv, [Next]_vars PROVE Inv'
    OBVIOUS
  <1>1. FileOK /\ ProcessOK /\ OnlyWholeSaves /\ RefusalTells
    BY DEF Inv
  <1>2. Fresh \in State
    BY DEF State, Fresh
  <1>3. CASE Boot
    BY <1>1, <1>3 DEF Boot, Inv, FileOK, ProcessOK, OnlyWholeSaves, RefusalTells
  <1>4. CASE Load
    <2>1. pc = "off" /\ file # NoFile /\ UNCHANGED <<steps, file, image, damage>>
      BY <1>4 DEF Load
    <2>2. PICK o \in Restore(file, st) :
            /\ rc' = o.rc /\ st' = o.st
            /\ IF o.rc = 0 THEN pc' = "loaded" /\ tables' = o.st.mem
                           ELSE pc' = "refused" /\ UNCHANGED tables
      BY <1>4 DEF Load
    <2>3. FileOK'
      BY <1>1, <2>1 DEF FileOK
    <2>4. CASE o.rc = 0
      <3>1. st' = image /\ damage = "none" /\ pc' = "loaded" /\ tables' = image.mem
        BY <1>1, <2>1, <2>2, <2>4, LoadIs
      <3>2. QED
        BY <1>1, <2>1, <2>3, <3>1 DEF Inv, ProcessOK, OnlyWholeSaves, RefusalTells
    <2>5. CASE o.rc # 0
      <3>1. /\ st' = Fresh /\ pc' = "refused"
            /\ CASE damage = "cut"     -> rc' = -4
                 [] damage = "magic"   -> rc' = -1
                 [] damage = "version" -> rc' = -2
                 [] damage = "size"    -> rc' \in {-3, -4}
                 [] damage = "data"    -> rc' = -3
                 [] damage = "none"    -> FALSE
        BY <1>1, <2>1, <2>2, <2>5, LoadIs
      <3>2. QED
        BY <1>1, <1>2, <2>1, <2>3, <3>1 DEF Inv, ProcessOK, OnlyWholeSaves, RefusalTells
    <2>6. QED
      BY <2>4, <2>5
  <1>5. CASE Step
    <2>1. /\ pc' = "run" /\ steps' = steps + 1
          /\ UNCHANGED <<file, image, damage>>
      BY <1>5 DEF Step
    <2>2. st' \in State
      <3>1. PICK G \in Writes :
              st' = [g \in Group |-> IF g \in G \cup {"timing"} THEN steps' ELSE st[g]]
        BY <1>5 DEF Step
      <3>2. steps' \in Nat /\ \A g \in Group : st[g] \in Nat
        BY <1>1, <2>1 DEF ProcessOK, State
      <3>3. QED
        BY <3>1, <3>2 DEF State
    <2>3. QED
      BY <1>1, <2>1, <2>2 DEF Inv, FileOK, ProcessOK, OnlyWholeSaves, RefusalTells
  <1>6. CASE OpenOut
    <2>1. /\ pc' = "opened" /\ file' = <<>> /\ image' = st /\ damage' = "cut"
          /\ UNCHANGED <<st, steps>>
      BY <1>6 DEF OpenOut
    <2>2. 0 \in 0..Total - 1 /\ SubSeq(Save(st), 1, 0) = <<>>
      BY SizesAssumption DEF Total, Places
    <2>3. FileOK'
      BY <2>1, <2>2 DEF FileOK
    <2>4. QED
      BY <1>1, <2>1, <2>3 DEF Inv, ProcessOK, OnlyWholeSaves, RefusalTells
  <1>7. CASE WriteOut
    <2>1. /\ pc' = "off" /\ st' = Fresh /\ pc = "opened"
          /\ UNCHANGED <<steps, image>>
      BY <1>7 DEF WriteOut, Gone
    <2>2. PICK n \in 0..Len(Save(st)) :
            /\ file' = SubSeq(Save(st), 1, n)
            /\ damage' = IF n = Len(Save(st)) THEN "none" ELSE "cut"
      BY <1>7 DEF WriteOut
    <2>3. image = st
      BY <1>1, <2>1 DEF ProcessOK
    <2>4. Len(Save(st)) = Total /\ Total \in Nat /\ SubSeq(Save(st), 1, Total) = Save(st)
      BY SaveIs, SubSeqFull
    <2>5. FileOK'
      BY <2>1, <2>2, <2>3, <2>4 DEF FileOK
    <2>6. QED
      BY <1>1, <1>2, <2>1, <2>5 DEF Inv, ProcessOK, OnlyWholeSaves, RefusalTells
  <1>8. CASE Die
    BY <1>1, <1>2, <1>8 DEF Die, Gone, Inv, FileOK, ProcessOK, OnlyWholeSaves, RefusalTells
  <1>9. CASE LoseByte
    <2>1. /\ damage = "none" /\ file # NoFile /\ pc = "off"
          /\ UNCHANGED <<pc, st, steps, image>>
      BY <1>9 DEF LoseByte
    <2>2. file = Save(image) /\ DOMAIN file = 1..Total
      <3>1. file = Save(image)
        BY <1>1, <2>1 DEF FileOK
      <3>2. QED
        BY <3>1, SaveIs, LenProperties
    <2>3. PICK p \in DOMAIN file :
            /\ file' = [file EXCEPT ![p] = <<"lost", 0, 0>>]
            /\ damage' = IF file[p][1] \in Header THEN file[p][1] ELSE "data"
      BY <1>9 DEF LoseByte
    <2>4. p \in 1..Total /\ file' = Spoilt(image, p) /\ damage' = PartOf(p)
      BY <2>2, <2>3, SaveNamed DEF Spoilt, Lost
    <2>5. PartOf(p) \notin {"none", "cut"}
      BY DEF PartOf
    <2>6. FileOK'
      BY <2>1, <2>4, <2>5 DEF FileOK
    <2>7. QED
      BY <1>1, <2>1, <2>6 DEF Inv, ProcessOK, OnlyWholeSaves, RefusalTells
  <1>10. CASE UNCHANGED vars
    BY <1>1, <1>10 DEF vars, Inv, FileOK, ProcessOK, OnlyWholeSaves, RefusalTells
  <1>11. QED
    BY <1>3, <1>4, <1>5, <1>6, <1>7, <1>8, <1>9, <1>10 DEF Next

(* Whatever is done to the process and to the file, at any point, a machine *)
(* started from a file is the one last saved, whole (snapshot.c,            *)
(* emu86_snapshot_restore; main.c, load_snapshot).                          *)
THEOREM WholeSavesOnly == Spec => []OnlyWholeSaves
  <1>1. Inv => OnlyWholeSaves
    BY DEF Inv
  <1>2. QED
    BY <1>1, InvInit, InvStep, PTL DEF Spec

(* A refusal leaves the state as it was, and its code tells the damage.     *)
THEOREM RefusalsTell == Spec => []RefusalTells
  <1>1. Inv => RefusalTells
    BY DEF Inv
  <1>2. QED
    BY <1>1, InvInit, InvStep, PTL DEF Spec
=============================================================================
