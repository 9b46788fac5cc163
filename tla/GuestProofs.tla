---------------------------- MODULE GuestProofs ----------------------------
(***************************************************************************)
(* Proofs about Guest, for every program and every machine it may start    *)
(* from: what an instruction does to the fields that decide which one is   *)
(* next, and that Cpu is an abstraction of it.                             *)
(***************************************************************************)
EXTENDS Guest, AluLemmas

-----------------------------------------------------------------------------
(* Machines, and how a step of an instruction changes one.                 *)

FlagType == [DOMAIN FlagBit -> BOOLEAN]

\* g has the IF and TF of f
Alike(f, g) == g \in FlagType /\ g.i = f.i /\ g.t = f.t

\* the countdowns and the prefixes they are for, and whether the machine runs
SamePrefixes(n, x) ==
  /\ x.seg_override_en = n.seg_override_en /\ x.seg_override = n.seg_override
  /\ x.rep_override_en = n.rep_override_en /\ x.rep_mode = n.rep_mode
SameMode(n, x) == SamePrefixes(n, x) /\ x.stop = n.stop

\* x is n with other registers, memory, ports and arithmetic flags
Keeps(n, x) ==
  IsMachine(x) /\ x.ip = n.ip /\ x.f.i = n.f.i /\ x.f.t = n.f.t /\ SameMode(n, x)

LEMMA MachineIs ==
  ASSUME NEW n, IsMachine(n)
  PROVE  /\ n.reg \in [0..7 -> Words16] /\ n.sreg \in [0..3 -> Words16] /\ n.ip \in Words16
         /\ n.f \in FlagType /\ n.f.i \in BOOLEAN /\ n.f.t \in BOOLEAN
         /\ n.pit_lobyte_pending \in 0..1
         /\ n.seg_override_en \in 0..2 /\ n.seg_override \in 0..3
         /\ n.rep_override_en \in 0..2 /\ n.rep_mode \in {"repnz", "repz"}
         /\ n.stop \in {"no", "halted", "killed"}
         /\ Cells(n.mem) /\ Cells(n.io)
  BY DEF IsMachine, FlagType, FlagBit

(* Words. *)
LEMMA WordsAre ==
  /\ \A v \in Int : v \in Words16 <=> 0 <= v /\ v <= 65535
  /\ Words16 \subseteq Int
  BY PowersAre DEF Words16

LEMMA WrapIn == ASSUME NEW v, v \in Int PROVE Wrap16(v) \in Words16
  <1>1. v % 65536 \in Int /\ 0 <= v % 65536 /\ v % 65536 <= 65535
    OBVIOUS
  <1>2. QED
    BY <1>1, WordsAre DEF Wrap16

LEMMA WordIn ==
  ASSUME NEW lo, lo \in 0..255, NEW hi, hi \in 0..255
  PROVE  Word(lo, hi) \in Words16
  <1>1. lo + 256 * hi \in Int /\ 0 <= lo + 256 * hi /\ lo + 256 * hi <= 65535
    OBVIOUS
  <1>2. QED
    BY <1>1, WordsAre DEF Word

LEMMA WordIs ==
  ASSUME NEW v, v \in Words16
  PROVE  /\ v % 256 \in 0..255 /\ v \div 256 \in 0..255 /\ Word(v % 256, v \div 256) = v
  <1>1. v \in Int /\ 0 <= v /\ v <= 65535
    BY WordsAre
  <1>2. QED
    BY <1>1 DEF Word

LEMMA KeepsSelf == ASSUME NEW n, IsMachine(n) PROVE Keeps(n, n)
  BY DEF Keeps, SameMode, SamePrefixes

LEMMA KeepsMore ==
  ASSUME NEW n, NEW x, NEW y, Keeps(n, x), Keeps(x, y)
  PROVE  Keeps(n, y)
  BY DEF Keeps, SameMode, SamePrefixes

LEMMA KeepsMachine == ASSUME NEW n, NEW x, Keeps(n, x) PROVE IsMachine(x)
  BY DEF Keeps

(* One field set. *)
LEMMA SetRegIs ==
  ASSUME NEW n, IsMachine(n), NEW r \in 0..7, NEW v \in Words16
  PROVE  Keeps(n, [n EXCEPT !.reg[r] = v])
  BY DEF Keeps, SameMode, SamePrefixes, IsMachine

LEMMA SetSegIs ==
  ASSUME NEW n, IsMachine(n), NEW r \in 0..3, NEW v \in Words16
  PROVE  Keeps(n, [n EXCEPT !.sreg[r] = v])
  BY DEF Keeps, SameMode, SamePrefixes, IsMachine

LEMMA SetMemIs ==
  ASSUME NEW n, IsMachine(n), NEW c, Cells(c)
  PROVE  Keeps(n, [n EXCEPT !.mem = c])
  BY DEF Keeps, SameMode, SamePrefixes, IsMachine

LEMMA SetIoIs ==
  ASSUME NEW n, IsMachine(n), NEW c, Cells(c)
  PROVE  Keeps(n, [n EXCEPT !.io = c])
  BY DEF Keeps, SameMode, SamePrefixes, IsMachine

LEMMA SetFlagsIs ==
  ASSUME NEW n, IsMachine(n), NEW g, Alike(n.f, g)
  PROVE  Keeps(n, [n EXCEPT !.f = g])
  BY DEF Keeps, SameMode, SamePrefixes, IsMachine, Alike, FlagType

(* Memory. *)
LEMMA OverIs ==
  ASSUME NEW b, NEW c, Cells(b), Cells(c)
  PROVE  /\ Cells(Over(b, c)) /\ DOMAIN Over(b, c) = DOMAIN b \cup DOMAIN c
         /\ \A a \in DOMAIN b : Over(b, c)[a] = b[a]
         /\ \A a \in DOMAIN c \ DOMAIN b : Over(b, c)[a] = c[a]
  BY DEF Cells, Over

LEMMA CellIs ==
  ASSUME NEW a, a \in Int, NEW b, b \in 0..255
  PROVE  Cells(Cell(a, b)) /\ DOMAIN Cell(a, b) = {a} /\ Cell(a, b)[a] = b
  BY DEF Cells, Cell

LEMMA PeekByte ==
  ASSUME NEW n, IsMachine(n), NEW a, a \in Int
  PROVE  Peek(n, a) \in 0..255
  <1>1. Cells(n.mem)
    BY MachineIs
  <1>2. QED
    BY <1>1 DEF Peek, Cells

LEMMA PeekIs ==
  ASSUME NEW n, IsMachine(n), NEW a, a \in Int
  PROVE  Peek(n, a) \in 0..255 /\ Peek16(n, a) \in Words16
  <1> DEFINE b == a + 1
  <1>1. b \in Int
    OBVIOUS
  <1> HIDE DEF b
  <1>2. Peek(n, a) \in 0..255 /\ Peek(n, b) \in 0..255
    BY <1>1, PeekByte
  <1>3. Word(Peek(n, a), Peek(n, b)) \in Words16
    BY <1>2, WordIn
  <1>4. QED
    BY <1>2, <1>3 DEF Peek16, b

\* x is n with other memory
OnlyMem(n, x) == Keeps(n, x) /\ x.reg = n.reg /\ x.sreg = n.sreg /\ x.f = n.f /\ x.io = n.io

LEMMA PokeIs ==
  ASSUME NEW n, IsMachine(n), NEW a, a \in Int, NEW b, b \in 0..255
  PROVE  LET x == Poke(n, a, b)
         IN  OnlyMem(n, x) /\ Peek(x, a) = b /\ \A k \in Int \ {a} : Peek(x, k) = Peek(n, k)
  <1> DEFINE c == Over(Cell(a, b), n.mem)
             x == [n EXCEPT !.mem = c]
  <1> DEFINE u == Cell(a, b)
  <1>0. Cells(u) /\ DOMAIN u = {a} /\ u[a] = b
    BY CellIs
  <1> HIDE DEF u
  <1>1. Cells(c) /\ DOMAIN c = {a} \cup DOMAIN n.mem /\ c[a] = b
        /\ \A k \in DOMAIN n.mem \ {a} : c[k] = n.mem[k]
    <2> DEFINE z == n.mem
    <2>1. Cells(z)
      BY MachineIs
    <2> HIDE DEF z
    <2>2. /\ Cells(Over(u, z)) /\ DOMAIN Over(u, z) = DOMAIN u \cup DOMAIN z
          /\ \A k \in DOMAIN u : Over(u, z)[k] = u[k]
          /\ \A k \in DOMAIN z \ DOMAIN u : Over(u, z)[k] = z[k]
      BY <1>0, <2>1, OverIs
    <2>3. Cells(Over(u, z)) /\ DOMAIN Over(u, z) = {a} \cup DOMAIN z /\ Over(u, z)[a] = b
          /\ \A k \in DOMAIN z \ {a} : Over(u, z)[k] = z[k]
      BY <1>0, <2>2
    <2>4. QED
      BY <2>3 DEF u, z
  <1>2. Poke(n, a, b) = x
    BY DEF Poke
  <1> HIDE DEF c
  <1>3. Keeps(n, x)
    BY <1>1, SetMemIs
  <1>4. x.mem = c /\ x.reg = n.reg /\ x.sreg = n.sreg /\ x.f = n.f /\ x.io = n.io
    BY DEF IsMachine
  <1> HIDE DEF x
  <1>5. Peek(x, a) = b /\ \A k \in Int \ {a} : Peek(x, k) = Peek(n, k)
    BY <1>1, <1>4 DEF Peek
  <1>6. QED
    BY <1>2, <1>3, <1>4, <1>5 DEF OnlyMem

LEMMA OnlyMemMore ==
  ASSUME NEW n, NEW x, NEW y, OnlyMem(n, x), OnlyMem(x, y)
  PROVE  OnlyMem(n, y)
  BY KeepsMore DEF OnlyMem

LEMMA Poke16Is ==
  ASSUME NEW n, IsMachine(n), NEW a, a \in Int, NEW v, v \in Words16
  PROVE  LET x == Poke16(n, a, v)
         IN  OnlyMem(n, x) /\ Peek16(x, a) = v
             /\ \A k \in Int \ {a, a + 1} : Peek(x, k) = Peek(n, k)
  <1> DEFINE lo == v % 256
             hi == v \div 256
             y == Poke(n, a, lo)
             x == Poke(y, a + 1, hi)
  <1>1. lo \in 0..255 /\ hi \in 0..255 /\ Word(lo, hi) = v
    BY WordIs
  <1> HIDE DEF lo, hi
  <1>2. OnlyMem(n, y) /\ Peek(y, a) = lo /\ \A k \in Int \ {a} : Peek(y, k) = Peek(n, k)
    BY <1>1, PokeIs
  <1>3. IsMachine(y) /\ a + 1 \in Int
    BY <1>2 DEF OnlyMem, Keeps
  <1> HIDE DEF y
  <1>4. OnlyMem(y, x) /\ Peek(x, a + 1) = hi
        /\ \A k \in Int \ {a + 1} : Peek(x, k) = Peek(y, k)
    <2> DEFINE b == a + 1
    <2>1. b \in Int
      OBVIOUS
    <2> HIDE DEF b
    <2>2. OnlyMem(y, Poke(y, b, hi)) /\ Peek(Poke(y, b, hi), b) = hi
          /\ \A k \in Int \ {b} : Peek(Poke(y, b, hi), k) = Peek(y, k)
      BY <1>1, <1>3, <2>1, PokeIs
    <2>3. QED
      BY <2>2 DEF b
  <1> HIDE DEF x
  <1>5. OnlyMem(n, x)
    BY <1>2, <1>4, OnlyMemMore
  <1>6. Peek(x, a) = lo
    BY <1>2, <1>4
  <1>7. Peek16(x, a) = v
    BY <1>1, <1>4, <1>6 DEF Peek16
  <1>8. \A k \in Int \ {a, a + 1} : Peek(x, k) = Peek(n, k)
    BY <1>2, <1>4
  <1>9. Poke16(n, a, v) = x
    BY DEF Poke16, x, y, lo, hi
  <1>10. QED
    BY <1>5, <1>7, <1>8, <1>9

-----------------------------------------------------------------------------
(* Operands.                                                               *)

IsInstr(d) ==
  d \in [op : 0..255, kind : {d.kind}, w : 0..1, dir : 0..1, mod : 0..3, rm : 0..7,
         reg4 : 0..7, reg : 0..7, data0 : Words16, data1 : Words16, data2 : Words16,
         addr : Int, len : Int]

LEMMA InstrIs ==
  ASSUME NEW d, IsInstr(d)
  PROVE  /\ d.op \in 0..255 /\ d.w \in {0, 1} /\ d.dir \in {0, 1} /\ d.mod \in 0..3
         /\ d.rm \in 0..7 /\ d.reg4 \in 0..7 /\ d.reg \in 0..7
         /\ d.data0 \in Words16 /\ d.data1 \in Words16 /\ d.data2 \in Words16
         /\ d.addr \in Int /\ d.len \in Int
  BY DEF IsInstr

\* an instruction with its operand moved to a register, to memory, widened
LEMMA OnRegIs ==
  ASSUME NEW d, IsInstr(d), NEW r, r \in 0..7
  PROVE  LET e == OnReg(d, r)
         IN  IsInstr(e) /\ e.w = d.w /\ e.mod = 3 /\ e.rm = r
  <1> DEFINE x == [d EXCEPT !.mod = 3]
             y == [x EXCEPT !.rm = r]
  <1>1. IsInstr(x) /\ x.w = d.w /\ x.mod = 3
    BY DEF IsInstr
  <1>2. OnReg(d, r) = y
    BY DEF OnReg
  <1> HIDE DEF x
  <1>3. IsInstr(y) /\ y.w = x.w /\ y.mod = x.mod /\ y.rm = r
    BY <1>1 DEF IsInstr
  <1>4. QED
    BY <1>1, <1>2, <1>3

LEMMA InMemoryIs ==
  ASSUME NEW d, IsInstr(d), NEW a, a \in Int
  PROVE  LET e == InMemory(d, a)
         IN  IsInstr(e) /\ e.w = d.w /\ e.mod = 0 /\ e.addr = a
  <1> DEFINE x == [d EXCEPT !.mod = 0]
             y == [x EXCEPT !.addr = a]
  <1>1. IsInstr(x) /\ x.w = d.w /\ x.mod = 0
    BY DEF IsInstr
  <1>2. InMemory(d, a) = y
    BY DEF InMemory
  <1> HIDE DEF x
  <1>3. IsInstr(y) /\ y.w = x.w /\ y.mod = x.mod /\ y.addr = a
    BY <1>1 DEF IsInstr
  <1>4. QED
    BY <1>1, <1>2, <1>3

LEMMA WideIs ==
  ASSUME NEW d, IsInstr(d)
  PROVE  IsInstr(Wide(d)) /\ Wide(d).w = 1
  BY DEF IsInstr, Wide

LEMMA OnReg16Is ==
  ASSUME NEW d, IsInstr(d), NEW r, r \in 0..7
  PROVE  IsInstr(OnReg16(d, r)) /\ OnReg16(d, r).w = 1
  BY WideIs, OnRegIs DEF OnReg16

LEMMA Reg8Is ==
  ASSUME NEW n, IsMachine(n), NEW r, r \in 0..7
  PROVE  Reg8(n, r) \in 0..255
  <1>1. \A k \in 0..7 : n.reg[k] \in Words16
    BY MachineIs
  <1>2. CASE r < 4
    <2>1. n.reg[r] % 256 \in 0..255
      BY <1>1, WordIs
    <2>2. QED
      BY <1>2, <2>1 DEF Reg8
  <1>3. CASE ~(r < 4)
    <2> DEFINE k == r - 4
    <2>1. k \in 0..7
      BY <1>3
    <2> HIDE DEF k
    <2>2. n.reg[k] \div 256 \in 0..255
      BY <1>1, <2>1, WordIs
    <2>3. QED
      BY <1>3, <2>2 DEF Reg8, k
  <1>4. QED
    BY <1>2, <1>3

LEMMA SetReg8Is ==
  ASSUME NEW n, IsMachine(n), NEW r, r \in 0..7, NEW v, v \in 0..255
  PROVE  Keeps(n, SetReg8(n, r, v))
  <1>1. \A k \in 0..7 : n.reg[k] \in Words16
    BY MachineIs
  <1>2. CASE r < 4
    <2>1. n.reg[r] \div 256 \in 0..255
      BY <1>1, WordIs
    <2>2. Word(v, n.reg[r] \div 256) \in Words16
      BY <2>1, WordIn
    <2>3. QED
      BY <1>2, <2>2, SetRegIs DEF SetReg8
  <1>3. CASE ~(r < 4)
    <2> DEFINE k == r - 4
    <2>1. k \in 0..7
      BY <1>3
    <2> HIDE DEF k
    <2>2. n.reg[k] % 256 \in 0..255
      BY <1>1, <2>1, WordIs
    <2>3. Word(n.reg[k] % 256, v) \in Words16
      BY <2>2, WordIn
    <2>4. Keeps(n, [n EXCEPT !.reg[k] = Word(n.reg[k] % 256, v)])
      BY <2>1, <2>3, SetRegIs
    <2>5. QED
      BY <1>3, <2>4 DEF SetReg8, k
  <1>4. QED
    BY <1>2, <1>3

LEMMA SmallWords == 0..255 \subseteq Words16
  BY WordsAre

LEMMA ReadRmIs ==
  ASSUME NEW n, IsMachine(n), NEW d, IsInstr(d)
  PROVE  ReadRm(n, d) \in Words16 /\ (d.w = 0 => ReadRm(n, d) \in 0..255)
  <1>1. d.mod \in 0..3 /\ d.rm \in 0..7 /\ d.w \in {0, 1} /\ d.addr \in Int
    BY InstrIs
  <1>2. n.reg[d.rm] \in Words16 /\ Reg8(n, d.rm) \in 0..255
    BY <1>1, MachineIs, Reg8Is
  <1>3. Peek16(n, d.addr) \in Words16 /\ Peek(n, d.addr) \in 0..255
    BY <1>1, PeekIs
  <1>4. Reg8(n, d.rm) \in Words16 /\ Peek(n, d.addr) \in Words16
    BY <1>2, <1>3, SmallWords
  <1>5. CASE d.mod = 3 /\ d.w = 1
    BY <1>2, <1>5 DEF ReadRm
  <1>6. CASE d.mod = 3 /\ d.w = 0
    BY <1>2, <1>4, <1>6 DEF ReadRm
  <1>7. CASE d.mod # 3 /\ d.w = 1
    BY <1>3, <1>7 DEF ReadRm
  <1>8. CASE d.mod # 3 /\ d.w = 0
    BY <1>3, <1>4, <1>8 DEF ReadRm
  <1>9. QED
    BY <1>1, <1>5, <1>6, <1>7, <1>8

LEMMA WriteRmIs ==
  ASSUME NEW n, IsMachine(n), NEW d, IsInstr(d), NEW v, v \in Words16
  PROVE  Keeps(n, WriteRm(n, d, v))
  <1>1. d.mod \in 0..3 /\ d.rm \in 0..7 /\ d.w \in {0, 1} /\ d.addr \in Int
    BY InstrIs
  <1>2. v % 256 \in 0..255
    BY WordIs
  <1>3. CASE d.mod = 3 /\ d.w = 1
    BY <1>1, <1>3, SetRegIs DEF WriteRm
  <1>4. CASE d.mod = 3 /\ d.w = 0
    BY <1>1, <1>2, <1>4, SetReg8Is DEF WriteRm
  <1>5. CASE d.mod # 3 /\ d.w = 1
    BY <1>1, <1>5, Poke16Is DEF WriteRm, OnlyMem
  <1>6. CASE d.mod # 3 /\ d.w = 0
    BY <1>1, <1>2, <1>6, PokeIs DEF WriteRm, OnlyMem
  <1>7. QED
    BY <1>1, <1>3, <1>4, <1>5, <1>6

(* The REG operand, and the two by the direction bit. *)
LEMMA RegIs ==
  ASSUME NEW n, IsMachine(n), NEW d, IsInstr(d), NEW v, v \in Words16
  PROVE  /\ ReadReg(n, d) \in Words16 /\ (d.w = 0 => ReadReg(n, d) \in 0..255)
         /\ Keeps(n, WriteReg(n, d, v))
  <1> DEFINE e == OnReg(d, d.reg)
  <1>1. IsInstr(e) /\ e.w = d.w
    BY InstrIs, OnRegIs
  <1> HIDE DEF e
  <1>2. /\ ReadRm(n, e) \in Words16 /\ (d.w = 0 => ReadRm(n, e) \in 0..255)
        /\ Keeps(n, WriteRm(n, e, v))
    BY <1>1, ReadRmIs, WriteRmIs
  <1>3. QED
    BY <1>2 DEF ReadReg, WriteReg, e

LEMMA SrcDestIs ==
  ASSUME NEW n, IsMachine(n), NEW d, IsInstr(d), NEW v, v \in Words16
  PROVE  /\ ReadSrc(n, d) \in Words16 /\ ReadDest(n, d) \in Words16
         /\ d.w = 0 => ReadSrc(n, d) \in 0..255 /\ ReadDest(n, d) \in 0..255
         /\ Keeps(n, WriteDest(n, d, v))
  BY RegIs, ReadRmIs, WriteRmIs DEF ReadSrc, ReadDest, WriteDest

-----------------------------------------------------------------------------
(* Flags.                                                                  *)

\* the flags that no instruction but those on FLAGS itself looks at
Arith == {"c", "p", "a", "z", "s", "o", "d"}

LEMMA AlikeSelf == ASSUME NEW n, IsMachine(n) PROVE Alike(n.f, n.f)
  BY MachineIs DEF Alike

LEMMA SetFlagIs ==
  ASSUME NEW f, NEW g, Alike(f, g), NEW k, k \in Arith, NEW b, b \in BOOLEAN
  PROVE  Alike(f, [g EXCEPT ![k] = b])
  BY DEF Alike, FlagType, FlagBit, Arith

LEMMA ArithAre ==
  "c" \in Arith /\ "p" \in Arith /\ "a" \in Arith /\ "z" \in Arith /\ "s" \in Arith
  /\ "o" \in Arith /\ "d" \in Arith
  BY DEF Arith

LEMMA SetSZPIs ==
  ASSUME NEW f, NEW g, Alike(f, g), NEW r, NEW w
  PROVE  Alike(f, SetSZP(g, r, w))
  <1>1. Alike(f, [g EXCEPT !.s = Sign(r, w)])
    BY SetFlagIs, ArithAre DEF Sign
  <1>2. Alike(f, [[g EXCEPT !.s = Sign(r, w)] EXCEPT !.z = (Low(r, w) = 0)])
    BY <1>1, SetFlagIs, ArithAre
  <1>3. QED
    BY <1>2, SetFlagIs, ArithAre DEF SetSZP, EvenParity

LEMMA SetAddIs ==
  ASSUME NEW f, NEW g, Alike(f, g), NEW x, NEW y, NEW r, NEW w
  PROVE  Alike(f, SetAdd(g, x, y, r, w)) /\ Alike(f, SetSub(g, x, y, r, w))
  <1> DEFINE h == [g EXCEPT !.c = Exceeds(r, w)]
             k == [h EXCEPT !.a = Aux(x, y, r, w)]
             oa == Sign(x, w) # Sign(r, w) /\ Sign(y, w) # Sign(r, w)
             os == Sign(x, w) # Sign(y, w) /\ Sign(x, w) # Sign(r, w)
  <1>1. /\ Exceeds(r, w) \in BOOLEAN /\ Aux(x, y, r, w) \in BOOLEAN
        /\ oa \in BOOLEAN /\ os \in BOOLEAN
    BY Zenon DEF Exceeds, Aux
  <1>2. SetAdd(g, x, y, r, w) = [k EXCEPT !.o = oa]
    BY Zenon DEF SetAdd
  <1>3. SetSub(g, x, y, r, w) = [k EXCEPT !.o = os]
    BY Zenon DEF SetSub
  <1> HIDE DEF oa, os
  <1>4. Alike(f, h)
    BY <1>1, SetFlagIs, ArithAre
  <1> HIDE DEF h
  <1>5. Alike(f, k)
    BY <1>1, <1>4, SetFlagIs, ArithAre
  <1> HIDE DEF k
  <1>6. QED
    BY <1>1, <1>2, <1>3, <1>5, SetFlagIs, ArithAre

LEMMA SetLogicIs ==
  ASSUME NEW f, NEW g, Alike(f, g), NEW r, NEW w
  PROVE  Alike(f, SetLogic(g, r, w))
  <1>1. Alike(f, SetSZP(g, r, w))
    BY SetSZPIs
  <1>2. Alike(f, [SetSZP(g, r, w) EXCEPT !.c = FALSE])
    BY <1>1, SetFlagIs, ArithAre
  <1>3. QED
    BY <1>2, SetFlagIs, ArithAre DEF SetLogic

-----------------------------------------------------------------------------
(* What the operators of Alu return: a value of the operand's width, and    *)
(* flags with the same IF and TF.                                           *)

IsSize(w) == w.bits \in {8, 16} /\ w.byte = 8
Values(w) == 0..Modulus(w) - 1
Result(f, w, o) == o.v \in Values(w) /\ Alike(f, o.f)

LEMMA SizeIs ==
  ASSUME NEW d, IsInstr(d)
  PROVE  /\ IsSize(Size(d)) /\ Size(d).bits = IF d.w = 1 THEN 16 ELSE 8
  <1>1. d.w \in {0, 1}
    BY InstrIs
  <1>2. QED
    BY <1>1 DEF IsSize, Size

LEMMA ValuesAre ==
  ASSUME NEW w, IsSize(w)
  PROVE  /\ Modulus(w) \in Nat /\ Modulus(w) # 0 /\ Values(w) \subseteq Nat
         /\ w.bits = 8 => Values(w) = 0..255
         /\ w.bits = 16 => Values(w) = Words16
         /\ Values(w) \subseteq Words16
  <1>1. CASE w.bits = 8
    BY <1>1, PowersAre, SmallWords DEF Modulus, Values
  <1>2. CASE w.bits = 16
    <2>1. Values(w) = Words16
      BY <1>2 DEF Values, Modulus, Words16
    <2>2. 2^16 \in Nat /\ 2^16 # 0 /\ Words16 \subseteq Nat
      BY PowersAre, WordsAre DEF Words16
    <2>3. QED
      BY <1>2, <2>1, <2>2 DEF Modulus
  <1>3. QED
    BY <1>1, <1>2 DEF IsSize

LEMMA LowIn ==
  ASSUME NEW w, IsSize(w), NEW r, r \in Int
  PROVE  Low(r, w) \in Values(w)
  <1> DEFINE M == Modulus(w)
  <1>1. M \in Nat /\ M # 0
    BY ValuesAre
  <1> HIDE DEF M
  <1>2. r % M \in 0..M - 1
    BY <1>1
  <1>3. QED
    BY <1>2 DEF Low, Values, M

LEMMA OutIs ==
  ASSUME NEW f, NEW g, Alike(f, g), NEW w, IsSize(w), NEW r, r \in Int
  PROVE  Result(f, w, Out(r, g, w))
  <1>1. Low(r, w) \in Values(w)
    BY LowIn
  <1>2. QED
    BY <1>1 DEF Result, Out

LEMMA NumIs == ASSUME NEW b PROVE Num(b) \in {0, 1}
  BY DEF Num

\* r is a sum of the operands, or their difference
LEMMA AddOfIs ==
  ASSUME NEW f, NEW g, Alike(f, g), NEW w, IsSize(w), NEW x, NEW y, NEW r, r \in Int
  PROVE  Result(f, w, AddOf(x, y, r, g, w)) /\ Result(f, w, SubOf(x, y, r, g, w))
  <1>1. Alike(f, SetAdd(g, x, y, r, w)) /\ Alike(f, SetSub(g, x, y, r, w))
    BY SetAddIs
  <1>2. /\ Alike(f, SetSZP(SetAdd(g, x, y, r, w), r, w))
        /\ Alike(f, SetSZP(SetSub(g, x, y, r, w), r, w))
    BY <1>1, SetSZPIs
  <1>3. QED
    BY <1>2, OutIs DEF AddOf, SubOf

LEMMA SumsAre ==
  ASSUME NEW f, Alike(f, f), NEW w, IsSize(w), NEW x, x \in Values(w), NEW y, y \in Values(w)
  PROVE  /\ Result(f, w, Add(x, y, f, w)) /\ Result(f, w, Adc(x, y, f, w))
         /\ Result(f, w, Sub(x, y, f, w)) /\ Result(f, w, Sbb(x, y, f, w))
         /\ Result(f, w, Cmp(x, y, f, w))
  <1> DEFINE k == Num(f.c)
             r1 == x + y
             r2 == x + y + k
             r3 == x - y
             r4 == x - y - k
  <1>1. x \in Nat /\ y \in Nat /\ k \in {0, 1}
    BY ValuesAre, NumIs
  <1> HIDE DEF k
  <1>2. r1 \in Int /\ r2 \in Int /\ r3 \in Int /\ r4 \in Int
    BY <1>1
  <1> HIDE DEF r1, r2, r3, r4
  <1>3. /\ Result(f, w, AddOf(x, y, r1, f, w)) /\ Result(f, w, AddOf(x, y, r2, f, w))
        /\ Result(f, w, SubOf(x, y, r3, f, w)) /\ Result(f, w, SubOf(x, y, r4, f, w))
    BY <1>2, AddOfIs
  <1>4. /\ Add(x, y, f, w) = AddOf(x, y, r1, f, w)
        /\ Adc(x, y, f, w) = AddOf(x, y, r2, f, w)
        /\ Sub(x, y, f, w) = SubOf(x, y, r3, f, w)
        /\ Sbb(x, y, f, w) = SubOf(x, y, r4, f, w)
    BY DEF Add, Adc, Sub, Sbb, r1, r2, r3, r4, k
  <1>5. Result(f, w, Cmp(x, y, f, w))
    BY <1>3, <1>4 DEF Result, Cmp
  <1>6. QED
    BY <1>3, <1>4, <1>5

\* CF as it was
LEMMA KeepCarry ==
  ASSUME NEW f, NEW g, Alike(f, f), Alike(f, g)
  PROVE  Alike(f, [g EXCEPT !.c = f.c])
  <1>1. f.c \in BOOLEAN
    BY DEF Alike, FlagType, FlagBit
  <1>2. QED
    BY <1>1, SetFlagIs, ArithAre

LEMMA IncDecIs ==
  ASSUME NEW f, Alike(f, f), NEW w, IsSize(w), NEW x, x \in Values(w)
  PROVE  /\ Result(f, w, Inc(x, f, w)) /\ Result(f, w, Dec(x, f, w))
         /\ Result(f, w, Neg(x, f, w)) /\ Result(f, w, Not(x, f, w))
  <1> DEFINE r1 == x + 1
             r2 == x - 1
             r3 == 0 - x
             one == 1
             zero == 0
  <1>1. r1 \in Int /\ r2 \in Int /\ r3 \in Int
    BY ValuesAre
  <1>2. Modulus(w) - 1 - x \in Values(w)
    BY ValuesAre DEF Values
  <1> HIDE DEF r1, r2, r3, one, zero
  <1>3. /\ Alike(f, SetAdd(f, x, one, r1, w)) /\ Alike(f, SetSub(f, x, one, r2, w))
    BY SetAddIs
  <1>4. /\ Alike(f, SetSZP(SetAdd(f, x, one, r1, w), r1, w))
        /\ Alike(f, SetSZP(SetSub(f, x, one, r2, w), r2, w))
    BY <1>3, SetSZPIs
  <1>5. Alike(f, SetInc(f, x, r1, w)) /\ Alike(f, SetDec(f, x, r2, w))
    BY <1>4, KeepCarry DEF SetInc, SetDec, one
  <1>6. Result(f, w, Out(r1, SetInc(f, x, r1, w), w))
        /\ Result(f, w, Out(r2, SetDec(f, x, r2, w), w))
    BY <1>1, <1>5, OutIs
  <1>7. Result(f, w, SubOf(zero, x, r3, f, w))
    BY <1>1, AddOfIs
  <1>8. Result(f, w, Not(x, f, w))
    BY <1>2 DEF Not, Result
  <1>9. QED
    BY <1>6, <1>7, <1>8 DEF Inc, Dec, Neg, r1, r2, r3, zero

LEMMA BitsAre ==
  ASSUME NEW w, IsSize(w), NEW x, x \in Values(w), NEW y, y \in Values(w)
  PROVE  \A i \in Positions(w.bits) : Bit(x, i) \in {0, 1} /\ Bit(y, i) \in {0, 1}
  <1>1. ASSUME NEW i \in Positions(w.bits)
        PROVE  i \in 0..31 /\ x \in Nat /\ y \in Nat
    BY ValuesAre DEF Positions, IsSize
  <1>2. QED
    BY <1>1, BitIs

LEMMA LogicIs ==
  ASSUME NEW f, Alike(f, f), NEW w, IsSize(w), NEW v, v \in Values(w)
  PROVE  Result(f, w, Logic(v, f, w))
  BY SetLogicIs DEF Logic, Result

\* a sum of bits is a value
LEMMA FoldedIs ==
  ASSUME NEW w, IsSize(w), NEW F, \A i \in Positions(w.bits) : F[i] \in {0, 1},
         NEW v, Folded(v, Weights(F, Positions(w.bits)), Positions(w.bits))
  PROVE  v \in Values(w)
  <1> DEFINE b == w.bits
  <1>1. b \in 1..16 /\ Modulus(w) = 2^b
    BY DEF IsSize, Modulus
  <1>2. (\A i \in Positions(b) : F[i] \in {0, 1})
        /\ Folded(v, Weights(F, Positions(b)), Positions(b))
    OBVIOUS
  <1> HIDE DEF b
  <1>3. v \in 0..2^b - 1
    BY <1>1, <1>2, SumBits
  <1>4. QED
    BY <1>1, <1>3 DEF Values

LEMMA AndOrXorAre ==
  ASSUME NEW f, Alike(f, f), NEW w, IsSize(w), NEW x, x \in Values(w), NEW y, y \in Values(w)
  PROVE  /\ Result(f, w, And(x, y, f, w)) /\ Result(f, w, Or(x, y, f, w))
         /\ Result(f, w, Xor(x, y, f, w)) /\ Result(f, w, Test(x, y, f, w))
  <1> DEFINE S == Positions(w.bits)
             A == [i \in S |-> Bit(x, i) * Bit(y, i)]
             B == [i \in S |-> Bit(x, i) + Bit(y, i) - Bit(x, i) * Bit(y, i)]
             C == [i \in S |-> (Bit(x, i) + Bit(y, i)) % 2]
             va == And(x, y, f, w).v
             vb == Or(x, y, f, w).v
             vc == Xor(x, y, f, w).v
  <1>0. w.bits \in 1..16
    BY DEF IsSize
  <1>1. Folded(va, Weights(A, S), S)
    BY <1>0, AndFolds
  <1>2. Folded(vb, Weights(B, S), S)
    BY <1>0, OrFolds
  <1>3. Folded(vc, Weights(C, S), S)
    BY <1>0, XorFolds
  <1>4. ASSUME NEW i \in S PROVE A[i] \in {0, 1} /\ B[i] \in {0, 1} /\ C[i] \in {0, 1}
    <2> DEFINE p == Bit(x, i)
               q == Bit(y, i)
    <2>1. p \in {0, 1} /\ q \in {0, 1}
      BY BitsAre
    <2>2. A[i] = p * q /\ B[i] = p + q - p * q /\ C[i] = (p + q) % 2
      OBVIOUS
    <2> HIDE DEF p, q, A, B, C
    <2>3. QED
      BY <2>1, <2>2
  <1> HIDE DEF A, B, C, va, vb, vc
  <1>5. va \in Values(w) /\ vb \in Values(w) /\ vc \in Values(w)
    BY <1>1, <1>2, <1>3, <1>4, FoldedIs
  <1>6. And(x, y, f, w) = Logic(va, f, w)
    BY DEF And, Logic, va, Bitwise, MapThenSumSet, MapThenFoldSet
  <1>7. Or(x, y, f, w) = Logic(vb, f, w)
    BY DEF Or, Logic, vb, Bitwise, MapThenSumSet, MapThenFoldSet
  <1>8. Xor(x, y, f, w) = Logic(vc, f, w)
    BY DEF Xor, Logic, vc, Bitwise, MapThenSumSet, MapThenFoldSet
  <1>9. /\ Result(f, w, And(x, y, f, w)) /\ Result(f, w, Or(x, y, f, w))
        /\ Result(f, w, Xor(x, y, f, w))
    BY <1>5, <1>6, <1>7, <1>8, LogicIs
  <1>10. Test(x, y, f, w).v = x /\ Test(x, y, f, w).f = And(x, y, f, w).f
    BY <1>6 DEF Test, Logic
  <1>11. QED
    BY <1>9, <1>10 DEF Result

LEMMA AluOpIs ==
  ASSUME NEW f, Alike(f, f), NEW w, IsSize(w), NEW x, x \in Values(w), NEW y, y \in Values(w),
         NEW k, k \in 0..7
  PROVE  Result(f, w, AluOp(k, x, y, f, w))
  <1>1. k \in {0, 1, 2, 3, 4, 5, 6, 7}
    OBVIOUS
  <1>2. QED
    BY <1>1, SumsAre, AndOrXorAre DEF AluOp

(* Shifts.                                                                 *)
LEMMA RightIs ==
  ASSUME NEW w, IsSize(w), NEW v, v \in Int, NEW n, n \in Int
  PROVE  Right(v, n, w) \in Int
  <1> DEFINE k == CShift(n, w)
             P == 2^k
  <1>1. k \in 0..31
    BY DEF CShift, IsSize
  <1> HIDE DEF k
  <1>2. P \in Nat /\ P # 0
    BY <1>1, WeightIs
  <1> HIDE DEF P
  <1>3. v \div P \in Int
    BY <1>2
  <1>4. QED
    BY <1>3 DEF Right, P, k

LEMMA UpIs ==
  ASSUME NEW v, v \in Int, NEW bits, bits \in 0..31, NEW k, k \in 0..31
  PROVE  Up(v, k, bits) \in Int
  <1>1. CASE k >= bits
    BY <1>1 DEF Up
  <1>2. CASE ~(k >= bits)
    <2> DEFINE l == bits - k
               P == 2^k
               Q == 2^l
    <2>1. l \in 0..31
      BY <1>2
    <2> HIDE DEF l
    <2>2. P \in Nat /\ Q \in Nat /\ Q # 0
      BY <2>1, WeightIs
    <2> HIDE DEF P, Q
    <2>3. v % Q \in Int
      BY <2>2
    <2>4. (v % Q) * P \in Int
      BY <2>2, <2>3
    <2>5. QED
      BY <1>2, <2>4 DEF Up, P, Q, l
  <1>3. QED
    BY <1>1, <1>2

\* CF and OF set, in either order
CarryOver(g, a, b) == [g EXCEPT !.c = a, !.o = b]
OverCarry(g, a, b) == [g EXCEPT !.o = a, !.c = b]

LEMMA CarryOverIs ==
  ASSUME NEW f, NEW g, Alike(f, g), NEW a, a \in BOOLEAN, NEW b, b \in BOOLEAN
  PROVE  Alike(f, CarryOver(g, a, b)) /\ Alike(f, OverCarry(g, a, b))
  <1> DEFINE h == [g EXCEPT !.c = a]
             k == [g EXCEPT !.o = a]
  <1>1. Alike(f, h) /\ Alike(f, k)
    BY SetFlagIs, ArithAre
  <1>2. CarryOver(g, a, b) = [h EXCEPT !.o = b] /\ OverCarry(g, a, b) = [k EXCEPT !.c = b]
    BY DEF CarryOver, OverCarry
  <1> HIDE DEF h, k
  <1>3. QED
    BY <1>1, <1>2, SetFlagIs, ArithAre

Counts(n, w) ==
  /\ CShift(n, w) \in 0..31 /\ w.bits \in 0..31 /\ w.bits + 1 \in 0..31
  /\ Turns(n, w) \in 0..31 /\ w.bits - Turns(n, w) \in 0..31
  /\ CarryTurns(n, w) \in 0..31 /\ w.bits + 1 - CarryTurns(n, w) \in 0..31
  /\ w.bits - n \in Int /\ n - 1 \in Int /\ n \in Int

LEMMA CountsAre ==
  ASSUME NEW w, IsSize(w), NEW n, n \in 0..255
  PROVE  Counts(n, w)
  <1>1. CASE w.bits = 8
    BY <1>1 DEF Counts, CShift, Turns, CarryTurns, IsSize
  <1>2. CASE w.bits = 16
    BY <1>2 DEF Counts, CShift, Turns, CarryTurns, IsSize
  <1>3. QED
    BY <1>1, <1>2 DEF IsSize

LEMMA ShiftsAre ==
  ASSUME NEW f, Alike(f, f), NEW w, IsSize(w), NEW v, v \in Values(w), NEW n, n \in 0..255
  PROVE  /\ Result(f, w, Shl(v, n, f, w)) /\ Result(f, w, Shr(v, n, f, w))
         /\ Result(f, w, Sar(v, n, f, w))
  <1> DEFINE c1 == Lsb(Right(v, w.bits - n, w))
             r1 == Left(v, n, w)
             o1 == c1 # Sign(r1, w)
             r2 == Right(v, n, w)
             o2 == Sign(v, w)
             c2 == Lsb(Right(v, n - 1, w))
             x == Signed(v, w)
             r3 == IF n >= w.bits THEN IF x < 0 THEN -1 ELSE 0 ELSE Right(x, n, w)
             c3 == Lsb(Right(x, n - 1, w))
             no == FALSE
  <1>1. v \in Int /\ Modulus(w) \in Int /\ x \in Int
    <2>1. v \in Int /\ Modulus(w) \in Int
      BY ValuesAre
    <2>2. QED
      BY <2>1 DEF Signed
  <1> HIDE DEF x
  <1>2. /\ CShift(n, w) \in 0..31 /\ w.bits \in 0..31 /\ w.bits - n \in Int
        /\ n \in Int
    <2>1. Counts(n, w)
      BY CountsAre
    <2>2. QED
      BY <2>1 DEF Counts
  <1>3. r1 \in Int
    BY <1>1, <1>2, UpIs DEF Left
  <1>4. r2 \in Int /\ r3 \in Int
    <2>1. Right(v, n, w) \in Int /\ Right(x, n, w) \in Int
      BY <1>1, <1>2, RightIs
    <2>2. QED
      BY <2>1
  <1>5. /\ c1 \in BOOLEAN /\ c2 \in BOOLEAN /\ c3 \in BOOLEAN /\ no \in BOOLEAN
        /\ o1 \in BOOLEAN /\ o2 \in BOOLEAN
    BY Zenon DEF Lsb, Sign
  <1> HIDE DEF r1, r2, r3, c1, c2, c3, o1, o2, no
  <1> DEFINE f1 == CarryOver(f, c1, o1)
             f2 == OverCarry(f, o2, c2)
             f3 == CarryOver(f, c3, no)
  <1>6. Alike(f, f1) /\ Alike(f, f2) /\ Alike(f, f3)
    BY <1>5, CarryOverIs
  <1> HIDE DEF f1, f2, f3
  <1>7. /\ Alike(f, SetSZP(f1, r1, w)) /\ Alike(f, SetSZP(f2, r2, w))
        /\ Alike(f, SetSZP(f3, r3, w))
    BY <1>6, SetSZPIs
  <1>8. /\ Result(f, w, Out(r1, SetSZP(f1, r1, w), w))
        /\ Result(f, w, Out(r2, SetSZP(f2, r2, w), w))
        /\ Result(f, w, Out(r3, SetSZP(f3, r3, w), w))
    BY <1>3, <1>4, <1>7, OutIs
  <1>9. Shl(v, n, f, w) = Out(r1, SetSZP(f1, r1, w), w)
    BY Zenon DEF Shl, CarryOver, f1, r1, c1, o1
  <1>10. Shr(v, n, f, w) = Out(r2, SetSZP(f2, r2, w), w)
    BY Zenon DEF Shr, OverCarry, f2, r2, c2, o2
  <1>11. Sar(v, n, f, w) = Out(r3, SetSZP(f3, r3, w), w)
    BY Zenon DEF Sar, CarryOver, f3, r3, c3, x, no
  <1>12. QED
    BY <1>8, <1>9, <1>10, <1>11

LEMMA RotationsAre ==
  ASSUME NEW f, Alike(f, f), NEW w, IsSize(w), NEW v, v \in Values(w), NEW n, n \in 0..255
  PROVE  /\ Result(f, w, Rol(v, n, f, w)) /\ Result(f, w, Ror(v, n, f, w))
         /\ Result(f, w, Rcl(v, n, f, w)) /\ Result(f, w, Rcr(v, n, f, w))
  <1> DEFINE k == Turns(n, w)
             b == w.bits
             l == b - k
             r1 == Up(v, k, b) + Right(v, l, w)
             c1 == Lsb(r1)
             o1 == Sign(r1, w) # Lsb(r1)
             r2 == Right(v, k, w) + Up(v, l, b)
             c2 == Sign(r2, w)
             o2 == c2 # (Bit(r2, b - 2) = 1)
             j == CarryTurns(n, w)
             b1 == b + 1
             i == b + 1 - j
             x == CarryAbove(v, f, w)
             P == 2^i
             Q == 2^j
             r3 == Up(x, j, b1) + x \div P
             c3 == r3 >= Modulus(w)
             o3 == Sign(Low(r3, w), w) # c3
             r4 == x \div Q + Up(x, i, b1)
             c4 == r4 >= Modulus(w)
             o4 == Sign(Low(r4, w), w) # (Bit(Low(r4, w), b - 2) = 1)
  <1>1. v \in Int /\ x \in Int
    <2>1. v \in Int /\ Modulus(w) \in Int /\ Num(f.c) \in {0, 1}
      BY ValuesAre, NumIs
    <2>2. QED
      BY <2>1 DEF CarryAbove
  <1>2. /\ k \in 0..31 /\ b \in 0..31 /\ l \in 0..31 /\ j \in 0..31 /\ b1 \in 0..31
        /\ i \in 0..31
    <2>1. Counts(n, w)
      BY CountsAre
    <2>2. QED
      BY <2>1 DEF Counts
  <1>3. /\ c1 \in BOOLEAN /\ o1 \in BOOLEAN /\ c2 \in BOOLEAN /\ o2 \in BOOLEAN
        /\ c3 \in BOOLEAN /\ o3 \in BOOLEAN /\ c4 \in BOOLEAN /\ o4 \in BOOLEAN
    <2>1. c3 \in BOOLEAN /\ c4 \in BOOLEAN
      BY SMT
    <2>2. /\ c1 \in BOOLEAN /\ o1 \in BOOLEAN /\ c2 \in BOOLEAN /\ o2 \in BOOLEAN
          /\ o3 \in BOOLEAN /\ o4 \in BOOLEAN
      BY Zenon DEF Lsb, Sign
    <2>3. QED
      BY <2>1, <2>2
  <1> HIDE DEF c1, c2, c3, c4, o1, o2, o3, o4
  <1>4. r1 \in Int /\ r2 \in Int /\ r3 \in Int /\ r4 \in Int
    <2> HIDE DEF k, b, l, j, b1, i, x
    <2>1. Up(v, k, b) \in Int /\ Up(v, l, b) \in Int /\ Up(x, j, b1) \in Int /\ Up(x, i, b1) \in Int
      BY <1>1, <1>2, UpIs
    <2>2. Right(v, l, w) \in Int /\ Right(v, k, w) \in Int
      BY <1>1, <1>2, RightIs
    <2>3. P \in Nat /\ P # 0 /\ Q \in Nat /\ Q # 0
      BY <1>2, WeightIs
    <2> HIDE DEF P, Q
    <2>4. x \div P \in Int /\ x \div Q \in Int
      BY <1>1, <2>3
    <2>5. QED
      BY <2>1, <2>2, <2>4
  <1> HIDE DEF r1, r2, r3, r4
  <1> DEFINE f1 == CarryOver(f, c1, o1)
             f2 == CarryOver(f, c2, o2)
             f3 == CarryOver(f, c3, o3)
             f4 == CarryOver(f, c4, o4)
  <1>5. Alike(f, f1) /\ Alike(f, f2) /\ Alike(f, f3) /\ Alike(f, f4)
    BY <1>3, CarryOverIs
  <1> HIDE DEF f1, f2, f3, f4
  <1>6. /\ Result(f, w, Out(r1, f1, w)) /\ Result(f, w, Out(r2, f2, w))
        /\ Result(f, w, Out(r3, f3, w)) /\ Result(f, w, Out(r4, f4, w))
    BY <1>4, <1>5, OutIs
  <1>7. Rol(v, n, f, w) = Out(r1, f1, w)
    BY Zenon DEF Rol, CarryOver, r1, f1, c1, o1
  <1>8. Ror(v, n, f, w) = Out(r2, f2, w)
    BY Zenon DEF Ror, CarryOver, r2, f2, c2, o2
  <1>9. Rcl(v, n, f, w) = Out(r3, f3, w)
    BY Zenon DEF Rcl, CarryOver, r3, f3, c3, o3
  <1>10. Rcr(v, n, f, w) = Out(r4, f4, w)
    BY Zenon DEF Rcr, CarryOver, r4, f4, c4, o4
  <1>11. QED
    BY <1>6, <1>7, <1>8, <1>9, <1>10

LEMMA ShiftIs ==
  ASSUME NEW f, Alike(f, f), NEW w, IsSize(w), NEW v, v \in Values(w), NEW n, n \in 0..255,
         NEW k, k \in 0..7
  PROVE  Result(f, w, Shift(ShiftOf[k + 1], v, n, f, w))
  <1> DEFINE op == ShiftOf[k + 1]
  <1>1. op \in {"rol", "ror", "rcl", "rcr", "shl", "shr", "sar"}
    BY DEF ShiftOf
  <1> HIDE DEF op
  <1>2. Result(f, w, Shift(op, v, n, f, w))
    <2>1. CASE n = 0
      BY <2>1 DEF Shift, Result
    <2>2. /\ Result(f, w, Shl(v, n, f, w)) /\ Result(f, w, Shr(v, n, f, w))
          /\ Result(f, w, Sar(v, n, f, w))
      BY ShiftsAre
    <2>3. /\ Result(f, w, Rol(v, n, f, w)) /\ Result(f, w, Ror(v, n, f, w))
          /\ Result(f, w, Rcl(v, n, f, w)) /\ Result(f, w, Rcr(v, n, f, w))
      BY RotationsAre
    <2>4. CASE n # 0
      BY <1>1, <2>2, <2>3, <2>4 DEF Shift
    <2>5. QED
      BY <2>1, <2>4
  <1>3. QED
    BY <1>2 DEF op

(* The instructions on a pair of registers.                                *)
IsPair(f, w, x) ==
  x \in [r : [A : Values(w), D : Values(w)], f : {g \in FlagType : Alike(f, g)},
         out : {"ok", "int0", "killed"}]

LEMMA PairIs ==
  ASSUME NEW f, NEW w, NEW x, IsPair(f, w, x)
  PROVE  x.r.A \in Values(w) /\ x.r.D \in Values(w) /\ Alike(f, x.f)
         /\ x.out \in {"ok", "int0", "killed"}
  BY DEF IsPair

LEMMA PairSet ==
  ASSUME NEW f, NEW w, NEW x, IsPair(f, w, x), NEW a, a \in Values(w)
  PROVE  IsPair(f, w, [x EXCEPT !.r.A = a]) /\ IsPair(f, w, [x EXCEPT !.r.D = a])
  BY DEF IsPair

LEMMA PairFlags ==
  ASSUME NEW f, NEW w, NEW x, IsPair(f, w, x), NEW g, Alike(f, g)
  PROVE  IsPair(f, w, [x EXCEPT !.f = g])
  BY DEF IsPair, Alike

LEMMA Int0Is ==
  ASSUME NEW f, NEW w, NEW x, IsPair(f, w, x)
  PROVE  IsPair(f, w, Int0(x)) /\ IsPair(f, w, [x EXCEPT !.out = "killed"])
  BY DEF IsPair, Int0

LEMMA SetQuotientIs ==
  ASSUME NEW f, NEW w, IsSize(w), NEW x, IsPair(f, w, x), NEW q, q \in Int, NEW r, r \in Int
  PROVE  IsPair(f, w, SetQuotient(x, q, r, w))
  <1> DEFINE a == Low(q, w)
             b == Low(r, w)
             y == [x EXCEPT !.r.A = a]
             z == [y EXCEPT !.r.D = b]
  <1>1. a \in Values(w) /\ b \in Values(w)
    BY LowIn
  <1>2. IsPair(f, w, y)
    BY <1>1, PairSet
  <1>3. SetQuotient(x, q, r, w) = z
    BY Zenon DEF SetQuotient
  <1> HIDE DEF a, b, y
  <1>4. IsPair(f, w, z)
    BY <1>1, <1>2, PairSet
  <1>5. QED
    BY <1>3, <1>4

LEMMA SetProductIs ==
  ASSUME NEW f, NEW w, IsSize(w), NEW x, IsPair(f, w, x), NEW r, r \in Int,
         NEW wide, wide \in BOOLEAN
  PROVE  IsPair(f, w, SetProduct(x, r, wide, w))
  <1> DEFINE M == Modulus(w)
             hi == r \div M
             a == Low(r, w)
             b == Low(hi, w)
             z == (r = 0)
             s == Sign(r, w)
             p == EvenParity(r, w)
             g1 == [x.f EXCEPT !.c = wide]
             g2 == [g1 EXCEPT !.o = wide]
             g3 == [g2 EXCEPT !.z = z]
             g4 == [g3 EXCEPT !.s = s]
             g5 == [g4 EXCEPT !.p = p]
             y1 == [x EXCEPT !.r.A = a]
             y2 == [y1 EXCEPT !.r.D = b]
             y3 == [y2 EXCEPT !.f = g5]
  <1>1. SetProduct(x, r, wide, w) = y3
    BY Zenon DEF SetProduct
  <1>2. a \in Values(w) /\ b \in Values(w)
    <2>1. M \in Nat /\ M # 0
      BY ValuesAre
    <2> HIDE DEF M
    <2>2. hi \in Int
      BY <2>1
    <2> HIDE DEF hi
    <2>3. QED
      BY <2>2, LowIn
  <1>3. z \in BOOLEAN /\ s \in BOOLEAN /\ p \in BOOLEAN
    BY Zenon DEF Sign, EvenParity
  <1>4. Alike(f, x.f)
    BY PairIs
  <1> HIDE DEF a, b, z, s, p
  <1>5. Alike(f, g1)
    BY <1>4, SetFlagIs, ArithAre
  <1> HIDE DEF g1
  <1>6. Alike(f, g2)
    BY <1>5, SetFlagIs, ArithAre
  <1> HIDE DEF g2
  <1>7. Alike(f, g3)
    BY <1>3, <1>6, SetFlagIs, ArithAre
  <1> HIDE DEF g3
  <1>8. Alike(f, g4)
    BY <1>3, <1>7, SetFlagIs, ArithAre
  <1> HIDE DEF g4
  <1>9. Alike(f, g5)
    BY <1>3, <1>8, SetFlagIs, ArithAre
  <1> HIDE DEF g5
  <1>10. IsPair(f, w, y1)
    BY <1>2, PairSet
  <1> HIDE DEF y1
  <1>11. IsPair(f, w, y2)
    BY <1>2, <1>10, PairSet
  <1> HIDE DEF y2
  <1>12. IsPair(f, w, y3)
    BY <1>9, <1>11, PairFlags
  <1>13. QED
    BY <1>1, <1>12

LEMMA SignedIs ==
  ASSUME NEW w, IsSize(w), NEW v, v \in Values(w)
  PROVE  Signed(v, w) \in Int
  <1>1. v \in Int /\ Modulus(w) \in Int
    BY ValuesAre
  <1>2. QED
    BY <1>1 DEF Signed

LEMMA QuotIs ==
  ASSUME NEW x, x \in Int, NEW y, y \in Int, y # 0
  PROVE  Quot(x, y) \in Int
  <1>1. Abs(x) \in Nat /\ Abs(y) \in Nat /\ Abs(y) # 0
    BY DEF Abs
  <1>2. Abs(x) \div Abs(y) \in Int
    BY <1>1
  <1>3. QED
    BY <1>2 DEF Quot

LEMMA MulDivAre ==
  ASSUME NEW f, NEW w, IsSize(w), NEW x, IsPair(f, w, x), NEW y, y \in Values(w)
  PROVE  /\ IsPair(f, w, Mul(x, y, w)) /\ IsPair(f, w, Imul(x, y, w))
         /\ IsPair(f, w, Div(x, y, w)) /\ \A z \in Idiv(x, y, w) : IsPair(f, w, z)
  <1> DEFINE A == x.r.A
             D == x.r.D
             M == Modulus(w)
  <1>1. A \in Values(w) /\ D \in Values(w)
    BY PairIs
  <1>2. A \in Nat /\ D \in Nat /\ y \in Nat /\ M \in Nat /\ M # 0
    BY <1>1, ValuesAre
  <1>3. Signed(A, w) \in Int /\ Signed(y, w) \in Int /\ Signed(D, w) \in Int
    BY <1>1, SignedIs
  <1> HIDE DEF A, D
  <1>4. IsPair(f, w, Mul(x, y, w))
    <2> DEFINE r == A * y
               wide == r \div Modulus(w) # 0
    <2>1. r \in Int
      BY <1>2
    <2>2. wide \in BOOLEAN
      BY Zenon
    <2> HIDE DEF r, wide
    <2>3. IsPair(f, w, SetProduct(x, r, wide, w))
      BY <2>1, <2>2, SetProductIs
    <2>4. QED
      BY <2>3, Zenon DEF Mul, r, wide, A
  <1>5. IsPair(f, w, Imul(x, y, w))
    <2> DEFINE r == Signed(A, w) * Signed(y, w)
               wide == r # Signed(Low(r, w), w)
    <2>1. r \in Int
      BY <1>3
    <2>2. wide \in BOOLEAN
      BY Zenon
    <2> HIDE DEF r, wide
    <2>3. IsPair(f, w, SetProduct(x, r, wide, w))
      BY <2>1, <2>2, SetProductIs
    <2>4. QED
      BY <2>3, Zenon DEF Imul, r, wide, A
  <1>6. IsPair(f, w, Div(x, y, w))
    <2> DEFINE v == D * M + A
               q == v \div y
               r == v % y
    <2>1. CASE y = 0
      BY <2>1, Int0Is DEF Div
    <2>2. CASE y # 0
      <3>1. v \in Int
        BY <1>2
      <3> HIDE DEF v
      <3>2. q \in Int /\ r \in Int
        BY <1>2, <2>2, <3>1
      <3> HIDE DEF q, r
      <3>3. IsPair(f, w, SetQuotient(x, q, r, w)) /\ IsPair(f, w, Int0(x))
        BY <3>2, SetQuotientIs, Int0Is
      <3>4. Div(x, y, w) \in {Int0(x), SetQuotient(x, q, r, w)}
        BY Zenon DEF Div, v, q, r, A, D
      <3>5. QED
        BY <3>3, <3>4
    <2>3. QED
      BY <2>1, <2>2
  <1>7. ASSUME NEW z \in Idiv(x, y, w) PROVE IsPair(f, w, z)
    <2> DEFINE v == Signed(D, w) * M + A
               s == Signed(y, w)
               q == Quot(v, s)
               r == v - s * q
    <2>1. \/ z \in {Int0(x), [x EXCEPT !.out = "killed"]}
          \/ s # 0 /\ z = SetQuotient(x, q, r, w)
      BY <1>7, Zenon DEF Idiv, A, D
    <2>2. CASE z \in {Int0(x), [x EXCEPT !.out = "killed"]}
      <3>1. IsPair(f, w, Int0(x)) /\ IsPair(f, w, [x EXCEPT !.out = "killed"])
        BY Int0Is
      <3>2. QED
        BY <2>2, <3>1
    <2>3. CASE s # 0 /\ z = SetQuotient(x, q, r, w)
      <3>1. v \in Int /\ s \in Int
        BY <1>2, <1>3
      <3> HIDE DEF v, s
      <3>2. q \in Int
        BY <2>3, <3>1, QuotIs
      <3> HIDE DEF q
      <3>3. r \in Int
        BY <3>1, <3>2
      <3> HIDE DEF r
      <3>4. QED
        BY <2>3, <3>2, <3>3, SetQuotientIs
    <2>4. QED
      BY <2>1, <2>2, <2>3
  <1>8. QED
    BY <1>4, <1>5, <1>6, <1>7

(* Decimal adjustments.                                                    *)
LEMMA ByteIs == IsSize(Byte) /\ Values(Byte) = 0..255 /\ Byte.bits = 8
  BY PowersAre DEF IsSize, Byte, Values, Modulus

LEMMA SetALIs ==
  ASSUME NEW f, NEW x, IsPair(f, Byte, x), NEW v, v \in Values(Byte)
  PROVE  IsPair(f, Byte, SetAL(x, v))
  <1> DEFINE y == [x EXCEPT !.r.A = v]
             g == SetSZP(x.f, v, Byte)
             z == [y EXCEPT !.f = g]
  <1>1. Alike(f, x.f)
    BY PairIs
  <1>2. Alike(f, g)
    BY <1>1, SetSZPIs
  <1>3. IsPair(f, Byte, y)
    BY PairSet
  <1>4. SetAL(x, v) = z
    BY Zenon DEF SetAL
  <1> HIDE DEF y, g
  <1>5. IsPair(f, Byte, z)
    BY <1>2, <1>3, PairFlags
  <1>6. QED
    BY <1>4, <1>5

Carries(x, a, c) == [x EXCEPT !.f.a = a, !.f.c = c]

LEMMA CarriesIs ==
  ASSUME NEW f, NEW w, NEW x, IsPair(f, w, x), NEW a, a \in BOOLEAN, NEW c, c \in BOOLEAN
  PROVE  IsPair(f, w, Carries(x, a, c))
  <1> DEFINE g == [x.f EXCEPT !.a = a]
             h == [g EXCEPT !.c = c]
             y == [x EXCEPT !.f = h]
  <1>1. Alike(f, x.f)
    BY PairIs
  <1>2. Alike(f, g)
    BY <1>1, SetFlagIs, ArithAre
  <1> HIDE DEF g
  <1>3. Alike(f, h)
    BY <1>2, SetFlagIs, ArithAre
  <1> HIDE DEF h
  <1>4. IsPair(f, w, y)
    BY <1>3, PairFlags
  <1>5. Carries(x, a, c) = y
    BY DEF Carries, IsPair, g, h
  <1>6. QED
    BY <1>4, <1>5

LEMMA AdjustIs ==
  ASSUME NEW f, NEW x, IsPair(f, Byte, x), NEW sign, sign \in {1, -1}
  PROVE  IsPair(f, Byte, Adjust(x, sign)) /\ IsPair(f, Byte, AdjustAscii(x, sign))
  <1> DEFINE al == x.r.A
             ah == x.r.D
             low == LowDigit(x)
             six == (al + sign * 6) % 256
             l == IF low THEN six ELSE al
             high == al > 153 \/ x.f.c
             wraps == IF sign = 1 THEN six < al ELSE six > al
             c == high \/ (low /\ wraps)
             v == IF high THEN (l + sign * 96) % 256 ELSE l
             ax == IF low THEN ah * 256 + al + sign * 262 ELSE ah * 256 + al
             y == Carries(x, low, c)
  <1>1. al \in 0..255 /\ ah \in 0..255
    BY PairIs, ByteIs
  <1>2. x.f.c \in BOOLEAN
    BY PairIs DEF Alike, FlagType, FlagBit
  <1>3. low \in BOOLEAN /\ c \in BOOLEAN
    BY Zenon DEF LowDigit
  <1> HIDE DEF al, ah, low
  <1>4. v \in 0..255
    BY <1>1
  <1>5. ax % 16 \in 0..255 /\ (ax \div 256) % 256 \in 0..255
    <2>1. ax \in Int
      BY <1>1
    <2> HIDE DEF ax
    <2>2. QED
      BY <2>1
  <1>6. Adjust(x, sign) = SetAL(y, v)
    BY Zenon DEF Adjust, Carries, al, low
  <1> HIDE DEF c, v
  <1>7. IsPair(f, Byte, y)
    BY <1>3, CarriesIs
  <1> HIDE DEF y
  <1>8. IsPair(f, Byte, SetAL(y, v))
    BY <1>4, <1>7, ByteIs, SetALIs
  <1> DEFINE a == ax % 16
             b == (ax \div 256) % 256
             y1 == [x EXCEPT !.r.A = a]
             y2 == [y1 EXCEPT !.r.D = b]
             y3 == Carries(y2, low, low)
  <1>9. AdjustAscii(x, sign) = y3
    BY Zenon DEF AdjustAscii, Carries, al, ah, low
  <1>10. a \in Values(Byte) /\ b \in Values(Byte)
    BY <1>5, ByteIs
  <1> HIDE DEF a, b, ax
  <1>11. IsPair(f, Byte, y1)
    BY <1>10, PairSet
  <1> HIDE DEF y1
  <1>12. IsPair(f, Byte, y2)
    BY <1>10, <1>11, PairSet
  <1> HIDE DEF y2
  <1>13. IsPair(f, Byte, y3)
    BY <1>3, <1>12, CarriesIs
  <1>14. QED
    BY <1>6, <1>8, <1>9, <1>13

LEMMA AamAadAre ==
  ASSUME NEW f, NEW x, IsPair(f, Byte, x), NEW base, base \in 0..255
  PROVE  IsPair(f, Byte, Aam(x, base)) /\ IsPair(f, Byte, Aad(x, base))
  <1> DEFINE al == x.r.A
             ah == x.r.D
             q == al \div base
             r == al % base
             k == (ah * base + al) % 256
             zero == 0
             y == [x EXCEPT !.r.D = q]
             z == [x EXCEPT !.r.D = zero]
  <1>1. al \in 0..255 /\ ah \in 0..255
    BY PairIs, ByteIs
  <1> HIDE DEF al, ah
  <1>2. IsPair(f, Byte, Aam(x, base))
    <2>1. CASE base = 0
      BY <2>1, Int0Is DEF Aam
    <2>2. CASE base # 0
      <3>1. q \in 0..255 /\ r \in 0..255
        <4>1. Divided(al, base, q, r)
          <5>1. al \in Int /\ base \in Nat
            BY <1>1
          <5>2. QED
            BY <2>2, <5>1, DivisionIs
        <4> HIDE DEF q, r
        <4>2. q \in Int /\ r \in 0..base - 1 /\ al = base * q + r
          BY <4>1 DEF Divided
        <4>3. r <= 255 /\ q >= 0
          BY <1>1, <2>2, <4>2
        <4>4. q <= base * q
          BY <2>2, <4>2, <4>3
        <4>5. base * q \in Int
          BY <4>2
        <4>6. QED
          BY <1>1, <4>2, <4>3, <4>4, <4>5
      <3> HIDE DEF q, r
      <3>2. IsPair(f, Byte, y)
        BY <3>1, ByteIs, PairSet
      <3>3. Aam(x, base) = SetAL(y, r)
        BY <2>2, Zenon DEF Aam, q, r, al
      <3> HIDE DEF y
      <3>4. IsPair(f, Byte, SetAL(y, r))
        BY <3>1, <3>2, ByteIs, SetALIs
      <3>5. QED
        BY <3>3, <3>4
    <2>3. QED
      BY <2>1, <2>2
  <1>3. IsPair(f, Byte, Aad(x, base))
    <2>1. k \in 0..255
      <3> DEFINE p == ah * base
      <3>1. p \in Int
        BY <1>1
      <3> HIDE DEF p
      <3>2. (p + al) % 256 \in 0..255
        BY <1>1, <3>1
      <3>3. QED
        BY <3>2 DEF p
    <2> HIDE DEF k
    <2>2. zero \in Values(Byte)
      BY ByteIs
    <2>4. Aad(x, base) = SetAL(z, k)
      BY Zenon DEF Aad, k, al, ah
    <2> HIDE DEF zero
    <2>3. IsPair(f, Byte, z)
      BY <2>2, PairSet
    <2> HIDE DEF z
    <2>5. IsPair(f, Byte, SetAL(z, k))
      BY <2>1, <2>3, ByteIs, SetALIs
    <2>6. QED
      BY <2>4, <2>5
  <1>4. QED
    BY <1>2, <1>3

-----------------------------------------------------------------------------
(* FLAGS, packed and unpacked.                                             *)

\* the weight of a flag, if it is on
W(f, x, p) == IF f[x] THEN p ELSE 0

Packed(f) ==
  W(f, "c", 1) + W(f, "r", 2) + W(f, "p", 4) + W(f, "a", 16) + W(f, "z", 64) + W(f, "s", 128)
    + W(f, "t", 256) + W(f, "i", 512) + W(f, "d", 1024) + W(f, "o", 2048)

Names == {"c", "r", "p", "a", "z", "s", "t", "i", "d", "o"}
FlagWeights(f) == [x \in Names |-> IF f[x] THEN 2^FlagBit[x] ELSE 0]

LEMMA FlagBitsAre ==
  /\ FlagBit["c"] = 0 /\ FlagBit["r"] = 1 /\ FlagBit["p"] = 2 /\ FlagBit["a"] = 4
  /\ FlagBit["z"] = 6 /\ FlagBit["s"] = 7 /\ FlagBit["t"] = 8 /\ FlagBit["i"] = 9
  /\ FlagBit["d"] = 10 /\ FlagBit["o"] = 11 /\ DOMAIN FlagBit = Names
  BY DEF FlagBit, Names

LEMMA WeightOf ==
  ASSUME NEW f, NEW x, x \in Names
  PROVE  FlagWeights(f)[x] = W(f, x, 2^FlagBit[x])
  BY DEF FlagWeights, W

LEMMA WeightsAre ==
  ASSUME NEW f
  PROVE  /\ FlagWeights(f)["c"] = W(f, "c", 1) /\ FlagWeights(f)["r"] = W(f, "r", 2)
         /\ FlagWeights(f)["p"] = W(f, "p", 4) /\ FlagWeights(f)["a"] = W(f, "a", 16)
         /\ FlagWeights(f)["z"] = W(f, "z", 64) /\ FlagWeights(f)["s"] = W(f, "s", 128)
         /\ FlagWeights(f)["t"] = W(f, "t", 256) /\ FlagWeights(f)["i"] = W(f, "i", 512)
         /\ FlagWeights(f)["d"] = W(f, "d", 1024) /\ FlagWeights(f)["o"] = W(f, "o", 2048)
  <1>1. /\ "c" \in Names /\ "r" \in Names /\ "p" \in Names /\ "a" \in Names /\ "z" \in Names
        /\ "s" \in Names /\ "t" \in Names /\ "i" \in Names /\ "d" \in Names /\ "o" \in Names
    BY DEF Names
  <1>2. /\ FlagWeights(f)["c"] = W(f, "c", 2^FlagBit["c"]) /\ FlagWeights(f)["r"] = W(f, "r", 2^FlagBit["r"])
        /\ FlagWeights(f)["p"] = W(f, "p", 2^FlagBit["p"]) /\ FlagWeights(f)["a"] = W(f, "a", 2^FlagBit["a"])
        /\ FlagWeights(f)["z"] = W(f, "z", 2^FlagBit["z"]) /\ FlagWeights(f)["s"] = W(f, "s", 2^FlagBit["s"])
        /\ FlagWeights(f)["t"] = W(f, "t", 2^FlagBit["t"]) /\ FlagWeights(f)["i"] = W(f, "i", 2^FlagBit["i"])
        /\ FlagWeights(f)["d"] = W(f, "d", 2^FlagBit["d"]) /\ FlagWeights(f)["o"] = W(f, "o", 2^FlagBit["o"])
    BY <1>1, WeightOf
  <1>3. /\ 2^FlagBit["c"] = 1 /\ 2^FlagBit["r"] = 2
        /\ 2^FlagBit["p"] = 4 /\ 2^FlagBit["a"] = 16
        /\ 2^FlagBit["z"] = 64 /\ 2^FlagBit["s"] = 128
        /\ 2^FlagBit["t"] = 256 /\ 2^FlagBit["i"] = 512
        /\ 2^FlagBit["d"] = 1024 /\ 2^FlagBit["o"] = 2048
    BY FlagBitsAre, PowersAre
  <1>4. QED
    BY <1>2, <1>3

LEMMA NamesFinite == IsFiniteSet(Names)
  <1> DEFINE A == {"c", "r", "p", "a", "z"}
             B == {"s", "t", "i", "d", "o"}
  <1>1. \A a, b, c, d, e : IsFiniteSet({a, b, c, d, e})
    <2> TAKE a, b, c, d, e
    <2>1. IsFiniteSet({a})
      BY FS_Singleton
    <2>2. IsFiniteSet({a} \cup {b})
      BY <2>1, FS_AddElement
    <2>3. IsFiniteSet(({a} \cup {b}) \cup {c})
      BY <2>2, FS_AddElement
    <2>4. IsFiniteSet((({a} \cup {b}) \cup {c}) \cup {d})
      BY <2>3, FS_AddElement
    <2>5. IsFiniteSet(((({a} \cup {b}) \cup {c}) \cup {d}) \cup {e})
      BY <2>4, FS_AddElement
    <2>6. ((({a} \cup {b}) \cup {c}) \cup {d}) \cup {e} = {a, b, c, d, e}
      OBVIOUS
    <2>7. QED
      BY <2>5, <2>6
  <1>2. IsFiniteSet(A) /\ IsFiniteSet(B)
    BY <1>1
  <1>3. Names = A \cup B
    BY DEF Names
  <1> HIDE DEF A, B
  <1>4. QED
    BY <1>2, <1>3, FS_Union

LEMMA FlagWordFolds ==
  ASSUME NEW f
  PROVE  \E g : FoldsTo(FlagWeights(f), Names, g) /\ FlagWord(f) = g[Names]
  <1> DEFINE S == Names
             c(t) == CHOOSE x \in t : TRUE
             Raw(g) == g = [t \in SUBSET S |->
                              IF t = {} THEN 0
                              ELSE (IF f[c(t)] THEN 2^FlagBit[c(t)] ELSE 0) + g[t \ {c(t)}]]
  <1>1. DOMAIN FlagBit = S
    BY FlagBitsAre
  <1>2. FlagWord(f) = (CHOOSE g : Raw(g))[S]
    BY <1>1 DEF FlagWord, MapThenSumSet, MapThenFoldSet
  <1>3. ASSUME NEW g PROVE FoldsTo(FlagWeights(f), S, g) <=> Raw(g)
    BY DEF FoldsTo, Chosen, FlagWeights
  <1>4. IsFiniteSet(S)
    BY NamesFinite
  <1> HIDE DEF S, Raw
  <1>5. \E g : Raw(g)
    BY <1>3, <1>4, FoldExists
  <1>6. Raw(CHOOSE g : Raw(g))
    BY <1>5, Zenon
  <1>7. QED
    BY <1>2, <1>3, <1>6 DEF S

LEMMA FlagWordIs ==
  ASSUME NEW f
  PROVE  FlagWord(f) = Packed(f)
  <1> DEFINE V == FlagWeights(f)
             S1 == Names \ {"c"}
             S2 == S1 \ {"r"}
             S3 == S2 \ {"p"}
             S4 == S3 \ {"a"}
             S5 == S4 \ {"z"}
             S6 == S5 \ {"s"}
             S7 == S6 \ {"t"}
             S8 == S7 \ {"i"}
             S9 == S8 \ {"d"}
             S10 == S9 \ {"o"}
  <1>1. PICK g : FoldsTo(V, Names, g) /\ FlagWord(f) = g[Names]
    BY FlagWordFolds
  <1>2. \A x \in Names : V[x] \in Int
    <2>1. \A x \in Names : FlagBit[x] \in 0..31
      BY FlagBitsAre DEF Names
    <2>2. \A x \in Names : 2^FlagBit[x] \in Int
      BY <2>1, WeightIs
    <2>3. QED
      BY <2>2 DEF FlagWeights
  <1>3. \A s \in SUBSET Names : \A x \in s : g[s] = V[x] + g[s \ {x}]
    <2>1. AnyOrder(V, Names, g)
      <3> HIDE DEF V
      <3>1. QED
        BY <1>1, <1>2, NamesFinite, FoldAny
    <2>2. QED
      BY <2>1, Zenon DEF AnyOrder
  <1>4. /\ "c" \in Names /\ "r" \in S1 /\ "p" \in S2 /\ "a" \in S3 /\ "z" \in S4
        /\ "s" \in S5 /\ "t" \in S6 /\ "i" \in S7 /\ "d" \in S8 /\ "o" \in S9
    BY DEF Names
  <1>5. S10 = {}
    BY DEF Names
  <1>6. g[{}] = 0
    <2>1. {} \in SUBSET Names
      OBVIOUS
    <2>2. QED
      BY <1>1, <2>1 DEF FoldsTo
  <1>7. /\ S1 \in SUBSET Names /\ S2 \in SUBSET Names /\ S3 \in SUBSET Names
        /\ S4 \in SUBSET Names /\ S5 \in SUBSET Names /\ S6 \in SUBSET Names
        /\ S7 \in SUBSET Names /\ S8 \in SUBSET Names /\ S9 \in SUBSET Names
        /\ Names \in SUBSET Names
    OBVIOUS
  <1>8. /\ g[Names] = V["c"] + g[S1] /\ g[S1] = V["r"] + g[S2] /\ g[S2] = V["p"] + g[S3]
        /\ g[S3] = V["a"] + g[S4] /\ g[S4] = V["z"] + g[S5] /\ g[S5] = V["s"] + g[S6]
        /\ g[S6] = V["t"] + g[S7] /\ g[S7] = V["i"] + g[S8] /\ g[S8] = V["d"] + g[S9]
        /\ g[S9] = V["o"] + g[S10]
    BY <1>3, <1>4, <1>7
  <1> HIDE DEF S1, S2, S3, S4, S5, S6, S7, S8, S9, S10
  <1>9. /\ V["c"] \in Int /\ V["r"] \in Int /\ V["p"] \in Int /\ V["a"] \in Int /\ V["z"] \in Int
        /\ V["s"] \in Int /\ V["t"] \in Int /\ V["i"] \in Int /\ V["d"] \in Int /\ V["o"] \in Int
    BY <1>2 DEF Names
  <1> HIDE DEF V
  <1>10. g[Names] = V["c"] + V["r"] + V["p"] + V["a"] + V["z"] + V["s"] + V["t"] + V["i"]
                      + V["d"] + V["o"]
    <2>1. g[S9] = V["o"]
      BY <1>5, <1>6, <1>8, <1>9
    <2>2. g[S8] = V["d"] + V["o"]
      BY <1>8, <2>1
    <2>3. g[S7] = V["i"] + V["d"] + V["o"]
      BY <1>8, <1>9, <2>2
    <2>4. g[S6] = V["t"] + V["i"] + V["d"] + V["o"]
      BY <1>8, <1>9, <2>3
    <2>5. g[S5] = V["s"] + V["t"] + V["i"] + V["d"] + V["o"]
      BY <1>8, <1>9, <2>4
    <2>6. g[S4] = V["z"] + V["s"] + V["t"] + V["i"] + V["d"] + V["o"]
      BY <1>8, <1>9, <2>5
    <2>7. g[S3] = V["a"] + V["z"] + V["s"] + V["t"] + V["i"] + V["d"] + V["o"]
      BY <1>8, <1>9, <2>6
    <2>8. g[S2] = V["p"] + V["a"] + V["z"] + V["s"] + V["t"] + V["i"] + V["d"] + V["o"]
      BY <1>8, <1>9, <2>7
    <2>9. g[S1] = V["r"] + V["p"] + V["a"] + V["z"] + V["s"] + V["t"] + V["i"] + V["d"]
                    + V["o"]
      BY <1>8, <1>9, <2>8
    <2>10. QED
      BY <1>8, <1>9, <2>9
  <1>11. QED
    BY <1>1, <1>10, WeightsAre DEF Packed, V

\* ten bits at the positions of FLAGS, under the four that are always set
LEMMA TenBits ==
  ASSUME NEW b0, NEW b1, NEW b2, NEW b4, NEW b6, NEW b7, NEW b8, NEW b9, NEW b10, NEW b11,
         b0 \in {0, 1}, b1 \in {0, 1}, b2 \in {0, 1}, b4 \in {0, 1}, b6 \in {0, 1},
         b7 \in {0, 1}, b8 \in {0, 1}, b9 \in {0, 1}, b10 \in {0, 1}, b11 \in {0, 1},
         NEW v, v = 61440 + (b0 + 2 * b1 + 4 * b2 + 16 * b4 + 64 * b6 + 128 * b7
                               + 256 * b8 + 512 * b9 + 1024 * b10 + 2048 * b11)
  PROVE  /\ v \in Int /\ 61440 <= v /\ v <= 65535
         /\ (v \div 1) % 2 = b0 /\ (v \div 2) % 2 = b1 /\ (v \div 4) % 2 = b2
         /\ (v \div 16) % 2 = b4 /\ (v \div 64) % 2 = b6 /\ (v \div 128) % 2 = b7
         /\ (v \div 256) % 2 = b8 /\ (v \div 512) % 2 = b9 /\ (v \div 1024) % 2 = b10
         /\ (v \div 2048) % 2 = b11
  <1>1. v \in Int /\ 61440 <= v /\ v <= 65535
    OBVIOUS
  <1>2. (v \div 1) % 2 = b0 /\ (v \div 2) % 2 = b1
    OBVIOUS
  <1>3. (v \div 4) % 2 = b2
    OBVIOUS
  <1>4. (v \div 16) % 2 = b4
    OBVIOUS
  <1>5. (v \div 64) % 2 = b6
    OBVIOUS
  <1>6. (v \div 128) % 2 = b7
    OBVIOUS
  <1>7. (v \div 256) % 2 = b8
    OBVIOUS
  <1>8. (v \div 512) % 2 = b9
    OBVIOUS
  <1>9. (v \div 1024) % 2 = b10
    OBVIOUS
  <1>10. (v \div 2048) % 2 = b11
    OBVIOUS
  <1>11. QED
    BY <1>1, <1>2, <1>3, <1>4, <1>5, <1>6, <1>7, <1>8, <1>9, <1>10

\* the bits of a word are the flags of f
BitsOf(f, v) == \A x \in Names : Bit(v, FlagBit[x]) = Num(f[x])

LEMMA FlagWordBits ==
  ASSUME NEW f
  PROVE  /\ FlagWord(f) \in 0..4095 /\ 61440 + FlagWord(f) \in Words16
         /\ BitsOf(f, 61440 + FlagWord(f))
  <1> DEFINE b(x) == Num(f[x])
             v == 61440 + FlagWord(f)
             s == b("c") + 2 * b("r") + 4 * b("p") + 16 * b("a") + 64 * b("z") + 128 * b("s")
                    + 256 * b("t") + 512 * b("i") + 1024 * b("d") + 2048 * b("o")
  <1>1. /\ b("c") \in {0, 1} /\ b("r") \in {0, 1} /\ b("p") \in {0, 1}
        /\ b("a") \in {0, 1} /\ b("z") \in {0, 1} /\ b("s") \in {0, 1}
        /\ b("t") \in {0, 1} /\ b("i") \in {0, 1} /\ b("d") \in {0, 1}
        /\ b("o") \in {0, 1}
    BY NumIs
  <1>2. FlagWord(f) = s
    BY FlagWordIs DEF Packed, W, Num
  <1> HIDE DEF b
  <1>4. v = 61440 + s
    BY <1>2
  <1> HIDE DEF v
  <1>5. /\ v \in Int /\ 61440 <= v /\ v <= 65535
        /\ (v \div 1) % 2 = b("c") /\ (v \div 2) % 2 = b("r")
        /\ (v \div 4) % 2 = b("p") /\ (v \div 16) % 2 = b("a")
        /\ (v \div 64) % 2 = b("z") /\ (v \div 128) % 2 = b("s")
        /\ (v \div 256) % 2 = b("t") /\ (v \div 512) % 2 = b("i")
        /\ (v \div 1024) % 2 = b("d") /\ (v \div 2048) % 2 = b("o")
    BY <1>1, <1>4, TenBits
  <1>6. /\ 2^FlagBit["c"] = 1 /\ 2^FlagBit["r"] = 2 /\ 2^FlagBit["p"] = 4
        /\ 2^FlagBit["a"] = 16 /\ 2^FlagBit["z"] = 64 /\ 2^FlagBit["s"] = 128
        /\ 2^FlagBit["t"] = 256 /\ 2^FlagBit["i"] = 512 /\ 2^FlagBit["d"] = 1024
        /\ 2^FlagBit["o"] = 2048
    BY FlagBitsAre, PowersAre
  <1>7. ASSUME NEW x \in Names PROVE Bit(v, FlagBit[x]) = b(x)
    <2> DEFINE At(p) == (v \div p) % 2
    <2>1. Bit(v, FlagBit[x]) = At(2^FlagBit[x])
      BY DEF Bit
    <2>2. /\ At(1) = b("c") /\ At(2) = b("r") /\ At(4) = b("p")
          /\ At(16) = b("a") /\ At(64) = b("z") /\ At(128) = b("s")
          /\ At(256) = b("t") /\ At(512) = b("i") /\ At(1024) = b("d")
          /\ At(2048) = b("o")
      BY <1>5
    <2> HIDE DEF At, v
    <2>3. QED
      BY <1>6, <2>1, <2>2 DEF Names
  <1>8. v \in Words16
    BY <1>5, WordsAre
  <1>9. QED
    <2>0. s \in Int
      BY <1>1
    <2> HIDE DEF s
    <2>1. FlagWord(f) \in 0..4095
      BY <1>2, <1>4, <1>5, <2>0
    <2>2. BitsOf(f, v)
      BY <1>7 DEF BitsOf, b
    <2>3. QED
      BY <1>8, <2>1, <2>2 DEF v

LEMMA FlagsPacked ==
  ASSUME NEW f, f \in FlagType
  PROVE  /\ flags_pack(f) \in Words16
         /\ flags_unpack(flags_pack(f)) = [f EXCEPT !.r = TRUE]
  <1> DEFINE h == [f EXCEPT !.r = TRUE]
             v == 61440 + FlagWord(h)
             g == flags_unpack(v)
  <1>1. h \in FlagType /\ h["r"] = TRUE
    BY DEF FlagType, FlagBit
  <1>2. flags_pack(f) = v
    BY DEF flags_pack
  <1> HIDE DEF h
  <1>3. v \in Words16 /\ BitsOf(h, v)
    BY FlagWordBits
  <1> HIDE DEF v
  <1>4. g = [x \in Names |-> x = "r" \/ Bit(v, FlagBit[x]) = 1]
    BY FlagBitsAre DEF flags_unpack
  <1>5. ASSUME NEW x \in Names PROVE (x = "r" \/ Bit(v, FlagBit[x]) = 1) = h[x]
    <2>1. Bit(v, FlagBit[x]) = Num(h[x]) /\ h[x] \in BOOLEAN
      BY <1>1, <1>3, FlagBitsAre DEF BitsOf, FlagType
    <2>2. Num(h[x]) = 1 <=> h[x]
      BY DEF Num
    <2>3. QED
      BY <1>1, <2>1, <2>2
  <1>6. h = [x \in Names |-> h[x]]
    BY <1>1, FlagBitsAre DEF FlagType
  <1>7. g = h
    BY <1>4, <1>5, <1>6, Zenon
  <1>8. QED
    BY <1>2, <1>3, <1>7 DEF h

LEMMA UnpackIs == ASSUME NEW v PROVE flags_unpack(v) \in FlagType
  BY DEF flags_unpack, FlagType

LEMMA LoadLowIs ==
  ASSUME NEW f, Alike(f, f), NEW v
  PROVE  Alike(f, LoadLow(f, v))
  <1> DEFINE g == LoadLow(f, v)
  <1>1. flags_unpack(v) \in FlagType /\ f \in FlagType
    BY UnpackIs DEF Alike
  <1>2. g \in FlagType
    BY <1>1 DEF LoadLow, FlagType
  <1>3. /\ FlagBit["i"] = 9 /\ FlagBit["t"] = 8
        /\ "i" \in DOMAIN FlagBit /\ "t" \in DOMAIN FlagBit
    BY FlagBitsAre DEF Names
  <1>4. g["i"] = f["i"] /\ g["t"] = f["t"]
    BY <1>3 DEF LoadLow
  <1>5. QED
    BY <1>2, <1>4 DEF Alike

-----------------------------------------------------------------------------
(* Decoding: the tables, and what is decoded.                              *)

LEMMA SignExtendIs ==
  ASSUME NEW b, b \in 0..255
  PROVE  SignExtend(b) \in Words16
  BY WordsAre DEF SignExtend

LEMMA AddressIs ==
  ASSUME NEW seg, seg \in Words16, NEW off, off \in Words16
  PROVE  Linear(seg, off) \in Int
  BY WordsAre DEF Linear

LEMMA FetchIs ==
  ASSUME NEW n, IsMachine(n), NEW k, k \in Int
  PROVE  Fetch(n, k) \in 0..255 /\ Fetch16(n, k) \in Words16
  <1> DEFINE a == Linear(n.sreg[CS], n.ip)
             b == a + k
             l == k + 1
             c == a + l
  <1>1. a \in Int
    BY MachineIs, AddressIs DEF CS
  <1>2. b \in Int /\ c \in Int
    BY <1>1
  <1>3. Fetch(n, k) = Peek(n, b) /\ Fetch(n, l) = Peek(n, c)
    BY DEF Fetch
  <1> HIDE DEF b, c
  <1>4. Fetch(n, k) \in 0..255 /\ Fetch(n, l) \in 0..255
    BY <1>2, <1>3, PeekByte
  <1> HIDE DEF l
  <1>5. Word(Fetch(n, k), Fetch(n, l)) \in Words16
    BY <1>4, WordIn
  <1>6. QED
    BY <1>4, <1>5 DEF Fetch16, l

\* the low byte of a word fetched is the byte there
LEMMA FetchLow ==
  ASSUME NEW n, IsMachine(n), NEW k, k \in Int
  PROVE  AlOf(Fetch16(n, k)) = Fetch(n, k)
  <1> DEFINE l == k + 1
             x == Fetch(n, k)
             y == Fetch(n, l)
  <1>1. l \in Int
    OBVIOUS
  <1> HIDE DEF l
  <1>2. x \in 0..255 /\ y \in 0..255
    BY <1>1, FetchIs
  <1> HIDE DEF x, y
  <1>3. (x + 256 * y) % 256 = x
    BY <1>2
  <1>4. QED
    BY <1>3 DEF AlOf, Fetch16, Word, x, y, l

\* the rows of the table of opcodes
LEMMA RowsAre ==
  ASSUME NEW S, S \subseteq 0..7, NEW op, op \in 0..255
  PROVE  op \in Rows(S) <=> op < 64 /\ op % 8 \in S
  <1>1. ASSUME op \in Rows(S) PROVE op < 64 /\ op % 8 \in S
    <2>1. PICK k \in 0..7, j \in S : op = 8 * k + j
      BY <1>1 DEF Rows
    <2>2. j \in 0..7
      BY <2>1
    <2>3. op < 64 /\ op % 8 = j
      BY <2>1, <2>2
    <2>4. QED
      BY <2>1, <2>3
  <1>2. ASSUME op < 64, op % 8 \in S PROVE op \in Rows(S)
    <2> DEFINE k == op \div 8
               j == op % 8
    <2>1. k \in 0..7 /\ op = 8 * k + j
      BY <1>2
    <2>2. j \in S
      BY <1>2
    <2> HIDE DEF k, j
    <2>3. QED
      BY <2>1, <2>2 DEF Rows
  <1>3. QED
    BY <1>1, <1>2

LEMMA RowsOfKinds ==
  ASSUME NEW op, op \in 0..255
  PROVE  /\ op \in Rows({4, 5}) <=> op < 64 /\ op % 8 \in {4, 5}
         /\ op \in Rows(0..3) <=> op < 64 /\ op % 8 \in 0..3
  <1> DEFINE S == {4, 5}
             T == 0..3
  <1>1. S \subseteq 0..7 /\ T \subseteq 0..7
    OBVIOUS
  <1> HIDE DEF S, T
  <1>2. /\ op \in Rows(S) <=> op < 64 /\ op % 8 \in S
        /\ op \in Rows(T) <=> op < 64 /\ op % 8 \in T
    BY <1>1, RowsAre
  <1>3. QED
    BY <1>2 DEF S, T

(* Every opcode has a kind, and is of it.                                  *)
LEMMA KindsAre ==
  /\ "jcc" \in DOMAIN Kinds /\ Kinds["jcc"] = \h70..\h7F \cup {\hF1}
  /\ "movRegImm" \in DOMAIN Kinds /\ Kinds["movRegImm"] = \hB0..\hBF
  /\ "incDec" \in DOMAIN Kinds /\ Kinds["incDec"] = \h40..\h4F
  /\ "pushReg" \in DOMAIN Kinds /\ Kinds["pushReg"] = \h50..\h57
  /\ "popReg" \in DOMAIN Kinds /\ Kinds["popReg"] = \h58..\h5F
  /\ "group5" \in DOMAIN Kinds /\ Kinds["group5"] = {\hFE, \hFF}
  /\ "group3" \in DOMAIN Kinds /\ Kinds["group3"] = {\hF6, \hF7}
  /\ "aluAcc" \in DOMAIN Kinds /\ Kinds["aluAcc"] = Rows({4, 5})
  /\ "aluImm" \in DOMAIN Kinds /\ Kinds["aluImm"] = \h80..\h83
  /\ "alu" \in DOMAIN Kinds /\ Kinds["alu"] = Rows(0..3)
  /\ "mov" \in DOMAIN Kinds /\ Kinds["mov"] = \h88..\h8B
  /\ "segLea" \in DOMAIN Kinds /\ Kinds["segLea"] = \h8C..\h8F
  /\ "moffs" \in DOMAIN Kinds /\ Kinds["moffs"] = \hA0..\hA3
  /\ "shift" \in DOMAIN Kinds /\ Kinds["shift"] = {\hC0, \hC1} \cup \hD0..\hD3
  /\ "loop" \in DOMAIN Kinds /\ Kinds["loop"] = \hE0..\hE3
  /\ "jump" \in DOMAIN Kinds /\ Kinds["jump"] = \hE8..\hEB
  /\ "test" \in DOMAIN Kinds /\ Kinds["test"] = {\h84, \h85}
  /\ "xchgAx" \in DOMAIN Kinds /\ Kinds["xchgAx"] = \h90..\h97
  /\ "string" \in DOMAIN Kinds /\ Kinds["string"] = \hA4..\hA7 \cup \hAA..\hAF
  /\ "ret" \in DOMAIN Kinds /\ Kinds["ret"] = {\hC2, \hC3, \hCA, \hCB, \hCF}
  /\ "movImm" \in DOMAIN Kinds /\ Kinds["movImm"] = {\hC6, \hC7}
  /\ "in" \in DOMAIN Kinds /\ Kinds["in"] = {\hE4, \hE5, \hEC, \hED}
  /\ "out" \in DOMAIN Kinds /\ Kinds["out"] = {\hE6, \hE7, \hEE, \hEF}
  /\ "rep" \in DOMAIN Kinds /\ Kinds["rep"] = {\hF2, \hF3}
  /\ "xchg" \in DOMAIN Kinds /\ Kinds["xchg"] = {\h86, \h87}
  /\ "pushSeg" \in DOMAIN Kinds /\ Kinds["pushSeg"] = {\h06, \h0E, \h16, \h1E}
  /\ "popSeg" \in DOMAIN Kinds /\ Kinds["popSeg"] = {\h07, \h17, \h1F}
  /\ "seg" \in DOMAIN Kinds /\ Kinds["seg"] = {\h26, \h2E, \h36, \h3E}
  /\ "decimal" \in DOMAIN Kinds /\ Kinds["decimal"] = {\h27, \h2F, \h37, \h3F, \hD4, \hD5}
  /\ "convert" \in DOMAIN Kinds /\ Kinds["convert"] = {\h98, \h99}
  /\ "callFar" \in DOMAIN Kinds /\ Kinds["callFar"] = {\h9A}
  /\ "flagsReg" \in DOMAIN Kinds /\ Kinds["flagsReg"] = \h9C..\h9F
  /\ "farLoad" \in DOMAIN Kinds /\ Kinds["farLoad"] = {\hC4, \hC5}
  /\ "int" \in DOMAIN Kinds /\ Kinds["int"] = {\hCC, \hCD, \hCE}
  /\ "salc" \in DOMAIN Kinds /\ Kinds["salc"] = {\hD6}
  /\ "xlat" \in DOMAIN Kinds /\ Kinds["xlat"] = {\hD7}
  /\ "cmc" \in DOMAIN Kinds /\ Kinds["cmc"] = {\hF5}
  /\ "flag" \in DOMAIN Kinds /\ Kinds["flag"] = \hF8..\hFD
  /\ "testAcc" \in DOMAIN Kinds /\ Kinds["testAcc"] = {\hA8, \hA9}
  /\ "bios" \in DOMAIN Kinds /\ Kinds["bios"] = {\h0F}
  /\ "hlt" \in DOMAIN Kinds /\ Kinds["hlt"] = {\hF4}
  /\ "ignored" \in DOMAIN Kinds /\ Kinds["ignored"] = {\h9B, \hC8, \hC9, \hF0} \cup \h60..\h6F \cup \hD8..\hDF
  <1>1. /\ "jcc" \in DOMAIN Kinds /\ Kinds["jcc"] = \h70..\h7F \cup {\hF1}
        /\ "movRegImm" \in DOMAIN Kinds /\ Kinds["movRegImm"] = \hB0..\hBF
        /\ "incDec" \in DOMAIN Kinds /\ Kinds["incDec"] = \h40..\h4F
    BY DEF Kinds
  <1>2. /\ "pushReg" \in DOMAIN Kinds /\ Kinds["pushReg"] = \h50..\h57
        /\ "popReg" \in DOMAIN Kinds /\ Kinds["popReg"] = \h58..\h5F
        /\ "group5" \in DOMAIN Kinds /\ Kinds["group5"] = {\hFE, \hFF}
    BY DEF Kinds
  <1>3. /\ "group3" \in DOMAIN Kinds /\ Kinds["group3"] = {\hF6, \hF7}
        /\ "aluAcc" \in DOMAIN Kinds /\ Kinds["aluAcc"] = Rows({4, 5})
        /\ "aluImm" \in DOMAIN Kinds /\ Kinds["aluImm"] = \h80..\h83
    BY DEF Kinds
  <1>4. /\ "alu" \in DOMAIN Kinds /\ Kinds["alu"] = Rows(0..3)
        /\ "mov" \in DOMAIN Kinds /\ Kinds["mov"] = \h88..\h8B
        /\ "segLea" \in DOMAIN Kinds /\ Kinds["segLea"] = \h8C..\h8F
    BY DEF Kinds
  <1>5. /\ "moffs" \in DOMAIN Kinds /\ Kinds["moffs"] = \hA0..\hA3
        /\ "shift" \in DOMAIN Kinds /\ Kinds["shift"] = {\hC0, \hC1} \cup \hD0..\hD3
        /\ "loop" \in DOMAIN Kinds /\ Kinds["loop"] = \hE0..\hE3
    BY DEF Kinds
  <1>6. /\ "jump" \in DOMAIN Kinds /\ Kinds["jump"] = \hE8..\hEB
        /\ "test" \in DOMAIN Kinds /\ Kinds["test"] = {\h84, \h85}
        /\ "xchgAx" \in DOMAIN Kinds /\ Kinds["xchgAx"] = \h90..\h97
    BY DEF Kinds
  <1>7. /\ "string" \in DOMAIN Kinds /\ Kinds["string"] = \hA4..\hA7 \cup \hAA..\hAF
        /\ "ret" \in DOMAIN Kinds /\ Kinds["ret"] = {\hC2, \hC3, \hCA, \hCB, \hCF}
        /\ "movImm" \in DOMAIN Kinds /\ Kinds["movImm"] = {\hC6, \hC7}
    BY DEF Kinds
  <1>8. /\ "in" \in DOMAIN Kinds /\ Kinds["in"] = {\hE4, \hE5, \hEC, \hED}
        /\ "out" \in DOMAIN Kinds /\ Kinds["out"] = {\hE6, \hE7, \hEE, \hEF}
        /\ "rep" \in DOMAIN Kinds /\ Kinds["rep"] = {\hF2, \hF3}
    BY DEF Kinds
  <1>9. /\ "xchg" \in DOMAIN Kinds /\ Kinds["xchg"] = {\h86, \h87}
        /\ "pushSeg" \in DOMAIN Kinds /\ Kinds["pushSeg"] = {\h06, \h0E, \h16, \h1E}
        /\ "popSeg" \in DOMAIN Kinds /\ Kinds["popSeg"] = {\h07, \h17, \h1F}
    BY DEF Kinds
  <1>10. /\ "seg" \in DOMAIN Kinds /\ Kinds["seg"] = {\h26, \h2E, \h36, \h3E}
         /\ "decimal" \in DOMAIN Kinds /\ Kinds["decimal"] = {\h27, \h2F, \h37, \h3F, \hD4, \hD5}
         /\ "convert" \in DOMAIN Kinds /\ Kinds["convert"] = {\h98, \h99}
    BY DEF Kinds
  <1>11. /\ "callFar" \in DOMAIN Kinds /\ Kinds["callFar"] = {\h9A}
         /\ "flagsReg" \in DOMAIN Kinds /\ Kinds["flagsReg"] = \h9C..\h9F
         /\ "farLoad" \in DOMAIN Kinds /\ Kinds["farLoad"] = {\hC4, \hC5}
    BY DEF Kinds
  <1>12. /\ "int" \in DOMAIN Kinds /\ Kinds["int"] = {\hCC, \hCD, \hCE}
         /\ "salc" \in DOMAIN Kinds /\ Kinds["salc"] = {\hD6}
         /\ "xlat" \in DOMAIN Kinds /\ Kinds["xlat"] = {\hD7}
    BY DEF Kinds
  <1>13. /\ "cmc" \in DOMAIN Kinds /\ Kinds["cmc"] = {\hF5}
         /\ "flag" \in DOMAIN Kinds /\ Kinds["flag"] = \hF8..\hFD
         /\ "testAcc" \in DOMAIN Kinds /\ Kinds["testAcc"] = {\hA8, \hA9}
    BY DEF Kinds
  <1>14. /\ "bios" \in DOMAIN Kinds /\ Kinds["bios"] = {\h0F}
         /\ "hlt" \in DOMAIN Kinds /\ Kinds["hlt"] = {\hF4}
         /\ "ignored" \in DOMAIN Kinds /\ Kinds["ignored"] = {\h9B, \hC8, \hC9, \hF0} \cup \h60..\h6F \cup \hD8..\hDF
    BY DEF Kinds
  <1>15. QED
    BY <1>1, <1>2, <1>3, <1>4, <1>5, <1>6, <1>7, <1>8, <1>9, <1>10, <1>11, <1>12, <1>13, <1>14

LEMMA KindExists ==
  ASSUME NEW op, op \in 0..255
  PROVE  \E k \in DOMAIN Kinds : op \in Kinds[k]
  <1> DEFINE Has(k) == k \in DOMAIN Kinds /\ op \in Kinds[k]
  <1>1. SUFFICES \E k : Has(k)
    OBVIOUS
  <1>2. CASE op < 64
    <2>1. /\ (op < 64 /\ op % 8 \in {4, 5}) => Has("aluAcc")
          /\ (op < 64 /\ op % 8 \in 0..3) => Has("alu")
          /\ op \in {\h06, \h0E, \h16, \h1E} => Has("pushSeg")
          /\ op \in {\h07, \h17, \h1F} => Has("popSeg")
          /\ op \in {\h26, \h2E, \h36, \h3E} => Has("seg")
          /\ op \in {\h27, \h2F, \h37, \h3F, \hD4, \hD5} => Has("decimal")
          /\ op \in {\h0F} => Has("bios")
      BY KindsAre, RowsOfKinds
    <2> HIDE DEF Has
    <2>2. \/ (op < 64 /\ op % 8 \in {4, 5})
          \/ (op < 64 /\ op % 8 \in 0..3)
          \/ op \in {\h06, \h0E, \h16, \h1E}
          \/ op \in {\h07, \h17, \h1F}
          \/ op \in {\h26, \h2E, \h36, \h3E}
          \/ op \in {\h27, \h2F, \h37, \h3F, \hD4, \hD5}
          \/ op \in {\h0F}
      BY <1>2
    <2>3. QED
      BY <2>1, <2>2
  <1>3. CASE 64 <= op /\ op < 112
    <2>1. /\ op \in \h40..\h4F => Has("incDec")
          /\ op \in \h50..\h57 => Has("pushReg")
          /\ op \in \h58..\h5F => Has("popReg")
          /\ op \in {\h9B, \hC8, \hC9, \hF0} \cup \h60..\h6F \cup \hD8..\hDF => Has("ignored")
      BY KindsAre
    <2> HIDE DEF Has
    <2>2. \/ op \in \h40..\h4F
          \/ op \in \h50..\h57
          \/ op \in \h58..\h5F
          \/ op \in {\h9B, \hC8, \hC9, \hF0} \cup \h60..\h6F \cup \hD8..\hDF
      BY <1>3
    <2>3. QED
      BY <2>1, <2>2
  <1>4. CASE 112 <= op /\ op < 144
    <2>1. /\ op \in \h70..\h7F \cup {\hF1} => Has("jcc")
          /\ op \in \h80..\h83 => Has("aluImm")
          /\ op \in \h88..\h8B => Has("mov")
          /\ op \in \h8C..\h8F => Has("segLea")
          /\ op \in {\h84, \h85} => Has("test")
          /\ op \in {\h86, \h87} => Has("xchg")
      BY KindsAre
    <2> HIDE DEF Has
    <2>2. \/ op \in \h70..\h7F \cup {\hF1}
          \/ op \in \h80..\h83
          \/ op \in \h88..\h8B
          \/ op \in \h8C..\h8F
          \/ op \in {\h84, \h85}
          \/ op \in {\h86, \h87}
      BY <1>4
    <2>3. QED
      BY <2>1, <2>2
  <1>5. CASE 144 <= op /\ op < 176
    <2>1. /\ op \in \hA0..\hA3 => Has("moffs")
          /\ op \in \h90..\h97 => Has("xchgAx")
          /\ op \in \hA4..\hA7 \cup \hAA..\hAF => Has("string")
          /\ op \in {\h98, \h99} => Has("convert")
          /\ op \in {\h9A} => Has("callFar")
          /\ op \in \h9C..\h9F => Has("flagsReg")
          /\ op \in {\hA8, \hA9} => Has("testAcc")
          /\ op \in {\h9B, \hC8, \hC9, \hF0} \cup \h60..\h6F \cup \hD8..\hDF => Has("ignored")
      BY KindsAre
    <2> HIDE DEF Has
    <2>2. \/ op \in \hA0..\hA3
          \/ op \in \h90..\h97
          \/ op \in \hA4..\hA7 \cup \hAA..\hAF
          \/ op \in {\h98, \h99}
          \/ op \in {\h9A}
          \/ op \in \h9C..\h9F
          \/ op \in {\hA8, \hA9}
          \/ op \in {\h9B, \hC8, \hC9, \hF0} \cup \h60..\h6F \cup \hD8..\hDF
      BY <1>5
    <2>3. QED
      BY <2>1, <2>2
  <1>6. CASE 176 <= op /\ op < 208
    <2>1. /\ op \in \hB0..\hBF => Has("movRegImm")
          /\ op \in {\hC0, \hC1} \cup \hD0..\hD3 => Has("shift")
          /\ op \in {\hC2, \hC3, \hCA, \hCB, \hCF} => Has("ret")
          /\ op \in {\hC6, \hC7} => Has("movImm")
          /\ op \in {\hC4, \hC5} => Has("farLoad")
          /\ op \in {\hCC, \hCD, \hCE} => Has("int")
          /\ op \in {\h9B, \hC8, \hC9, \hF0} \cup \h60..\h6F \cup \hD8..\hDF => Has("ignored")
      BY KindsAre
    <2> HIDE DEF Has
    <2>2. \/ op \in \hB0..\hBF
          \/ op \in {\hC0, \hC1} \cup \hD0..\hD3
          \/ op \in {\hC2, \hC3, \hCA, \hCB, \hCF}
          \/ op \in {\hC6, \hC7}
          \/ op \in {\hC4, \hC5}
          \/ op \in {\hCC, \hCD, \hCE}
          \/ op \in {\h9B, \hC8, \hC9, \hF0} \cup \h60..\h6F \cup \hD8..\hDF
      BY <1>6
    <2>3. QED
      BY <2>1, <2>2
  <1>7. CASE 208 <= op /\ op < 232
    <2>1. /\ op \in {\hC0, \hC1} \cup \hD0..\hD3 => Has("shift")
          /\ op \in \hE0..\hE3 => Has("loop")
          /\ op \in {\hE4, \hE5, \hEC, \hED} => Has("in")
          /\ op \in {\hE6, \hE7, \hEE, \hEF} => Has("out")
          /\ op \in {\h27, \h2F, \h37, \h3F, \hD4, \hD5} => Has("decimal")
          /\ op \in {\hD6} => Has("salc")
          /\ op \in {\hD7} => Has("xlat")
          /\ op \in {\h9B, \hC8, \hC9, \hF0} \cup \h60..\h6F \cup \hD8..\hDF => Has("ignored")
      BY KindsAre
    <2> HIDE DEF Has
    <2>2. \/ op \in {\hC0, \hC1} \cup \hD0..\hD3
          \/ op \in \hE0..\hE3
          \/ op \in {\hE4, \hE5, \hEC, \hED}
          \/ op \in {\hE6, \hE7, \hEE, \hEF}
          \/ op \in {\h27, \h2F, \h37, \h3F, \hD4, \hD5}
          \/ op \in {\hD6}
          \/ op \in {\hD7}
          \/ op \in {\h9B, \hC8, \hC9, \hF0} \cup \h60..\h6F \cup \hD8..\hDF
      BY <1>7
    <2>3. QED
      BY <2>1, <2>2
  <1>8. CASE 232 <= op /\ op < 248
    <2>1. /\ op \in \h70..\h7F \cup {\hF1} => Has("jcc")
          /\ op \in {\hF6, \hF7} => Has("group3")
          /\ op \in \hE8..\hEB => Has("jump")
          /\ op \in {\hE4, \hE5, \hEC, \hED} => Has("in")
          /\ op \in {\hE6, \hE7, \hEE, \hEF} => Has("out")
          /\ op \in {\hF2, \hF3} => Has("rep")
          /\ op \in {\hF5} => Has("cmc")
          /\ op \in {\hF4} => Has("hlt")
          /\ op \in {\h9B, \hC8, \hC9, \hF0} \cup \h60..\h6F \cup \hD8..\hDF => Has("ignored")
      BY KindsAre
    <2> HIDE DEF Has
    <2>2. \/ op \in \h70..\h7F \cup {\hF1}
          \/ op \in {\hF6, \hF7}
          \/ op \in \hE8..\hEB
          \/ op \in {\hE4, \hE5, \hEC, \hED}
          \/ op \in {\hE6, \hE7, \hEE, \hEF}
          \/ op \in {\hF2, \hF3}
          \/ op \in {\hF5}
          \/ op \in {\hF4}
          \/ op \in {\h9B, \hC8, \hC9, \hF0} \cup \h60..\h6F \cup \hD8..\hDF
      BY <1>8
    <2>3. QED
      BY <2>1, <2>2
  <1>9. CASE 248 <= op /\ op < 256
    <2>1. /\ op \in {\hFE, \hFF} => Has("group5")
          /\ op \in \hF8..\hFD => Has("flag")
      BY KindsAre
    <2> HIDE DEF Has
    <2>2. \/ op \in {\hFE, \hFF}
          \/ op \in \hF8..\hFD
      BY <1>9
    <2>3. QED
      BY <2>1, <2>2
  <1>10. QED
    BY <1>2, <1>3, <1>4, <1>5, <1>6, <1>7, <1>8, <1>9

LEMMA KindIs ==
  ASSUME NEW op, op \in 0..255
  PROVE  Kind[op] \in DOMAIN Kinds /\ op \in Kinds[Kind[op]]
  <1>1. Kind[op] = CHOOSE k \in DOMAIN Kinds : op \in Kinds[k]
    BY DEF Kind
  <1>2. \E k \in DOMAIN Kinds : op \in Kinds[k]
    BY KindExists
  <1>3. QED
    BY <1>1, <1>2, Zenon

-----------------------------------------------------------------------------
(* The instruction at CS:IP.                                               *)

LEMMA BaseSizeIs ==
  ASSUME NEW op, op \in 0..255
  PROVE  BaseSize[op] \in Int
  BY DEF BaseSize

LEMMA SegmentIs ==
  ASSUME NEW n, IsMachine(n), NEW s, s \in 0..3
  PROVE  Segment(n, s) \in Words16
  <1>1. \A k \in 0..3 : n.sreg[k] \in Words16
    BY MachineIs
  <1>2. n.seg_override \in 0..3
    BY MachineIs
  <1>3. QED
    BY <1>1, <1>2 DEF Segment

LEMMA DefaultSegIs ==
  ASSUME NEW mod, NEW rm, rm \in 0..7
  PROVE  DefaultSeg(mod, rm) \in 0..3
  BY DEF DefaultSeg, rm_mode0_dfseg, rm_mode12_dfseg, DS, SS

LEMMA WordInt == ASSUME NEW v, v \in Words16 PROVE v \in Int /\ 0 <= v /\ v <= 65535
  BY WordsAre

LEMMA RegIn ==
  ASSUME NEW n, IsMachine(n), NEW r, r \in 0..7
  PROVE  n.reg[r] \in Words16
  BY MachineIs

LEMMA TableRegIs ==
  ASSUME NEW n, IsMachine(n), NEW r, r \in 0..12
  PROVE  TableReg(n, r) \in Int
  <1>1. ASSUME r \in 0..7 PROVE n.reg[r] \in Int
    <2>1. n.reg[r] \in Words16
      BY <1>1, RegIn
    <2>2. QED
      BY <2>1, WordInt
  <1>2. QED
    BY <1>1 DEF TableReg

LEMMA OffsetIs ==
  ASSUME NEW n, IsMachine(n), NEW mod, NEW rm, rm \in 0..7, NEW disp, disp \in Words16
  PROVE  Offset(n, mod, rm, disp) \in Words16
  <1> DEFINE a == TableReg(n, rm_mode0_reg1[rm + 1])
             b == TableReg(n, rm_mode012_reg2[rm + 1])
             c == TableReg(n, rm_mode12_reg1[rm + 1])
  <1>1. /\ rm_mode0_reg1[rm + 1] \in 0..12 /\ rm_mode012_reg2[rm + 1] \in 0..12
        /\ rm_mode12_reg1[rm + 1] \in 0..12
    BY DEF rm_mode0_reg1, rm_mode012_reg2, rm_mode12_reg1, BX, BP, SI, DI
  <1>2. a \in Int /\ b \in Int /\ c \in Int
    BY <1>1, TableRegIs
  <1>3. disp \in Int
    BY WordsAre
  <1> HIDE DEF a, b, c
  <1>4. Wrap16(a + b + (IF rm = 6 THEN disp ELSE 0)) \in Words16 /\ Wrap16(c + b + disp) \in Words16
    BY <1>2, <1>3, WrapIn
  <1>5. QED
    BY <1>4 DEF Offset, a, b, c

\* the fields that decide what an instruction does next
Fields(n, d) ==
  /\ d.op = Fetch(n, 0) /\ d.kind = Kind[Fetch(n, 0)]
  /\ d.w = d.op % 2 /\ d.dir = (d.op \div 2) % 2 /\ d.reg4 = d.op % 8
  /\ d.data0 = Fetch16(n, 1)
  /\ IF d.op \in HasModrm
       THEN d.mod = Fetch(n, 1) \div 64 /\ d.rm = Fetch(n, 1) % 8
              /\ d.reg = (Fetch(n, 1) \div 8) % 8
       ELSE d.mod = 0 /\ d.rm = 0 /\ d.reg = 0

LEMMA BytesIn ==
  ASSUME NEW b, b \in 0..255
  PROVE  /\ b % 2 \in 0..1 /\ (b \div 2) % 2 \in 0..1 /\ b % 8 \in 0..7 /\ b \div 64 \in 0..3
         /\ (b \div 8) % 8 \in 0..7
  OBVIOUS

LEMMA DecodeIs ==
  ASSUME NEW n, IsMachine(n)
  PROVE  LET d == Decode(n)
         IN  /\ IsInstr(d) /\ Fields(n, d)
             /\ d.len = BaseSize[d.op] + (IF d.op \in HasModrm THEN DispSize(d.mod, d.rm) ELSE 0)
                          + (IF d.op \in HasImmediate THEN d.w + 1 ELSE 0)
  <1> DEFINE op == Fetch(n, 0)
             arg == Fetch(n, 1)
             modrm == op \in HasModrm
             mod == IF modrm THEN arg \div 64 ELSE 0
             rm == IF modrm THEN arg % 8 ELSE 0
             reg == IF modrm THEN (arg \div 8) % 8 ELSE 0
             w == op % 2
             data1 == IF modrm /\ mod = 1 THEN SignExtend(Fetch(n, 2)) ELSE Fetch16(n, 2)
             data2 == CASE ~modrm \/ mod = 1 -> Fetch16(n, 3)
                        [] (modrm /\ mod = 0 /\ rm = 6) \/ mod = 2 -> Fetch16(n, 4)
                        [] OTHER -> data1
             addr == IF mod = 3 THEN rm
                     ELSE Linear(Segment(n, DefaultSeg(mod, rm)), Offset(n, mod, rm, data1))
             len == BaseSize[op] + (IF modrm THEN DispSize(mod, rm) ELSE 0)
                      + (IF op \in HasImmediate THEN w + 1 ELSE 0)
             d == [op |-> op, kind |-> Kind[op], w |-> w, dir |-> (op \div 2) % 2,
                   mod |-> mod, rm |-> rm, reg4 |-> op % 8, reg |-> reg,
                   data0 |-> Fetch16(n, 1), data1 |-> data1, data2 |-> data2,
                   addr |-> addr, len |-> len]
  <1>1. Decode(n) = d
    BY DEF Decode
  <1>2. /\ op \in 0..255 /\ arg \in 0..255 /\ Fetch(n, 2) \in 0..255 /\ Fetch16(n, 1) \in Words16
        /\ Fetch16(n, 2) \in Words16 /\ Fetch16(n, 3) \in Words16 /\ Fetch16(n, 4) \in Words16
    <2> DEFINE k1 == 1
               k2 == 2
               k3 == 3
               k4 == 4
               k0 == 0
    <2>1. k0 \in Int /\ k1 \in Int /\ k2 \in Int /\ k3 \in Int /\ k4 \in Int
      OBVIOUS
    <2> HIDE DEF k0, k1, k2, k3, k4
    <2>2. /\ Fetch(n, k0) \in 0..255 /\ Fetch(n, k1) \in 0..255 /\ Fetch(n, k2) \in 0..255
          /\ Fetch16(n, k1) \in Words16 /\ Fetch16(n, k2) \in Words16
          /\ Fetch16(n, k3) \in Words16 /\ Fetch16(n, k4) \in Words16
      BY <2>1, FetchIs
    <2>3. QED
      BY <2>2 DEF k0, k1, k2, k3, k4
  <1> HIDE DEF op, arg
  <1>3. mod \in 0..3 /\ rm \in 0..7 /\ reg \in 0..7 /\ w \in 0..1 /\ (op \div 2) % 2 \in 0..1
        /\ op % 8 \in 0..7
    BY <1>2, BytesIn
  <1> HIDE DEF modrm
  <1>4. data1 \in Words16
    BY <1>2, SignExtendIs
  <1> HIDE DEF data1
  <1>5. data2 \in Words16
    BY <1>2, <1>4
  <1> HIDE DEF data2
  <1>6. addr \in Int
    <2> DEFINE s == Segment(n, DefaultSeg(mod, rm))
               o == Offset(n, mod, rm, data1)
    <2>1. s \in Words16
      BY <1>3, DefaultSegIs, SegmentIs
    <2>2. o \in Words16
      BY <1>3, <1>4, OffsetIs
    <2> HIDE DEF s, o
    <2>3. Linear(s, o) \in Int
      BY <2>1, <2>2, AddressIs
    <2>4. QED
      BY <1>3, <2>3 DEF s, o
  <1> HIDE DEF addr
  <1>7. len \in Int
    <2>1. BaseSize[op] \in Int
      BY <1>2, BaseSizeIs
    <2>2. DispSize(mod, rm) \in Int
      BY <1>3 DEF DispSize
    <2>3. QED
      BY <1>3, <2>1, <2>2
  <1>8. d.len = BaseSize[d.op] + (IF d.op \in HasModrm THEN DispSize(d.mod, d.rm) ELSE 0)
                  + (IF d.op \in HasImmediate THEN d.w + 1 ELSE 0)
    BY DEF modrm
  <1> HIDE DEF len
  <1>9. IsInstr(d)
    BY <1>2, <1>3, <1>4, <1>5, <1>6, <1>7 DEF IsInstr
  <1>10. Fields(n, d)
    BY DEF Fields, op, arg, modrm
  <1>11. QED
    BY <1>1, <1>8, <1>9, <1>10

LEMMA InstructionIs ==
  ASSUME NEW n, IsMachine(n)
  PROVE  LET d == Instruction(n)
         IN  IsInstr(d) /\ Fields(n, d) /\ d.len = Length(Decode(n))
  <1> DEFINE c == Decode(n)
             k == Length(c)
  <1>1. IsInstr(c) /\ Fields(n, c)
    BY DecodeIs
  <1>2. c.w \in Int /\ c.dir \in Int /\ c.reg \in Int /\ c.len \in Int /\ c.op \in Int
    BY <1>1, InstrIs
  <1> HIDE DEF c
  <1>3. k \in Int
    BY <1>2 DEF Length
  <1> HIDE DEF k
  <1>4. IsInstr([c EXCEPT !.len = k]) /\ [c EXCEPT !.len = k].len = k
    BY <1>1, <1>3 DEF IsInstr
  <1>5. Fields(n, [c EXCEPT !.len = k])
    BY <1>1 DEF IsInstr, Fields
  <1>6. Instruction(n) = [c EXCEPT !.len = k]
    BY DEF Instruction, c, k
  <1>7. QED
    BY <1>4, <1>5, <1>6 DEF c, k

LEMMA OpIs ==
  ASSUME NEW n, IsMachine(n), NEW d, Fields(n, d)
  PROVE  d.op \in 0..255 /\ d.op \in Kinds[d.kind]
  <1> DEFINE k0 == 0
  <1>1. k0 \in Int
    OBVIOUS
  <1> HIDE DEF k0
  <1>2. Fetch(n, k0) \in 0..255
    BY <1>1, FetchIs
  <1>3. Fetch(n, 0) \in 0..255
    BY <1>2 DEF k0
  <1>4. QED
    BY <1>3, KindIs DEF Fields

-----------------------------------------------------------------------------
(* The stack: what lies on it, k bytes from its top.                       *)

Deep(n, k) == Peek16(n, Linear(n.sreg[SS], Wrap16(n.reg[SP] + k)))

LEMMA RegistersAre ==
  /\ SP \in 0..7 /\ AX \in 0..7 /\ DX \in 0..7 /\ CX \in 0..7 /\ SI \in 0..7 /\ DI \in 0..7
  /\ BX \in 0..7 /\ BP \in 0..7 /\ SS \in 0..3 /\ CS \in 0..3 /\ DS \in 0..3 /\ ES \in 0..3
  /\ SS # CS
  BY DEF SP, AX, DX, CX, SI, DI, BX, BP, SS, CS, DS, ES

LEMMA SegIn ==
  ASSUME NEW n, IsMachine(n), NEW r, r \in 0..3
  PROVE  n.sreg[r] \in Words16
  BY MachineIs

LEMMA TopIs ==
  ASSUME NEW n, IsMachine(n)
  PROVE  Top(n) = Deep(n, 0) /\ Top(n) \in Words16
  <1> DEFINE sp == n.reg[SP]
             ss == n.sreg[SS]
  <1>1. sp \in Words16 /\ ss \in Words16
    BY RegistersAre, RegIn, SegIn
  <1> HIDE DEF sp, ss
  <1>2. Wrap16(sp + 0) = sp
    <2>1. sp \in Int /\ 0 <= sp /\ sp <= 65535
      BY <1>1, WordsAre
    <2>2. QED
      BY <2>1 DEF Wrap16
  <1>3. Linear(ss, sp) \in Int
    BY <1>1, AddressIs
  <1>4. Peek16(n, Linear(ss, sp)) \in Words16
    BY <1>3, PeekIs
  <1>5. QED
    BY <1>2, <1>4 DEF Top, Deep, sp, ss

\* x is n after a PUSH of v
Pushed(n, v, x) ==
  /\ Keeps(n, x) /\ x.sreg = n.sreg /\ x.f = n.f /\ Top(x) = v
  /\ x.reg = [n.reg EXCEPT ![SP] = Wrap16(n.reg[SP] - 2)]
  /\ LET a == Linear(n.sreg[SS], Wrap16(n.reg[SP] - 2))
     IN  \A k \in Int \ {a, a + 1} : Peek(x, k) = Peek(n, k)

LEMMA PushIs ==
  ASSUME NEW n, IsMachine(n), NEW v, v \in Words16
  PROVE  Pushed(n, v, Push(n, v))
  <1> DEFINE ss == n.sreg[SS]
             sp == Wrap16(n.reg[SP] - 2)
             a == Linear(ss, sp)
             y == [n EXCEPT !.reg[SP] = sp]
             x == Poke16(y, a, v)
  <1>1. Push(n, v) = x
    BY DEF Push
  <1>2. sp \in Words16 /\ ss \in Words16
    <2> DEFINE r == n.reg[SP]
    <2>1. r \in Words16
      BY RegistersAre, RegIn
    <2> HIDE DEF r
    <2>2. r - 2 \in Int
      BY <2>1, WordInt
    <2>3. Wrap16(r - 2) \in Words16
      BY <2>2, WrapIn
    <2>4. QED
      BY <2>3, RegistersAre, SegIn DEF r
  <1> HIDE DEF sp, ss
  <1>3. a \in Int
    BY <1>2, AddressIs
  <1> HIDE DEF a
  <1>4. Keeps(n, y)
    BY <1>2, RegistersAre, SetRegIs
  <1>5. y.sreg = n.sreg /\ y.f = n.f /\ y.mem = n.mem /\ y.reg = [n.reg EXCEPT ![SP] = sp]
    BY DEF IsMachine
  <1> HIDE DEF y
  <1>6. OnlyMem(y, x) /\ Peek16(x, a) = v /\ \A k \in Int \ {a, a + 1} : Peek(x, k) = Peek(y, k)
    BY <1>3, <1>4, KeepsMachine, Poke16Is
  <1> HIDE DEF x
  <1>7. Keeps(n, x) /\ x.sreg = n.sreg /\ x.f = n.f /\ x.reg = [n.reg EXCEPT ![SP] = sp]
    BY <1>4, <1>5, <1>6, KeepsMore DEF OnlyMem
  <1>8. x.reg[SP] = sp
    <2>1. n.reg \in [0..7 -> Words16]
      BY MachineIs
    <2>2. QED
      BY <1>7, <2>1, RegistersAre
  <1>9. Top(x) = v
    BY <1>6, <1>7, <1>8 DEF Top, a, ss
  <1>10. \A k \in Int \ {a, a + 1} : Peek(x, k) = Peek(n, k)
    BY <1>5, <1>6 DEF Peek
  <1>11. QED
    BY <1>1, <1>7, <1>9, <1>10 DEF Pushed, a, ss, sp

(* A word on the stack stays where it is under another one. *)
LEMMA DeepUnderPush ==
  ASSUME NEW n, IsMachine(n), NEW v, NEW x, Pushed(n, v, x), NEW k, k \in {0, 2}
  PROVE  Deep(x, k + 2) = Deep(n, k)
  <1> DEFINE r == n.reg[SP]
             s == n.sreg[SS]
             sp == Wrap16(r - 2)
             off == Wrap16(r + k)
             a == Linear(s, sp)
             b == Linear(s, off)
  <1>1. r \in Int /\ 0 <= r /\ r <= 65535
    <2>1. r \in Words16
      BY RegistersAre, RegIn
    <2>2. QED
      BY <2>1, WordInt
  <1>2. s \in Int
    BY RegistersAre, SegIn, WordInt
  <1>3. x.reg[SP] = sp /\ x.sreg[SS] = s
    <2>1. n.reg \in [0..7 -> Words16]
      BY MachineIs
    <2>2. QED
      BY <2>1, RegistersAre DEF Pushed
  <1>4. \A j \in Int \ {a, a + 1} : Peek(x, j) = Peek(n, j)
    BY DEF Pushed
  <1> HIDE DEF r, s
  <1>5. Wrap16(sp + (k + 2)) = off
    BY <1>1 DEF Wrap16
  <1>6. sp \in Int /\ off \in Int /\ off # sp /\ off # sp + 1 /\ off + 1 # sp
    BY <1>1 DEF Wrap16
  <1> HIDE DEF sp, off
  <1>7. /\ a \in Int /\ b \in Int /\ b # a /\ b # a + 1 /\ b + 1 # a
    BY <1>2, <1>6 DEF Linear
  <1> HIDE DEF a, b
  <1>8. Peek16(x, b) = Peek16(n, b)
    <2>1. Peek(x, b) = Peek(n, b)
      BY <1>4, <1>7
    <2>2. b + 1 \in Int \ {a, a + 1}
      BY <1>7
    <2>3. Peek(x, b + 1) = Peek(n, b + 1)
      BY <1>4, <2>2
    <2>4. QED
      BY <2>1, <2>3 DEF Peek16
  <1>9. Deep(x, k + 2) = Peek16(x, b)
    BY <1>3, <1>5 DEF Deep, b
  <1>10. Deep(n, k) = Peek16(n, b)
    BY DEF Deep, b, off, r, s
  <1>11. QED
    BY <1>8, <1>9, <1>10

LEMMA DropIs ==
  ASSUME NEW n, IsMachine(n)
  PROVE  LET x == Drop(n)
         IN  /\ Keeps(n, x) /\ x.sreg = n.sreg /\ x.f = n.f /\ x.mem = n.mem
             /\ x.reg = [n.reg EXCEPT ![SP] = Wrap16(n.reg[SP] + 2)]
             /\ \A k \in {0, 2} : Deep(x, k) = Deep(n, k + 2)
  <1> DEFINE r == n.reg[SP]
             sp == Wrap16(r + 2)
             x == [n EXCEPT !.reg[SP] = sp]
  <1>1. r \in Words16 /\ r \in Int
    BY RegistersAre, RegIn, WordInt
  <1>2. Drop(n) = x
    BY DEF Drop
  <1> HIDE DEF r
  <1>3. sp \in Words16
    <2>1. r + 2 \in Int
      BY <1>1
    <2>2. QED
      BY <2>1, WrapIn
  <1>4. \A k \in {0, 2} : Wrap16(sp + k) = Wrap16(r + (k + 2))
    BY <1>1 DEF Wrap16
  <1> HIDE DEF sp
  <1>5. Keeps(n, x)
    BY <1>3, RegistersAre, SetRegIs
  <1>6. x.sreg = n.sreg /\ x.f = n.f /\ x.mem = n.mem /\ x.reg = [n.reg EXCEPT ![SP] = sp]
    BY DEF IsMachine
  <1>7. x.reg[SP] = sp
    <2>1. n.reg \in [0..7 -> Words16]
      BY MachineIs
    <2>2. QED
      BY <1>6, <2>1, RegistersAre
  <1> HIDE DEF x
  <1>8. ASSUME NEW k, k \in {0, 2} PROVE Deep(x, k) = Deep(n, k + 2)
    <2>1. Wrap16(x.reg[SP] + k) = Wrap16(n.reg[SP] + (k + 2))
      BY <1>4, <1>7, <1>8 DEF r
    <2>2. \A a : Peek16(x, a) = Peek16(n, a)
      BY <1>6 DEF Peek16, Peek
    <2>3. QED
      BY <1>6, <2>1, <2>2 DEF Deep
  <1>9. QED
    BY <1>2, <1>5, <1>6, <1>8 DEF sp, r

-----------------------------------------------------------------------------
(* Moves.                                                                  *)

LEMMA ByteWord == ASSUME NEW b, b \in 0..255 PROVE b \in Words16
  BY WordsAre

LEMMA AlIs ==
  ASSUME NEW n, IsMachine(n), NEW r, r \in 0..7
  PROVE  AlOf(n.reg[r]) \in 0..255 /\ AhOf(n.reg[r]) \in 0..255
  BY RegIn, WordIs DEF AlOf, AhOf

LEMMA SetAlIs ==
  ASSUME NEW n, IsMachine(n), NEW v, v \in 0..255
  PROVE  Keeps(n, SetAl(n, v)) /\ Keeps(n, SetAh(n, v))
  <1> DEFINE a == 0
             b == 4
  <1>1. a \in 0..7 /\ b \in 0..7
    OBVIOUS
  <1> HIDE DEF a, b
  <1>2. Keeps(n, SetReg8(n, a, v)) /\ Keeps(n, SetReg8(n, b, v))
    BY <1>1, SetReg8Is
  <1>3. QED
    BY <1>2 DEF SetAl, SetAh, a, b

TwoRegs(n, r, v, q, u) == [n EXCEPT !.reg[r] = v, !.reg[q] = u]
RegAndSeg(n, r, v, q, u) == [n EXCEPT !.reg[r] = v, !.sreg[q] = u]

LEMMA SetTwoRegs ==
  ASSUME NEW n, IsMachine(n), NEW r, r \in 0..7, NEW v, v \in Words16,
         NEW q, q \in 0..7, NEW u, u \in Words16
  PROVE  Keeps(n, TwoRegs(n, r, v, q, u))
  <1> DEFINE y == [n EXCEPT !.reg[r] = v]
             x == [y EXCEPT !.reg[q] = u]
  <1>1. Keeps(n, y)
    BY SetRegIs
  <1> HIDE DEF y
  <1>2. Keeps(y, x)
    BY <1>1, KeepsMachine, SetRegIs
  <1>3. Keeps(n, x)
    BY <1>1, <1>2, KeepsMore
  <1>4. QED
    BY <1>3 DEF y, TwoRegs

LEMMA SetRegAndSeg ==
  ASSUME NEW n, IsMachine(n), NEW r, r \in 0..7, NEW v, v \in Words16,
         NEW q, q \in 0..3, NEW u, u \in Words16
  PROVE  Keeps(n, RegAndSeg(n, r, v, q, u))
  <1> DEFINE y == [n EXCEPT !.reg[r] = v]
             x == [y EXCEPT !.sreg[q] = u]
  <1>1. Keeps(n, y)
    BY SetRegIs
  <1> HIDE DEF y
  <1>2. Keeps(y, x)
    BY <1>1, KeepsMachine, SetSegIs
  <1>3. Keeps(n, x)
    BY <1>1, <1>2, KeepsMore
  <1>4. QED
    BY <1>3 DEF y, RegAndSeg

LEMMA MoffsIs ==
  ASSUME NEW n, IsMachine(n), NEW d, IsInstr(d)
  PROVE  Keeps(n, Moffs(n, d))
  <1> DEFINE a == Linear(Segment(n, DS), d.data0)
             at == InMemory(d, a)
             ax == OnReg(d, AX)
  <1>1. a \in Int
    BY RegistersAre, SegmentIs, InstrIs, AddressIs
  <1> HIDE DEF a
  <1>2. IsInstr(at) /\ IsInstr(ax)
    BY <1>1, RegistersAre, InMemoryIs, OnRegIs
  <1> HIDE DEF at, ax
  <1>3. ReadRm(n, at) \in Words16 /\ ReadRm(n, ax) \in Words16
    BY <1>2, ReadRmIs
  <1>4. Keeps(n, WriteRm(n, at, ReadRm(n, ax))) /\ Keeps(n, WriteRm(n, ax, ReadRm(n, at)))
    BY <1>2, <1>3, WriteRmIs
  <1>5. QED
    BY <1>4, Zenon DEF Moffs, a, at, ax

LEMMA XchgIs ==
  ASSUME NEW n, IsMachine(n), NEW d, IsInstr(d)
  PROVE  Keeps(n, WriteReg(WriteRm(n, d, ReadReg(n, d)), d, ReadRm(n, d)))
  <1> DEFINE v == ReadReg(n, d)
             u == ReadRm(n, d)
             y == WriteRm(n, d, v)
             x == WriteReg(y, d, u)
  <1>0. v \in Words16 /\ u \in Words16
    <2> DEFINE z == 0
    <2>1. z \in Words16
      BY WordsAre
    <2> HIDE DEF z
    <2>2. QED
      BY <2>1, RegIs, ReadRmIs
  <1> HIDE DEF v, u
  <1>1. Keeps(n, y)
    BY <1>0, WriteRmIs
  <1> HIDE DEF y
  <1>2. Keeps(y, x)
    BY <1>0, <1>1, KeepsMachine, RegIs
  <1>3. Keeps(n, x)
    BY <1>1, <1>2, KeepsMore
  <1>4. QED
    BY <1>3 DEF y, v, u

LEMMA MovRegImmIs ==
  ASSUME NEW n, IsMachine(n), NEW d, IsInstr(d), NEW b
  PROVE  Keeps(n, WriteRm(n, OnReg([d EXCEPT !.w = Num(b)], d.reg4), d.data0))
  <1> DEFINE w == Num(b)
             e == [d EXCEPT !.w = w]
             r == d.reg4
             x == OnReg(e, r)
  <1>1. w \in 0..1
    BY NumIs
  <1> HIDE DEF w
  <1>2. IsInstr(e)
    BY <1>1 DEF IsInstr
  <1>3. r \in 0..7 /\ d.data0 \in Words16
    BY InstrIs
  <1> HIDE DEF e, r
  <1>4. IsInstr(x)
    BY <1>2, <1>3, OnRegIs
  <1> HIDE DEF x
  <1>5. Keeps(n, WriteRm(n, x, d.data0))
    BY <1>3, <1>4, WriteRmIs
  <1>6. QED
    BY <1>5 DEF x, e, r, w

LEMMA XlatIs ==
  ASSUME NEW n, IsMachine(n)
  PROVE  Keeps(n, SetAl(n, Peek(n, Linear(Segment(n, DS), Wrap16(n.reg[BX] + AlOf(n.reg[AX]))))))
  <1> DEFINE b == n.reg[BX]
             al == AlOf(n.reg[AX])
             s == Segment(n, DS)
  <1>1. b \in Int /\ al \in Int /\ s \in Words16
    BY RegistersAre, RegIn, WordInt, AlIs, SegmentIs
  <1> HIDE DEF b, al, s
  <1>2. Wrap16(b + al) \in Words16
    BY <1>1, WrapIn
  <1>3. Linear(s, Wrap16(b + al)) \in Int
    BY <1>1, <1>2, AddressIs
  <1>4. Peek(n, Linear(s, Wrap16(b + al))) \in 0..255
    BY <1>3, PeekByte
  <1>5. Keeps(n, SetAl(n, Peek(n, Linear(s, Wrap16(b + al)))))
    BY <1>4, SetAlIs
  <1>6. QED
    BY <1>5 DEF b, al, s

\* x is n with the countdown that LEA leaves
AfterLea(n, x) ==
  /\ IsMachine(x) /\ x.ip = n.ip /\ x.f = n.f /\ x.stop = n.stop
  /\ x.seg_override_en = 1 /\ x.seg_override = n.seg_override
  /\ x.rep_override_en = n.rep_override_en /\ x.rep_mode = n.rep_mode

LEMMA LeaIs ==
  ASSUME NEW n, IsMachine(n), NEW d, IsInstr(d)
  PROVE  AfterLea(n, Lea(n, d))
  <1> DEFINE s == Segment(n, DefaultSeg(d.mod, d.rm))
             v == LeaOffset(n, d)
             y == IF d.mod = 3 THEN n ELSE [n EXCEPT !.reg[d.reg] = v]
  <1>1. v \in Words16
    <2>1. s \in Words16
      BY InstrIs, DefaultSegIs, SegmentIs
    <2> HIDE DEF s
    <2>2. d.addr - 16 * s \in Int
      <3>1. s \in Int /\ d.addr \in Int
        BY <2>1, WordInt, InstrIs
      <3>2. QED
        BY <3>1
    <2>3. Wrap16(d.addr - 16 * s) \in Words16
      BY <2>2, WrapIn
    <2>4. QED
      BY <2>3 DEF LeaOffset, s
  <1> HIDE DEF v
  <1>2. IsMachine(y) /\ y.ip = n.ip /\ y.f = n.f /\ SameMode(n, y)
    <2>1. CASE d.mod = 3
      BY <2>1 DEF SameMode, SamePrefixes
    <2>2. CASE d.mod # 3
      <3>1. d.reg \in 0..7
        BY InstrIs
      <3>2. Keeps(n, [n EXCEPT !.reg[d.reg] = v]) /\ [n EXCEPT !.reg[d.reg] = v].f = n.f
        BY <1>1, <3>1, SetRegIs DEF IsMachine
      <3>3. QED
        BY <2>2, <3>2 DEF Keeps
    <2>3. QED
      BY <2>1, <2>2
  <1> HIDE DEF y
  <1>3. AfterLea(n, [y EXCEPT !.seg_override_en = 1])
    BY <1>2 DEF AfterLea, IsMachine, SameMode, SamePrefixes
  <1>4. QED
    BY <1>3 DEF Lea, y, v

(* LEA is the one move that leaves more than registers and memory. *)
LEMMA MovIs ==
  ASSUME NEW n, IsMachine(n), NEW d, IsInstr(d), d.op \in Kinds[d.kind],
         d.kind \in {"mov", "movImm", "movRegImm", "moffs", "xchg", "xchgAx", "farLoad", "xlat",
                     "convert", "salc", "segLea"},
         d.op # \h8F, d.op \in {\h8C, \h8E} => d.reg <= DS
  PROVE  IF d.op = \h8D THEN AfterLea(n, Mov(n, d)) ELSE Keeps(n, Mov(n, d))
  <1> DEFINE x == Mov(n, d)
  <1>0. SUFFICES IF d.op = \h8D THEN AfterLea(n, x) ELSE Keeps(n, x)
    OBVIOUS
  <1>1. /\ d.kind = "mov" => d.op \in \h88..\h8B
        /\ d.kind = "movImm" => d.op \in {\hC6, \hC7}
        /\ d.kind = "movRegImm" => d.op \in \hB0..\hBF
        /\ d.kind = "moffs" => d.op \in \hA0..\hA3
        /\ d.kind = "xchg" => d.op \in {\h86, \h87}
        /\ d.kind = "xchgAx" => d.op \in \h90..\h97
        /\ d.kind = "farLoad" => d.op \in {\hC4, \hC5}
        /\ d.kind = "xlat" => d.op \in {\hD7}
        /\ d.kind = "convert" => d.op \in {\h98, \h99}
        /\ d.kind = "salc" => d.op \in {\hD6}
        /\ d.kind = "segLea" => d.op \in \h8C..\h8F
    BY KindsAre
  <1>2. CASE d.kind = "mov"
    <2>1. x = WriteDest(n, d, ReadSrc(n, d)) /\ d.op # \h8D
      BY <1>1, <1>2 DEF Mov
    <2>2. ReadSrc(n, d) \in Words16
      <3> DEFINE z == 0
      <3>1. z \in Words16
        BY WordsAre
      <3> HIDE DEF z
      <3>2. QED
        BY <3>1, SrcDestIs
    <2>3. QED
      BY <2>1, <2>2, SrcDestIs
  <1>3. CASE d.kind = "movImm"
    <2>1. x = WriteRm(n, d, d.data2) /\ d.op # \h8D
      BY <1>1, <1>3 DEF Mov
    <2>2. QED
      BY <2>1, InstrIs, WriteRmIs
  <1>4. CASE d.kind = "movRegImm"
    <2>1. x = WriteRm(n, OnReg([d EXCEPT !.w = Num(d.op >= \hB8)], d.reg4), d.data0) /\ d.op # \h8D
      BY <1>1, <1>4 DEF Mov
    <2>2. QED
      BY <2>1, MovRegImmIs
  <1>5. CASE d.kind = "moffs"
    <2>1. x = Moffs(n, d) /\ d.op # \h8D
      BY <1>1, <1>5 DEF Mov
    <2>2. QED
      BY <2>1, MoffsIs
  <1>6. CASE d.kind = "xchg"
    <2>1. x = WriteReg(WriteRm(n, d, ReadReg(n, d)), d, ReadRm(n, d)) /\ d.op # \h8D
      BY <1>1, <1>6 DEF Mov
    <2>2. QED
      BY <2>1, XchgIs
  <1>7. CASE d.kind = "xchgAx"
    <2>1. x = TwoRegs(n, AX, n.reg[d.reg4], d.reg4, n.reg[AX]) /\ d.op # \h8D
      BY <1>1, <1>7 DEF Mov, TwoRegs
    <2>2. d.reg4 \in 0..7 /\ n.reg[d.reg4] \in Words16 /\ n.reg[AX] \in Words16
      BY InstrIs, RegistersAre, RegIn
    <2>3. QED
      BY <2>1, <2>2, RegistersAre, SetTwoRegs
  <1>8. CASE d.kind = "farLoad"
    <2> DEFINE q == IF d.op = \hC4 THEN ES ELSE DS
               a == d.addr
               b == a + 2
    <2>1. x = RegAndSeg(n, d.reg, Peek16(n, a), q, Peek16(n, b)) /\ d.op # \h8D
      BY <1>1, <1>8 DEF Mov, RegAndSeg
    <2>2. a \in Int /\ b \in Int /\ q \in 0..3 /\ d.reg \in 0..7
      BY InstrIs, RegistersAre
    <2> HIDE DEF a, b, q
    <2>3. Peek16(n, a) \in Words16 /\ Peek16(n, b) \in Words16
      BY <2>2, PeekIs
    <2>4. QED
      BY <2>1, <2>2, <2>3, SetRegAndSeg
  <1>9. CASE d.kind = "xlat"
    <2>1. x = SetAl(n, Peek(n, Linear(Segment(n, DS), Wrap16(n.reg[BX] + AlOf(n.reg[AX])))))
          /\ d.op # \h8D
      BY <1>1, <1>9 DEF Mov
    <2>2. QED
      BY <2>1, XlatIs
  <1>10. CASE d.kind = "convert"
    <2> DEFINE v == SignExtend(AlOf(n.reg[AX]))
               u == IF n.reg[AX] >= 32768 THEN 65535 ELSE 0
    <2>1. d.op # \h8D /\ x = IF d.op = \h98 THEN [n EXCEPT !.reg[AX] = v] ELSE [n EXCEPT !.reg[DX] = u]
      BY <1>1, <1>10 DEF Mov
    <2>2. v \in Words16
      BY RegistersAre, AlIs, SignExtendIs
    <2>3. u \in Words16
      BY WordsAre
    <2> HIDE DEF u, v
    <2>4. QED
      BY <2>1, <2>2, <2>3, RegistersAre, SetRegIs
  <1>11. CASE d.kind = "salc"
    <2> DEFINE v == IF n.f.c THEN 255 ELSE 0
    <2>1. x = SetAl(n, v) /\ d.op # \h8D
      BY <1>1, <1>11 DEF Mov
    <2>2. v \in 0..255
      OBVIOUS
    <2> HIDE DEF v
    <2>3. QED
      BY <2>1, <2>2, SetAlIs
  <1>12. CASE d.kind = "segLea"
    <2>1. CASE d.op = \h8C
      <3>1. x = WriteRm(n, Wide(d), n.sreg[d.reg])
        BY <1>12, <2>1 DEF Mov
      <3>2. d.reg \in 0..3
        BY <2>1, InstrIs DEF DS
      <3>3. n.sreg[d.reg] \in Words16 /\ IsInstr(Wide(d))
        BY <3>2, SegIn, WideIs
      <3>4. QED
        BY <2>1, <3>1, <3>3, WriteRmIs
    <2>2. CASE d.op = \h8E
      <3>1. x = [n EXCEPT !.sreg[d.reg] = ReadRm(n, Wide(d))]
        BY <1>12, <2>2 DEF Mov
      <3>2. d.reg \in 0..3
        BY <2>2, InstrIs DEF DS
      <3>3. ReadRm(n, Wide(d)) \in Words16
        BY WideIs, ReadRmIs
      <3>4. QED
        BY <2>2, <3>1, <3>2, <3>3, SetSegIs
    <2>3. CASE d.op = \h8D
      <3>1. x = Lea(n, d)
        BY <1>12, <2>3 DEF Mov
      <3>2. QED
        BY <2>3, <3>1, LeaIs
    <2>4. QED
      BY <1>1, <1>12, <2>1, <2>2, <2>3
  <1>13. QED
    BY <1>2, <1>3, <1>4, <1>5, <1>6, <1>7, <1>8, <1>9, <1>10, <1>11, <1>12

-----------------------------------------------------------------------------
(* The stack and FLAGS.                                                    *)

\* x is n with other registers, memory, ports and flags
Moves(n, x) == IsMachine(x) /\ x.ip = n.ip /\ SameMode(n, x)

LEMMA KeepsMoves == ASSUME NEW n, NEW x, Keeps(n, x) PROVE Moves(n, x)
  BY DEF Keeps, Moves

LEMMA MovesMore ==
  ASSUME NEW n, NEW x, NEW y, Moves(n, x), Moves(x, y)
  PROVE  Moves(n, y)
  BY DEF Moves, SameMode, SamePrefixes

LEMMA LoadFlagsIs ==
  ASSUME NEW n, IsMachine(n), NEW g, g \in FlagType
  PROVE  Moves(n, [n EXCEPT !.f = g])
  BY DEF Moves, SameMode, SamePrefixes, IsMachine, FlagType

LEMMA SetOneFlag ==
  ASSUME NEW n, IsMachine(n), NEW k, k \in Names, NEW b, b \in BOOLEAN
  PROVE  Moves(n, [n EXCEPT !.f[k] = b])
  <1> DEFINE g == [n.f EXCEPT ![k] = b]
  <1>1. n.f \in FlagType
    BY MachineIs
  <1>2. g \in FlagType
    BY <1>1 DEF FlagType
  <1> HIDE DEF g
  <1>3. Moves(n, [n EXCEPT !.f = g])
    BY <1>2, LoadFlagsIs
  <1>4. QED
    BY <1>3 DEF g

LEMMA PopRmIs ==
  ASSUME NEW n, IsMachine(n), NEW d, IsInstr(d)
  PROVE  Keeps(n, PopRm(n, d))
  <1> DEFINE y == Drop(n)
             v == Top(n)
  <1>1. Keeps(n, y) /\ v \in Words16 /\ IsInstr(Wide(d))
    BY DropIs, TopIs, WideIs
  <1> HIDE DEF y, v
  <1>2. Keeps(y, WriteRm(y, Wide(d), v))
    BY <1>1, KeepsMachine, WriteRmIs
  <1>3. Keeps(n, WriteRm(y, Wide(d), v))
    BY <1>1, <1>2, KeepsMore
  <1>4. QED
    BY <1>3 DEF PopRm, y, v

LEMMA PushKeeps ==
  ASSUME NEW n, IsMachine(n), NEW v, v \in Words16
  PROVE  Keeps(n, Push(n, v))
  BY PushIs DEF Pushed

LEMMA PopSegIs ==
  ASSUME NEW n, IsMachine(n), NEW r, r \in 0..3
  PROVE  Keeps(n, [Drop(n) EXCEPT !.sreg[r] = Top(n)])
  <1> DEFINE y == Drop(n)
             v == Top(n)
  <1>1. Keeps(n, y) /\ v \in Words16
    BY DropIs, TopIs
  <1> HIDE DEF y, v
  <1>2. Keeps(y, [y EXCEPT !.sreg[r] = v])
    BY <1>1, KeepsMachine, SetSegIs
  <1>3. Keeps(n, [y EXCEPT !.sreg[r] = v])
    BY <1>1, <1>2, KeepsMore
  <1>4. QED
    BY <1>3 DEF y, v

LEMMA PopFlagsIs ==
  ASSUME NEW n, IsMachine(n)
  PROVE  Moves(n, [Drop(n) EXCEPT !.f = flags_unpack(Top(n))])
  <1> DEFINE y == Drop(n)
             g == flags_unpack(Top(n))
  <1>1. Moves(n, y) /\ g \in FlagType
    BY DropIs, KeepsMoves, UnpackIs
  <1> HIDE DEF y, g
  <1>2. Moves(y, [y EXCEPT !.f = g])
    BY <1>1, LoadFlagsIs DEF Moves
  <1>3. Moves(n, [y EXCEPT !.f = g])
    BY <1>1, <1>2, MovesMore
  <1>4. QED
    BY <1>3 DEF y, g

(* Of the instructions of the stack, POPF alone changes IF and TF. *)
LEMMA StackIs ==
  ASSUME NEW n, IsMachine(n), NEW d, IsInstr(d), d.op \in Kinds[d.kind],
         d.kind \in {"pushReg", "popReg", "pushSeg", "popSeg", "segLea", "flagsReg", "group5"},
         d.op \notin \h8C..\h8E
  PROVE  IF d.op = \h9D THEN Moves(n, Stack(n, d)) ELSE Keeps(n, Stack(n, d))
  <1> DEFINE x == Stack(n, d)
  <1>0. SUFFICES IF d.op = \h9D THEN Moves(n, x) ELSE Keeps(n, x)
    OBVIOUS
  <1>1. /\ d.kind = "pushReg" => d.op \in \h50..\h57
        /\ d.kind = "popReg" => d.op \in \h58..\h5F
        /\ d.kind = "pushSeg" => d.op \in {\h06, \h0E, \h16, \h1E}
        /\ d.kind = "popSeg" => d.op \in {\h07, \h17, \h1F}
        /\ d.kind = "segLea" => d.op \in \h8C..\h8F
        /\ d.kind = "flagsReg" => d.op \in \h9C..\h9F
        /\ d.kind = "group5" => d.op \in {\hFE, \hFF}
    BY KindsAre
  <1>2. CASE d.kind = "pushReg"
    <2>1. x = Push(n, n.reg[d.reg4]) /\ d.op # \h9D
      BY <1>1, <1>2 DEF Stack
    <2>2. n.reg[d.reg4] \in Words16
      BY InstrIs, RegIn
    <2>3. QED
      BY <2>1, <2>2, PushKeeps
  <1>3. CASE d.kind = "popReg"
    <2>1. x = PopRm(n, OnReg16(d, d.reg4)) /\ d.op # \h9D
      BY <1>1, <1>3 DEF Stack
    <2>2. IsInstr(OnReg16(d, d.reg4))
      BY InstrIs, OnReg16Is
    <2>3. QED
      BY <2>1, <2>2, PopRmIs
  <1>4. CASE d.kind = "pushSeg"
    <2> DEFINE r == d.op \div 8
    <2>1. x = Push(n, n.sreg[r]) /\ d.op # \h9D
      BY <1>1, <1>4 DEF Stack
    <2>2. r \in 0..3
      BY <1>1, <1>4
    <2> HIDE DEF r
    <2>3. n.sreg[r] \in Words16
      BY <2>2, SegIn
    <2>4. QED
      BY <2>1, <2>3, PushKeeps
  <1>5. CASE d.kind = "popSeg"
    <2> DEFINE r == d.op \div 8
    <2>1. x = [Drop(n) EXCEPT !.sreg[r] = Top(n)] /\ d.op # \h9D
      BY <1>1, <1>5 DEF Stack
    <2>2. r \in 0..3
      BY <1>1, <1>5
    <2> HIDE DEF r
    <2>3. QED
      BY <2>1, <2>2, PopSegIs
  <1>6. CASE d.kind = "segLea"
    <2>1. x = PopRm(n, d) /\ d.op # \h9D
      BY <1>1, <1>6 DEF Stack
    <2>2. QED
      BY <2>1, PopRmIs
  <1>7. CASE d.kind = "flagsReg"
    <2>1. CASE d.op = \h9C
      <3>1. x = Push(n, flags_pack(n.f))
        BY <1>7, <2>1 DEF Stack
      <3>2. flags_pack(n.f) \in Words16
        BY MachineIs, FlagsPacked
      <3>3. QED
        BY <2>1, <3>1, <3>2, PushKeeps
    <2>2. CASE d.op = \h9D
      <3>1. x = [Drop(n) EXCEPT !.f = flags_unpack(Top(n))]
        BY <1>7, <2>2 DEF Stack
      <3>2. QED
        BY <2>2, <3>1, PopFlagsIs
    <2>3. CASE d.op = \h9E
      <3> DEFINE g == LoadLow(n.f, AhOf(n.reg[AX]))
      <3>1. x = [n EXCEPT !.f = g]
        BY <1>7, <2>3 DEF Stack
      <3>2. Alike(n.f, g)
        BY AlikeSelf, LoadLowIs
      <3> HIDE DEF g
      <3>3. QED
        BY <2>3, <3>1, <3>2, SetFlagsIs
    <2>4. CASE d.op = \h9F
      <3> DEFINE v == FlagWord(n.f) % 256
      <3>1. x = SetAh(n, v)
        BY <1>7, <2>4 DEF Stack
      <3>2. v \in 0..255
        <4> DEFINE u == FlagWord(n.f)
        <4>1. u \in 0..4095
          BY FlagWordBits
        <4> HIDE DEF u
        <4>2. u % 256 \in 0..255
          BY <4>1
        <4>3. QED
          BY <4>2 DEF u
      <3> HIDE DEF v
      <3>3. QED
        BY <2>4, <3>1, <3>2, SetAlIs
    <2>5. QED
      BY <1>1, <1>7, <2>1, <2>2, <2>3, <2>4
  <1>8. CASE d.kind = "group5"
    <2>1. x = Push(n, ReadRm(n, Wide(d))) /\ d.op # \h9D
      BY <1>1, <1>8 DEF Stack
    <2>2. ReadRm(n, Wide(d)) \in Words16
      BY WideIs, ReadRmIs
    <2>3. QED
      BY <2>1, <2>2, PushKeeps
  <1>9. QED
    BY <1>2, <1>3, <1>4, <1>5, <1>6, <1>7, <1>8

-----------------------------------------------------------------------------
(* Arithmetic and logic.                                                   *)

LEMMA ReadValue ==
  ASSUME NEW n, IsMachine(n), NEW d, IsInstr(d)
  PROVE  ReadRm(n, d) \in Values(Size(d))
  <1>1. IsSize(Size(d)) /\ Size(d).bits = IF d.w = 1 THEN 16 ELSE 8
    BY SizeIs
  <1>2. ReadRm(n, d) \in Words16 /\ (d.w = 0 => ReadRm(n, d) \in 0..255)
    BY ReadRmIs
  <1>3. d.w \in {0, 1}
    BY InstrIs
  <1>4. CASE d.w = 0
    BY <1>1, <1>2, <1>4, ValuesAre
  <1>5. CASE d.w = 1
    BY <1>1, <1>2, <1>5, ValuesAre
  <1>6. QED
    BY <1>3, <1>4, <1>5

\* e is d with its operand elsewhere
SameSize(d, e) == IsInstr(e) /\ e.w = d.w

LEMMA SameSizeIs ==
  ASSUME NEW n, IsMachine(n), NEW d, NEW e, SameSize(d, e)
  PROVE  ReadRm(n, e) \in Values(Size(d))
  <1>1. Size(e) = Size(d)
    BY DEF SameSize, Size
  <1>2. QED
    BY <1>1, ReadValue DEF SameSize

LEMMA ResultFlags ==
  ASSUME NEW n, IsMachine(n), NEW w, IsSize(w), NEW o, Result(n.f, w, o)
  PROVE  Keeps(n, Flags(n, o)) /\ o.v \in Words16
  <1> DEFINE g == o.f
  <1>1. Alike(n.f, g)
    BY DEF Result
  <1>2. o.v \in Words16
    BY ValuesAre DEF Result
  <1> HIDE DEF g
  <1>3. Keeps(n, [n EXCEPT !.f = g])
    BY <1>1, SetFlagsIs
  <1>4. QED
    BY <1>2, <1>3 DEF Flags, g

LEMMA UnaryIs ==
  ASSUME NEW n, IsMachine(n), NEW w, IsSize(w), NEW o, Result(n.f, w, o),
         NEW e, IsInstr(e)
  PROVE  Keeps(n, Unary(n, e, o))
  <1> DEFINE y == Flags(n, o)
             v == o.v
  <1>1. Keeps(n, y) /\ v \in Words16
    BY ResultFlags
  <1> HIDE DEF y, v
  <1>2. Keeps(y, WriteRm(y, e, v))
    BY <1>1, KeepsMachine, WriteRmIs
  <1>3. Keeps(n, WriteRm(y, e, v))
    BY <1>1, <1>2, KeepsMore
  <1>4. QED
    BY <1>3 DEF Unary, y, v

LEMMA BinaryIs ==
  ASSUME NEW n, IsMachine(n), NEW d, IsInstr(d), NEW e, SameSize(d, e),
         NEW k, k \in 0..7, NEW y, y \in Int
  PROVE  Keeps(n, Binary(n, d, e, k, y))
  <1> DEFINE w == Size(d)
             a == ReadRm(n, e)
             b == Low(y, w)
             f == n.f
             o == AluOp(k, a, b, f, w)
  <1>1. IsSize(w) /\ a \in Values(w) /\ Alike(f, f)
    BY SizeIs, SameSizeIs, AlikeSelf
  <1> HIDE DEF w, a, f
  <1>2. b \in Values(w)
    BY <1>1, LowIn
  <1> HIDE DEF b
  <1>3. Result(f, w, o)
    BY <1>1, <1>2, AluOpIs
  <1> HIDE DEF o
  <1>4. Keeps(n, Flags(n, o)) /\ Keeps(n, Unary(n, e, o))
    BY <1>1, <1>3, ResultFlags, UnaryIs DEF SameSize, f
  <1>5. QED
    BY <1>4, Zenon DEF Binary, Unary, o, a, b, f, w

LEMMA ReadOnlyIs ==
  ASSUME NEW n, IsMachine(n), NEW d, IsInstr(d), NEW x, x \in Values(Size(d)),
         NEW y, y \in Values(Size(d))
  PROVE  Keeps(n, ReadOnly(n, d, x, y))
  <1> DEFINE w == Size(d)
             f == n.f
             o == Test(x, y, f, w)
  <1>1. IsSize(w) /\ x \in Values(w) /\ y \in Values(w) /\ Alike(f, f)
    BY SizeIs, AlikeSelf
  <1> HIDE DEF w, f
  <1>2. Result(f, w, o)
    BY <1>1, AndOrXorAre
  <1> HIDE DEF o
  <1>3. Keeps(n, Flags(n, o))
    BY <1>1, <1>2, ResultFlags DEF f
  <1>4. QED
    BY <1>3 DEF ReadOnly, o, f, w

LEMMA MovedOperand ==
  ASSUME NEW d, IsInstr(d)
  PROVE  /\ SameSize(d, d) /\ SameSize(d, Destination(d)) /\ SameSize(d, Accumulator(d))
         /\ \A a \in Int : SameSize(d, InMemory(d, a))
         /\ IsInstr(OnReg16(d, d.reg4))
  BY InstrIs, OnRegIs, OnReg16Is, InMemoryIs, RegistersAre DEF SameSize, Destination, Accumulator

(* INC, DEC, NOT and NEG of an operand. *)
LEMMA UnariesAre ==
  ASSUME NEW n, IsMachine(n), NEW e, IsInstr(e)
  PROVE  LET x == ReadRm(n, e)
             s == Size(e)
         IN  /\ Keeps(n, Unary(n, e, Inc(x, n.f, s))) /\ Keeps(n, Unary(n, e, Dec(x, n.f, s)))
             /\ Keeps(n, Unary(n, e, Neg(x, n.f, s))) /\ Keeps(n, Unary(n, e, Not(x, n.f, s)))
  <1> DEFINE x == ReadRm(n, e)
             s == Size(e)
             f == n.f
  <1>1. x \in Values(s) /\ IsSize(s) /\ Alike(f, f)
    BY ReadValue, SizeIs, AlikeSelf
  <1> HIDE DEF x, s, f
  <1>2. /\ Result(f, s, Inc(x, f, s)) /\ Result(f, s, Dec(x, f, s))
        /\ Result(f, s, Neg(x, f, s)) /\ Result(f, s, Not(x, f, s))
    BY <1>1, IncDecIs
  <1>3. /\ Keeps(n, Unary(n, e, Inc(x, f, s))) /\ Keeps(n, Unary(n, e, Dec(x, f, s)))
        /\ Keeps(n, Unary(n, e, Neg(x, f, s))) /\ Keeps(n, Unary(n, e, Not(x, f, s)))
    <2> DEFINE o1 == Inc(x, f, s)
               o2 == Dec(x, f, s)
               o3 == Neg(x, f, s)
               o4 == Not(x, f, s)
    <2>1. Result(n.f, s, o1) /\ Result(n.f, s, o2) /\ Result(n.f, s, o3) /\ Result(n.f, s, o4)
      BY <1>2 DEF f
    <2> HIDE DEF o1, o2, o3, o4
    <2>2. /\ Keeps(n, Unary(n, e, o1)) /\ Keeps(n, Unary(n, e, o2))
          /\ Keeps(n, Unary(n, e, o3)) /\ Keeps(n, Unary(n, e, o4))
      BY <1>1, <2>1, UnaryIs
    <2>3. QED
      BY <2>2 DEF o1, o2, o3, o4
  <1>4. QED
    BY <1>3 DEF x, s, f

LEMMA ShiftCountIs ==
  ASSUME NEW n, IsMachine(n), NEW d, IsInstr(d)
  PROVE  ShiftCount(n, d) \in 0..255
  <1>1. AlOf(d.data1) \in 0..255
    BY InstrIs, WordIs DEF AlOf
  <1>2. AlOf(n.reg[CX]) \in 0..255
    BY RegistersAre, AlIs
  <1>3. QED
    BY <1>1, <1>2 DEF ShiftCount

LEMMA UnaryShiftIs ==
  ASSUME NEW n, IsMachine(n), NEW d, IsInstr(d)
  PROVE  Keeps(n, Unary(n, d, Shift(ShiftOf[d.reg + 1], ReadRm(n, d), ShiftCount(n, d), n.f, Size(d))))
  <1> DEFINE x == ReadRm(n, d)
             s == Size(d)
             f == n.f
             c == ShiftCount(n, d)
             r == d.reg
             o == Shift(ShiftOf[r + 1], x, c, f, s)
  <1>1. x \in Values(s) /\ IsSize(s) /\ Alike(f, f) /\ c \in 0..255 /\ r \in 0..7
    BY ReadValue, SizeIs, AlikeSelf, ShiftCountIs, InstrIs
  <1> HIDE DEF x, s, f, c, r
  <1>2. Result(f, s, o)
    BY <1>1, ShiftIs
  <1> HIDE DEF o
  <1>3. Result(n.f, s, o)
    BY <1>2 DEF f
  <1>4. Keeps(n, Unary(n, d, o))
    BY <1>1, <1>3, UnaryIs
  <1>5. QED
    BY <1>4 DEF o, x, s, f, c, r

LEMMA SetFlagInstr ==
  ASSUME NEW n, IsMachine(n), NEW d, d.op \in \hF8..\hFD
  PROVE  IF d.op \in {\hFA, \hFB} THEN Moves(n, SetFlag(n, d)) ELSE Keeps(n, SetFlag(n, d))
  <1> DEFINE on == d.op % 2 = 1
  <1>1. on \in BOOLEAN
    BY Zenon
  <1>2. SetFlag(n, d) = CASE d.op \in {\hF8, \hF9} -> [n EXCEPT !.f["c"] = on]
                          [] d.op \in {\hFA, \hFB} -> [n EXCEPT !.f["i"] = on]
                          [] d.op \in {\hFC, \hFD} -> [n EXCEPT !.f["d"] = on]
    BY Zenon DEF SetFlag
  <1> HIDE DEF on
  <1>3. Moves(n, [n EXCEPT !.f["i"] = on])
    <2>1. "i" \in Names
      BY DEF Names
    <2>2. QED
      BY <1>1, <2>1, SetOneFlag
  <1>4. ASSUME NEW k, k \in Arith PROVE Keeps(n, [n EXCEPT !.f[k] = on])
    <2> DEFINE g == [n.f EXCEPT ![k] = on]
    <2>1. Alike(n.f, g)
      BY <1>1, <1>4, AlikeSelf, SetFlagIs
    <2> HIDE DEF g
    <2>2. Keeps(n, [n EXCEPT !.f = g])
      BY <2>1, SetFlagsIs
    <2>3. QED
      BY <2>2 DEF g
  <1>5. Keeps(n, [n EXCEPT !.f["c"] = on]) /\ Keeps(n, [n EXCEPT !.f["d"] = on])
    BY <1>4, ArithAre
  <1>6. QED
    BY <1>2, <1>3, <1>5

LEMMA CmcIs ==
  ASSUME NEW n, IsMachine(n)
  PROVE  Keeps(n, [n EXCEPT !.f.c = ~@])
  <1> DEFINE b == ~n.f.c
             g == [n.f EXCEPT !.c = b]
  <1>1. b \in BOOLEAN
    BY Zenon
  <1> HIDE DEF b
  <1>2. Alike(n.f, g)
    BY <1>1, AlikeSelf, SetFlagIs, ArithAre
  <1> HIDE DEF g
  <1>3. Keeps(n, [n EXCEPT !.f = g])
    BY <1>2, SetFlagsIs
  <1>4. QED
    BY <1>3, Zenon DEF g, b

(* Of the instructions that compute, CLI and STI alone change IF, and none TF. *)
LEMMA ArithmeticIs ==
  ASSUME NEW n, IsMachine(n), NEW d, IsInstr(d), d.op \in Kinds[d.kind],
         d.kind \in {"alu", "aluAcc", "aluImm", "test", "testAcc", "incDec", "shift", "cmc", "flag",
                     "group3", "group5"},
         d.kind = "group3" => d.reg \in 0..3
  PROVE  IF d.op \in {\hFA, \hFB} THEN Moves(n, Arithmetic(n, d)) ELSE Keeps(n, Arithmetic(n, d))
  <1> DEFINE z == Arithmetic(n, d)
             x == ReadRm(n, d)
             s == Size(d)
             e == OnReg16(d, d.reg4)
             STI == d.op \in {\hFA, \hFB}
  <1>0. SUFFICES IF STI THEN Moves(n, z) ELSE Keeps(n, z)
    OBVIOUS
  <1>1. /\ d.kind = "alu" => d.op \in Rows(0..3)
        /\ d.kind = "aluAcc" => d.op \in Rows({4, 5})
        /\ d.kind = "aluImm" => d.op \in \h80..\h83
        /\ d.kind = "test" => d.op \in {\h84, \h85}
        /\ d.kind = "testAcc" => d.op \in {\hA8, \hA9}
        /\ d.kind = "incDec" => d.op \in \h40..\h4F
        /\ d.kind = "shift" => d.op \in {\hC0, \hC1} \cup \hD0..\hD3
        /\ d.kind = "cmc" => d.op \in {\hF5}
        /\ d.kind = "flag" => d.op \in \hF8..\hFD
        /\ d.kind = "group3" => d.op \in {\hF6, \hF7}
        /\ d.kind = "group5" => d.op \in {\hFE, \hFF}
    BY KindsAre
  <1>2. d.kind \in {"alu", "aluAcc"} => d.op < 64
    <2>1. d.op \in 0..255
      BY InstrIs
    <2>2. QED
      BY <1>1, <2>1, RowsOfKinds
  <1>3. d.kind # "flag" => ~STI
    BY <1>1, <1>2
  <1>4. /\ SameSize(d, d) /\ SameSize(d, Destination(d)) /\ SameSize(d, Accumulator(d))
        /\ IsInstr(e)
    BY MovedOperand
  <1>5. d.data0 \in Int /\ d.data2 \in Int /\ x \in Values(s) /\ Low(d.data0, s) \in Values(s)
        /\ Low(d.data2, s) \in Values(s)
    <2> DEFINE a == d.data0
               b == d.data2
    <2>1. a \in Words16 /\ b \in Words16 /\ IsSize(s) /\ x \in Values(s)
      BY InstrIs, SizeIs, ReadValue
    <2> HIDE DEF a, b, s, x
    <2>2. a \in Int /\ b \in Int
      BY <2>1, WordInt
    <2>3. Low(a, s) \in Values(s) /\ Low(b, s) \in Values(s)
      BY <2>1, <2>2, LowIn
    <2>4. QED
      BY <2>1, <2>2, <2>3 DEF a, b
  <1> HIDE DEF STI
  <1>6. CASE d.kind = "alu"
    <2> DEFINE y == ReadSrc(n, d)
               k == d.op \div 8
    <2>1. z = Binary(n, d, Destination(d), k, y)
      BY <1>6 DEF Arithmetic
    <2>2. y \in Words16
      <3> DEFINE v == 0
      <3>1. v \in Words16
        BY WordsAre
      <3> HIDE DEF v
      <3>2. QED
        BY <3>1, SrcDestIs
    <2>3. k \in 0..7
      BY <1>2, <1>6, InstrIs
    <2> HIDE DEF y, k
    <2>4. QED
      BY <1>3, <1>4, <1>6, <2>1, <2>2, <2>3, WordInt, BinaryIs
  <1>7. CASE d.kind = "aluAcc"
    <2> DEFINE k == d.op \div 8
    <2>1. z = Binary(n, d, Accumulator(d), k, d.data0)
      BY <1>7 DEF Arithmetic
    <2>2. k \in 0..7
      BY <1>2, <1>7, InstrIs
    <2> HIDE DEF k
    <2>3. QED
      BY <1>3, <1>4, <1>5, <1>7, <2>1, <2>2, BinaryIs
  <1>8. CASE d.kind = "aluImm"
    <2> DEFINE imm8 == d.dir = 1 \/ d.w = 0
               y == IF imm8 THEN SignExtend(AlOf(d.data2)) ELSE d.data2
    <2>1. z = Binary(n, d, d, d.reg, y)
      BY <1>8 DEF Arithmetic
    <2>2. y \in Words16 /\ d.reg \in 0..7
      <3>1. AlOf(d.data2) \in 0..255
        BY InstrIs, WordIs DEF AlOf
      <3>2. SignExtend(AlOf(d.data2)) \in Words16
        BY <3>1, SignExtendIs
      <3>3. QED
        BY <3>2, InstrIs
    <2> HIDE DEF y
    <2>3. QED
      BY <1>3, <1>4, <1>8, <2>1, <2>2, WordInt, BinaryIs
  <1>9. CASE d.kind = "test"
    <2>1. z = ReadOnly(n, d, ReadDest(n, d), ReadSrc(n, d))
      BY <1>9 DEF Arithmetic
    <2>2. ReadDest(n, d) \in Values(s) /\ ReadSrc(n, d) \in Values(s)
      BY <1>4, InstrIs, OnRegIs, SameSizeIs DEF ReadDest, ReadSrc, ReadReg, SameSize
    <2>3. QED
      BY <1>3, <1>9, <2>1, <2>2, ReadOnlyIs
  <1>10. CASE d.kind = "testAcc"
    <2>1. z = ReadOnly(n, d, ReadRm(n, Accumulator(d)), Low(d.data0, s))
      BY <1>10 DEF Arithmetic
    <2>2. ReadRm(n, Accumulator(d)) \in Values(s)
      BY <1>4, SameSizeIs
    <2>3. QED
      BY <1>3, <1>5, <1>10, <2>1, <2>2, ReadOnlyIs
  <1>11. CASE d.kind = "incDec"
    <2>1. z = Unary(n, e, IF d.op < \h48 THEN Inc(ReadRm(n, e), n.f, Size(e))
                                         ELSE Dec(ReadRm(n, e), n.f, Size(e)))
      BY <1>11 DEF Arithmetic
    <2>2. QED
      BY <1>3, <1>4, <1>11, <2>1, UnariesAre
  <1>12. CASE d.kind = "shift"
    <2>1. z = Unary(n, d, Shift(ShiftOf[d.reg + 1], x, ShiftCount(n, d), n.f, s))
      BY <1>12 DEF Arithmetic
    <2>2. QED
      BY <1>3, <1>12, <2>1, UnaryShiftIs
  <1>13. CASE d.kind = "cmc"
    <2>1. z = [n EXCEPT !.f.c = ~@]
      BY <1>13, Zenon DEF Arithmetic
    <2>2. QED
      BY <1>3, <1>13, <2>1, CmcIs
  <1>14. CASE d.kind = "flag"
    <2>1. z = SetFlag(n, d)
      BY <1>14 DEF Arithmetic
    <2>2. QED
      BY <1>1, <1>14, <2>1, SetFlagInstr DEF STI
  <1>15. CASE d.kind = "group5"
    <2>1. z = Unary(n, d, IF d.reg = 0 THEN Inc(x, n.f, s) ELSE Dec(x, n.f, s))
      BY <1>15 DEF Arithmetic
    <2>2. QED
      BY <1>3, <1>15, <2>1, UnariesAre
  <1>16. CASE d.kind = "group3"
    <2>1. z = CASE d.reg = 0 -> ReadOnly(n, d, x, Low(d.data2, s))
                [] d.reg = 1 -> n
                [] d.reg = 2 -> Unary(n, d, Not(x, n.f, s))
                [] d.reg = 3 -> Unary(n, d, Neg(x, n.f, s))
      BY <1>16 DEF Arithmetic
    <2>2. Keeps(n, ReadOnly(n, d, x, Low(d.data2, s)))
      BY <1>5, ReadOnlyIs
    <2>3. Keeps(n, Unary(n, d, Not(x, n.f, s))) /\ Keeps(n, Unary(n, d, Neg(x, n.f, s)))
      BY UnariesAre
    <2>4. Keeps(n, n)
      BY KeepsSelf
    <2> HIDE DEF x, s, z
    <2>5. Keeps(n, z)
      BY <1>16, <2>1, <2>2, <2>3, <2>4
    <2>6. QED
      BY <1>3, <1>16, <2>5
  <1>17. QED
    BY <1>6, <1>7, <1>8, <1>9, <1>10, <1>11, <1>12, <1>13, <1>14, <1>15, <1>16

-----------------------------------------------------------------------------
(* Interrupts, and the frame they leave.                                   *)

\* x has the stack of n
SameStack(n, x) ==
  x.mem = n.mem /\ x.reg[SP] = n.reg[SP] /\ x.sreg[SS] = n.sreg[SS]

LEMMA SameStackIs ==
  ASSUME NEW n, NEW x, SameStack(n, x)
  PROVE  Top(x) = Top(n) /\ \A k : Deep(x, k) = Deep(n, k)
  <1>1. \A a : Peek16(x, a) = Peek16(n, a)
    BY DEF SameStack, Peek16, Peek
  <1>2. QED
    BY <1>1 DEF SameStack, Top, Deep

LEMMA DeepIs ==
  ASSUME NEW n, IsMachine(n)
  PROVE  /\ Top(n) = Deep(n, 0) /\ Top(Drop(n)) = Deep(n, 2) /\ Top(Drop(Drop(n))) = Deep(n, 4)
         /\ IsMachine(Drop(n)) /\ IsMachine(Drop(Drop(n)))
  <1> DEFINE y == Drop(n)
             x == Drop(y)
  <1>1. IsMachine(y) /\ \A k \in {0, 2} : Deep(y, k) = Deep(n, k + 2)
    BY DropIs, KeepsMachine
  <1> HIDE DEF y
  <1>2. IsMachine(x) /\ \A k \in {0, 2} : Deep(x, k) = Deep(y, k + 2)
    BY <1>1, DropIs, KeepsMachine
  <1> HIDE DEF x
  <1>3. Top(n) = Deep(n, 0) /\ Top(y) = Deep(y, 0) /\ Top(x) = Deep(x, 0)
    BY <1>1, <1>2, TopIs
  <1>4. Deep(y, 0) = Deep(n, 2) /\ Deep(y, 2) = Deep(n, 4)
    BY <1>1
  <1>5. Deep(x, 0) = Deep(y, 2)
    BY <1>2
  <1>6. QED
    BY <1>1, <1>2, <1>3, <1>4, <1>5 DEF x, y

\* three words on the stack
Framed(n, u, v, w, x) ==
  /\ Keeps(n, x) /\ x.sreg = n.sreg /\ x.f = n.f
  /\ Deep(x, 0) = w /\ Deep(x, 2) = v /\ Deep(x, 4) = u

LEMMA FramedIs ==
  ASSUME NEW n, IsMachine(n), NEW u, u \in Words16, NEW v, v \in Words16, NEW w, w \in Words16
  PROVE  Framed(n, u, v, w, Push(Push(Push(n, u), v), w))
  <1> DEFINE p == Push(n, u)
             q == Push(p, v)
             x == Push(q, w)
  <1>1. Pushed(n, u, p)
    BY PushIs
  <1> HIDE DEF p
  <1>2. IsMachine(p) /\ Deep(p, 0) = u
    BY <1>1, KeepsMachine, TopIs DEF Pushed
  <1>3. Pushed(p, v, q)
    BY <1>2, PushIs
  <1> HIDE DEF q
  <1>4. IsMachine(q) /\ Deep(q, 0) = v
    BY <1>3, KeepsMachine, TopIs DEF Pushed
  <1>5. Pushed(q, w, x)
    BY <1>4, PushIs
  <1> HIDE DEF x
  <1>6. IsMachine(x) /\ Deep(x, 0) = w
    BY <1>5, KeepsMachine, TopIs DEF Pushed
  <1>7. Deep(q, 2) = u /\ Deep(x, 2) = v /\ Deep(x, 4) = u
    <2>1. \A k \in {0, 2} : Deep(q, k + 2) = Deep(p, k)
      BY <1>2, <1>3, DeepUnderPush
    <2>2. \A k \in {0, 2} : Deep(x, k + 2) = Deep(q, k)
      BY <1>4, <1>5, DeepUnderPush
    <2>3. QED
      BY <1>2, <1>4, <2>1, <2>2
  <1>8. Keeps(n, p) /\ Keeps(p, q) /\ Keeps(q, x)
    BY <1>1, <1>3, <1>5 DEF Pushed
  <1>9. Keeps(n, x)
    BY <1>8, KeepsMore
  <1>10. x.sreg = n.sreg /\ x.f = n.f
    BY <1>1, <1>3, <1>5 DEF Pushed
  <1>11. QED
    BY <1>6, <1>7, <1>9, <1>10 DEF Framed, x, q, p

\* the flags on the way into a handler
Masked(f) == [f EXCEPT !.i = FALSE, !.t = FALSE]

LEMMA MaskedIs ==
  ASSUME NEW f, f \in FlagType
  PROVE  Masked(f) \in FlagType /\ Masked(f).i = FALSE /\ Masked(f).t = FALSE
  <1> DEFINE g == [f EXCEPT !.i = FALSE]
             h == [g EXCEPT !.t = FALSE]
  <1>1. "i" \in DOMAIN FlagBit /\ "t" \in DOMAIN FlagBit
    BY DEF FlagBit
  <1>2. g \in FlagType /\ g.i = FALSE
    BY <1>1 DEF FlagType
  <1> HIDE DEF g
  <1>3. h \in FlagType /\ h.i = g.i /\ h.t = FALSE
    BY <1>1, <1>2 DEF FlagType
  <1>4. Masked(f) = h
    BY DEF Masked, g
  <1>5. QED
    BY <1>2, <1>3, <1>4

\* x is n with IP, CS and the flags set
Entered(n, ip, seg, g) == [n EXCEPT !.f = g, !.ip = ip, !.sreg[CS] = seg]

LEMMA EnteredIs ==
  ASSUME NEW n, IsMachine(n), NEW ip, ip \in Words16, NEW seg, seg \in Words16,
         NEW g, g \in FlagType
  PROVE  LET x == Entered(n, ip, seg, g)
         IN  /\ IsMachine(x) /\ SameMode(n, x) /\ SameStack(n, x)
             /\ x.ip = ip /\ x.sreg[CS] = seg /\ x.f = g /\ x.reg = n.reg /\ x.mem = n.mem
  <1> DEFINE a == [n EXCEPT !.f = g]
             b == [a EXCEPT !.ip = ip]
             x == [b EXCEPT !.sreg[CS] = seg]
  <1>1. /\ IsMachine(a) /\ SameMode(n, a) /\ a.f = g /\ a.reg = n.reg /\ a.mem = n.mem
        /\ a.sreg = n.sreg
    BY DEF IsMachine, SameMode, SamePrefixes, FlagType
  <1> HIDE DEF a
  <1>2. /\ IsMachine(b) /\ SameMode(a, b) /\ b.f = a.f /\ b.reg = a.reg /\ b.mem = a.mem
        /\ b.sreg = a.sreg /\ b.ip = ip
    BY <1>1 DEF IsMachine, SameMode, SamePrefixes
  <1> HIDE DEF b
  <1>3. /\ IsMachine(x) /\ SameMode(b, x) /\ x.f = b.f /\ x.reg = b.reg /\ x.mem = b.mem
        /\ x.ip = b.ip /\ x.sreg[CS] = seg /\ x.sreg[SS] = b.sreg[SS]
    BY <1>2, RegistersAre DEF IsMachine, SameMode, SamePrefixes
  <1>4. Entered(n, ip, seg, g) = x
    BY DEF Entered, b, a
  <1>5. SameMode(n, x)
    BY <1>1, <1>2, <1>3 DEF SameMode, SamePrefixes
  <1>6. QED
    BY <1>1, <1>2, <1>3, <1>4, <1>5 DEF SameStack

LEMMA FarIs ==
  ASSUME NEW n, IsMachine(n), NEW ip, ip \in Words16, NEW seg, seg \in Words16
  PROVE  LET x == Far(n, ip, seg)
         IN  /\ IsMachine(x) /\ SameMode(n, x) /\ SameStack(n, x)
             /\ x.ip = ip /\ x.sreg[CS] = seg /\ x.f = n.f /\ x.reg = n.reg /\ x.mem = n.mem
  <1>1. n.f \in FlagType
    BY MachineIs
  <1>2. Far(n, ip, seg) = Entered(n, ip, seg, n.f)
    BY DEF Far, Entered, IsMachine
  <1>3. QED
    BY <1>1, <1>2, EnteredIs

\* x has entered the handler of interrupt v from n
Interrupted(n, v, x) ==
  /\ IsMachine(x) /\ SameMode(n, x) /\ x.f.i = FALSE /\ x.f.t = FALSE
  /\ x.sreg[CS] = Peek16(x, 4 * v + 2) /\ x.ip = Peek16(x, 4 * v)
  /\ Top(x) = n.ip /\ Top(Drop(x)) = n.sreg[CS] /\ Top(Drop(Drop(x))) = flags_pack(n.f)

LEMMA InterruptIs ==
  ASSUME NEW n, IsMachine(n), NEW v, v \in 0..255
  PROVE  Interrupted(n, v, Interrupt(n, v))
  <1> DEFINE u == flags_pack(n.f)
             s == n.sreg[CS]
             ip == n.ip
             p == Push(Push(Push(n, u), s), ip)
             a == 4 * v
             b == 4 * v + 2
             g == Masked(p.f)
             x == Entered(p, Peek16(p, a), Peek16(p, b), g)
  <1>1. u \in Words16 /\ s \in Words16 /\ ip \in Words16 /\ n.f \in FlagType
    BY MachineIs, FlagsPacked, RegistersAre, SegIn
  <1>2. Interrupt(n, v) = x
    BY Zenon DEF Interrupt, Far, Entered, Masked
  <1> HIDE DEF u, s, ip
  <1>3. Framed(n, u, s, ip, p)
    BY <1>1, FramedIs
  <1> HIDE DEF p
  <1>4. IsMachine(p) /\ SameMode(n, p) /\ p.f = n.f
    BY <1>3 DEF Framed, Keeps
  <1>5. a \in Int /\ b \in Int
    OBVIOUS
  <1> HIDE DEF a, b
  <1>6. Peek16(p, a) \in Words16 /\ Peek16(p, b) \in Words16
    BY <1>4, <1>5, PeekIs
  <1>7. g \in FlagType /\ g.i = FALSE /\ g.t = FALSE
    BY <1>1, <1>4, MaskedIs
  <1> HIDE DEF g
  <1>8. /\ IsMachine(x) /\ SameMode(p, x) /\ SameStack(p, x) /\ x.ip = Peek16(p, a)
        /\ x.sreg[CS] = Peek16(p, b) /\ x.f = g /\ x.mem = p.mem
    BY <1>4, <1>6, <1>7, EnteredIs
  <1> HIDE DEF x
  <1>9. Peek16(x, a) = Peek16(p, a) /\ Peek16(x, b) = Peek16(p, b)
    BY <1>8 DEF Peek16, Peek
  <1>10. Top(x) = ip /\ Top(Drop(x)) = s /\ Top(Drop(Drop(x))) = u
    <2>1. Top(x) = Deep(x, 0) /\ Top(Drop(x)) = Deep(x, 2) /\ Top(Drop(Drop(x))) = Deep(x, 4)
      BY <1>8, DeepIs
    <2>2. Deep(x, 0) = Deep(p, 0) /\ Deep(x, 2) = Deep(p, 2) /\ Deep(x, 4) = Deep(p, 4)
      BY <1>8, SameStackIs
    <2>3. QED
      BY <1>3, <2>1, <2>2 DEF Framed
  <1>11. SameMode(n, x)
    BY <1>4, <1>8 DEF SameMode, SamePrefixes
  <1>12. QED
    BY <1>2, <1>7, <1>8, <1>9, <1>10, <1>11 DEF Interrupted, a, b, u, s, ip

-----------------------------------------------------------------------------
(* Going on.                                                               *)

LEMMA GoIs ==
  ASSUME NEW n, IsMachine(n), NEW ip, ip \in Int
  PROVE  LET x == Go(n, ip)
         IN  /\ IsMachine(x) /\ SameMode(n, x) /\ SameStack(n, x)
             /\ x.ip = Wrap16(ip) /\ x.sreg = n.sreg /\ x.f = n.f /\ x.reg = n.reg /\ x.mem = n.mem
  <1> DEFINE v == Wrap16(ip)
  <1>1. v \in Words16
    BY WrapIn
  <1> HIDE DEF v
  <1>2. LET x == [n EXCEPT !.ip = v]
        IN  /\ IsMachine(x) /\ SameMode(n, x) /\ SameStack(n, x)
            /\ x.ip = v /\ x.sreg = n.sreg /\ x.f = n.f /\ x.reg = n.reg /\ x.mem = n.mem
    BY <1>1 DEF IsMachine, SameMode, SamePrefixes, SameStack
  <1>3. QED
    BY <1>2 DEF Go, v

\* x goes on from n at ip
Reaches(n, ip, x) ==
  IsMachine(x) /\ SameMode(n, x) /\ x.f.i = n.f.i /\ x.f.t = n.f.t /\ x.ip = ip

LEMMA PastIs ==
  ASSUME NEW n, IsMachine(n), NEW d, IsInstr(d)
  PROVE  Past(n, d) \in Int /\ Wrap16(Past(n, d)) \in Words16
  <1> DEFINE p == Past(n, d)
  <1>1. n.ip \in Words16 /\ d.len \in Int
    BY MachineIs, InstrIs
  <1>2. n.ip \in Int
    BY <1>1, WordInt
  <1>3. p \in Int
    BY <1>1, <1>2 DEF Past
  <1> HIDE DEF p
  <1>4. QED
    BY <1>3, WrapIn DEF p

LEMMA AdvanceIs ==
  ASSUME NEW n, IsMachine(n), NEW d, IsInstr(d), NEW x, Keeps(n, x)
  PROVE  Reaches(n, Wrap16(Past(n, d)), Advance(x, d))
  <1> DEFINE p == Past(n, d)
  <1>1. Past(x, d) = p /\ p \in Int
    BY PastIs DEF Past, Keeps
  <1> HIDE DEF p
  <1>2. IsMachine(x)
    BY KeepsMachine
  <1>3. /\ IsMachine(Go(x, p)) /\ SameMode(x, Go(x, p)) /\ Go(x, p).f = x.f
        /\ Go(x, p).ip = Wrap16(p)
    BY <1>1, <1>2, GoIs
  <1>4. QED
    BY <1>1, <1>3 DEF Advance, Reaches, Keeps, SameMode, SamePrefixes, p

(* Multiplication, division and the decimal adjustments: only the divisions *)
(* interrupt.                                                              *)
LEMMA OutcomesAre ==
  ASSUME NEW f, NEW w, NEW x, IsPair(f, w, x), NEW y
  PROVE  /\ Mul(x, y, w).out = x.out /\ Imul(x, y, w).out = x.out
         /\ Daa(x).out = x.out /\ Das(x).out = x.out
         /\ Aaa(x).out = x.out /\ Aas(x).out = x.out /\ Aad(x, y).out = x.out
  <1>1. ASSUME NEW r, NEW wide PROVE SetProduct(x, r, wide, w).out = x.out
    BY DEF SetProduct, IsPair
  <1>2. ASSUME NEW z, z \in [r : {z.r}, f : {z.f}, out : {x.out}], NEW v
        PROVE  SetAL(z, v).out = x.out
    BY <1>2 DEF SetAL
  <1>3. Mul(x, y, w).out = x.out /\ Imul(x, y, w).out = x.out
    BY <1>1 DEF Mul, Imul
  <1>4. ASSUME NEW a, NEW c
        PROVE  LET z == Carries(x, a, c) IN z \in [r : {z.r}, f : {z.f}, out : {x.out}]
    BY DEF Carries, IsPair
  <1>5. ASSUME NEW sign PROVE Adjust(x, sign).out = x.out /\ AdjustAscii(x, sign).out = x.out
    <2> DEFINE al == x.r.A
               low == LowDigit(x)
               six == (al + sign * 6) % 256
               l == IF low THEN six ELSE al
               high == al > 153 \/ x.f.c
               wraps == IF sign = 1 THEN six < al ELSE six > al
               c == high \/ (low /\ wraps)
               v == IF high THEN (l + sign * 96) % 256 ELSE l
               z == Carries(x, low, c)
    <2>1. Adjust(x, sign) = SetAL(z, v)
      BY Zenon DEF Adjust, Carries
    <2> HIDE DEF c, v, low
    <2>2. Adjust(x, sign).out = x.out
      BY <1>2, <1>4, <2>1
    <2>3. AdjustAscii(x, sign).out = x.out
      BY DEF AdjustAscii, IsPair
    <2>4. QED
      BY <2>2, <2>3
  <1>6. Aad(x, y).out = x.out
    <2> DEFINE z == [x EXCEPT !.r.D = 0]
    <2>1. z \in [r : {z.r}, f : {z.f}, out : {x.out}]
      BY DEF IsPair
    <2> HIDE DEF z
    <2>2. SetAL(z, (x.r.D * y + x.r.A) % 256).out = x.out
      BY <1>2, <2>1
    <2>3. QED
      BY <2>2 DEF Aad, z
  <1>7. QED
    BY <1>3, <1>5, <1>6 DEF Daa, Das, Aaa, Aas

LEMMA PairOfIs ==
  ASSUME NEW n, IsMachine(n), NEW w, w \in {0, 1}, NEW s, IsSize(s),
         s.bits = IF w = 1 THEN 16 ELSE 8
  PROVE  IsPair(n.f, s, Pair(n, w)) /\ Pair(n, w).out = "ok"
  <1> DEFINE a == IF w = 1 THEN n.reg[AX] ELSE AlOf(n.reg[AX])
             b == IF w = 1 THEN n.reg[DX] ELSE AhOf(n.reg[AX])
             x == [r |-> [A |-> a, D |-> b], f |-> n.f, out |-> "ok"]
  <1>1. a \in Values(s) /\ b \in Values(s)
    <2>1. CASE w = 1
      BY <2>1, RegistersAre, RegIn, ValuesAre
    <2>2. CASE w = 0
      BY <2>2, RegistersAre, AlIs, ValuesAre
    <2>3. QED
      BY <2>1, <2>2
  <1>2. Pair(n, w) = x
    BY DEF Pair
  <1> HIDE DEF a, b
  <1>3. Alike(n.f, n.f) /\ n.f \in FlagType
    BY AlikeSelf, MachineIs
  <1>4. QED
    BY <1>1, <1>2, <1>3 DEF IsPair

LEMMA UnpairIs ==
  ASSUME NEW n, IsMachine(n), NEW d, IsInstr(d), NEW w, w \in {0, 1}, NEW s, IsSize(s),
         s.bits = IF w = 1 THEN 16 ELSE 8, NEW x, IsPair(n.f, s, x)
  PROVE  LET z == Unpair(n, d, w, x)
         IN  \/ x.out = "int0" /\ Interrupted(Advance(n, d), 0, z)
             \/ IsMachine(z) /\ z.stop = "killed"
             \/ Reaches(n, Wrap16(Past(n, d)), z)
  <1> DEFINE z == Unpair(n, d, w, x)
             a == x.r.A
             b == x.r.D
             g == x.f
  <1>1. a \in Values(s) /\ b \in Values(s) /\ Alike(n.f, g) /\ x.out \in {"ok", "int0", "killed"}
    BY PairIs
  <1> HIDE DEF a, b, g
  <1>2. CASE x.out = "int0"
    <2> DEFINE v == 0
    <2>1. v \in 0..255
      OBVIOUS
    <2> HIDE DEF v
    <2>2. IsMachine(Advance(n, d))
      BY KeepsSelf, AdvanceIs DEF Reaches
    <2>3. Interrupted(Advance(n, d), v, Interrupt(Advance(n, d), v))
      BY <2>1, <2>2, InterruptIs
    <2>4. z = Interrupt(Advance(n, d), 0)
      BY <1>2 DEF Unpair
    <2>5. QED
      BY <1>2, <2>3, <2>4 DEF v
  <1>3. CASE x.out = "killed"
    <2>1. z = [n EXCEPT !.stop = "killed"]
      BY <1>3 DEF Unpair
    <2>2. IsMachine(z) /\ z.stop = "killed"
      BY <2>1 DEF IsMachine
    <2>3. QED
      BY <2>2
  <1>4. CASE x.out = "ok" /\ w = 1
    <2> DEFINE y == TwoRegs(n, AX, a, DX, b)
               u == [y EXCEPT !.f = g]
    <2>1. a \in Words16 /\ b \in Words16
      BY <1>1, ValuesAre
    <2>2. Keeps(n, y)
      BY <2>1, RegistersAre, SetTwoRegs
    <2>3. y.f = n.f
      BY DEF TwoRegs, IsMachine
    <2>4. u = [n EXCEPT !.reg[AX] = a, !.reg[DX] = b, !.f = g]
      BY Zenon DEF TwoRegs
    <2> HIDE DEF y
    <2>5. Keeps(y, u)
      BY <1>1, <2>2, <2>3, KeepsMachine, SetFlagsIs
    <2>6. Keeps(n, u)
      BY <2>2, <2>5, KeepsMore
    <2>7. z = Advance(u, d)
      BY <1>4, <2>4 DEF Unpair, a, b, g
    <2> HIDE DEF u
    <2>8. Reaches(n, Wrap16(Past(n, d)), z)
      BY <2>6, <2>7, AdvanceIs
    <2>9. QED
      BY <2>8
  <1>5. CASE x.out = "ok" /\ w = 0
    <2> DEFINE v == Word(a, b)
               y == [n EXCEPT !.reg[AX] = v]
               u == [y EXCEPT !.f = g]
    <2>1. v \in Words16
      BY <1>1, <1>5, ValuesAre, WordIn
    <2>2. u = [n EXCEPT !.reg[AX] = Word(a, b), !.f = g]
      BY DEF IsMachine
    <2> HIDE DEF v
    <2>3. Keeps(n, y)
      BY <2>1, RegistersAre, SetRegIs
    <2>4. y.f = n.f
      BY DEF IsMachine
    <2> HIDE DEF y
    <2>5. Keeps(y, u)
      BY <1>1, <2>3, <2>4, KeepsMachine, SetFlagsIs
    <2>6. Keeps(n, u)
      BY <2>3, <2>5, KeepsMore
    <2>7. z = Advance(u, d)
      BY <1>5, <2>2 DEF Unpair, a, b, g
    <2> HIDE DEF u
    <2>8. Reaches(n, Wrap16(Past(n, d)), z)
      BY <2>6, <2>7, AdvanceIs
    <2>9. QED
      BY <2>8
  <1>6. QED
    BY <1>1, <1>2, <1>3, <1>4, <1>5

LEMMA ProductsAre ==
  ASSUME NEW n, IsMachine(n), NEW d, IsInstr(d), d.reg \in 4..7, NEW x, x \in Products(n, d)
  PROVE  LET z == Unpair(n, d, d.w, x)
         IN  \/ d.reg \in {6, 7} /\ Interrupted(Advance(n, d), 0, z)
             \/ IsMachine(z) /\ z.stop = "killed"
             \/ Reaches(n, Wrap16(Past(n, d)), z)
  <1> DEFINE p == Pair(n, d.w)
             y == ReadRm(n, d)
             s == Size(d)
             f == n.f
  <1>1. d.w \in {0, 1} /\ IsSize(s) /\ s.bits = IF d.w = 1 THEN 16 ELSE 8
    BY InstrIs, SizeIs
  <1>2. IsPair(f, s, p) /\ p.out = "ok"
    BY <1>1, PairOfIs
  <1>3. y \in Values(s)
    BY ReadValue
  <1>4. Products(n, d) = CASE d.reg = 4 -> {Mul(p, y, s)}  [] d.reg = 5 -> {Imul(p, y, s)}
                           [] d.reg = 6 -> {Div(p, y, s)}  [] d.reg = 7 -> Idiv(p, y, s)
    BY DEF Products
  <1> HIDE DEF p, y, s, f
  <1>5. /\ IsPair(f, s, Mul(p, y, s)) /\ IsPair(f, s, Imul(p, y, s)) /\ IsPair(f, s, Div(p, y, s))
        /\ \A z \in Idiv(p, y, s) : IsPair(f, s, z)
    BY <1>1, <1>2, <1>3, MulDivAre
  <1>6. Mul(p, y, s).out = "ok" /\ Imul(p, y, s).out = "ok"
    BY <1>2, OutcomesAre
  <1>7. IsPair(f, s, x) /\ (d.reg \in {4, 5} => x.out = "ok")
    BY <1>4, <1>5, <1>6
  <1>8. \/ x.out = "int0" /\ Interrupted(Advance(n, d), 0, Unpair(n, d, d.w, x))
        \/ IsMachine(Unpair(n, d, d.w, x)) /\ Unpair(n, d, d.w, x).stop = "killed"
        \/ Reaches(n, Wrap16(Past(n, d)), Unpair(n, d, d.w, x))
    BY <1>1, <1>7, UnpairIs DEF f
  <1>9. QED
    BY <1>7, <1>8

LEMMA AdjustedIs ==
  ASSUME NEW n, IsMachine(n), NEW d, IsInstr(d),
         d.op \in {\h27, \h2F, \h37, \h3F, \hD4, \hD5}
  PROVE  LET z == Unpair(n, d, 0, Adjusted(n, d))
         IN  \/ d.op = \hD4 /\ Interrupted(Advance(n, d), 0, z)
             \/ IsMachine(z) /\ z.stop = "killed"
             \/ Reaches(n, Wrap16(Past(n, d)), z)
  <1> DEFINE w == 0
             p == Pair(n, w)
             b == AlOf(d.data0)
             x == Adjusted(n, d)
             f == n.f
  <1>1. b \in 0..255
    BY InstrIs, WordIs DEF AlOf
  <1>2. w \in {0, 1} /\ IsSize(Byte) /\ Byte.bits = IF w = 1 THEN 16 ELSE 8
    BY ByteIs
  <1>3. x = CASE d.op = \h27 -> Daa(p) [] d.op = \h2F -> Das(p)
              [] d.op = \h37 -> Aaa(p) [] d.op = \h3F -> Aas(p)
              [] d.op = \hD4 -> Aam(p, b) [] d.op = \hD5 -> Aad(p, b)
    BY DEF Adjusted
  <1> HIDE DEF w, x, b, f
  <1>4. IsPair(f, Byte, p) /\ p.out = "ok"
    BY <1>2, PairOfIs DEF f
  <1> HIDE DEF p
  <1>5. /\ IsPair(f, Byte, Daa(p)) /\ IsPair(f, Byte, Das(p))
        /\ IsPair(f, Byte, Aaa(p)) /\ IsPair(f, Byte, Aas(p))
        /\ IsPair(f, Byte, Aam(p, b)) /\ IsPair(f, Byte, Aad(p, b))
    <2> DEFINE up == 1
               down == -1
    <2>1. up \in {1, -1} /\ down \in {1, -1}
      OBVIOUS
    <2> HIDE DEF up, down
    <2>2. /\ IsPair(f, Byte, Adjust(p, up)) /\ IsPair(f, Byte, AdjustAscii(p, up))
          /\ IsPair(f, Byte, Adjust(p, down)) /\ IsPair(f, Byte, AdjustAscii(p, down))
      BY <1>4, <2>1, AdjustIs
    <2>3. QED
      BY <1>1, <1>4, <2>2, AamAadAre DEF Daa, Das, Aaa, Aas, up, down
  <1>6. /\ Daa(p).out = "ok" /\ Das(p).out = "ok" /\ Aaa(p).out = "ok" /\ Aas(p).out = "ok"
        /\ Aad(p, b).out = "ok"
    BY <1>4, OutcomesAre
  <1>7. IsPair(f, Byte, x) /\ (d.op # \hD4 => x.out = "ok")
    BY <1>3, <1>5, <1>6
  <1>8. \/ x.out = "int0" /\ Interrupted(Advance(n, d), 0, Unpair(n, d, w, x))
        \/ IsMachine(Unpair(n, d, w, x)) /\ Unpair(n, d, w, x).stop = "killed"
        \/ Reaches(n, Wrap16(Past(n, d)), Unpair(n, d, w, x))
    BY <1>2, <1>7, UnpairIs DEF f
  <1>9. QED
    BY <1>7, <1>8 DEF w, x

-----------------------------------------------------------------------------
(* Control transfer.                                                       *)

\* x goes on from n somewhere
Leaves(n, x) == IsMachine(x) /\ SameMode(n, x) /\ x.f.i = n.f.i /\ x.f.t = n.f.t

LEMMA ReachesLeaves ==
  ASSUME NEW n, NEW ip, NEW x, Reaches(n, ip, x) PROVE Leaves(n, x)
  BY DEF Reaches, Leaves

LEMMA LeavesMore ==
  ASSUME NEW n, NEW x, NEW y, Leaves(n, x), Leaves(x, y) PROVE Leaves(n, y)
  BY DEF Leaves, SameMode, SamePrefixes

LEMMA KeepsLeaves == ASSUME NEW n, NEW x, Keeps(n, x) PROVE Leaves(n, x)
  BY DEF Keeps, Leaves

LEMMA GoLeaves ==
  ASSUME NEW n, IsMachine(n), NEW ip, ip \in Int
  PROVE  Leaves(n, Go(n, ip)) /\ Go(n, ip).ip = Wrap16(ip)
  BY GoIs DEF Leaves

LEMMA FarLeaves ==
  ASSUME NEW n, IsMachine(n), NEW ip, ip \in Words16, NEW seg, seg \in Words16
  PROVE  Leaves(n, Far(n, ip, seg)) /\ Far(n, ip, seg).ip = ip
  BY FarIs DEF Leaves

LEMMA Rel8Is ==
  ASSUME NEW d, IsInstr(d)
  PROVE  Rel8(d) \in Int
  <1>1. d.data0 % 256 \in 0..255
    BY InstrIs, WordIs
  <1>2. SignExtend(d.data0 % 256) \in Words16
    BY <1>1, SignExtendIs
  <1>3. QED
    BY <1>2, WordInt DEF Rel8

LEMMA BranchIs ==
  ASSUME NEW n, IsMachine(n), NEW d, IsInstr(d), NEW taken
  PROVE  /\ Leaves(n, Branch(n, d, taken))
         /\ Branch(n, d, taken).ip = IF taken THEN Wrap16(Past(n, d) + Rel8(d)) ELSE Wrap16(Past(n, d))
  <1> DEFINE a == Past(n, d) + Rel8(d)
             b == Past(n, d)
  <1>1. a \in Int /\ b \in Int
    BY PastIs, Rel8Is
  <1>2. Branch(n, d, taken) = IF taken THEN Go(n, a) ELSE Go(n, b)
    BY DEF Branch
  <1> HIDE DEF a, b
  <1>3. QED
    BY <1>1, <1>2, GoLeaves DEF a, b

LEMMA LoopIs ==
  ASSUME NEW n, IsMachine(n), NEW d, IsInstr(d)
  PROVE  /\ Leaves(n, Loop(n, d))
         /\ Loop(n, d).ip \in {Wrap16(Past(n, d) + Rel8(d)), Wrap16(Past(n, d))}
  <1> DEFINE c == n.reg[CX]
             v == Wrap16(c - 1)
             k == [n EXCEPT !.reg[CX] = v]
             t == n.reg[CX] = 0
             u == Loops(k, d)
  <1>1. v \in Words16
    <2>1. c \in Words16
      BY RegistersAre, RegIn
    <2> HIDE DEF c
    <2>2. c - 1 \in Int
      BY <2>1, WordInt
    <2>3. QED
      BY <2>2, WrapIn
  <1>2. Loop(n, d) = IF d.reg4 = 3 THEN Branch(n, d, t) ELSE Branch(k, d, u)
    BY DEF Loop
  <1> HIDE DEF v
  <1>3. Keeps(n, k)
    BY <1>1, RegistersAre, SetRegIs
  <1> HIDE DEF k
  <1>4. Past(k, d) = Past(n, d) /\ Leaves(n, k) /\ IsMachine(k)
    BY <1>3, KeepsLeaves DEF Past, Keeps
  <1> HIDE DEF t, u
  <1>5. /\ Leaves(k, Branch(k, d, u))
        /\ Branch(k, d, u).ip \in {Wrap16(Past(n, d) + Rel8(d)), Wrap16(Past(n, d))}
    BY <1>4, BranchIs
  <1>6. /\ Leaves(n, Branch(n, d, t))
        /\ Branch(n, d, t).ip \in {Wrap16(Past(n, d) + Rel8(d)), Wrap16(Past(n, d))}
    BY BranchIs
  <1>7. Leaves(n, Branch(k, d, u))
    BY <1>4, <1>5, LeavesMore
  <1>8. QED
    BY <1>2, <1>5, <1>6, <1>7

LEMMA PushReturnIs ==
  ASSUME NEW n, IsMachine(n), NEW d, IsInstr(d)
  PROVE  /\ Keeps(n, PushReturn(n, d)) /\ Top(PushReturn(n, d)) = Wrap16(Past(n, d))
         /\ Keeps(n, PushFarReturn(n, d)) /\ Top(PushFarReturn(n, d)) = Wrap16(Past(n, d))
  <1>1. ASSUME NEW x, Keeps(n, x)
        PROVE  Keeps(n, PushReturn(x, d)) /\ Top(PushReturn(x, d)) = Wrap16(Past(n, d))
    <2> DEFINE v == Wrap16(Past(n, d))
    <2>1. v \in Words16 /\ IsMachine(x)
      BY <1>1, PastIs, KeepsMachine
    <2>2. PushReturn(x, d) = Push(x, v)
      BY <1>1 DEF PushReturn, Past, Keeps
    <2> HIDE DEF v
    <2>3. Keeps(x, Push(x, v)) /\ Top(Push(x, v)) = v
      BY <2>1, PushIs DEF Pushed
    <2>4. Keeps(n, Push(x, v))
      BY <1>1, <2>3, KeepsMore
    <2>5. QED
      BY <2>2, <2>3, <2>4 DEF v
  <1> DEFINE y == Push(n, n.sreg[CS])
  <1>2. Keeps(n, y)
    BY RegistersAre, SegIn, PushKeeps
  <1>3. PushFarReturn(n, d) = PushReturn(y, d)
    BY DEF PushFarReturn
  <1> HIDE DEF y
  <1>4. QED
    BY <1>1, <1>2, <1>3, KeepsSelf

LEMMA JumpIs ==
  ASSUME NEW n, IsMachine(n), NEW d, IsInstr(d), d.op \in \hE8..\hEB
  PROVE  LET x == Jump(n, d)
         IN  /\ Leaves(n, x)
             /\ d.op = \hE8 => x.ip = Wrap16(Past(n, d) + d.data0) /\ Top(x) = Wrap16(Past(n, d))
             /\ d.op = \hE9 => x.ip = Wrap16(Past(n, d) + d.data0)
             /\ d.op = \hEB => x.ip = Wrap16(Past(n, d) + Rel8(d))
  <1> DEFINE x == Jump(n, d)
             a == Past(n, d) + d.data0
  <1>1. a \in Int /\ d.data0 \in Words16 /\ d.data2 \in Words16
    BY PastIs, InstrIs, WordInt
  <1>2. CASE d.op = \hE8
    <2> DEFINE v == Wrap16(Past(n, d))
               y == Push(n, v)
    <2>1. x = Go(y, a)
      BY <1>2 DEF Jump
    <2>2. v \in Words16
      BY PastIs
    <2> HIDE DEF v
    <2>3. Keeps(n, y) /\ Top(y) = v
      BY <2>2, PushIs DEF Pushed
    <2> HIDE DEF y, a
    <2>4. Leaves(n, y) /\ IsMachine(y)
      BY <2>3, KeepsLeaves, KeepsMachine
    <2>5. SameStack(y, Go(y, a)) /\ Leaves(y, Go(y, a)) /\ Go(y, a).ip = Wrap16(a)
      BY <1>1, <2>4, GoIs, GoLeaves
    <2>6. Top(Go(y, a)) = v /\ Leaves(n, Go(y, a))
      BY <2>3, <2>4, <2>5, SameStackIs, LeavesMore
    <2>7. QED
      BY <1>2, <2>1, <2>5, <2>6 DEF a, v
  <1>3. CASE d.op = \hE9
    <2>1. x = Go(n, a)
      BY <1>3 DEF Jump
    <2> HIDE DEF a
    <2>2. QED
      BY <1>1, <1>3, <2>1, GoLeaves DEF a
  <1>4. CASE d.op = \hEA
    <2>1. x = Far(n, d.data0, d.data2)
      BY <1>4 DEF Jump
    <2>2. QED
      BY <1>1, <1>4, <2>1, FarLeaves
  <1>5. CASE d.op = \hEB
    <2> DEFINE t == TRUE
    <2>1. x = Branch(n, d, t)
      BY <1>5 DEF Jump
    <2>0. t
      OBVIOUS
    <2> HIDE DEF t
    <2>2. Leaves(n, Branch(n, d, t))
          /\ Branch(n, d, t).ip = IF t THEN Wrap16(Past(n, d) + Rel8(d)) ELSE Wrap16(Past(n, d))
      BY BranchIs
    <2> DEFINE y == Branch(n, d, t)
    <2>3. x = y /\ Leaves(n, y) /\ y.ip = Wrap16(Past(n, d) + Rel8(d))
      BY <2>0, <2>1, <2>2, Zenon
    <2> HIDE DEF y
    <2>4. QED
      BY <1>5, <2>3
  <1>6. QED
    BY <1>2, <1>3, <1>4, <1>5

LEMMA IndirectIs ==
  ASSUME NEW n, IsMachine(n), NEW d, IsInstr(d)
  PROVE  LET x == Indirect(n, d)
         IN  Leaves(n, x) /\ (d.reg \in {2, 3} => Top(x) = Wrap16(Past(n, d)))
  <1> DEFINE c == CASE d.reg = 2 -> PushReturn(n, d) [] d.reg = 3 -> PushFarReturn(n, d)
                    [] OTHER -> n
             v == ReadRm(c, Wide(d))
             a == d.addr
             b == a + 2
             ip == Peek16(c, a)
             seg == Peek16(c, b)
  <1>1. Indirect(n, d) = IF d.reg \in {2, 4} THEN Go(c, v) ELSE Far(c, ip, seg)
    BY DEF Indirect
  <1>2. Keeps(n, c) /\ (d.reg \in {2, 3} => Top(c) = Wrap16(Past(n, d)))
    BY PushReturnIs, KeepsSelf
  <1>3. a \in Int /\ b \in Int
    BY InstrIs
  <1> HIDE DEF c, a, b
  <1>4. IsMachine(c) /\ Leaves(n, c)
    BY <1>2, KeepsMachine, KeepsLeaves
  <1>5. v \in Words16 /\ ip \in Words16 /\ seg \in Words16
    BY <1>3, <1>4, WideIs, ReadRmIs, PeekIs
  <1> HIDE DEF v, ip, seg
  <1>6. v \in Int
    BY <1>5, WordInt
  <1>7. SameStack(c, Go(c, v)) /\ Leaves(c, Go(c, v))
    BY <1>4, <1>6, GoIs, GoLeaves
  <1>8. SameStack(c, Far(c, ip, seg)) /\ Leaves(c, Far(c, ip, seg))
    BY <1>4, <1>5, FarIs, FarLeaves
  <1>9. /\ Leaves(n, Go(c, v)) /\ Top(Go(c, v)) = Top(c)
        /\ Leaves(n, Far(c, ip, seg)) /\ Top(Far(c, ip, seg)) = Top(c)
    BY <1>4, <1>7, <1>8, LeavesMore, SameStackIs
  <1>10. QED
    BY <1>1, <1>2, <1>9

(* The three steps of a return: IP, CS and FLAGS. *)
Popped(n, x) == x.reg = [n.reg EXCEPT ![SP] = Wrap16(n.reg[SP] + 2)]

Near(n) == Go(Drop(n), Top(n))
FarOf(k) == [Drop(k) EXCEPT !.sreg[CS] = Top(k)]
FlagsOf(k) == [Drop(k) EXCEPT !.f = flags_unpack(Top(k))]

LEMMA NearIs ==
  ASSUME NEW n, IsMachine(n)
  PROVE  LET x == Near(n)
         IN  /\ Leaves(n, x) /\ x.ip = Top(n) /\ x.sreg = n.sreg /\ x.f = n.f /\ x.mem = n.mem
             /\ Popped(n, x) /\ SameStack(Drop(n), x)
  <1> DEFINE y == Drop(n)
             v == Top(n)
  <1>1. /\ Keeps(n, y) /\ y.sreg = n.sreg /\ y.f = n.f /\ y.mem = n.mem /\ Popped(n, y)
    BY DropIs DEF Popped
  <1>2. v \in Words16
    BY TopIs
  <1> HIDE DEF y, v
  <1>3. v \in Int /\ Wrap16(v) = v
    BY <1>2, WordInt DEF Wrap16
  <1>4. IsMachine(y) /\ Leaves(n, y)
    BY <1>1, KeepsMachine, KeepsLeaves
  <1>5. /\ SameStack(y, Go(y, v)) /\ Go(y, v).ip = v /\ Go(y, v).sreg = y.sreg
        /\ Go(y, v).f = y.f /\ Go(y, v).reg = y.reg /\ Go(y, v).mem = y.mem /\ Leaves(y, Go(y, v))
    BY <1>3, <1>4, GoIs, GoLeaves
  <1>6. Leaves(n, Go(y, v))
    BY <1>4, <1>5, LeavesMore
  <1>7. QED
    BY <1>1, <1>5, <1>6 DEF Near, Popped, y, v

LEMMA FarOfIs ==
  ASSUME NEW n, IsMachine(n)
  PROVE  LET x == FarOf(n)
         IN  /\ Leaves(n, x) /\ x.ip = n.ip /\ x.sreg = [n.sreg EXCEPT ![CS] = Top(n)]
             /\ x.f = n.f /\ x.mem = n.mem /\ Popped(n, x) /\ SameStack(Drop(n), x)
  <1> DEFINE y == Drop(n)
             v == Top(n)
             x == [y EXCEPT !.sreg[CS] = v]
  <1>1. /\ Keeps(n, y) /\ y.sreg = n.sreg /\ y.f = n.f /\ y.mem = n.mem /\ Popped(n, y)
    BY DropIs DEF Popped
  <1>2. v \in Words16
    BY TopIs
  <1> HIDE DEF y, v
  <1>3. Keeps(y, x)
    BY <1>1, <1>2, RegistersAre, KeepsMachine, SetSegIs
  <1>4. /\ x.sreg = [y.sreg EXCEPT ![CS] = v] /\ x.f = y.f /\ x.mem = y.mem /\ x.reg = y.reg
    BY <1>1 DEF Keeps, IsMachine
  <1>5. x.sreg[SS] = y.sreg[SS]
    <2>1. y.sreg \in [0..3 -> Words16]
      BY <1>1, KeepsMachine, MachineIs
    <2>2. QED
      BY <1>4, <2>1, RegistersAre
  <1> HIDE DEF x
  <1>6. Leaves(n, x) /\ x.ip = n.ip
    <2>1. Keeps(n, x)
      BY <1>1, <1>3, KeepsMore
    <2>2. QED
      BY <2>1, KeepsLeaves DEF Keeps
  <1>7. FarOf(n) = x
    BY DEF FarOf, x, y, v
  <1>8. QED
    BY <1>1, <1>4, <1>5, <1>6, <1>7 DEF Popped, SameStack, y, v

LEMMA FlagsOfIs ==
  ASSUME NEW n, IsMachine(n)
  PROVE  LET x == FlagsOf(n)
         IN  /\ Moves(n, x) /\ x.sreg = n.sreg /\ x.f = flags_unpack(Top(n)) /\ x.mem = n.mem
             /\ Popped(n, x)
  <1> DEFINE y == Drop(n)
             g == flags_unpack(Top(n))
             x == [y EXCEPT !.f = g]
  <1>1. /\ Keeps(n, y) /\ y.sreg = n.sreg /\ y.mem = n.mem /\ Popped(n, y)
    BY DropIs DEF Popped
  <1>2. Moves(n, x)
    BY PopFlagsIs
  <1> HIDE DEF y, g
  <1>3. x.f = g /\ x.mem = y.mem /\ x.reg = y.reg /\ x.sreg = y.sreg
    BY <1>1 DEF Keeps, IsMachine
  <1> HIDE DEF x
  <1>4. FlagsOf(n) = x
    BY DEF FlagsOf, x, y, g
  <1>5. QED
    BY <1>1, <1>2, <1>3, <1>4 DEF Popped, g

(* RETF with IRET: where the three words go. *)
LEMMA FrameLoaded ==
  ASSUME NEW n, IsMachine(n)
  PROVE  LET x == FlagsOf(FarOf(Near(n)))
         IN  /\ IsMachine(x) /\ SameMode(n, x) /\ x.mem = n.mem
             /\ x.ip = Top(n) /\ x.sreg = [n.sreg EXCEPT ![CS] = Top(Drop(n))]
             /\ x.f = flags_unpack(Top(Drop(Drop(n))))
             /\ x.reg = [n.reg EXCEPT ![SP] = Wrap16(n.reg[SP] + 6)]
  <1> DEFINE p == Near(n)
             q == FarOf(p)
             x == FlagsOf(q)
  <1>1. /\ Leaves(n, p) /\ p.ip = Top(n) /\ p.sreg = n.sreg /\ p.mem = n.mem
        /\ Popped(n, p) /\ SameStack(Drop(n), p)
    BY NearIs
  <1>2. IsMachine(p)
    BY <1>1 DEF Leaves
  <1> HIDE DEF p
  <1>3. /\ Leaves(p, q) /\ q.ip = p.ip /\ q.sreg = [p.sreg EXCEPT ![CS] = Top(p)]
        /\ q.mem = p.mem /\ Popped(p, q) /\ SameStack(Drop(p), q)
    BY <1>2, FarOfIs
  <1>4. IsMachine(q)
    BY <1>3 DEF Leaves
  <1> HIDE DEF q
  <1>5. /\ Moves(q, x) /\ x.sreg = q.sreg /\ x.f = flags_unpack(Top(q)) /\ x.mem = q.mem
        /\ Popped(q, x)
    BY <1>4, FlagsOfIs
  <1> HIDE DEF x
  <1>6. Top(p) = Top(Drop(n))
    BY <1>1, SameStackIs
  <1>7. Top(q) = Top(Drop(Drop(n)))
    <2>1. Top(q) = Top(Drop(p))
      BY <1>3, SameStackIs
    <2>2. Top(Drop(p)) = Deep(p, 2)
      BY <1>2, DeepIs
    <2>3. Deep(p, 2) = Deep(Drop(n), 2)
      BY <1>1, SameStackIs
    <2>4. Deep(Drop(n), 2) = Top(Drop(Drop(n)))
      BY DeepIs
    <2>5. QED
      BY <2>1, <2>2, <2>3, <2>4
  <1>8. x.reg = [n.reg EXCEPT ![SP] = Wrap16(n.reg[SP] + 6)]
    <2> DEFINE f == n.reg
               k == SP
               a == f[k]
    <2>1. f \in [0..7 -> Words16] /\ k \in 0..7
      BY MachineIs, RegistersAre
    <2>2. p.reg = [f EXCEPT ![k] = Wrap16(f[k] + 2)]
      BY <1>1 DEF Popped
    <2>3. q.reg = [p.reg EXCEPT ![k] = Wrap16(p.reg[k] + 2)]
      BY <1>3 DEF Popped
    <2>4. x.reg = [q.reg EXCEPT ![k] = Wrap16(q.reg[k] + 2)]
      BY <1>5 DEF Popped
    <2> HIDE DEF f, k
    <2>5. a \in Words16
      BY <2>1
    <2>6. x.reg = [f EXCEPT ![k] = Wrap16(Wrap16(Wrap16(a + 2) + 2) + 2)]
      BY <2>1, <2>2, <2>3, <2>4
    <2> HIDE DEF a
    <2>7. Wrap16(Wrap16(Wrap16(a + 2) + 2) + 2) = Wrap16(a + 6)
      <3>1. a \in Int
        BY <2>5, WordInt
      <3>2. QED
        BY <3>1 DEF Wrap16
    <2>8. QED
      BY <2>6, <2>7 DEF f, k, a
  <1>9. IsMachine(x) /\ SameMode(n, x) /\ x.ip = Top(n)
    BY <1>1, <1>3, <1>5 DEF Moves, Leaves, SameMode, SamePrefixes
  <1>10. QED
    BY <1>1, <1>3, <1>5, <1>6, <1>7, <1>8, <1>9 DEF x, q, p

(* Of the returns, IRET alone changes the flags. *)
LEMMA RetIs ==
  ASSUME NEW n, IsMachine(n), NEW d, IsInstr(d), d.op \in {\hC2, \hC3, \hCA, \hCB, \hCF}
  PROVE  IF d.op = \hCF THEN Ret(n, d) = FlagsOf(FarOf(Near(n))) ELSE Leaves(n, Ret(n, d))
  <1> DEFINE p == Near(n)
             q == FarOf(p)
             Parameters(k) == [k EXCEPT !.reg[SP] = Wrap16(@ + d.data0)]
  <1>1. Ret(n, d) = CASE d.op = \hC2 -> Parameters(p)  [] d.op = \hC3 -> p
                      [] d.op = \hCA -> Parameters(q)  [] d.op = \hCB -> q
                      [] d.op = \hCF -> FlagsOf(q)
    BY Zenon DEF Ret, Near, FarOf, FlagsOf
  <1>2. Leaves(n, p)
    BY NearIs
  <1>3. Ret(n, d) = FlagsOf(FarOf(Near(n))) \/ d.op # \hCF
    BY <1>1
  <1> HIDE DEF p
  <1>4. Leaves(p, q)
    BY <1>2, FarOfIs DEF Leaves
  <1> HIDE DEF q
  <1>5. Leaves(n, q)
    BY <1>2, <1>4, LeavesMore
  <1>6. ASSUME NEW k, Leaves(n, k) PROVE Leaves(n, Parameters(k))
    <2> DEFINE a == k.reg[SP]
               v == Wrap16(a + d.data0)
    <2>1. IsMachine(k)
      BY <1>6 DEF Leaves
    <2>2. a \in Words16 /\ d.data0 \in Words16
      BY <2>1, RegistersAre, RegIn, InstrIs
    <2>3. Parameters(k) = [k EXCEPT !.reg[SP] = v]
      OBVIOUS
    <2> HIDE DEF a
    <2>4. a + d.data0 \in Int
      <3>1. a \in Int /\ d.data0 \in Int
        BY <2>2, WordInt
      <3>2. QED
        BY <3>1
    <2>5. v \in Words16
      BY <2>4, WrapIn
    <2> HIDE DEF v
    <2>6. Keeps(k, [k EXCEPT !.reg[SP] = v])
      BY <2>1, <2>5, RegistersAre, SetRegIs
    <2>7. Leaves(k, [k EXCEPT !.reg[SP] = v])
      BY <2>6, KeepsLeaves
    <2>8. QED
      BY <1>6, <2>3, <2>7, LeavesMore
  <1>7. Leaves(n, Parameters(p)) /\ Leaves(n, Parameters(q))
    BY <1>2, <1>5, <1>6
  <1> HIDE DEF Parameters
  <1>8. QED
    BY <1>1, <1>2, <1>3, <1>5, <1>7

LEMMA TrappingIs ==
  ASSUME NEW n, IsMachine(n), NEW d, IsInstr(d), d.op \in {\hCC, \hCD, \hCE}
  PROVE  LET x == Trapping(n, d)
         IN  \/ d.op = \hCC /\ Interrupted(Advance(n, d), 3, x)
             \/ d.op = \hCD /\ Interrupted(Advance(n, d), AlOf(d.data0), x)
             \/ d.op = \hCE /\ n.f.o /\ Interrupted(Advance(n, d), 4, x)
             \/ d.op = \hCE /\ ~n.f.o /\ Reaches(n, Wrap16(Past(n, d)), x)
  <1> DEFINE a == Advance(n, d)
             three == 3
             four == 4
             v == AlOf(d.data0)
  <1>1. Reaches(n, Wrap16(Past(n, d)), a)
    BY KeepsSelf, AdvanceIs
  <1>2. v \in 0..255 /\ three \in 0..255 /\ four \in 0..255
    BY InstrIs, WordIs DEF AlOf
  <1>3. Trapping(n, d) = CASE d.op = \hCC -> Interrupt(a, three)
                           [] d.op = \hCD -> Interrupt(a, v)
                           [] d.op = \hCE -> IF n.f.o THEN Interrupt(a, four) ELSE a
    BY DEF Trapping
  <1> HIDE DEF a, v, three, four
  <1>4. /\ Interrupted(a, three, Interrupt(a, three)) /\ Interrupted(a, v, Interrupt(a, v))
        /\ Interrupted(a, four, Interrupt(a, four))
    BY <1>1, <1>2, InterruptIs DEF Reaches
  <1>5. QED
    BY <1>1, <1>3, <1>4 DEF a, v, three, four

-----------------------------------------------------------------------------
(* Strings.                                                                *)

\* x is n with the count of a string instruction as it was
KeepsCount(n, x) == Keeps(n, x) /\ x.reg[CX] = n.reg[CX]

LEMMA KeepsCountMore ==
  ASSUME NEW n, NEW x, NEW y, KeepsCount(n, x), KeepsCount(x, y)
  PROVE  KeepsCount(n, y)
  BY KeepsMore DEF KeepsCount

LEMMA StringRegs == CX # SI /\ CX # DI /\ CX # AX /\ CX \in 0..7
  BY DEF CX, SI, DI, AX

\* SI or DI moved to the next element
Stepped(k, d, r) ==
  [k EXCEPT !.reg[r] = Wrap16(IF k.f.d THEN @ - (d.w + 1) ELSE @ + (d.w + 1))]

LEMMA SteppedIs ==
  ASSUME NEW n, IsMachine(n), NEW d, IsInstr(d), NEW r, r \in {SI, DI}
  PROVE  KeepsCount(n, Stepped(n, d, r))
  <1> DEFINE a == n.reg[r]
             b == IF n.f.d THEN a - (d.w + 1) ELSE a + (d.w + 1)
             v == Wrap16(b)
             x == [n EXCEPT !.reg[r] = v]
  <1>1. a \in Words16 /\ r \in 0..7 /\ r # CX
    BY RegistersAre, StringRegs, RegIn
  <1>2. d.w \in {0, 1}
    BY InstrIs
  <1>3. Stepped(n, d, r) = x
    BY DEF Stepped
  <1> HIDE DEF a
  <1>4. a \in Int
    BY <1>1, WordInt
  <1>5. b \in Int
    BY <1>2, <1>4
  <1> HIDE DEF b
  <1>6. v \in Words16
    BY <1>5, WrapIn
  <1> HIDE DEF v
  <1>7. Keeps(n, x)
    BY <1>1, <1>6, SetRegIs
  <1>8. x.reg[CX] = n.reg[CX]
    BY <1>1, StringRegs DEF IsMachine
  <1>9. QED
    BY <1>3, <1>7, <1>8 DEF KeepsCount

(* An element is written to memory or to the accumulator. *)
LEMMA WriteCount ==
  ASSUME NEW n, IsMachine(n), NEW d, IsInstr(d), NEW v, v \in Words16,
         d.mod # 3 \/ d.rm = AX
  PROVE  KeepsCount(n, WriteRm(n, d, v))
  <1> DEFINE x == WriteRm(n, d, v)
  <1>1. Keeps(n, x)
    BY WriteRmIs
  <1>2. CASE d.mod # 3 /\ d.w = 1
    <2>1. x = Poke16(n, d.addr, v)
      BY <1>2 DEF WriteRm
    <2>2. OnlyMem(n, x)
      BY <2>1, InstrIs, Poke16Is
    <2> HIDE DEF x
    <2>3. QED
      BY <1>1, <2>2 DEF KeepsCount, OnlyMem, x
  <1>3. CASE d.mod # 3 /\ d.w = 0
    <2> DEFINE b == v % 256
    <2>1. x = Poke(n, d.addr, b)
      BY <1>3 DEF WriteRm
    <2>2. b \in 0..255
      BY WordIs
    <2> HIDE DEF b
    <2>3. OnlyMem(n, x)
      BY <2>1, <2>2, InstrIs, PokeIs
    <2> HIDE DEF x
    <2>4. QED
      BY <1>1, <2>3 DEF KeepsCount, OnlyMem, x
  <1>4. CASE d.mod = 3 /\ d.w = 1
    <2>1. x = [n EXCEPT !.reg[AX] = v]
      BY <1>4 DEF WriteRm
    <2>2. x.reg[CX] = n.reg[CX]
      BY <2>1, StringRegs DEF IsMachine
    <2>3. QED
      BY <1>1, <2>2 DEF KeepsCount
  <1>5. CASE d.mod = 3 /\ d.w = 0
    <2> DEFINE b == Word(v % 256, n.reg[AX] \div 256)
    <2>1. x = [n EXCEPT !.reg[AX] = b]
      BY <1>5 DEF WriteRm, SetReg8, AX
    <2> HIDE DEF b
    <2>2. x.reg[CX] = n.reg[CX]
      BY <2>1, StringRegs DEF IsMachine
    <2>3. QED
      BY <1>1, <2>2 DEF KeepsCount
  <1>6. QED
    BY <1>2, <1>3, <1>4, <1>5, InstrIs

LEMMA CompareIs ==
  ASSUME NEW n, IsMachine(n), NEW d, IsInstr(d), NEW x, x \in Values(Size(d)),
         NEW y, y \in Values(Size(d))
  PROVE  KeepsCount(n, Flags(n, Cmp(x, y, n.f, Size(d))))
  <1> DEFINE w == Size(d)
             f == n.f
             o == Cmp(x, y, f, w)
  <1>1. IsSize(w) /\ x \in Values(w) /\ y \in Values(w) /\ Alike(f, f)
    BY SizeIs, AlikeSelf
  <1> HIDE DEF w, f
  <1>2. Result(f, w, o)
    BY <1>1, SumsAre
  <1> HIDE DEF o
  <1>3. Keeps(n, Flags(n, o))
    BY <1>1, <1>2, ResultFlags DEF f
  <1>4. Flags(n, o).reg = n.reg
    BY DEF Flags, IsMachine
  <1>5. QED
    BY <1>3, <1>4 DEF KeepsCount, o, f, w

LEMMA ElementIs ==
  ASSUME NEW n, IsMachine(n), NEW d, IsInstr(d), d.op \in Kinds["string"], d.w = d.op % 2
  PROVE  KeepsCount(n, Element(n, d))
  <1> DEFINE a == Linear(Segment(n, DS), n.reg[SI])
             b == Linear(n.sreg[ES], n.reg[DI])
             ds == InMemory(d, a)
             es == InMemory(d, b)
             ax == Accumulator(d)
             s == Size(d)
             Compare(x, y) == Flags(n, Cmp(x, y, n.f, s))
             op == d.op - d.w
             x1 == WriteRm(n, es, ReadRm(n, ds))
             x2 == Compare(ReadRm(n, ds), ReadRm(n, es))
             x3 == WriteRm(n, es, ReadRm(n, ax))
             x4 == WriteRm(n, ax, ReadRm(n, ds))
             x5 == Compare(ReadRm(n, ax), ReadRm(n, es))
  <1>1. Element(n, d) =
          CASE op = \hA4 -> Stepped(Stepped(x1, d, SI), d, DI)
            [] op = \hA6 -> Stepped(Stepped(x2, d, SI), d, DI)
            [] op = \hAA -> Stepped(x3, d, DI)
            [] op = \hAC -> Stepped(x4, d, SI)
            [] op = \hAE -> Stepped(x5, d, DI)
    BY Zenon DEF Element, Stepped
  <1>2. op \in {\hA4, \hA6, \hAA, \hAC, \hAE}
    <2>1. d.op \in \hA4..\hA7 \cup \hAA..\hAF
      BY KindsAre
    <2>2. QED
      BY <2>1
  <1>3. a \in Int /\ b \in Int
    BY RegistersAre, SegmentIs, SegIn, RegIn, AddressIs
  <1> HIDE DEF a, b, op
  <1>4. /\ SameSize(d, ds) /\ ds.mod # 3 /\ SameSize(d, es) /\ es.mod # 3
        /\ SameSize(d, ax) /\ ax.rm = AX
    <2>1. IsInstr(ds) /\ ds.w = d.w /\ ds.mod = 0 /\ IsInstr(es) /\ es.w = d.w /\ es.mod = 0
      BY <1>3, InMemoryIs
    <2>2. IsInstr(ax) /\ ax.w = d.w /\ ax.rm = AX
      BY RegistersAre, OnRegIs DEF Accumulator
    <2>3. QED
      BY <2>1, <2>2 DEF SameSize
  <1> HIDE DEF ds, es, ax
  <1>5. /\ ReadRm(n, ds) \in Values(s) /\ ReadRm(n, es) \in Values(s) /\ ReadRm(n, ax) \in Values(s)
        /\ IsInstr(ds) /\ IsInstr(es) /\ IsInstr(ax)
    BY <1>4, SameSizeIs DEF SameSize
  <1>6. /\ ReadRm(n, ds) \in Words16 /\ ReadRm(n, es) \in Words16 /\ ReadRm(n, ax) \in Words16
    BY <1>5, ReadRmIs
  <1>7. /\ KeepsCount(n, x1) /\ KeepsCount(n, x2) /\ KeepsCount(n, x3) /\ KeepsCount(n, x4)
        /\ KeepsCount(n, x5)
    BY <1>4, <1>5, <1>6, WriteCount, CompareIs
  <1> HIDE DEF x1, x2, x3, x4, x5
  <1>8. ASSUME NEW x, KeepsCount(n, x), NEW r, r \in {SI, DI}
        PROVE  KeepsCount(n, Stepped(x, d, r))
    <2>1. IsMachine(x)
      BY <1>8, KeepsMachine DEF KeepsCount
    <2>2. KeepsCount(x, Stepped(x, d, r))
      BY <1>8, <2>1, SteppedIs
    <2>3. QED
      BY <1>8, <2>2, KeepsCountMore
  <1>9. /\ KeepsCount(n, Stepped(Stepped(x1, d, SI), d, DI))
        /\ KeepsCount(n, Stepped(Stepped(x2, d, SI), d, DI))
        /\ KeepsCount(n, Stepped(x3, d, DI)) /\ KeepsCount(n, Stepped(x4, d, SI))
        /\ KeepsCount(n, Stepped(x5, d, DI))
    BY <1>7, <1>8
  <1>10. QED
    BY <1>1, <1>2, <1>9

(* The REP loop. *)
Again(d, k, x) ==
  IF k > 1 /\ Stops(x, d) THEN x ELSE [Element(x, d) EXCEPT !.reg[CX] = @ - 1]

Runs(n, d, j, g) == g = [k \in 0..j |-> IF k = 0 THEN n ELSE Again(d, k, g[k - 1])]

RunOf(n, d, j, g) == g[0] = n /\ \A k \in 1..j : g[k] = Again(d, k, g[k - 1])

LEMMA RunsIs ==
  ASSUME NEW n, NEW d, NEW j, j \in Nat, NEW g, Runs(n, d, j, g)
  PROVE  RunOf(n, d, j, g)
  <1> DEFINE G(k) == Again(d, k, g[k - 1])
  <1>1. g = [k \in 0..j |-> IF k = 0 THEN n ELSE G(k)]
    BY DEF Runs
  <1> HIDE DEF G
  <1>2. g[0] = n /\ \A k \in 1..j : g[k] = G(k)
    BY <1>1
  <1>3. QED
    BY <1>2 DEF G, RunOf

LEMMA RunExists ==
  ASSUME NEW n, NEW d, NEW j, j \in Nat
  PROVE  \E g : Runs(n, d, j, g)
  <1> DEFINE Fails == {i \in Nat : ~\E g : Runs(n, d, i, g)}
  <1>1. SUFFICES ASSUME Fails # {} PROVE FALSE
    OBVIOUS
  <1>2. PICK i \in Fails : \A k \in Fails : i <= k
    <2>1. Fails \subseteq Nat
      OBVIOUS
    <2> HIDE DEF Fails
    <2>2. QED
      BY <1>1, <2>1, LeastNat
  <1>3. i \in Nat /\ ~\E g : Runs(n, d, i, g)
    OBVIOUS
  <1>4. CASE i = 0
    <2> DEFINE g == [k \in 0..i |-> n]
    <2>1. g = [k \in 0..i |-> IF k = 0 THEN n ELSE Again(d, k, g[k - 1])]
      BY <1>4
    <2> HIDE DEF g
    <2>2. Runs(n, d, i, g)
      BY <2>1 DEF Runs
    <2>3. QED
      BY <1>3, <2>2
  <1>5. CASE i # 0
    <2> DEFINE l == i - 1
    <2>1. l \in Nat /\ l \notin Fails
      BY <1>2, <1>3, <1>5
    <2>2. PICK h : Runs(n, d, l, h)
      BY <2>1
    <2> HIDE DEF Fails, l
    <2>3. h[0] = n /\ \A k \in 1..l : h[k] = Again(d, k, h[k - 1])
      <3>1. l \in Nat /\ Runs(n, d, l, h)
        BY <2>1, <2>2
      <3>2. RunOf(n, d, l, h)
        BY <3>1, RunsIs
      <3>3. QED
        BY <3>2 DEF RunOf
    <2> DEFINE last == Again(d, i, h[l])
               g == [k \in 0..i |-> IF k = i THEN last ELSE h[k]]
    <2> HIDE DEF last
    <2>4. i = l + 1
      BY <1>3 DEF l
    <2>5. /\ g[0] = n /\ g[i] = last /\ i - 1 = l
          /\ \A k \in 0..l : g[k] = h[k]
          /\ \A k \in 1..l : k - 1 \in 0..l
      BY <1>3, <1>5, <2>1, <2>3, <2>4
    <2>6. \A k \in 1..i : g[k] = Again(d, k, g[k - 1])
      <3>1. ASSUME NEW k, k \in 1..l PROVE g[k] = Again(d, k, g[k - 1])
        <4>1. k \in 0..l /\ k - 1 \in 0..l
          BY <2>1, <3>1
        <4>2. g[k] = h[k] /\ g[k - 1] = h[k - 1]
          BY <2>5, <4>1
        <4> HIDE DEF g
        <4>3. QED
          BY <2>3, <3>1, <4>2
      <3>2. g[i] = Again(d, i, g[i - 1])
        <4>1. l \in 0..l
          BY <2>1
        <4>2. g[l] = h[l]
          BY <2>5, <4>1
        <4> HIDE DEF g
        <4>3. QED
          BY <2>5, <4>2 DEF last
      <3> HIDE DEF g
      <3>3. \A k \in 1..i : k \in 1..l \/ k = i
        BY <1>3, <2>1, <2>4
      <3>4. QED
        BY <3>1, <3>2, <3>3, Zenon
    <2>7. g = [k \in 0..i |-> IF k = 0 THEN n ELSE Again(d, k, g[k - 1])]
      <3> DEFINE G(k) == Again(d, k, g[k - 1])
      <3>1. DOMAIN g = 0..i /\ g = [k \in 0..i |-> g[k]]
        OBVIOUS
      <3>2. \A k \in 1..i : g[k] = G(k)
        BY <2>6
      <3>3. g[0] = n
        BY <2>5
      <3> HIDE DEF g, G
      <3>4. g = [k \in 0..i |-> IF k = 0 THEN n ELSE G(k)]
        BY <1>3, <3>1, <3>2, <3>3
      <3>5. QED
        BY <3>4 DEF G
    <2> HIDE DEF g
    <2>8. Runs(n, d, i, g)
      BY <2>7 DEF Runs
    <2>9. QED
      BY <1>3, <2>8
  <1>6. QED
    BY <1>4, <1>5

LEMMA RepeatRuns ==
  ASSUME NEW n, IsMachine(n), NEW d
  PROVE  \E g : Runs(n, d, n.reg[CX], g) /\ Repeat(n, d) = g[n.reg[CX]]
  <1> DEFINE j == n.reg[CX]
             g == CHOOSE h : Runs(n, d, j, h)
  <1>1. j \in Nat
    <2>1. n.reg[CX] \in Words16
      BY StringRegs, RegIn
    <2> HIDE DEF j
    <2>2. j \in Words16 => j \in Nat
      BY WordInt
    <2>3. QED
      BY <2>1, <2>2 DEF j
  <1>2. Runs(n, d, j, g)
    <2> HIDE DEF j
    <2>1. \E h : Runs(n, d, j, h)
      BY <1>1, RunExists
    <2>2. QED
      BY <2>1
  <1>3. Repeat(n, d) = g[j]
    BY Zenon DEF Repeat, Runs, Again
  <1>4. QED
    BY <1>2, <1>3

(* After k elements the loop is over, or has counted k of them. *)
Counted(n, d, k, x) ==
  /\ Keeps(n, x)
  /\ k = 0 => x = n
  /\ k > 0 => Stops(x, d) \/ x.reg[CX] = n.reg[CX] - k

LEMMA AgainIs ==
  ASSUME NEW n, IsMachine(n), NEW d, IsInstr(d), d.op \in Kinds["string"], d.w = d.op % 2,
         NEW k, k \in 1..n.reg[CX], NEW l, l = k - 1, NEW x, Counted(n, d, l, x)
  PROVE  Counted(n, d, k, Again(d, k, x))
  <1> DEFINE c == n.reg[CX]
             y == Element(x, d)
             v == y.reg[CX] - 1
             z == [y EXCEPT !.reg[CX] = v]
  <1>1. c \in Words16
    BY StringRegs, RegIn
  <1>2. IsMachine(x) /\ Keeps(n, x)
    BY KeepsMachine DEF Counted
  <1>3. KeepsCount(x, y)
    BY <1>2, ElementIs
  <1>4. x.reg[CX] \in Words16
    BY <1>2, StringRegs, RegIn
  <1>5. c \in Int /\ 0 <= c /\ c <= 65535 /\ x.reg[CX] \in Int /\ 0 <= x.reg[CX] /\ x.reg[CX] <= 65535
    BY <1>1, <1>4, WordInt
  <1>6. k \in Int /\ k >= 1 /\ k <= c
    BY <1>5
  <1>7. CASE k > 1 /\ Stops(x, d)
    BY <1>2, <1>6, <1>7 DEF Counted, Again
  <1>8. CASE ~(k > 1 /\ Stops(x, d))
    <2>1. Again(d, k, x) = z
      BY <1>8 DEF Again
    <2>2. x.reg[CX] = c - l /\ x.reg[CX] # 0
      <3>1. CASE k = 1
        BY <1>5, <1>6, <3>1 DEF Counted
      <3>2. CASE k > 1
        BY <1>5, <1>6, <1>8, <3>2 DEF Counted, Stops
      <3>3. QED
        BY <1>6, <3>1, <3>2
    <2>3. y.reg[CX] = c - l
      BY <1>3, <2>2 DEF KeepsCount
    <2>4. IsMachine(y) /\ Keeps(n, y)
      BY <1>2, <1>3, KeepsMore, KeepsMachine DEF KeepsCount
    <2> HIDE DEF y
    <2>5. v = c - k
      BY <1>5, <1>6, <2>3
    <2>6. v \in Words16
      <3> DEFINE u == c - k
      <3>1. u \in Int /\ 0 <= u /\ u <= 65535
        BY <1>5, <1>6
      <3> HIDE DEF u
      <3>2. u \in Words16
        BY <3>1, WordsAre
      <3>3. QED
        BY <2>5, <3>2 DEF u
    <2> HIDE DEF v
    <2>7. Keeps(n, z)
      BY <2>4, <2>6, StringRegs, SetRegIs, KeepsMore
    <2>8. z.reg[CX] = v
      BY <2>4, StringRegs DEF IsMachine
    <2>9. QED
      BY <1>6, <2>1, <2>5, <2>7, <2>8 DEF Counted
  <1>9. QED
    BY <1>7, <1>8

(* Each element of the REP loop is one of the instruction's, and the loop  *)
(* is not left before it stops.                                            *)
LEMMA RepeatIs ==
  ASSUME NEW n, IsMachine(n), NEW d, IsInstr(d), d.op \in Kinds["string"], d.w = d.op % 2
  PROVE  Counted(n, d, n.reg[CX], Repeat(n, d))
  <1> DEFINE c == n.reg[CX]
  <1>1. PICK g : Runs(n, d, c, g) /\ Repeat(n, d) = g[c]
    BY RepeatRuns
  <1>2. c \in Nat
    <2>1. n.reg[CX] \in Words16
      BY StringRegs, RegIn
    <2> HIDE DEF c
    <2>2. c \in Words16 => c \in Nat
      BY WordInt
    <2>3. QED
      BY <2>1, <2>2 DEF c
  <1>3. g[0] = n /\ \A k \in 1..c : g[k] = Again(d, k, g[k - 1])
    <2>1. RunOf(n, d, c, g)
      BY <1>1, <1>2, RunsIs
    <2>2. QED
      BY <2>1 DEF RunOf
  <1> DEFINE Fails == {k \in 0..c : ~Counted(n, d, k, g[k])}
  <1>4. SUFFICES ASSUME Fails # {} PROVE FALSE
    BY <1>1, <1>2
  <1>5. PICK k \in Fails : \A i \in Fails : k <= i
    <2>1. Fails \subseteq Nat
      BY <1>2
    <2> HIDE DEF Fails
    <2>2. QED
      BY <1>4, <2>1, LeastNat
  <1>6. k \in 0..c /\ ~Counted(n, d, k, g[k])
    OBVIOUS
  <1>7. CASE k = 0
    <2>1. Counted(n, d, k, n)
      BY <1>7, KeepsSelf DEF Counted
    <2>2. QED
      BY <1>3, <1>6, <1>7, <2>1
  <1>8. CASE k # 0
    <2> DEFINE l == k - 1
    <2>1. k \in 1..c /\ l \in 0..c /\ l \notin Fails
      BY <1>2, <1>5, <1>6, <1>8
    <2>2. Counted(n, d, l, g[l])
      BY <2>1
    <2>3. g[k] = Again(d, k, g[l])
      BY <1>3, <2>1
    <2>4. l = k - 1
      OBVIOUS
    <2> HIDE DEF Fails, l
    <2>5. Counted(n, d, k, Again(d, k, g[l]))
      BY <2>1, <2>2, <2>4, AgainIs
    <2>6. QED
      BY <1>6, <2>3, <2>5
  <1>9. QED
    BY <1>7, <1>8

LEMMA StringIs ==
  ASSUME NEW n, IsMachine(n), NEW d, IsInstr(d), d.op \in Kinds["string"], d.w = d.op % 2
  PROVE  Keeps(n, String(n, d))
  BY RepeatIs, ElementIs DEF String, Counted, KeepsCount

-----------------------------------------------------------------------------
(* Prefixes, ports, the clock and the disks *)

(* The countdowns, before the instruction. *)
LEMMA CountDownIs ==
  ASSUME NEW n, IsMachine(n)
  PROVE  LET x == CountDown(n)
         IN  /\ IsMachine(x) /\ x.ip = n.ip /\ x.reg = n.reg /\ x.sreg = n.sreg /\ x.f = n.f
             /\ x.mem = n.mem /\ x.stop = n.stop
             /\ x.seg_override = n.seg_override /\ x.rep_mode = n.rep_mode
             /\ x.seg_override_en = (IF n.seg_override_en > 0 THEN n.seg_override_en - 1 ELSE 0)
             /\ x.rep_override_en = (IF n.rep_override_en > 0 THEN n.rep_override_en - 1 ELSE 0)
             /\ x.seg_override_en \in 0..1 /\ x.rep_override_en \in 0..1
  <1> DEFINE s == IF n.seg_override_en > 0 THEN n.seg_override_en - 1 ELSE n.seg_override_en
             r == IF n.rep_override_en > 0 THEN n.rep_override_en - 1 ELSE n.rep_override_en
             y == [n EXCEPT !.seg_override_en = s]
             x == [y EXCEPT !.rep_override_en = r]
  <1>1. /\ s = (IF n.seg_override_en > 0 THEN n.seg_override_en - 1 ELSE 0) /\ s \in 0..1
        /\ r = (IF n.rep_override_en > 0 THEN n.rep_override_en - 1 ELSE 0) /\ r \in 0..1
    BY MachineIs
  <1>2. s \in 0..2 /\ r \in 0..2
    BY <1>1
  <1>3. CountDown(n) = [n EXCEPT !.seg_override_en = s, !.rep_override_en = r]
    BY DEF CountDown
  <1> HIDE DEF s, r
  <1>4. /\ IsMachine(y) /\ y.ip = n.ip /\ y.reg = n.reg /\ y.sreg = n.sreg /\ y.f = n.f
        /\ y.mem = n.mem /\ y.stop = n.stop
        /\ y.seg_override = n.seg_override /\ y.rep_mode = n.rep_mode /\ y.seg_override_en = s
    BY <1>2 DEF IsMachine
  <1>5. CountDown(n) = x
    BY <1>3
  <1> HIDE DEF y
  <1>6. /\ IsMachine(x) /\ x.ip = y.ip /\ x.reg = y.reg /\ x.sreg = y.sreg /\ x.f = y.f
        /\ x.mem = y.mem /\ x.stop = y.stop
        /\ x.seg_override = y.seg_override /\ x.rep_mode = y.rep_mode
        /\ x.seg_override_en = y.seg_override_en /\ x.rep_override_en = r
    BY <1>2, <1>4 DEF IsMachine
  <1> HIDE DEF x
  <1>7. QED
    BY <1>1, <1>4, <1>5, <1>6

(* A prefix sets its own countdown and carries the other's over itself. *)
AfterSeg(n, s, x) ==
  /\ IsMachine(x) /\ x.ip = n.ip /\ x.f = n.f /\ x.stop = n.stop
  /\ x.seg_override_en = 2 /\ x.seg_override = s
  /\ x.rep_override_en = (IF n.rep_override_en > 0 THEN n.rep_override_en + 1 ELSE 0)
  /\ x.rep_mode = n.rep_mode

AfterRep(n, mode, x) ==
  /\ IsMachine(x) /\ x.ip = n.ip /\ x.f = n.f /\ x.stop = n.stop
  /\ x.rep_override_en = 2 /\ x.rep_mode = mode
  /\ x.seg_override_en = (IF n.seg_override_en > 0 THEN n.seg_override_en + 1 ELSE 0)
  /\ x.seg_override = n.seg_override

LEMMA PrefixIs ==
  ASSUME NEW n, IsMachine(n), n.seg_override_en \in 0..1, n.rep_override_en \in 0..1,
         NEW d, IsInstr(d)
  PROVE  IF d.kind = "seg" THEN AfterSeg(n, (d.op \div 8) % 4, Prefix(n, d))
         ELSE AfterRep(n, IF d.w = 1 THEN "repz" ELSE "repnz", Prefix(n, d))
  <1> DEFINE s == (d.op \div 8) % 4
             mode == IF d.w = 1 THEN "repz" ELSE "repnz"
             two == 2
             r == IF n.rep_override_en > 0 THEN n.rep_override_en + 1 ELSE n.rep_override_en
             q == IF n.seg_override_en > 0 THEN n.seg_override_en + 1 ELSE n.seg_override_en
  <1>1. s \in 0..3 /\ mode \in {"repnz", "repz"} /\ two \in 0..2
    BY InstrIs
  <1>2. /\ r = (IF n.rep_override_en > 0 THEN n.rep_override_en + 1 ELSE 0) /\ r \in 0..2
        /\ q = (IF n.seg_override_en > 0 THEN n.seg_override_en + 1 ELSE 0) /\ q \in 0..2
    OBVIOUS
  <1>3. Prefix(n, d) =
          IF d.kind = "seg"
            THEN [n EXCEPT !.seg_override_en = two, !.seg_override = s, !.rep_override_en = r]
            ELSE [n EXCEPT !.rep_override_en = two, !.rep_mode = mode, !.seg_override_en = q]
    BY DEF Prefix
  <1>4. two = 2
    OBVIOUS
  <1> HIDE DEF s, mode, two, r, q
  <1>5. CASE d.kind = "seg"
    <2> DEFINE a == [n EXCEPT !.seg_override_en = two]
               b == [a EXCEPT !.seg_override = s]
               x == [b EXCEPT !.rep_override_en = r]
    <2>1. /\ IsMachine(a) /\ a.ip = n.ip /\ a.f = n.f /\ a.stop = n.stop
          /\ a.seg_override_en = two /\ a.rep_mode = n.rep_mode
      BY <1>1 DEF IsMachine
    <2>2. Prefix(n, d) = x
      BY <1>3, <1>5
    <2> HIDE DEF a
    <2>3. /\ IsMachine(b) /\ b.ip = a.ip /\ b.f = a.f /\ b.stop = a.stop /\ b.seg_override = s
          /\ b.seg_override_en = a.seg_override_en /\ b.rep_mode = a.rep_mode
      BY <1>1, <2>1 DEF IsMachine
    <2> HIDE DEF b
    <2>4. /\ IsMachine(x) /\ x.ip = b.ip /\ x.f = b.f /\ x.stop = b.stop
          /\ x.seg_override = b.seg_override /\ x.seg_override_en = b.seg_override_en
          /\ x.rep_mode = b.rep_mode /\ x.rep_override_en = r
      BY <1>2, <2>3 DEF IsMachine
    <2> HIDE DEF x
    <2>5. AfterSeg(n, s, x)
      BY <1>2, <1>4, <2>1, <2>3, <2>4 DEF AfterSeg
    <2>6. QED
      BY <1>5, <2>2, <2>5 DEF s
  <1>6. CASE d.kind # "seg"
    <2> DEFINE a == [n EXCEPT !.rep_override_en = two]
               b == [a EXCEPT !.rep_mode = mode]
               x == [b EXCEPT !.seg_override_en = q]
    <2>1. /\ IsMachine(a) /\ a.ip = n.ip /\ a.f = n.f /\ a.stop = n.stop
          /\ a.rep_override_en = two /\ a.seg_override = n.seg_override
      BY <1>1 DEF IsMachine
    <2>2. Prefix(n, d) = x
      BY <1>3, <1>6
    <2> HIDE DEF a
    <2>3. /\ IsMachine(b) /\ b.ip = a.ip /\ b.f = a.f /\ b.stop = a.stop /\ b.rep_mode = mode
          /\ b.rep_override_en = a.rep_override_en /\ b.seg_override = a.seg_override
      BY <1>1, <2>1 DEF IsMachine
    <2> HIDE DEF b
    <2>4. /\ IsMachine(x) /\ x.ip = b.ip /\ x.f = b.f /\ x.stop = b.stop
          /\ x.seg_override = b.seg_override /\ x.rep_override_en = b.rep_override_en
          /\ x.rep_mode = b.rep_mode /\ x.seg_override_en = q
      BY <1>2, <2>3 DEF IsMachine
    <2> HIDE DEF x
    <2>5. AfterRep(n, mode, x)
      BY <1>2, <1>4, <2>1, <2>3, <2>4 DEF AfterRep
    <2>6. QED
      BY <1>6, <2>2, <2>5 DEF mode
  <1>7. QED
    BY <1>5, <1>6

(* Ports *)

LEMMA PortIs ==
  ASSUME NEW n, IsMachine(n), NEW p, p \in Int
  PROVE  Port(n, p) \in 0..255
  BY MachineIs DEF Port, Cells

LEMMA SetPortIs ==
  ASSUME NEW n, IsMachine(n), NEW p, p \in Int, NEW b, b \in 0..255
  PROVE  LET x == SetPort(n, p, b) IN Keeps(n, x) /\ x.reg = n.reg
  <1> DEFINE c == Over(Cell(p, b), n.io)
  <1>1. Cells(c)
    BY MachineIs, CellIs, OverIs
  <1>2. SetPort(n, p, b) = [n EXCEPT !.io = c]
    BY DEF SetPort
  <1> HIDE DEF c
  <1>3. Keeps(n, [n EXCEPT !.io = c])
    BY <1>1, SetIoIs
  <1>4. [n EXCEPT !.io = c].reg = n.reg
    BY DEF IsMachine
  <1>5. QED
    BY <1>2, <1>3, <1>4

LEMMA PortOfIs ==
  ASSUME NEW n, IsMachine(n), NEW d, IsInstr(d)
  PROVE  PortOf(n, d) \in Int
  <1>1. n.reg[DX] \in Int
    BY RegistersAre, RegIn, WordInt
  <1>2. AlOf(d.data0) \in 0..255
    BY InstrIs, WordIs DEF AlOf
  <1>3. QED
    BY <1>1, <1>2 DEF PortOf

LEMMA InPortIs ==
  ASSUME NEW n, IsMachine(n), NEW d, IsInstr(d)
  PROVE  Keeps(n, InPort(n, d))
  <1> DEFINE p == PortOf(n, d)
             p32 == 32
             p64 == 64
             p66 == 66
             pcga == \h3DA
             p100 == 100
             none == 0
             t == (Port(n, p64) - 1) % 256
             a == SetPort(n, p32, none)
             b == SetPort(a, p64, t)
             c == SetPort(b, p66, t)
             r == Xor(Port(n, pcga), 9, n.f, Byte).v
             q == SetPort(c, pcga, r)
             k == IF p = 96 THEN SetPort(q, p100, none) ELSE q
             v == Word(Port(k, p), Port(k, p + 1))
             al == Port(k, p)
  <1>1. p \in Int
    BY PortOfIs
  <1>2. /\ p32 \in Int /\ p64 \in Int /\ p66 \in Int /\ pcga \in Int /\ p100 \in Int
        /\ none \in 0..255
    OBVIOUS
  <1>3. InPort(n, d) = IF d.w = 1 THEN [k EXCEPT !.reg[AX] = v] ELSE SetAl(k, al)
    BY DEF InPort
  <1> HIDE DEF p, p32, p64, p66, pcga, p100, none
  <1>4. t \in 0..255
    <2>1. Port(n, p64) \in 0..255
      BY <1>2, PortIs
    <2>2. QED
      BY <2>1
  <1>5. r \in 0..255
    <2> DEFINE x == Port(n, pcga)
               y == 9
    <2>1. x \in Values(Byte) /\ y \in Values(Byte)
      BY <1>2, PortIs, ByteIs
    <2> HIDE DEF x, y
    <2>2. Result(n.f, Byte, Xor(x, y, n.f, Byte))
      BY <2>1, ByteIs, AlikeSelf, AndOrXorAre
    <2>3. QED
      BY <2>2, ByteIs DEF Result, x, y
  <1> HIDE DEF t, r
  <1>6. Keeps(n, a) /\ IsMachine(a)
    BY <1>2, SetPortIs, KeepsMachine
  <1> HIDE DEF a
  <1>7. Keeps(n, b) /\ IsMachine(b)
    BY <1>2, <1>4, <1>6, SetPortIs, KeepsMachine, KeepsMore
  <1> HIDE DEF b
  <1>8. Keeps(n, c) /\ IsMachine(c)
    BY <1>2, <1>4, <1>7, SetPortIs, KeepsMachine, KeepsMore
  <1> HIDE DEF c
  <1>9. Keeps(n, q) /\ IsMachine(q)
    BY <1>2, <1>5, <1>8, SetPortIs, KeepsMachine, KeepsMore
  <1> HIDE DEF q
  <1>10. Keeps(n, k) /\ IsMachine(k)
    <2>1. Keeps(q, SetPort(q, p100, none))
      BY <1>2, <1>9, SetPortIs
    <2>2. Keeps(n, SetPort(q, p100, none))
      BY <1>9, <2>1, KeepsMore
    <2>3. Keeps(n, k)
      BY <1>9, <2>2
    <2>4. QED
      BY <2>3, KeepsMachine
  <1> HIDE DEF k
  <1>11. al \in 0..255 /\ Port(k, p + 1) \in 0..255
    BY <1>1, <1>10, PortIs
  <1>12. v \in Words16
    BY <1>11, WordIn
  <1> HIDE DEF v, al
  <1>13. Keeps(k, [k EXCEPT !.reg[AX] = v]) /\ Keeps(k, SetAl(k, al))
    BY <1>10, <1>11, <1>12, RegistersAre, SetRegIs, SetAlIs
  <1>14. QED
    BY <1>3, <1>10, <1>13, KeepsMore

LEMMA OutPortIs ==
  ASSUME NEW n, IsMachine(n), NEW d, IsInstr(d)
  PROVE  Keeps(n, OutPort(n, d))
  <1> DEFINE p == PortOf(n, d)
             p1 == p + 1
             al == AlOf(n.reg[AX])
             ah == AhOf(n.reg[AX])
             a == SetPort(n, p, al)
             k == IF d.w = 1 THEN SetPort(a, p1, ah) ELSE a
             high == 1 - n.pit_lobyte_pending
             at == \h469 + p - high
             rate == p \in {64, 66} /\ (Port(k, 67) \div 2) % 4 # 0
             y == [k EXCEPT !.pit_lobyte_pending = high]
  <1>1. p \in Int /\ p1 \in Int
    BY PortOfIs
  <1>2. high \in 0..1
    BY MachineIs
  <1>3. OutPort(n, d) = IF rate THEN Poke(y, at, al) ELSE k
    BY DEF OutPort
  <1>4. at \in Int
    BY <1>1, <1>2
  <1>5. al \in 0..255 /\ ah \in 0..255
    BY RegistersAre, AlIs
  <1> HIDE DEF p, p1, al, ah, high, rate
  <1>6. Keeps(n, a) /\ IsMachine(a)
    BY <1>1, <1>5, SetPortIs, KeepsMachine
  <1> HIDE DEF a, at
  <1>7. Keeps(n, k) /\ IsMachine(k)
    <2>1. Keeps(a, SetPort(a, p1, ah))
      BY <1>1, <1>5, <1>6, SetPortIs
    <2>2. Keeps(n, SetPort(a, p1, ah))
      BY <1>6, <2>1, KeepsMore
    <2>3. Keeps(n, k)
      BY <1>6, <2>2
    <2>4. QED
      BY <2>3, KeepsMachine
  <1> HIDE DEF k
  <1>8. Keeps(k, y) /\ IsMachine(y)
    BY <1>2, <1>7 DEF Keeps, SameMode, SamePrefixes, IsMachine
  <1> HIDE DEF y
  <1>9. Keeps(y, Poke(y, at, al))
    BY <1>4, <1>5, <1>8, PokeIs DEF OnlyMem
  <1>10. Keeps(n, Poke(y, at, al))
    BY <1>7, <1>8, <1>9, KeepsMore
  <1>11. QED
    BY <1>3, <1>7, <1>10

(* A block of memory or of a disk image written over. *)
LEMMA OverMem ==
  ASSUME NEW n, IsMachine(n), NEW c, Cells(c)
  PROVE  Keeps(n, [n EXCEPT !.mem = Over(c, @)])
  <1> DEFINE o == Over(c, n.mem)
  <1>1. Cells(o)
    BY MachineIs, OverIs
  <1> HIDE DEF o
  <1>2. Keeps(n, [n EXCEPT !.mem = o])
    BY <1>1, SetMemIs
  <1>3. QED
    BY <1>2 DEF o

LEMMA TimeIs ==
  /\ Time.s \in 0..255 /\ Time.min \in 0..255 /\ Time.h \in 0..255
  /\ Time.ms % 256 \in 0..255 /\ Time.ms \div 256 \in 0..255
  <1>1. Time.s \in 0..60 /\ Time.min \in 0..59 /\ Time.h \in 0..23 /\ Time.ms \in 0..999
    <2>1. Time \in [s : 0..60, min : 0..59, h : 0..23, ms : 0..999]
      BY GuestAssumption, Zenon
    <2>2. QED
      BY <2>1
  <1> DEFINE ms == Time.ms
  <1>2. ms \in 0..999
    BY <1>1
  <1> HIDE DEF ms
  <1>3. ms % 256 \in 0..255 /\ ms \div 256 \in 0..255
    BY <1>2
  <1>4. QED
    BY <1>1, <1>3 DEF ms

LEMMA GetRtcIs ==
  ASSUME NEW n, IsMachine(n)
  PROVE  Keeps(n, GetRtc(n))
  <1> DEFINE at == Linear(n.sreg[ES], n.reg[BX])
             T(a) == CASE a = at -> Time.s [] a = at + 4 -> Time.min [] a = at + 8 -> Time.h
                       [] a = at + 36 -> Time.ms % 256 [] a = at + 37 -> Time.ms \div 256
                       [] OTHER -> 0
             tm == [a \in at..at + 37 |-> T(a)]
  <1>1. at \in Int
    BY RegistersAre, RegIn, SegIn, AddressIs
  <1>2. GetRtc(n) = [n EXCEPT !.mem = Over(tm, @)]
    BY DEF GetRtc
  <1> HIDE DEF at
  <1>3. \A a : T(a) \in 0..255
    BY TimeIs
  <1> HIDE DEF T
  <1>4. Cells(tm)
    BY <1>1, <1>3 DEF Cells
  <1> HIDE DEF tm
  <1>5. QED
    BY <1>2, <1>4, OverMem

LEMMA StoredIs ==
  ASSUME NEW img, Cells(img), NEW o
  PROVE  Stored(img, o) \in 0..255
  BY DEF Stored, Cells

LEMMA DiskDoneIs ==
  ASSUME NEW n, IsMachine(n), NEW ok
  PROVE  Keeps(n, DiskDone(n, ok))
  <1> DEFINE v == IF ok THEN AlOf(n.reg[AX]) ELSE 0
  <1>1. v \in 0..255
    BY RegistersAre, AlIs
  <1> HIDE DEF v
  <1>2. Keeps(n, SetAl(n, v))
    BY <1>1, SetAlIs
  <1>3. QED
    BY <1>2 DEF DiskDone, v

LEMMA DiskReadIs ==
  ASSUME NEW n, IsMachine(n), NEW drive, Cells(disk[drive]), NEW k, k \in Int
  PROVE  Keeps(n, DiskRead(n, drive, k))
  <1> DEFINE at == Linear(n.sreg[ES], n.reg[BX])
             off == n.reg[BP] * 512
             S(a) == Stored(disk[drive], off + a - at)
             c == [a \in at..at + k - 1 |-> S(a)]
  <1>1. at \in Int
    BY RegistersAre, RegIn, SegIn, AddressIs
  <1>2. DiskRead(n, drive, k) = [n EXCEPT !.mem = Over(c, @)]
    BY DEF DiskRead, Bytes
  <1> HIDE DEF at, off
  <1>3. \A a : S(a) \in 0..255
    BY StoredIs
  <1> HIDE DEF S
  <1>4. Cells(c)
    BY <1>1, <1>3 DEF Cells
  <1> HIDE DEF c
  <1>5. QED
    BY <1>2, <1>4, OverMem

LEMMA DiskWriteIs ==
  ASSUME NEW n, IsMachine(n), NEW drive, drive \in DOMAIN disk, NEW k, k \in Int,
         \A x \in DOMAIN disk : Cells(disk[x])
  PROVE  LET e == DiskWrite(n, drive, k)
         IN  DOMAIN e = DOMAIN disk /\ \A x \in DOMAIN disk : Cells(e[x])
  <1> DEFINE at == Linear(n.sreg[ES], n.reg[BX])
             off == n.reg[BP] * 512
             S(o) == Peek(n, at + o - off)
             c == [o \in off..off + k - 1 |-> S(o)]
             v == Over(c, disk[drive])
  <1>1. at \in Int /\ off \in Int
    <2>1. n.reg[BP] \in Int /\ Linear(n.sreg[ES], n.reg[BX]) \in Int
      BY RegistersAre, RegIn, SegIn, AddressIs, WordInt
    <2>2. QED
      BY <2>1
  <1>2. DiskWrite(n, drive, k) = [disk EXCEPT ![drive] = v]
    BY DEF DiskWrite, Bytes
  <1> HIDE DEF at, off
  <1>3. \A o \in Int : S(o) \in 0..255
    BY <1>1, PeekByte
  <1> HIDE DEF S
  <1>4. Cells(c)
    BY <1>1, <1>3 DEF Cells
  <1> HIDE DEF c
  <1>5. Cells(v)
    BY <1>4, OverIs
  <1> HIDE DEF v
  <1>6. QED
    BY <1>2, <1>5

(* The far CALL. *)
LEMMA CallFarIs ==
  ASSUME NEW n, IsMachine(n), NEW d, IsInstr(d)
  PROVE  Leaves(n, Far(PushFarReturn(n, d), d.data0, d.data2))
  <1> DEFINE c == PushFarReturn(n, d)
  <1>1. Keeps(n, c)
    BY PushReturnIs
  <1> HIDE DEF c
  <1>2. Leaves(c, Far(c, d.data0, d.data2)) /\ Leaves(n, c)
    BY <1>1, KeepsMachine, KeepsLeaves, InstrIs, FarLeaves
  <1>3. QED
    BY <1>2, LeavesMore DEF c

-----------------------------------------------------------------------------
(* A step. The machine that the instruction finds, the instruction, and the *)
(* machine at the one after it, as they are before the step.                *)

Ready == CountDown(m)
This == Instruction(CountDown(m))
Ahead == Advance(CountDown(m), Instruction(CountDown(m)))

LEMMA AheadIs ==
  ASSUME NEW n, IsMachine(n), NEW d, IsInstr(d)
  PROVE  LET a == Advance(n, d)
         IN  /\ IsMachine(a) /\ SameMode(n, a) /\ a.ip = Wrap16(Past(n, d))
             /\ a.sreg = n.sreg /\ a.f = n.f /\ a.reg = n.reg /\ a.mem = n.mem
  <1> DEFINE p == Past(n, d)
  <1>1. p \in Int /\ Advance(n, d) = Go(n, p)
    BY PastIs DEF Advance
  <1> HIDE DEF p
  <1>2. QED
    BY <1>1, GoIs DEF p

(* What an instruction does to the mode of the machine, it does before IP   *)
(* moves on as after.                                                       *)
AfterHlt(n, x) ==
  IsMachine(x) /\ x.ip = n.ip /\ x.f = n.f /\ SamePrefixes(n, x) /\ x.stop = "halted"

LEMMA AdvanceAfter ==
  ASSUME NEW n, IsMachine(n), NEW d, IsInstr(d), NEW x, IsMachine(x), x.ip = n.ip
  PROVE  LET a == Advance(n, d)
             y == Advance(x, d)
         IN  /\ IsMachine(y) /\ y.ip = a.ip /\ SameMode(x, y) /\ y.f = x.f
             /\ SameMode(n, a) /\ a.f = n.f
  <1>1. Past(x, d) = Past(n, d)
    BY DEF Past
  <1>2. QED
    BY <1>1, AheadIs

LEMMA AdvanceKeeps ==
  ASSUME NEW n, IsMachine(n), NEW d, IsInstr(d), NEW x
  PROVE  /\ Keeps(n, x) => Keeps(Advance(n, d), Advance(x, d))
         /\ Moves(n, x) => Moves(Advance(n, d), Advance(x, d))
         /\ AfterLea(n, x) => AfterLea(Advance(n, d), Advance(x, d))
         /\ AfterHlt(n, x) => AfterHlt(Advance(n, d), Advance(x, d))
         /\ \A s : AfterSeg(n, s, x) => AfterSeg(Advance(n, d), s, Advance(x, d))
         /\ \A mode : AfterRep(n, mode, x) => AfterRep(Advance(n, d), mode, Advance(x, d))
  <1> DEFINE a == Advance(n, d)
             y == Advance(x, d)
  <1>1. ASSUME IsMachine(x), x.ip = n.ip
        PROVE  /\ IsMachine(y) /\ y.ip = a.ip /\ SameMode(x, y) /\ y.f = x.f
               /\ SameMode(n, a) /\ a.f = n.f
    BY <1>1, AdvanceAfter
  <1> HIDE DEF a, y
  <1>2. Keeps(n, x) => Keeps(a, y)
    BY <1>1 DEF Keeps, SameMode, SamePrefixes
  <1>3. Moves(n, x) => Moves(a, y)
    BY <1>1 DEF Moves, SameMode, SamePrefixes
  <1>4. AfterLea(n, x) => AfterLea(a, y)
    BY <1>1 DEF AfterLea, SameMode, SamePrefixes
  <1>5. AfterHlt(n, x) => AfterHlt(a, y)
    BY <1>1 DEF AfterHlt, SameMode, SamePrefixes
  <1>6. \A s : AfterSeg(n, s, x) => AfterSeg(a, s, y)
    BY <1>1 DEF AfterSeg, SameMode, SamePrefixes
  <1>7. \A mode : AfterRep(n, mode, x) => AfterRep(a, mode, y)
    BY <1>1 DEF AfterRep, SameMode, SamePrefixes
  <1>8. QED
    BY <1>2, <1>3, <1>4, <1>5, <1>6, <1>7 DEF a, y

LEMMA ReachesAhead ==
  ASSUME NEW n, IsMachine(n), NEW d, IsInstr(d), NEW x, Reaches(n, Wrap16(Past(n, d)), x)
  PROVE  Keeps(Advance(n, d), x)
  <1> DEFINE a == Advance(n, d)
  <1>1. a.ip = Wrap16(Past(n, d)) /\ SameMode(n, a) /\ a.f = n.f
    BY AheadIs
  <1> HIDE DEF a
  <1>2. Keeps(a, x)
    BY <1>1 DEF Reaches, Keeps, SameMode, SamePrefixes
  <1>3. QED
    BY <1>2 DEF a

LEMMA LeavesAhead ==
  ASSUME NEW n, IsMachine(n), NEW d, IsInstr(d), NEW x, Leaves(n, x)
  PROVE  Leaves(Advance(n, d), x)
  <1> DEFINE a == Advance(n, d)
  <1>1. SameMode(n, a) /\ a.f = n.f
    BY AheadIs
  <1> HIDE DEF a
  <1>2. Leaves(a, x)
    BY <1>1 DEF Leaves, SameMode, SamePrefixes
  <1>3. QED
    BY <1>2 DEF a

(* What can become of the machine in a step, by the opcode: a is the machine *)
(* at the instruction after d.                                               *)
Jumped(a, d, x) ==
  /\ Leaves(a, x)
  /\ \/ /\ d.kind \in {"jcc", "loop"}
        /\ x.ip \in {Wrap16(a.ip + Rel8(d)), a.ip}
     \/ /\ d.kind = "jump"
        /\ d.op = \hE8 => x.ip = Wrap16(a.ip + d.data0) /\ Top(x) = a.ip
        /\ d.op = \hE9 => x.ip = Wrap16(a.ip + d.data0)
        /\ d.op = \hEB => x.ip = Wrap16(a.ip + Rel8(d))
     \/ d.kind = "group5" /\ d.reg \in 2..5 /\ (d.reg \in {2, 3} => Top(x) = a.ip)
     \/ d.kind \in {"ret", "callFar"}

Divides(d) == d.op = \hD4 \/ (d.kind = "group3" /\ d.reg \in {6, 7})

Trapped(a, d, x) ==
  \/ d.op = \hCC /\ Interrupted(a, 3, x)
  \/ d.op = \hCD /\ Interrupted(a, AlOf(d.data0), x)
  \/ d.op = \hCE /\ a.f.o /\ Interrupted(a, 4, x)
  \/ Divides(d) /\ Interrupted(a, 0, x)

Ordinary(a, d) ==
  /\ d.kind \notin {"jcc", "loop", "jump", "ret", "callFar"}
  /\ d.kind = "group5" => d.reg \notin 2..5
  /\ d.kind = "int" => d.op = \hCE /\ ~a.f.o

Outcome(a, d, x) ==
  \/ IsMachine(x) /\ x.stop = "killed"
  \/ Ordinary(a, d) /\ Keeps(a, x)
  \/ d.op \in {\h9D, \hFA, \hFB} /\ Moves(a, x)
  \/ d.op = \h8D /\ AfterLea(a, x)
  \/ d.kind = "hlt" /\ AfterHlt(a, x)
  \/ d.kind = "seg" /\ AfterSeg(a, (d.op \div 8) % 4, x)
  \/ d.kind = "rep" /\ AfterRep(a, IF d.w = 1 THEN "repz" ELSE "repnz", x)
  \/ Trapped(a, d, x)
  \/ Jumped(a, d, x)
  \/ d.op = \hCF /\ IsMachine(x) /\ SameMode(a, x)

LEMMA OutcomeMachine ==
  ASSUME NEW a, NEW d, NEW x, Outcome(a, d, x)
  PROVE  IsMachine(x)
  BY DEF Outcome, Keeps, Moves, AfterLea, AfterHlt, AfterSeg, AfterRep, Trapped, Interrupted,
         Jumped, Leaves

(* The instruction is the one that the guard looks at. *)
LEMMA ThisIs ==
  ASSUME IsMachine(m), NEW kinds, NEW ops, Next8086(kinds, ops)
  PROVE  /\ IsMachine(Ready) /\ IsInstr(This) /\ Fields(m, This) /\ Fields(Ready, This)
         /\ This.len = Length(Decode(Ready))
         /\ This.kind \in kinds /\ (This.kind \in {"group3", "group5"} => This.reg \in ops)
         /\ This.op \in {\h8C, \h8E} => This.reg <= DS
         /\ This.op \in 0..255 /\ This.op \in Kinds[This.kind]
         /\ Ready.seg_override_en \in 0..1 /\ Ready.rep_override_en \in 0..1
         /\ Ahead = Advance(Ready, This)
  <1>1. /\ IsMachine(Ready) /\ Ready.ip = m.ip /\ Ready.sreg = m.sreg /\ Ready.mem = m.mem
        /\ Ready.seg_override_en \in 0..1 /\ Ready.rep_override_en \in 0..1
    BY CountDownIs DEF Ready
  <1>2. IsInstr(This) /\ Fields(Ready, This) /\ This.len = Length(Decode(Ready))
    BY <1>1, InstructionIs DEF This, Ready
  <1>3. \A k : Fetch(Ready, k) = Fetch(m, k)
    BY <1>1 DEF Fetch, Peek
  <1>4. Fields(m, This)
    BY <1>2, <1>3 DEF Fields, Fetch16
  <1> DEFINE e == Decode(m)
  <1>5. Fields(m, e)
    BY DecodeIs
  <1>6. /\ e.kind \in kinds /\ (e.kind \in {"group3", "group5"} => e.reg \in ops)
        /\ e.op \in {\h8C, \h8E} => e.reg <= DS
    BY DEF Next8086
  <1> HIDE DEF e
  <1>7. This.kind = e.kind /\ This.op = e.op /\ This.reg = e.reg
    BY <1>4, <1>5 DEF Fields
  <1>8. This.op \in 0..255 /\ This.op \in Kinds[This.kind]
    BY <1>1, <1>2, OpIs
  <1>9. QED
    BY <1>1, <1>2, <1>4, <1>6, <1>7, <1>8 DEF Ahead, Ready, This

LEMMA TransferStep ==
  ASSUME IsMachine(m), Transfer
  PROVE  Outcome(Ahead, This, m')
  <1> DEFINE kinds == {"mov", "movImm", "movRegImm", "moffs", "xchg", "xchgAx", "farLoad", "xlat",
                       "convert", "salc", "segLea"}
             x == Mov(Ready, This)
  <1>1. Next8086(kinds, {})
    BY DEF Transfer
  <1>2. /\ IsMachine(Ready) /\ IsInstr(This) /\ This.kind \in kinds /\ This.op \in Kinds[This.kind]
        /\ This.op \in {\h8C, \h8E} => This.reg <= DS
        /\ This.op = Fetch(m, 0) /\ Ahead = Advance(Ready, This)
    BY <1>1, ThisIs DEF Fields
  <1>3. This.op # \h8F
    BY <1>2 DEF Transfer
  <1>4. m' = Advance(x, This)
    BY DEF Transfer, Then, Ready, This
  <1>5. IF This.op = \h8D THEN AfterLea(Ready, x) ELSE Keeps(Ready, x)
    BY <1>2, <1>3, MovIs
  <1>6. Ordinary(Ahead, This)
    BY <1>2 DEF Ordinary
  <1> HIDE DEF x, kinds
  <1>7. IF This.op = \h8D THEN AfterLea(Ahead, m') ELSE Keeps(Ahead, m')
    BY <1>2, <1>4, <1>5, AdvanceKeeps
  <1>8. QED
    BY <1>6, <1>7 DEF Outcome

LEMMA PushPopStep ==
  ASSUME IsMachine(m), PushPop
  PROVE  Outcome(Ahead, This, m')
  <1> DEFINE kinds == {"pushReg", "popReg", "pushSeg", "popSeg", "segLea", "flagsReg", "group5"}
             x == Stack(Ready, This)
  <1>1. Next8086(kinds, {6})
    BY DEF PushPop
  <1>2. /\ IsMachine(Ready) /\ IsInstr(This) /\ This.kind \in kinds /\ This.op \in Kinds[This.kind]
        /\ This.kind = "group5" => This.reg \in {6}
        /\ This.op = Fetch(m, 0) /\ Ahead = Advance(Ready, This)
    BY <1>1, ThisIs DEF Fields
  <1>3. This.op \notin \h8C..\h8E
    BY <1>2 DEF PushPop
  <1>4. m' = Advance(x, This)
    BY DEF PushPop, Then, Ready, This
  <1>5. IF This.op = \h9D THEN Moves(Ready, x) ELSE Keeps(Ready, x)
    BY <1>2, <1>3, StackIs
  <1>6. Ordinary(Ahead, This)
    BY <1>2 DEF Ordinary
  <1> HIDE DEF x, kinds
  <1>7. IF This.op = \h9D THEN Moves(Ahead, m') ELSE Keeps(Ahead, m')
    BY <1>2, <1>4, <1>5, AdvanceKeeps
  <1>8. QED
    BY <1>6, <1>7 DEF Outcome

LEMMA ComputeStep ==
  ASSUME IsMachine(m), Compute
  PROVE  Outcome(Ahead, This, m')
  <1> DEFINE kinds == {"alu", "aluAcc", "aluImm", "test", "testAcc", "incDec", "shift", "cmc", "flag",
                       "group3", "group5"}
             ops == IF Kind[Fetch(m, 0)] = "group3" THEN 0..3 ELSE 0..1
             x == Arithmetic(Ready, This)
  <1>1. Next8086(kinds, ops)
    BY DEF Compute
  <1> HIDE DEF ops
  <1>2. /\ IsMachine(Ready) /\ IsInstr(This) /\ This.kind \in kinds /\ This.op \in Kinds[This.kind]
        /\ This.kind \in {"group3", "group5"} => This.reg \in ops
        /\ This.kind = Kind[Fetch(m, 0)] /\ Ahead = Advance(Ready, This)
    BY <1>1, ThisIs DEF Fields
  <1>3. /\ This.kind = "group3" => This.reg \in 0..3
        /\ This.kind = "group5" => This.reg \in 0..1
    BY <1>2 DEF ops
  <1>4. m' = Advance(x, This)
    BY DEF Compute, Then, Ready, This
  <1>5. IF This.op \in {\hFA, \hFB} THEN Moves(Ready, x) ELSE Keeps(Ready, x)
    BY <1>2, <1>3, ArithmeticIs
  <1>6. Ordinary(Ahead, This)
    BY <1>2, <1>3 DEF Ordinary
  <1> HIDE DEF x, kinds
  <1>7. IF This.op \in {\hFA, \hFB} THEN Moves(Ahead, m') ELSE Keeps(Ahead, m')
    BY <1>2, <1>4, <1>5, AdvanceKeeps
  <1>8. QED
    BY <1>6, <1>7 DEF Outcome

LEMMA MultiplyDivideStep ==
  ASSUME IsMachine(m), MultiplyDivide
  PROVE  Outcome(Ahead, This, m')
  <1>1. Next8086({"group3"}, 4..7)
    BY DEF MultiplyDivide, Do
  <1>2. /\ IsMachine(Ready) /\ IsInstr(This) /\ This.kind = "group3" /\ This.reg \in 4..7
        /\ Ahead = Advance(Ready, This)
    BY <1>1, ThisIs
  <1>3. m' \in {Unpair(Ready, This, This.w, x) : x \in Products(Ready, This)}
    BY DEF MultiplyDivide, Do, Ready, This
  <1>4. PICK x \in Products(Ready, This) : m' = Unpair(Ready, This, This.w, x)
    BY <1>3
  <1>5. \/ This.reg \in {6, 7} /\ Interrupted(Ahead, 0, m')
        \/ IsMachine(m') /\ m'.stop = "killed"
        \/ Reaches(Ready, Wrap16(Past(Ready, This)), m')
    BY <1>2, <1>4, ProductsAre
  <1>6. Ordinary(Ahead, This)
    BY <1>2 DEF Ordinary
  <1>7. CASE This.reg \in {6, 7} /\ Interrupted(Ahead, 0, m')
    BY <1>2, <1>7 DEF Outcome, Trapped, Divides
  <1>8. CASE IsMachine(m') /\ m'.stop = "killed"
    BY <1>8 DEF Outcome
  <1>9. CASE Reaches(Ready, Wrap16(Past(Ready, This)), m')
    <2>1. Keeps(Ahead, m')
      BY <1>2, <1>9, ReachesAhead
    <2>2. QED
      BY <1>6, <2>1 DEF Outcome
  <1>10. QED
    BY <1>5, <1>7, <1>8, <1>9

LEMMA DecimalStep ==
  ASSUME IsMachine(m), Decimal
  PROVE  Outcome(Ahead, This, m')
  <1>1. Next8086({"decimal"}, {})
    BY DEF Decimal, Do
  <1>2. /\ IsMachine(Ready) /\ IsInstr(This) /\ This.kind = "decimal"
        /\ This.op \in Kinds[This.kind] /\ Ahead = Advance(Ready, This)
    BY <1>1, ThisIs
  <1>3. This.op \in {\h27, \h2F, \h37, \h3F, \hD4, \hD5}
    BY <1>2, KindsAre
  <1>4. m' = Unpair(Ready, This, 0, Adjusted(Ready, This))
    BY DEF Decimal, Do, Ready, This
  <1>5. \/ This.op = \hD4 /\ Interrupted(Ahead, 0, m')
        \/ IsMachine(m') /\ m'.stop = "killed"
        \/ Reaches(Ready, Wrap16(Past(Ready, This)), m')
    BY <1>2, <1>3, <1>4, AdjustedIs
  <1>6. Ordinary(Ahead, This)
    BY <1>2 DEF Ordinary
  <1>7. CASE This.op = \hD4 /\ Interrupted(Ahead, 0, m')
    BY <1>7 DEF Outcome, Trapped, Divides
  <1>8. CASE IsMachine(m') /\ m'.stop = "killed"
    BY <1>8 DEF Outcome
  <1>9. CASE Reaches(Ready, Wrap16(Past(Ready, This)), m')
    <2>1. Keeps(Ahead, m')
      BY <1>2, <1>9, ReachesAhead
    <2>2. QED
      BY <1>6, <2>1 DEF Outcome
  <1>10. QED
    BY <1>5, <1>7, <1>8, <1>9

LEMMA StringsStep ==
  ASSUME IsMachine(m), Strings
  PROVE  Outcome(Ahead, This, m')
  <1> DEFINE x == String(Ready, This)
  <1>1. Next8086({"string"}, {})
    BY DEF Strings
  <1>2. /\ IsMachine(Ready) /\ IsInstr(This) /\ This.kind = "string"
        /\ This.op \in Kinds["string"] /\ This.w = This.op % 2 /\ Ahead = Advance(Ready, This)
    BY <1>1, ThisIs DEF Fields
  <1>3. m' = Advance(x, This)
    BY DEF Strings, Then, Ready, This
  <1>4. Keeps(Ready, x)
    BY <1>2, StringIs
  <1>5. Ordinary(Ahead, This)
    BY <1>2 DEF Ordinary
  <1> HIDE DEF x
  <1>6. Keeps(Ahead, m')
    BY <1>2, <1>3, <1>4, AdvanceKeeps
  <1>7. QED
    BY <1>5, <1>6 DEF Outcome

LEMMA PrefixesStep ==
  ASSUME IsMachine(m), Prefixes
  PROVE  Outcome(Ahead, This, m')
  <1> DEFINE x == Prefix(Ready, This)
             s == (This.op \div 8) % 4
             mode == IF This.w = 1 THEN "repz" ELSE "repnz"
  <1>1. Next8086({"seg", "rep"}, {})
    BY DEF Prefixes
  <1>2. /\ IsMachine(Ready) /\ IsInstr(This) /\ This.kind \in {"seg", "rep"}
        /\ Ready.seg_override_en \in 0..1 /\ Ready.rep_override_en \in 0..1
        /\ Ahead = Advance(Ready, This)
    BY <1>1, ThisIs
  <1>3. m' = Advance(x, This)
    BY DEF Prefixes, Then, Ready, This
  <1>4. IF This.kind = "seg" THEN AfterSeg(Ready, s, x) ELSE AfterRep(Ready, mode, x)
    BY <1>2, PrefixIs
  <1> HIDE DEF x, s, mode
  <1>5. IF This.kind = "seg" THEN AfterSeg(Ahead, s, m') ELSE AfterRep(Ahead, mode, m')
    BY <1>2, <1>3, <1>4, AdvanceKeeps
  <1>6. QED
    BY <1>2, <1>5 DEF Outcome, s, mode

LEMMA PortsStep ==
  ASSUME IsMachine(m), Ports
  PROVE  Outcome(Ahead, This, m')
  <1> DEFINE x == IF This.kind = "in" THEN InPort(Ready, This) ELSE OutPort(Ready, This)
  <1>1. Next8086({"in", "out"}, {})
    BY DEF Ports, Then
  <1>2. /\ IsMachine(Ready) /\ IsInstr(This) /\ This.kind \in {"in", "out"}
        /\ Ahead = Advance(Ready, This)
    BY <1>1, ThisIs
  <1>3. m' = Advance(x, This)
    BY DEF Ports, Then, Ready, This
  <1>4. Keeps(Ready, x)
    BY <1>2, InPortIs, OutPortIs
  <1>5. Ordinary(Ahead, This)
    BY <1>2 DEF Ordinary
  <1> HIDE DEF x
  <1>6. Keeps(Ahead, m')
    BY <1>2, <1>3, <1>4, AdvanceKeeps
  <1>7. QED
    BY <1>5, <1>6 DEF Outcome

LEMMA IdleStep ==
  ASSUME IsMachine(m), Idle
  PROVE  Outcome(Ahead, This, m')
  <1> DEFINE h == [Ready EXCEPT !.stop = "halted"]
             x == IF This.kind = "hlt" THEN h ELSE Ready
  <1>1. Next8086({"hlt", "ignored", "bios", "group5"}, {7})
    BY DEF Idle, Then
  <1>2. /\ IsMachine(Ready) /\ IsInstr(This)
        /\ This.kind \in {"hlt", "ignored", "bios", "group5"}
        /\ This.kind = "group5" => This.reg \in {7}
        /\ Ahead = Advance(Ready, This)
    BY <1>1, ThisIs
  <1>3. m' = Advance(x, This)
    BY DEF Idle, Then, Ready, This
  <1>4. AfterHlt(Ready, h)
    BY <1>2 DEF AfterHlt, IsMachine, SamePrefixes
  <1>5. Ordinary(Ahead, This)
    BY <1>2 DEF Ordinary
  <1> HIDE DEF h
  <1>6. IF This.kind = "hlt" THEN AfterHlt(Ready, x) ELSE Keeps(Ready, x)
    BY <1>2, <1>4, KeepsSelf
  <1> HIDE DEF x
  <1>7. IF This.kind = "hlt" THEN AfterHlt(Ahead, m') ELSE Keeps(Ahead, m')
    BY <1>2, <1>3, <1>6, AdvanceKeeps
  <1>8. QED
    BY <1>5, <1>7 DEF Outcome

LEMMA ClockStep ==
  ASSUME IsMachine(m), Clock
  PROVE  Outcome(Ahead, This, m')
  <1> DEFINE x == GetRtc(Ready)
  <1>1. Next8086({"bios"}, {})
    BY DEF Clock, Then
  <1>2. IsMachine(Ready) /\ IsInstr(This) /\ This.kind = "bios" /\ Ahead = Advance(Ready, This)
    BY <1>1, ThisIs
  <1>3. m' = Advance(x, This)
    BY DEF Clock, Then, Ready, This
  <1>4. Keeps(Ready, x)
    BY <1>2, GetRtcIs
  <1>5. Ordinary(Ahead, This)
    BY <1>2 DEF Ordinary
  <1> HIDE DEF x
  <1>6. Keeps(Ahead, m')
    BY <1>2, <1>3, <1>4, AdvanceKeeps
  <1>7. QED
    BY <1>5, <1>6 DEF Outcome

LEMMA RelOfWrap ==
  ASSUME NEW p, p \in Int, NEW r, r \in Int
  PROVE  Wrap16(Wrap16(p) + r) = Wrap16(p + r)
  BY DEF Wrap16

LEMMA JumpsStep ==
  ASSUME IsMachine(m), Jumps
  PROVE  Outcome(Ahead, This, m')
  <1> DEFINE kinds == {"jcc", "loop", "jump", "callFar", "ret", "int", "group5"}
             p == Past(Ready, This)
             taken == Condition(Ready.f, This.op % 16)
             near == Branch(Ready, This, taken)
  <1>1. Next8086(kinds, 2..5)
    BY DEF Jumps, Do
  <1>2. /\ IsMachine(Ready) /\ IsInstr(This) /\ This.kind \in kinds
        /\ This.kind = "group5" => This.reg \in 2..5
        /\ This.op \in Kinds[This.kind] /\ Ahead = Advance(Ready, This)
    BY <1>1, ThisIs
  <1>3. m' = CASE This.kind = "jcc"  -> near
               [] This.kind = "loop" -> Loop(Ready, This)
               [] This.kind = "jump" -> Jump(Ready, This)
               [] This.kind = "ret"  -> Ret(Ready, This)
               [] This.kind = "int"  -> Trapping(Ready, This)
               [] This.kind = "callFar" -> Far(PushFarReturn(Ready, This), This.data0, This.data2)
               [] This.kind = "group5"  -> Indirect(Ready, This)
    BY DEF Jumps, Do, Ready, This
  <1>4. /\ Ahead.ip = Wrap16(p) /\ p \in Int /\ Rel8(This) \in Int /\ This.data0 \in Int
        /\ Ahead.f = Ready.f /\ SameMode(Ready, Ahead) /\ IsMachine(Ahead)
    BY <1>2, AheadIs, PastIs, Rel8Is, InstrIs, WordInt
  <1>5. /\ Wrap16(Ahead.ip + Rel8(This)) = Wrap16(p + Rel8(This))
        /\ Wrap16(Ahead.ip + This.data0) = Wrap16(p + This.data0)
    BY <1>4, RelOfWrap
  <1>6. \A x : Leaves(Ready, x) => Leaves(Ahead, x)
    BY <1>2, LeavesAhead
  <1>7. CASE This.kind = "jcc"
    <2> HIDE DEF taken
    <2>1. m' = near
      BY <1>3, <1>7
    <2>2. Leaves(Ready, near) /\ near.ip \in {Wrap16(p + Rel8(This)), Wrap16(p)}
      BY <1>2, BranchIs
    <2> HIDE DEF near, p
    <2>3. QED
      BY <1>4, <1>5, <1>6, <1>7, <2>1, <2>2 DEF Outcome, Jumped
  <1> HIDE DEF near
  <1>8. CASE This.kind = "loop"
    <2>1. m' = Loop(Ready, This)
      BY <1>3, <1>8
    <2>2. Leaves(Ready, m') /\ m'.ip \in {Wrap16(p + Rel8(This)), Wrap16(p)}
      BY <1>2, <2>1, LoopIs
    <2> HIDE DEF p
    <2>3. QED
      BY <1>4, <1>5, <1>6, <1>8, <2>2 DEF Outcome, Jumped
  <1>9. CASE This.kind = "jump"
    <2>1. m' = Jump(Ready, This)
      BY <1>3, <1>9
    <2>2. This.op \in \hE8..\hEB
      BY <1>2, <1>9, KindsAre
    <2>3. /\ Leaves(Ready, m')
          /\ This.op = \hE8 => m'.ip = Wrap16(p + This.data0) /\ Top(m') = Wrap16(p)
          /\ This.op = \hE9 => m'.ip = Wrap16(p + This.data0)
          /\ This.op = \hEB => m'.ip = Wrap16(p + Rel8(This))
      BY <1>2, <2>1, <2>2, JumpIs
    <2> HIDE DEF p
    <2>4. QED
      BY <1>4, <1>5, <1>6, <1>9, <2>3 DEF Outcome, Jumped
  <1>10. CASE This.kind = "ret"
    <2>1. m' = Ret(Ready, This)
      BY <1>3, <1>10
    <2>2. This.op \in {\hC2, \hC3, \hCA, \hCB, \hCF}
      BY <1>2, <1>10, KindsAre
    <2>3. IF This.op = \hCF THEN m' = FlagsOf(FarOf(Near(Ready))) ELSE Leaves(Ready, m')
      BY <1>2, <2>1, <2>2, RetIs
    <2>4. CASE This.op = \hCF
      <3>1. IsMachine(m') /\ SameMode(Ready, m')
        <4> DEFINE y == FlagsOf(FarOf(Near(Ready)))
        <4>1. IsMachine(Ready)
          BY <1>2
        <4>2. IsMachine(y) /\ SameMode(Ready, y)
          BY <4>1, FrameLoaded
        <4>3. m' = y
          BY <2>3, <2>4
        <4> HIDE DEF y
        <4>4. QED
          BY <4>2, <4>3
      <3>2. SameMode(Ahead, m')
        BY <1>4, <3>1 DEF SameMode, SamePrefixes
      <3>3. QED
        BY <2>4, <3>1, <3>2 DEF Outcome
    <2>5. CASE This.op # \hCF
      BY <1>6, <1>10, <2>3, <2>5 DEF Outcome, Jumped
    <2>6. QED
      BY <2>4, <2>5
  <1>11. CASE This.kind = "int"
    <2>1. m' = Trapping(Ready, This)
      BY <1>3, <1>11
    <2>2. This.op \in {\hCC, \hCD, \hCE}
      BY <1>2, <1>11, KindsAre
    <2>3. \/ This.op = \hCC /\ Interrupted(Ahead, 3, m')
          \/ This.op = \hCD /\ Interrupted(Ahead, AlOf(This.data0), m')
          \/ This.op = \hCE /\ Ready.f.o /\ Interrupted(Ahead, 4, m')
          \/ This.op = \hCE /\ ~Ready.f.o /\ Reaches(Ready, Wrap16(p), m')
      BY <1>2, <2>1, <2>2, TrappingIs
    <2>4. CASE This.op = \hCE /\ ~Ready.f.o /\ Reaches(Ready, Wrap16(p), m')
      <3>1. Keeps(Ahead, m')
        BY <1>2, <2>4, ReachesAhead
      <3>2. Ordinary(Ahead, This)
        BY <1>4, <1>11, <2>4 DEF Ordinary
      <3>3. QED
        BY <3>1, <3>2 DEF Outcome
    <2>5. CASE ~(This.op = \hCE /\ ~Ready.f.o /\ Reaches(Ready, Wrap16(p), m'))
      BY <1>4, <2>3, <2>5 DEF Outcome, Trapped
    <2>6. QED
      BY <2>4, <2>5
  <1>12. CASE This.kind = "callFar"
    <2>1. m' = Far(PushFarReturn(Ready, This), This.data0, This.data2)
      BY <1>3, <1>12
    <2>2. Leaves(Ready, m')
      BY <1>2, <2>1, CallFarIs
    <2>3. QED
      BY <1>6, <1>12, <2>2 DEF Outcome, Jumped
  <1>13. CASE This.kind = "group5"
    <2>1. m' = Indirect(Ready, This)
      BY <1>3, <1>13
    <2>2. Leaves(Ready, m') /\ (This.reg \in {2, 3} => Top(m') = Wrap16(p))
      BY <1>2, <2>1, IndirectIs
    <2> HIDE DEF p
    <2>3. QED
      BY <1>2, <1>4, <1>6, <1>13, <2>2 DEF Outcome, Jumped
  <1>14. QED
    BY <1>2, <1>7, <1>8, <1>9, <1>10, <1>11, <1>12, <1>13

(* A disk call changes memory and AL, or the image of its drive. *)
LEMMA DiskStep ==
  ASSUME IsMachine(m), \A x \in DOMAIN disk : Cells(disk[x]), Disk
  PROVE  /\ Outcome(Ahead, This, m')
         /\ DOMAIN disk' = DOMAIN disk /\ \A x \in DOMAIN disk : Cells(disk'[x])
  <1> DEFINE drive == AlOf(m.reg[DX])
             read == Fetch(m, 1) = 2
             fails == DiskDone(Ready, FALSE)
             Moved(k) == IF read THEN DiskRead(Ready, drive, k) ELSE Ready
             Done(k) == DiskDone(Moved(k), TRUE)
  <1>1. Next8086({"bios"}, {})
    BY DEF Disk, Then
  <1>2. IsMachine(Ready) /\ IsInstr(This) /\ This.kind = "bios" /\ Ahead = Advance(Ready, This)
    BY <1>1, ThisIs
  <1>3. \/ m' = Advance(fails, This) /\ UNCHANGED disk
        \/ /\ drive \in DOMAIN disk
           /\ \E k \in 0..m.reg[AX] :
                /\ m' = Advance(Done(k), This)
                /\ disk' = IF read THEN disk ELSE DiskWrite(m, drive, k)
    BY DEF Disk, Then, Ready, This
  <1>4. Ordinary(Ahead, This)
    BY <1>2 DEF Ordinary
  <1>5. CASE m' = Advance(fails, This) /\ UNCHANGED disk
    <2>1. Keeps(Ready, fails)
      BY <1>2, DiskDoneIs
    <2> HIDE DEF fails
    <2>2. Keeps(Ahead, m')
      BY <1>2, <1>5, <2>1, AdvanceKeeps
    <2>3. QED
      BY <1>4, <1>5, <2>2 DEF Outcome
  <1>6. CASE /\ drive \in DOMAIN disk
             /\ \E k \in 0..m.reg[AX] :
                  /\ m' = Advance(Done(k), This)
                  /\ disk' = IF read THEN disk ELSE DiskWrite(m, drive, k)
    <2>1. PICK k \in 0..m.reg[AX] : /\ m' = Advance(Done(k), This)
                                    /\ disk' = IF read THEN disk ELSE DiskWrite(m, drive, k)
      BY <1>6
    <2>2. k \in Int
      OBVIOUS
    <2> HIDE DEF drive, read
    <2>3. Keeps(Ready, Moved(k)) /\ IsMachine(Moved(k))
      <3>1. Cells(disk[drive])
        BY <1>6
      <3>2. Keeps(Ready, DiskRead(Ready, drive, k)) /\ Keeps(Ready, Ready)
        BY <1>2, <2>2, <3>1, DiskReadIs, KeepsSelf
      <3>3. QED
        BY <3>2, KeepsMachine
    <2>4. Keeps(Ready, Done(k))
      BY <2>3, DiskDoneIs, KeepsMore
    <2> DEFINE y == Done(k)
    <2>5. m' = Advance(y, This) /\ Keeps(Ready, y)
      BY <2>1, <2>4
    <2> HIDE DEF y
    <2>6. Keeps(Ahead, m')
      BY <1>2, <2>5, AdvanceKeeps
    <2> DEFINE e == DiskWrite(m, drive, k)
    <2>7. DOMAIN e = DOMAIN disk /\ \A x \in DOMAIN disk : Cells(e[x])
      BY <1>6, <2>2, DiskWriteIs
    <2>8. disk' = IF read THEN disk ELSE e
      BY <2>1
    <2> HIDE DEF e
    <2>9. QED
      BY <1>4, <2>6, <2>7, <2>8 DEF Outcome
  <1>7. QED
    BY <1>3, <1>5, <1>6

(* Every step of the guest. *)
LEMMA StepOutcome ==
  ASSUME TypeOK, Next
  PROVE  /\ Outcome(Ahead, This, m')
         /\ \E kinds, ops : Next8086(kinds, ops)
         /\ DOMAIN disk' = DOMAIN Disks /\ \A drive \in DOMAIN Disks : Cells(disk'[drive])
  <1>1. /\ IsMachine(m) /\ DOMAIN disk = DOMAIN Disks
        /\ \A drive \in DOMAIN disk : Cells(disk[drive])
    BY DEF TypeOK
  <1>2. CASE Transfer
    BY <1>1, <1>2, TransferStep DEF Transfer
  <1>3. CASE PushPop
    BY <1>1, <1>3, PushPopStep DEF PushPop
  <1>4. CASE Compute
    BY <1>1, <1>4, ComputeStep DEF Compute
  <1>5. CASE MultiplyDivide
    BY <1>1, <1>5, MultiplyDivideStep DEF MultiplyDivide, Do
  <1>6. CASE Decimal
    BY <1>1, <1>6, DecimalStep DEF Decimal, Do
  <1>7. CASE Jumps
    BY <1>1, <1>7, JumpsStep DEF Jumps, Do
  <1>8. CASE Strings
    BY <1>1, <1>8, StringsStep DEF Strings
  <1>9. CASE Prefixes
    BY <1>1, <1>9, PrefixesStep DEF Prefixes
  <1>10. CASE Ports
    BY <1>1, <1>10, PortsStep DEF Ports, Then
  <1>11. CASE Idle
    BY <1>1, <1>11, IdleStep DEF Idle, Then
  <1>12. CASE Clock
    BY <1>1, <1>12, ClockStep DEF Clock, Then
  <1>13. CASE Disk
    BY <1>1, <1>13, DiskStep DEF Disk, Then
  <1>14. QED
    BY <1>2, <1>3, <1>4, <1>5, <1>6, <1>7, <1>8, <1>9, <1>10, <1>11, <1>12, <1>13 DEF Next

-----------------------------------------------------------------------------
(* The types, from the machine that a step leaves. *)
LEMMA TypeInit == Init => TypeOK /\ prog \in Programs
  <1>1. SUFFICES ASSUME Init PROVE TypeOK /\ prog \in Programs
    OBVIOUS
  <1>2. /\ prog \in Programs /\ start \in Input(prog) /\ count = 0 /\ m = start /\ disk = Disks
    BY <1>1 DEF Init
  <1>3. prog.max \in Nat /\ IsMachine(start)
    BY <1>2, GuestAssumption, Zenon
  <1>4. \A drive \in DOMAIN Disks : Cells(Disks[drive])
    BY GuestAssumption, Zenon
  <1>5. QED
    BY <1>2, <1>3, <1>4 DEF TypeOK

LEMMA TypeNext ==
  ASSUME TypeOK, prog \in Programs, [Next]_vars
  PROVE  TypeOK' /\ prog' \in Programs
  <1>1. CASE UNCHANGED vars
    BY <1>1 DEF TypeOK, vars
  <1>2. CASE Next
    <2>1. /\ Outcome(Ahead, This, m')
          /\ \E kinds, ops : Next8086(kinds, ops)
          /\ DOMAIN disk' = DOMAIN Disks /\ \A drive \in DOMAIN Disks : Cells(disk'[drive])
      BY <1>2, StepOutcome
    <2>2. IsMachine(m')
      BY <2>1, OutcomeMachine
    <2>3. count < prog.max /\ count' = count + 1 /\ prog' = prog /\ start' = start
      BY <2>1 DEF Next8086
    <2>4. prog.max \in Nat
      BY GuestAssumption, Zenon
    <2>5. count' \in 0..prog.max
      BY <2>3, <2>4 DEF TypeOK
    <2>6. QED
      BY <2>1, <2>2, <2>3, <2>5 DEF TypeOK
  <1>3. QED
    BY <1>1, <1>2

(* Every instruction leaves a machine: the registers in 16 bits, the flags   *)
(* Boolean, a byte in every cell of memory and at every port, the countdowns *)
(* of the prefixes at two or less; and the disk images stay made of bytes    *)
(* (the uint16_t and uint8_t fields of Emu86State, which the model keeps as  *)
(* integers: no result of Alu or Decode escapes its width).                  *)
THEOREM GuestTypes == Spec => []TypeOK
  <1> DEFINE IInv == TypeOK /\ prog \in Programs
  <1>1. Init => IInv
    BY TypeInit
  <1>2. IInv /\ [Next]_vars => IInv'
    BY TypeNext
  <1>3. QED
    BY <1>1, <1>2, PTL DEF Spec

-----------------------------------------------------------------------------
(* The abstraction of Cpu. A state of Cpu by its fields, which are left      *)
(* opaque while one of them is updated.                                      *)
CpuFields(at, if, tf, h, tr, pend, vec, se, so, re, rm, i8, ic, p) ==
  [at |-> at, IFlag |-> if, TFlag |-> tf,
   halted |-> h, trap_flag |-> tr, int_pending |-> pend, int_vector |-> vec,
   seg_override_en |-> se, seg_override |-> so, rep_override_en |-> re, rep_mode |-> rm,
   int8_asap |-> i8, inst_count |-> ic, pushed |-> p]

LEMMA FieldsAre ==
  ASSUME NEW at, NEW if, NEW tf, NEW h, NEW tr, NEW pend, NEW vec, NEW se, NEW so, NEW re, NEW rm,
         NEW i8, NEW ic, NEW p
  PROVE  LET s == CpuFields(at, if, tf, h, tr, pend, vec, se, so, re, rm, i8, ic, p)
         IN  /\ s.at = at /\ s.IFlag = if /\ s.TFlag = tf /\ s.halted = h /\ s.seg_override_en = se
             /\ s.seg_override = so /\ s.rep_override_en = re /\ s.rep_mode = rm
             /\ s.inst_count = ic /\ s.pushed = p
  BY DEF CpuFields

(* What Cpu sees of a machine, with the frames that its step has pushed. *)
Mode(at, if, tf, h, se, so, re, rm, p) ==
  CpuFields(at, if, tf, h, FALSE, FALSE, 0, se, so, re, rm, FALSE, 0, p)

LEMMA ControlIs ==
  ASSUME NEW x
  PROVE  Control(x) = Mode(<<x.sreg[CS], x.ip>>, x.f.i, x.f.t, x.stop = "halted",
                           x.seg_override_en, x.seg_override, x.rep_override_en, x.rep_mode, <<>>)
  BY DEF Control, Mode, CpuFields

LEMMA DecPrefixIs ==
  ASSUME NEW locs, NEW isr, NEW at, NEW if, NEW tf, NEW h, NEW se, NEW so, NEW re, NEW rm, NEW p
  PROVE  Abstract(locs, isr)!DecPrefix(Mode(at, if, tf, h, se, so, re, rm, p)) =
           Mode(at, if, tf, h, IF se > 0 THEN se - 1 ELSE 0, so,
                IF re > 0 THEN re - 1 ELSE 0, rm, p)
  <1> DEFINE no == FALSE
             none == 0
             s == CpuFields(at, if, tf, h, no, no, none, se, so, re, rm, no, none, p)
             a == IF se > 0 THEN se - 1 ELSE 0
             b == IF re > 0 THEN re - 1 ELSE 0
             t == CpuFields(at, if, tf, h, no, no, none, a, so, re, rm, no, none, p)
             u == CpuFields(at, if, tf, h, no, no, none, a, so, b, rm, no, none, p)
  <1>1. Abstract(locs, isr)!DecPrefix(s) =
          [s EXCEPT !.seg_override_en = IF s.seg_override_en > 0 THEN s.seg_override_en - 1 ELSE 0,
                    !.rep_override_en = IF s.rep_override_en > 0 THEN s.rep_override_en - 1 ELSE 0]
    BY DEF Abstract!DecPrefix, Abstract!Dec
  <1>2. /\ Mode(at, if, tf, h, se, so, re, rm, p) = s
        /\ Mode(at, if, tf, h, a, so, b, rm, p) = u
    BY DEF Mode
  <1> HIDE DEF no, none
  <1>3. s.seg_override_en = se /\ s.rep_override_en = re
    BY FieldsAre
  <1>4. Abstract(locs, isr)!DecPrefix(s) = [s EXCEPT !.seg_override_en = a, !.rep_override_en = b]
    BY <1>1, <1>3
  <1> HIDE DEF a, b
  <1>5. [s EXCEPT !.seg_override_en = a] = t
    BY DEF CpuFields
  <1>6. [t EXCEPT !.rep_override_en = b] = u
    BY DEF CpuFields
  <1>7. [s EXCEPT !.seg_override_en = a, !.rep_override_en = b] = u
    <2> HIDE DEF s, t, u
    <2>1. [s EXCEPT !.seg_override_en = a, !.rep_override_en = b] =
            [[s EXCEPT !.seg_override_en = a] EXCEPT !.rep_override_en = b]
      OBVIOUS
    <2>2. QED
      BY <1>5, <1>6, <2>1
  <1> HIDE DEF s, t, u
  <1>8. QED
    BY <1>2, <1>4, <1>7 DEF a, b

(* The part of Exec that every instruction shares. *)
Moved(s, to) == [s EXCEPT !.at = to, !.inst_count = (@ + 1) % 1]

LEMMA MovedIs ==
  ASSUME NEW at, NEW if, NEW tf, NEW h, NEW se, NEW so, NEW re, NEW rm, NEW p,
         NEW to
  PROVE  Moved(Mode(at, if, tf, h, se, so, re, rm, p), to) = Mode(to, if, tf, h, se, so, re, rm, p)
  <1> DEFINE no == FALSE
             none == 0
             s == CpuFields(at, if, tf, h, no, no, none, se, so, re, rm, no, none, p)
             t == CpuFields(to, if, tf, h, no, no, none, se, so, re, rm, no, none, p)
  <1>1. (none + 1) % 1 = none
    OBVIOUS
  <1>2. Mode(at, if, tf, h, se, so, re, rm, p) = s /\ Mode(to, if, tf, h, se, so, re, rm, p) = t
    BY DEF Mode
  <1> HIDE DEF no, none
  <1>3. s.inst_count = none
    BY FieldsAre
  <1>4. [s EXCEPT !.at = to] = t
    BY DEF CpuFields
  <1>5. [t EXCEPT !.inst_count = none] = t
    BY DEF CpuFields
  <1>6. [s EXCEPT !.at = to, !.inst_count = (s.inst_count + 1) % 1] =
          [[s EXCEPT !.at = to] EXCEPT !.inst_count = none]
    <2> HIDE DEF s, t
    <2>1. QED
      BY <1>1, <1>3
  <1> HIDE DEF s, t
  <1>7. QED
    BY <1>2, <1>4, <1>5, <1>6 DEF Moved

LEMMA ExecPlain ==
  ASSUME NEW locs, NEW isr, NEW at, NEW if, NEW tf, NEW h, NEW se, NEW so, NEW re, NEW rm, NEW p,
         NEW to
  PROVE  Abstract(locs, isr)!Exec(Mode(at, if, tf, h, se, so, re, rm, p), [op |-> "plain", to |-> to]) =
           Mode(to, if, tf, h, se, so, re, rm, p)
  <1> DEFINE i == [op |-> "plain", to |-> to]
             s == Mode(at, if, tf, h, se, so, re, rm, p)
  <1>1. i.op = "plain" /\ i.to = to
    OBVIOUS
  <1>2. Moved(s, to) = Mode(to, if, tf, h, se, so, re, rm, p)
    BY MovedIs
  <1> HIDE DEF i, s
  <1>3. Abstract(locs, isr)!Exec(s, i) = Moved(s, i.to)
    BY <1>1 DEF Abstract!Exec, Abstract!Bump, Abstract!PcInterrupt, Moved
  <1>4. QED
    BY <1>1, <1>2, <1>3 DEF i, s

LEMMA ExecLea ==
  ASSUME NEW locs, NEW isr, NEW at, NEW if, NEW tf, NEW h, NEW se, NEW so, NEW re, NEW rm, NEW p,
         NEW to
  PROVE  Abstract(locs, isr)!Exec(Mode(at, if, tf, h, se, so, re, rm, p),
                                  [op |-> "lea", to |-> to]) =
           Mode(to, if, tf, h, 1, so, re, rm, p)
  <1> DEFINE no == FALSE
             none == 0
             i == [op |-> "lea", to |-> to]
             s == Mode(at, if, tf, h, se, so, re, rm, p)
             one == 1
             t0 == CpuFields(to, if, tf, h, no, no, none, se, so, re, rm, no, none, p)
             t1 == CpuFields(to, if, tf, h, no, no, none, one, so, re, rm, no, none, p)
  <1>1. i.op = "lea" /\ i.to = to
    OBVIOUS
  <1>2. Moved(s, to) = t0 /\ Mode(to, if, tf, h, 1, so, re, rm, p) = t1
    <2>1. Moved(s, to) = Mode(to, if, tf, h, se, so, re, rm, p)
      BY MovedIs
    <2>2. Mode(to, if, tf, h, se, so, re, rm, p) = t0 /\ Mode(to, if, tf, h, 1, so, re, rm, p) = t1
      BY DEF Mode
    <2> HIDE DEF s, t0, t1
    <2>3. QED
      BY <2>1, <2>2
  <1>3. Abstract(locs, isr)!Exec(s, i) = LET t == Moved(s, i.to)
          IN  [t EXCEPT !.seg_override_en = 1]
    <2> HIDE DEF i, s
    <2>1. QED
      BY <1>1 DEF Abstract!Exec, Abstract!Bump, Abstract!PcInterrupt, Moved
  <1> HIDE DEF no, none, one
  <1>4. [t0 EXCEPT !.seg_override_en = one] = t1
    BY DEF CpuFields
  <1> HIDE DEF t0, t1
  <1>5. Abstract(locs, isr)!Exec(s, i) = t1
    BY <1>1, <1>2, <1>3, <1>4 DEF no, none, one
  <1>6. QED
    BY <1>2, <1>5

On == TRUE

LEMMA ExecHlt ==
  ASSUME NEW locs, NEW isr, NEW at, NEW if, NEW tf, NEW h, NEW se, NEW so, NEW re, NEW rm, NEW p,
         NEW to
  PROVE  Abstract(locs, isr)!Exec(Mode(at, if, tf, h, se, so, re, rm, p),
                                  [op |-> "hlt", to |-> to]) =
           Mode(to, if, tf, On, se, so, re, rm, p)
  <1> DEFINE no == FALSE
             none == 0
             i == [op |-> "hlt", to |-> to]
             s == Mode(at, if, tf, h, se, so, re, rm, p)
             t0 == CpuFields(to, if, tf, h, no, no, none, se, so, re, rm, no, none, p)
             t1 == CpuFields(to, if, tf, On, no, no, none, se, so, re, rm, no, none, p)
  <1>1. i.op = "hlt" /\ i.to = to
    OBVIOUS
  <1>2. Moved(s, to) = t0
          /\ Mode(to, if, tf, On, se, so, re, rm, p) = t1
    <2>1. Moved(s, to) = Mode(to, if, tf, h, se, so, re, rm, p)
      BY MovedIs
    <2>2. Mode(to, if, tf, h, se, so, re, rm, p) = t0
          /\ Mode(to, if, tf, On, se, so, re, rm, p) = t1
      BY DEF Mode
    <2> HIDE DEF s, t0, t1
    <2>3. QED
      BY <2>1, <2>2
  <1>3. Abstract(locs, isr)!Exec(s, i) = [Moved(s, to) EXCEPT !.halted = On]
    <2> HIDE DEF i, s
    <2>1. Abstract(locs, isr)!Exec(s, i) = [Moved(s, i.to) EXCEPT !.halted = TRUE]
      BY <1>1 DEF Abstract!Exec, Abstract!Bump, Abstract!PcInterrupt, Moved
    <2>2. QED
      BY <1>1, <2>1 DEF On
  <1> HIDE DEF no, none
  <1>4. [t0 EXCEPT !.halted = On] = t1
    BY DEF CpuFields
  <1> HIDE DEF t0, t1
  <1>5. Abstract(locs, isr)!Exec(s, i) = t1
    BY <1>2, <1>3, <1>4
  <1>6. QED
    BY <1>2, <1>5

LEMMA ExecFlags ==
  ASSUME NEW locs, NEW isr, NEW at, NEW if, NEW tf, NEW h, NEW se, NEW so, NEW re, NEW rm, NEW p,
         NEW to, NEW bi, NEW bt
  PROVE  Abstract(locs, isr)!Exec(Mode(at, if, tf, h, se, so, re, rm, p),
                                  [op |-> "flags", IFlag |-> bi, TFlag |-> bt, to |-> to]) =
           Mode(to, bi, bt, h, se, so, re, rm, p)
  <1> DEFINE no == FALSE
             none == 0
             i == [op |-> "flags", IFlag |-> bi, TFlag |-> bt, to |-> to]
             s == Mode(at, if, tf, h, se, so, re, rm, p)
             t0 == CpuFields(to, if, tf, h, no, no, none, se, so, re, rm, no, none, p)
             t1 == CpuFields(to, bi, tf, h, no, no, none, se, so, re, rm, no, none, p)
             t2 == CpuFields(to, bi, bt, h, no, no, none, se, so, re, rm, no, none, p)
  <1>1. i.op = "flags" /\ i.to = to /\ i.IFlag = bi /\ i.TFlag = bt
    OBVIOUS
  <1>2. Moved(s, to) = t0 /\ Mode(to, bi, bt, h, se, so, re, rm, p) = t2
    <2>1. Moved(s, to) = Mode(to, if, tf, h, se, so, re, rm, p)
      BY MovedIs
    <2>2. Mode(to, if, tf, h, se, so, re, rm, p) = t0 /\ Mode(to, bi, bt, h, se, so, re, rm, p) = t2
      BY DEF Mode
    <2> HIDE DEF s, t0, t2
    <2>3. QED
      BY <2>1, <2>2
  <1>3. Abstract(locs, isr)!Exec(s, i) =
          LET t == Moved(s, i.to)
          IN  [t EXCEPT !.IFlag = i.IFlag, !.TFlag = i.TFlag]
    <2> HIDE DEF i, s
    <2>1. QED
      BY <1>1 DEF Abstract!Exec, Abstract!Bump, Abstract!PcInterrupt, Moved
  <1> HIDE DEF no, none
  <1>4. [t0 EXCEPT !.IFlag = bi] = t1
    BY DEF CpuFields
  <1>5. [t1 EXCEPT !.TFlag = bt] = t2
    BY DEF CpuFields
  <1> HIDE DEF t0, t1, t2
  <1>6. [t0 EXCEPT !.IFlag = bi, !.TFlag = bt] = t2
    <2>1. [t0 EXCEPT !.IFlag = bi, !.TFlag = bt] =
            [[t0 EXCEPT !.IFlag = bi] EXCEPT !.TFlag = bt]
      OBVIOUS
    <2>2. QED
      BY <1>4, <1>5, <2>1
  <1>7. Abstract(locs, isr)!Exec(s, i) = t2
    BY <1>1, <1>2, <1>3, <1>6 DEF no, none
  <1>8. QED
    BY <1>2, <1>7

LEMMA ExecSeg ==
  ASSUME NEW locs, NEW isr, NEW at, NEW if, NEW tf, NEW h, NEW se, NEW so, NEW re, NEW rm, NEW p,
         NEW to, NEW sg
  PROVE  Abstract(locs, isr)!Exec(Mode(at, if, tf, h, se, so, re, rm, p),
                                  [op |-> "seg", sreg |-> sg, to |-> to]) =
           Mode(to, if, tf, h, 2, sg, IF re > 0 THEN re + 1 ELSE re, rm, p)
  <1> DEFINE no == FALSE
             none == 0
             i == [op |-> "seg", sreg |-> sg, to |-> to]
             s == Mode(at, if, tf, h, se, so, re, rm, p)
             two == 2
             r == IF re > 0 THEN re + 1 ELSE re
             t0 == CpuFields(to, if, tf, h, no, no, none, se, so, re, rm, no, none, p)
             t1 == CpuFields(to, if, tf, h, no, no, none, two, so, re, rm, no, none, p)
             t2 == CpuFields(to, if, tf, h, no, no, none, two, sg, re, rm, no, none, p)
             t3 == CpuFields(to, if, tf, h, no, no, none, two, sg, r, rm, no, none, p)
  <1>1. i.op = "seg" /\ i.to = to /\ i.sreg = sg
    OBVIOUS
  <1>2. Moved(s, to) = t0 /\ Mode(to, if, tf, h, 2, sg, IF re > 0 THEN re + 1 ELSE re, rm, p) = t3
    <2>1. Moved(s, to) = Mode(to, if, tf, h, se, so, re, rm, p)
      BY MovedIs
    <2>2. Mode(to, if, tf, h, se, so, re, rm, p) = t0
          /\ Mode(to, if, tf, h, 2, sg, IF re > 0 THEN re + 1 ELSE re, rm, p) = t3
      BY DEF Mode
    <2> HIDE DEF s, t0, t3
    <2>3. QED
      BY <2>1, <2>2
  <1>3. Abstract(locs, isr)!Exec(s, i) =
          LET t == Moved(s, i.to)
          IN  [t EXCEPT !.seg_override_en = 2, !.seg_override = i.sreg,
                        !.rep_override_en = IF @ > 0 THEN @ + 1 ELSE @]
    <2> HIDE DEF i, s
    <2>1. QED
      BY <1>1 DEF Abstract!Exec, Abstract!Bump, Abstract!PcInterrupt, Moved
  <1> HIDE DEF no, none, r
  <1>4. t0.rep_override_en = re
    BY FieldsAre
  <1>5. [t0 EXCEPT !.seg_override_en = two] = t1
    BY DEF CpuFields
  <1>6. [t1 EXCEPT !.seg_override = sg] = t2
    BY DEF CpuFields
  <1>7. [t2 EXCEPT !.rep_override_en = r] = t3
    BY DEF CpuFields
  <1> HIDE DEF t0, t1, t2, t3
  <1>8. [t0 EXCEPT !.seg_override_en = two, !.seg_override = sg, !.rep_override_en = r] = t3
    <2>1. [t0 EXCEPT !.seg_override_en = two, !.seg_override = sg, !.rep_override_en = r] =
            [[[t0 EXCEPT !.seg_override_en = two] EXCEPT !.seg_override = sg] EXCEPT !.rep_override_en = r]
      OBVIOUS
    <2>2. QED
      BY <1>5, <1>6, <1>7, <2>1
  <1>9. Abstract(locs, isr)!Exec(s, i) = t3
    BY <1>1, <1>2, <1>3, <1>4, <1>8 DEF no, none, r
  <1>10. QED
    BY <1>2, <1>9

LEMMA ExecRep ==
  ASSUME NEW locs, NEW isr, NEW at, NEW if, NEW tf, NEW h, NEW se, NEW so, NEW re, NEW rm, NEW p,
         NEW to, NEW md
  PROVE  Abstract(locs, isr)!Exec(Mode(at, if, tf, h, se, so, re, rm, p),
                                  [op |-> "rep", mode |-> md, to |-> to]) =
           Mode(to, if, tf, h, IF se > 0 THEN se + 1 ELSE se, so, 2, md, p)
  <1> DEFINE no == FALSE
             none == 0
             i == [op |-> "rep", mode |-> md, to |-> to]
             s == Mode(at, if, tf, h, se, so, re, rm, p)
             two == 2
             q == IF se > 0 THEN se + 1 ELSE se
             t0 == CpuFields(to, if, tf, h, no, no, none, se, so, re, rm, no, none, p)
             t1 == CpuFields(to, if, tf, h, no, no, none, se, so, two, rm, no, none, p)
             t2 == CpuFields(to, if, tf, h, no, no, none, se, so, two, md, no, none, p)
             t3 == CpuFields(to, if, tf, h, no, no, none, q, so, two, md, no, none, p)
  <1>1. i.op = "rep" /\ i.to = to /\ i.mode = md
    OBVIOUS
  <1>2. Moved(s, to) = t0 /\ Mode(to, if, tf, h, IF se > 0 THEN se + 1 ELSE se, so, 2, md, p) = t3
    <2>1. Moved(s, to) = Mode(to, if, tf, h, se, so, re, rm, p)
      BY MovedIs
    <2>2. Mode(to, if, tf, h, se, so, re, rm, p) = t0
          /\ Mode(to, if, tf, h, IF se > 0 THEN se + 1 ELSE se, so, 2, md, p) = t3
      BY DEF Mode
    <2> HIDE DEF s, t0, t3
    <2>3. QED
      BY <2>1, <2>2
  <1>3. Abstract(locs, isr)!Exec(s, i) =
          LET t == Moved(s, i.to)
          IN  [t EXCEPT !.rep_override_en = 2, !.rep_mode = i.mode,
                        !.seg_override_en = IF @ > 0 THEN @ + 1 ELSE @]
    <2> HIDE DEF i, s
    <2>1. QED
      BY <1>1 DEF Abstract!Exec, Abstract!Bump, Abstract!PcInterrupt, Moved
  <1> HIDE DEF no, none, q
  <1>4. t0.seg_override_en = se
    BY FieldsAre
  <1>5. [t0 EXCEPT !.rep_override_en = two] = t1
    BY DEF CpuFields
  <1>6. [t1 EXCEPT !.rep_mode = md] = t2
    BY DEF CpuFields
  <1>7. [t2 EXCEPT !.seg_override_en = q] = t3
    BY DEF CpuFields
  <1> HIDE DEF t0, t1, t2, t3
  <1>8. [t0 EXCEPT !.rep_override_en = two, !.rep_mode = md, !.seg_override_en = q] = t3
    <2>1. [t0 EXCEPT !.rep_override_en = two, !.rep_mode = md, !.seg_override_en = q] =
            [[[t0 EXCEPT !.rep_override_en = two] EXCEPT !.rep_mode = md] EXCEPT !.seg_override_en = q]
      OBVIOUS
    <2>2. QED
      BY <1>5, <1>6, <1>7, <2>1
  <1>9. Abstract(locs, isr)!Exec(s, i) = t3
    BY <1>1, <1>2, <1>3, <1>4, <1>8 DEF no, none, q
  <1>10. QED
    BY <1>2, <1>9

FrameOf(at, if, tf) == [at |-> at, IFlag |-> if, TFlag |-> tf]
Grown(p, at, if, tf) == Append(p, FrameOf(at, if, tf))

Entry(isr, v) == isr[v]
Off == FALSE

LEMMA ExecInt ==
  ASSUME NEW locs, NEW isr, NEW at, NEW if, NEW tf, NEW h, NEW se, NEW so, NEW re, NEW rm, NEW p,
         NEW to, NEW v
  PROVE  Abstract(locs, isr)!Exec(Mode(at, if, tf, h, se, so, re, rm, p),
                                  [op |-> "int", vec |-> v, to |-> to]) =
           Mode(Entry(isr, v), Off, Off, h, se, so, re, rm, Grown(p, to, if, tf))
  <1> DEFINE no == FALSE
             none == 0
             i == [op |-> "int", vec |-> v, to |-> to]
             s == Mode(at, if, tf, h, se, so, re, rm, p)
             a == isr[v]
             q == Grown(p, to, if, tf)
             t0 == CpuFields(to, if, tf, h, no, no, none, se, so, re, rm, no, none, p)
             t1 == CpuFields(to, if, tf, h, no, no, none, se, so, re, rm, no, none, q)
             t2 == CpuFields(a, if, tf, h, no, no, none, se, so, re, rm, no, none, q)
             t3 == CpuFields(a, no, tf, h, no, no, none, se, so, re, rm, no, none, q)
             t4 == CpuFields(a, no, no, h, no, no, none, se, so, re, rm, no, none, q)
  <1>1. i.op = "int" /\ i.to = to /\ i.vec = v
    OBVIOUS
  <1>2. Moved(s, to) = t0
          /\ Mode(Entry(isr, v), Off, Off, h, se, so, re, rm, Grown(p, to, if, tf)) = t4
    <2>1. Moved(s, to) = Mode(to, if, tf, h, se, so, re, rm, p)
      BY MovedIs
    <2>2. Mode(to, if, tf, h, se, so, re, rm, p) = t0
          /\ Mode(Entry(isr, v), Off, Off, h, se, so, re, rm, Grown(p, to, if, tf)) = t4
      BY DEF Mode, Off, Entry
    <2> HIDE DEF s, t0, t4
    <2>3. QED
      BY <2>1, <2>2
  <1>3. Abstract(locs, isr)!Exec(s, i) =
          LET t == Moved(s, i.to)
          IN  [t EXCEPT !.pushed = Append(@, [at |-> t.at, IFlag |-> t.IFlag,
                                                       TFlag |-> t.TFlag]),
                        !.at = isr[i.vec], !.IFlag = FALSE, !.TFlag = FALSE]
    <2> HIDE DEF i, s
    <2>1. QED
      BY <1>1 DEF Abstract!Exec, Abstract!Bump, Abstract!PcInterrupt, Moved
  <1> HIDE DEF no, none, a, q
  <1>4. t0.pushed = p /\ t0.at = to /\ t0.IFlag = if /\ t0.TFlag = tf
    BY FieldsAre
  <1>5. [t0 EXCEPT !.pushed = q] = t1
    BY DEF CpuFields
  <1>6. [t1 EXCEPT !.at = a] = t2
    BY DEF CpuFields
  <1>7. [t2 EXCEPT !.IFlag = no] = t3
    BY DEF CpuFields
  <1>8. [t3 EXCEPT !.TFlag = no] = t4
    BY DEF CpuFields
  <1> HIDE DEF t0, t1, t2, t3, t4
  <1>9. [t0 EXCEPT !.pushed = q, !.at = a, !.IFlag = no, !.TFlag = no] = t4
    <2>1. [t0 EXCEPT !.pushed = q, !.at = a, !.IFlag = no, !.TFlag = no] =
            [[[[t0 EXCEPT !.pushed = q] EXCEPT !.at = a] EXCEPT !.IFlag = no] EXCEPT !.TFlag = no]
      OBVIOUS
    <2>2. QED
      BY <1>5, <1>6, <1>7, <1>8, <2>1
  <1>10. Abstract(locs, isr)!Exec(s, i) = t4
    BY <1>1, <1>2, <1>3, <1>4, <1>9 DEF no, none, a, q, Grown, FrameOf
  <1>11. QED
    BY <1>2, <1>10

(* What an instruction does to a machine, as an instruction of Cpu. a is the *)
(* machine with IP past the instruction, x the one the instruction leaves,   *)
(* at the address of the instruction.                                        *)
At(x) == <<x.sreg[CS], x.ip>>
Frames == <<>>
Before(a, at) ==
  Mode(at, a.f.i, a.f.t, a.stop = "halted", a.seg_override_en, a.seg_override,
       a.rep_override_en, a.rep_mode, Frames)

LEMMA ControlAt == ASSUME NEW x PROVE Control(x) = Before(x, At(x))
  BY ControlIs DEF Before, At, Frames

LEMMA SameModeFields ==
  ASSUME NEW a, NEW x, SameMode(a, x), NEW at
  PROVE  Before(x, at) = Mode(at, x.f.i, x.f.t, a.stop = "halted", a.seg_override_en,
                              a.seg_override, a.rep_override_en, a.rep_mode, Frames)
  BY DEF Before, SameMode, SamePrefixes

LEMMA PlainDoes ==
  ASSUME NEW locs, NEW isr, NEW at, NEW a, NEW x, Leaves(a, x)
  PROVE  Abstract(locs, isr)!Exec(Before(a, at), [op |-> "plain", to |-> At(x)]) = Control(x)
  <1>1. Before(x, At(x)) = Mode(At(x), a.f.i, a.f.t, a.stop = "halted", a.seg_override_en,
                                a.seg_override, a.rep_override_en, a.rep_mode, Frames)
    BY SameModeFields DEF Leaves
  <1>2. QED
    BY <1>1, ControlAt, ExecPlain DEF Before

LEMMA FlagsDoes ==
  ASSUME NEW locs, NEW isr, NEW at, NEW a, NEW x, SameMode(a, x)
  PROVE  Abstract(locs, isr)!Exec(Before(a, at), [op |-> "flags", IFlag |-> x.f.i, TFlag |-> x.f.t,
                                                  to |-> At(x)]) = Control(x)
  <1>1. Before(x, At(x)) = Mode(At(x), x.f.i, x.f.t, a.stop = "halted", a.seg_override_en,
                                a.seg_override, a.rep_override_en, a.rep_mode, Frames)
    BY SameModeFields
  <1>2. QED
    BY <1>1, ControlAt, ExecFlags DEF Before

LEMMA LeaDoes ==
  ASSUME NEW locs, NEW isr, NEW at, NEW a, NEW x, AfterLea(a, x)
  PROVE  Abstract(locs, isr)!Exec(Before(a, at), [op |-> "lea", to |-> At(x)]) = Control(x)
  <1>1. Before(x, At(x)) = Mode(At(x), a.f.i, a.f.t, a.stop = "halted", 1,
                                a.seg_override, a.rep_override_en, a.rep_mode, Frames)
    BY DEF Before, AfterLea
  <1>2. QED
    BY <1>1, ControlAt, ExecLea DEF Before

LEMMA HltDoes ==
  ASSUME NEW locs, NEW isr, NEW at, NEW a, NEW x, AfterHlt(a, x)
  PROVE  Abstract(locs, isr)!Exec(Before(a, at), [op |-> "hlt", to |-> At(x)]) = Control(x)
  <1>1. (x.stop = "halted") = On
    BY DEF AfterHlt, On
  <1>2. Before(x, At(x)) = Mode(At(x), a.f.i, a.f.t, On, a.seg_override_en,
                                a.seg_override, a.rep_override_en, a.rep_mode, Frames)
    <2> HIDE DEF On
    <2>1. QED
      BY <1>1 DEF Before, AfterHlt, SamePrefixes
  <1>3. QED
    BY <1>2, ControlAt, ExecHlt DEF Before

LEMMA SegDoes ==
  ASSUME NEW locs, NEW isr, NEW at, NEW a, IsMachine(a), NEW s, NEW x, AfterSeg(a, s, x)
  PROVE  Abstract(locs, isr)!Exec(Before(a, at), [op |-> "seg", sreg |-> s, to |-> At(x)]) =
           Control(x)
  <1> DEFINE r == IF a.rep_override_en > 0 THEN a.rep_override_en + 1 ELSE a.rep_override_en
  <1>1. x.rep_override_en = r
    BY MachineIs DEF AfterSeg
  <1>2. Abstract(locs, isr)!Exec(Before(a, at), [op |-> "seg", sreg |-> s, to |-> At(x)]) =
          Mode(At(x), a.f.i, a.f.t, a.stop = "halted", 2, s, r, a.rep_mode, Frames)
    BY ExecSeg DEF Before
  <1> HIDE DEF r
  <1>3. Before(x, At(x)) = Mode(At(x), a.f.i, a.f.t, a.stop = "halted", 2, s, r, a.rep_mode, Frames)
    BY <1>1 DEF Before, AfterSeg
  <1>4. QED
    BY <1>2, <1>3, ControlAt

LEMMA RepDoes ==
  ASSUME NEW locs, NEW isr, NEW at, NEW a, IsMachine(a), NEW mode, NEW x, AfterRep(a, mode, x)
  PROVE  Abstract(locs, isr)!Exec(Before(a, at), [op |-> "rep", mode |-> mode, to |-> At(x)]) =
           Control(x)
  <1> DEFINE r == IF a.seg_override_en > 0 THEN a.seg_override_en + 1 ELSE a.seg_override_en
  <1>1. x.seg_override_en = r
    BY MachineIs DEF AfterRep
  <1>2. Abstract(locs, isr)!Exec(Before(a, at), [op |-> "rep", mode |-> mode, to |-> At(x)]) =
          Mode(At(x), a.f.i, a.f.t, a.stop = "halted", r, a.seg_override, 2, mode, Frames)
    BY ExecRep DEF Before
  <1> HIDE DEF r
  <1>3. Before(x, At(x)) = Mode(At(x), a.f.i, a.f.t, a.stop = "halted", r, a.seg_override, 2, mode,
                                Frames)
    BY <1>1 DEF Before, AfterRep
  <1>4. QED
    BY <1>2, <1>3, ControlAt

(* An interrupt pushes one frame, which lies on top of the stack, and goes   *)
(* where the table says.                                                     *)

LEMMA FramePushed ==
  ASSUME NEW a, IsMachine(a), NEW v, NEW x, Interrupted(a, v, x)
  PROVE  FrameOn(x) = FrameOf(At(a), a.f.i, a.f.t)
  <1> DEFINE f == flags_unpack(Top(Drop(Drop(x))))
  <1>1. a.f \in FlagType
    BY MachineIs
  <1>2. f = [a.f EXCEPT !.r = TRUE]
    BY <1>1, FlagsPacked DEF Interrupted
  <1>3. f.i = a.f.i /\ f.t = a.f.t
    BY <1>1, <1>2 DEF FlagType, FlagBit
  <1>4. <<Top(Drop(x)), Top(x)>> = At(a)
    BY DEF Interrupted, At
  <1>5. FrameOn(x) = [at |-> <<Top(Drop(x)), Top(x)>>, IFlag |-> f.i, TFlag |-> f.t]
    BY DEF FrameOn
  <1> HIDE DEF f
  <1>6. QED
    BY <1>3, <1>4, <1>5 DEF FrameOf

WithFrames(s, q) == [s EXCEPT !.pushed = q]

LEMMA WithFramesIs ==
  ASSUME NEW at, NEW if, NEW tf, NEW h, NEW se, NEW so, NEW re, NEW rm, NEW p, NEW q
  PROVE  WithFrames(Mode(at, if, tf, h, se, so, re, rm, p), q) =
           Mode(at, if, tf, h, se, so, re, rm, q)
  <1> DEFINE no == FALSE
             none == 0
             s == CpuFields(at, if, tf, h, no, no, none, se, so, re, rm, no, none, p)
             t == CpuFields(at, if, tf, h, no, no, none, se, so, re, rm, no, none, q)
  <1>1. Mode(at, if, tf, h, se, so, re, rm, p) = s /\ Mode(at, if, tf, h, se, so, re, rm, q) = t
    BY DEF Mode
  <1> HIDE DEF no, none
  <1>2. [s EXCEPT !.pushed = q] = t
    BY DEF CpuFields
  <1> HIDE DEF s, t
  <1>3. QED
    BY <1>1, <1>2 DEF WithFrames

LEMMA IntDoes ==
  ASSUME NEW locs, NEW isr, NEW at, NEW a, IsMachine(a), NEW v, NEW x, Interrupted(a, v, x),
         isr[v] = At(x)
  PROVE  Abstract(locs, isr)!Exec(Before(a, at), [op |-> "int", vec |-> v, to |-> At(a)]) =
           WithFrames(Control(x), <<FrameOn(x)>>)
  <1> DEFINE to == At(x)
             halt == a.stop = "halted"
             off == FALSE
             p == Grown(Frames, At(a), a.f.i, a.f.t)
             q == <<FrameOn(x)>>
             se == a.seg_override_en
             so == a.seg_override
             re == a.rep_override_en
             rm == a.rep_mode
             i == [op |-> "int", vec |-> v, to |-> At(a)]
  <1>1. Before(a, at) = Mode(at, a.f.i, a.f.t, halt, se, so, re, rm, Frames)
    BY DEF Before
  <1>2. p = q
    BY FramePushed DEF Grown, Frames
  <1> HIDE DEF halt, se, so, re, rm
  <1>3. Abstract(locs, isr)!Exec(Before(a, at), i) = Mode(isr[v], off, off, halt, se, so, re, rm, p)
    <2> DEFINE if == a.f.i
               tf == a.f.t
               to1 == At(a)
    <2>1. Before(a, at) = Mode(at, if, tf, halt, se, so, re, rm, Frames)
      BY <1>1
    <2> HIDE DEF if, tf, to1
    <2>2. Abstract(locs, isr)!Exec(Mode(at, if, tf, halt, se, so, re, rm, Frames),
                                   [op |-> "int", vec |-> v, to |-> to1]) =
            Mode(Entry(isr, v), Off, Off, halt, se, so, re, rm, Grown(Frames, to1, if, tf))
      BY ExecInt
    <2>3. QED
      BY <2>1, <2>2 DEF if, tf, to1, Entry, Off
  <1>4. Control(x) = Mode(to, off, off, halt, se, so, re, rm, Frames)
    <2>1. x.f.i = off /\ x.f.t = off
      BY DEF Interrupted
    <2>2. Before(x, to) = Mode(to, x.f.i, x.f.t, halt, se, so, re, rm, Frames)
      BY SameModeFields DEF Interrupted, halt, se, so, re, rm
    <2> HIDE DEF off
    <2>3. QED
      BY <2>1, <2>2, ControlAt
  <1> HIDE DEF p, q, i, to, off
  <1>5. WithFrames(Control(x), q) = Mode(to, off, off, halt, se, so, re, rm, q)
    BY <1>4, WithFramesIs
  <1>6. Abstract(locs, isr)!Exec(Before(a, at), i) = WithFrames(Control(x), q)
    BY <1>2, <1>3, <1>5 DEF to
  <1>7. QED
    BY <1>6 DEF q, i

(* The machine with IP past the instruction is, to Cpu, the machine before   *)
(* it with the countdowns taken down.                                        *)
LEMMA BeforeIs ==
  ASSUME IsMachine(m), NEW kinds, NEW ops, Next8086(kinds, ops), NEW locs, NEW isr
  PROVE  Abstract(locs, isr)!DecPrefix(Control(m)) = Before(Ahead, At(m)) /\ Ahead.stop = "no"
         /\ IsMachine(Ahead)
  <1>1. /\ IsMachine(Ready) /\ Ready.f = m.f
        /\ Ready.stop = m.stop
        /\ Ready.seg_override = m.seg_override /\ Ready.rep_mode = m.rep_mode
        /\ Ready.seg_override_en = (IF m.seg_override_en > 0 THEN m.seg_override_en - 1 ELSE 0)
        /\ Ready.rep_override_en = (IF m.rep_override_en > 0 THEN m.rep_override_en - 1 ELSE 0)
    BY CountDownIs DEF Ready
  <1>2. Ahead = Advance(Ready, This) /\ IsInstr(This)
    BY ThisIs
  <1>3. IsMachine(Ahead) /\ SameMode(Ready, Ahead) /\ Ahead.f = Ready.f
    BY <1>1, <1>2, AheadIs
  <1>4. m.stop = "no"
    BY DEF Next8086
  <1> DEFINE s == IF m.seg_override_en > 0 THEN m.seg_override_en - 1 ELSE 0
             r == IF m.rep_override_en > 0 THEN m.rep_override_en - 1 ELSE 0
  <1>5. Control(m) = Mode(At(m), m.f.i, m.f.t, m.stop = "halted", m.seg_override_en,
                          m.seg_override, m.rep_override_en, m.rep_mode, Frames)
    BY ControlAt DEF Before
  <1>6. Abstract(locs, isr)!DecPrefix(Control(m)) =
          Mode(At(m), m.f.i, m.f.t, m.stop = "halted", s, m.seg_override, r, m.rep_mode, Frames)
    BY <1>5, DecPrefixIs
  <1>7. Ready.seg_override_en = s /\ Ready.rep_override_en = r
    BY <1>1
  <1> HIDE DEF s, r
  <1>8. Before(Ahead, At(m)) =
          Mode(At(m), m.f.i, m.f.t, m.stop = "halted", s, m.seg_override, r, m.rep_mode, Frames)
    BY <1>1, <1>3, <1>7 DEF Before, SameMode, SamePrefixes
  <1>9. QED
    BY <1>1, <1>3, <1>4, <1>6, <1>8 DEF SameMode

LEMMA TableIs ==
  ASSUME NEW x, NEW w, NEW v, v \in 0..4 \cup {7, 10, w}
  PROVE  v \in DOMAIN Table(x, w) /\ Table(x, w)[v] = <<Peek16(x, 4 * v + 2), Peek16(x, 4 * v)>>
  BY DEF Table

LEMMA InstrHas ==
  ASSUME NEW locs, NEW isr, NEW to, to \in locs
  PROVE  /\ \A op \in {"plain", "lea", "hlt"} : [op |-> op, to |-> to] \in Abstract(locs, isr)!Instr
         /\ \A s \in 0..3 : [op |-> "seg", sreg |-> s, to |-> to] \in Abstract(locs, isr)!Instr
         /\ \A mode \in {"repnz", "repz"} :
              [op |-> "rep", mode |-> mode, to |-> to] \in Abstract(locs, isr)!Instr
         /\ \A if, tf \in BOOLEAN :
              [op |-> "flags", IFlag |-> if, TFlag |-> tf, to |-> to] \in Abstract(locs, isr)!Instr
         /\ \A v \in DOMAIN isr : [op |-> "int", vec |-> v, to |-> to] \in Abstract(locs, isr)!Instr
  BY DEF Abstract!Instr, Abstract!RepMode, Abstract!Vector

LEMMA OpcodesAre ==
  /\ Opcodes["plain"] = 0..255 /\ Opcodes["lea"] = {\h8D} /\ Opcodes["hlt"] = {\hF4}
  /\ Opcodes["seg"] = Kinds["seg"] /\ Opcodes["rep"] = Kinds["rep"]
  /\ Opcodes["flags"] = {\h9D, \hCF, \hFA, \hFB}
  /\ Opcodes["int"] = {\hCC, \hCD, \hCE, \hD4, \hF6, \hF7}
  BY DEF Opcodes

(* Some instruction of Cpu, of the opcode that was fetched, does this step.  *)
LEMMA AbstractedNext ==
  ASSUME TypeOK, Next
  PROVE  Abstracted
  <1> DEFINE x == m'
             locs == {At(x), FrameOn(x).at}
             isr == Table(x, Fetch(m, 1))
             Does(i) == Abstract(locs, isr)!Exec(Before(Ahead, At(m)), i)
             Is(i, op) == i \in Abstract(locs, isr)!Instr /\ i.op = op /\ Fetch(m, 0) \in Opcodes[op]
             Matches(i) == /\ i \in Abstract(locs, isr)!Instr /\ Fetch(m, 0) \in Opcodes[i.op]
                           /\ Does(i) = IF i.op = "int"
                                          THEN [Control(x) EXCEPT !.pushed = <<FrameOn(x)>>]
                                          ELSE Control(x)
  <1>1. SUFFICES ASSUME x.stop # "killed" PROVE \E i : Matches(i)
    <2>1. PICK kinds, ops : Next8086(kinds, ops)
      BY StepOutcome
    <2>2. Abstract(locs, isr)!DecPrefix(Control(m)) = Before(Ahead, At(m))
      BY <2>1, BeforeIs DEF TypeOK
    <2>3. Control(x).at = At(x)
      BY DEF Control, At
    <2>4. CASE x.stop = "killed"
      BY <2>4 DEF Abstracted
    <2>5. CASE x.stop # "killed"
      <3>1. PICK i : Matches(i)
        BY <1>1, <2>5
      <3>2. QED
        BY <2>2, <2>3, <3>1, Zenon DEF Abstracted
    <2>6. QED
      BY <2>4, <2>5
  <1>2. PICK kinds, ops : Next8086(kinds, ops)
    BY StepOutcome
  <1>3. /\ IsMachine(m) /\ IsInstr(This) /\ Fields(m, This) /\ This.op \in 0..255
        /\ This.op \in Kinds[This.kind]
    BY <1>2, ThisIs DEF TypeOK
  <1>4. Fetch(m, 0) = This.op
    BY <1>3 DEF Fields
  <1>5. Outcome(Ahead, This, x) /\ IsMachine(x) /\ IsMachine(Ahead)
    BY <1>2, <1>3, StepOutcome, OutcomeMachine, BeforeIs
  <1>6. At(x) \in locs
    OBVIOUS
  <1>7. x.f.i \in BOOLEAN /\ x.f.t \in BOOLEAN
    BY <1>5, MachineIs
  <1> HIDE DEF x, isr
  <1>8. CASE Leaves(Ahead, x)
    <2> DEFINE i == [op |-> "plain", to |-> At(x)]
    <2>1. i.op = "plain"
      OBVIOUS
    <2>2. i \in Abstract(locs, isr)!Instr
      BY <1>6, InstrHas
    <2> HIDE DEF locs
    <2>3. Does(i) = Control(x)
      BY <1>8, PlainDoes
    <2> HIDE DEF i
    <2>4. QED
      BY <1>3, <1>4, <2>1, <2>2, <2>3, OpcodesAre
  <1>9. CASE This.op \in {\h9D, \hFA, \hFB, \hCF} /\ SameMode(Ahead, x)
    <2> DEFINE i == [op |-> "flags", IFlag |-> x.f.i, TFlag |-> x.f.t, to |-> At(x)]
    <2>1. i.op = "flags"
      OBVIOUS
    <2>2. i \in Abstract(locs, isr)!Instr
      BY <1>6, <1>7, InstrHas
    <2> HIDE DEF locs
    <2>3. Does(i) = Control(x)
      BY <1>7, <1>9, FlagsDoes
    <2> HIDE DEF i
    <2>4. QED
      BY <1>4, <1>9, <2>1, <2>2, <2>3, OpcodesAre
  <1>10. CASE This.op = \h8D /\ AfterLea(Ahead, x)
    <2> DEFINE i == [op |-> "lea", to |-> At(x)]
    <2>1. i.op = "lea"
      OBVIOUS
    <2>2. i \in Abstract(locs, isr)!Instr
      BY <1>6, InstrHas
    <2> HIDE DEF locs
    <2>3. Does(i) = Control(x)
      BY <1>10, LeaDoes
    <2> HIDE DEF i
    <2>4. QED
      BY <1>4, <1>10, <2>1, <2>2, <2>3, OpcodesAre
  <1>11. CASE This.kind = "hlt" /\ AfterHlt(Ahead, x)
    <2> DEFINE i == [op |-> "hlt", to |-> At(x)]
    <2>1. i.op = "hlt"
      OBVIOUS
    <2>2. i \in Abstract(locs, isr)!Instr
      BY <1>6, InstrHas
    <2> HIDE DEF locs
    <2>3. Does(i) = Control(x)
      BY <1>11, HltDoes
    <2>4. This.op = \hF4
      BY <1>3, <1>11, KindsAre
    <2> HIDE DEF i
    <2>5. QED
      BY <1>4, <2>1, <2>2, <2>3, <2>4, OpcodesAre
  <1>12. CASE This.kind = "seg" /\ AfterSeg(Ahead, (This.op \div 8) % 4, x)
    <2> DEFINE s == (This.op \div 8) % 4
               i == [op |-> "seg", sreg |-> s, to |-> At(x)]
    <2>1. i.op = "seg"
      OBVIOUS
    <2>2. s \in 0..3
      BY <1>3
    <2>3. AfterSeg(Ahead, s, x)
      BY <1>12
    <2> HIDE DEF s
    <2>4. i \in Abstract(locs, isr)!Instr
      BY <1>6, <2>2, InstrHas
    <2> HIDE DEF locs
    <2>5. Does(i) = Control(x)
      BY <1>5, <2>2, <2>3, SegDoes
    <2> HIDE DEF i
    <2>6. QED
      BY <1>3, <1>4, <1>12, <2>1, <2>4, <2>5, OpcodesAre
  <1>13. CASE This.kind = "rep" /\ AfterRep(Ahead, IF This.w = 1 THEN "repz" ELSE "repnz", x)
    <2> DEFINE mode == IF This.w = 1 THEN "repz" ELSE "repnz"
               i == [op |-> "rep", mode |-> mode, to |-> At(x)]
    <2>1. i.op = "rep"
      OBVIOUS
    <2>2. mode \in {"repnz", "repz"} /\ AfterRep(Ahead, mode, x)
      BY <1>13
    <2> HIDE DEF mode
    <2>3. i \in Abstract(locs, isr)!Instr
      BY <1>6, <2>2, InstrHas
    <2> HIDE DEF locs
    <2>4. Does(i) = Control(x)
      BY <1>5, <2>2, RepDoes
    <2> HIDE DEF i
    <2>5. QED
      BY <1>3, <1>4, <1>13, <2>1, <2>3, <2>4, OpcodesAre
  <1>14. ASSUME NEW v, v \in 0..4 \cup {7, 10, Fetch(m, 1)}, Interrupted(Ahead, v, x),
                This.op \in {\hCC, \hCD, \hCE, \hD4, \hF6, \hF7}
         PROVE  \E i : Matches(i)
    <2> DEFINE i == [op |-> "int", vec |-> v, to |-> At(Ahead)]
    <2>1. i.op = "int"
      OBVIOUS
    <2>2. At(Ahead) \in locs
      <3>1. FrameOn(x) = FrameOf(At(Ahead), Ahead.f.i, Ahead.f.t)
        BY <1>5, <1>14, FramePushed
      <3>2. FrameOn(x).at = At(Ahead)
        BY <3>1 DEF FrameOf
      <3>3. QED
        BY <3>2
    <2>3. v \in DOMAIN isr /\ isr[v] = At(x)
      <3>1. isr[v] = <<Peek16(x, 4 * v + 2), Peek16(x, 4 * v)>> /\ v \in DOMAIN isr
        BY <1>14, TableIs DEF isr
      <3>2. QED
        BY <1>14, <3>1 DEF Interrupted, At
    <2>4. i \in Abstract(locs, isr)!Instr
      BY <2>2, <2>3, InstrHas
    <2> HIDE DEF locs
    <2>5. Does(i) = WithFrames(Control(x), <<FrameOn(x)>>)
      BY <1>5, <1>14, <2>3, IntDoes
    <2> HIDE DEF i
    <2>6. Fetch(m, 0) \in Opcodes["int"]
      BY <1>4, <1>14, OpcodesAre
    <2>7. QED
      BY <2>1, <2>4, <2>5, <2>6, Zenon DEF WithFrames
  <1>15. CASE Trapped(Ahead, This, x)
    <2>1. AlOf(This.data0) = Fetch(m, 1)
      <3> DEFINE k == 1
      <3>1. k \in Int /\ This.data0 = Fetch16(m, k)
        BY <1>3 DEF Fields
      <3> HIDE DEF k
      <3>2. AlOf(This.data0) = Fetch(m, k)
        BY <1>3, <3>1, FetchLow
      <3>3. QED
        BY <3>2 DEF k
    <2>2. Divides(This) => This.op \in {\hD4, \hF6, \hF7}
      BY <1>3, KindsAre DEF Divides
    <2> HIDE DEF Matches
    <2>3. QED
      BY <1>14, <1>15, <2>1, <2>2 DEF Trapped
  <1>16. QED
    <2>1. CASE Ordinary(Ahead, This) /\ Keeps(Ahead, x)
      BY <1>8, <2>1, KeepsLeaves
    <2>2. CASE This.op \in {\h9D, \hFA, \hFB} /\ Moves(Ahead, x)
      BY <1>9, <2>2 DEF Moves
    <2>3. CASE Jumped(Ahead, This, x)
      BY <1>8, <2>3 DEF Jumped
    <2>4. CASE This.op = \hCF /\ IsMachine(x) /\ SameMode(Ahead, x)
      BY <1>9, <2>4
    <2> HIDE DEF Matches
    <2>5. x.stop # "killed"
      BY <1>1
    <2>6. QED
      BY <1>5, <1>10, <1>11, <1>12, <1>13, <1>15, <2>1, <2>2, <2>3, <2>4, <2>5 DEF Outcome

(* The machine that runs a program, whatever the program and wherever it     *)
(* starts, takes only steps of Cpu's instructions, and each of them only     *)
(* from the opcodes that Cpu says it stands for: what is proved of the run   *)
(* loop over Cpu holds over the instructions of execute_instruction.         *)
THEOREM GuestControlAbstracted == Spec => ControlAbstracted
  <1>1. TypeOK /\ [Next]_vars => [Abstracted]_vars
    BY AbstractedNext
  <1>2. QED
    BY <1>1, GuestTypes, PTL DEF Spec, ControlAbstracted

-----------------------------------------------------------------------------
(* The lengths of instructions: the tables of the BIOS and the corrections of *)
(* execute_instruction against the 8086's encoding.                           *)
LEMMA KindNames ==
  DOMAIN Kinds =
    {"jcc", "movRegImm", "incDec", "pushReg", "popReg", "group5", "group3", "aluAcc",
     "aluImm", "alu", "mov", "segLea", "moffs", "shift", "loop", "jump", "test", "xchgAx",
     "string", "ret", "movImm", "in", "out", "rep", "xchg", "pushSeg", "popSeg", "seg",
     "decimal", "convert", "callFar", "flagsReg", "farLoad", "int", "salc", "xlat", "cmc",
     "flag", "testAcc", "bios", "hlt", "ignored"}
  BY DEF Kinds

LEMMA KindsOf ==
  ASSUME NEW op, op \in 0..255
  PROVE  /\ Kind[op] = "movRegImm" <=> op \in \hB0..\hBF
         /\ Kind[op] = "group3" <=> op \in {\hF6, \hF7}
         /\ Kind[op] = "aluImm" <=> op \in \h80..\h83
         /\ Kind[op] = "jump" <=> op \in \hE8..\hEB
         /\ Kind[op] = "int" <=> op \in {\hCC, \hCD, \hCE}
  <1> DEFINE k == Kind[op]
  <1>1. k \in DOMAIN Kinds /\ op \in Kinds[k]
    BY KindIs
  <1> HIDE DEF k
  <1>2. op \in Rows({4, 5}) \cup Rows(0..3) => op < 64
    BY RowsOfKinds
  <1>3. QED
    BY <1>1, <1>2, KindNames, KindsAre, SMTT(20) DEF k

LEMMA ModrmIs ==
  ASSUME NEW op, op \in 0..255
  PROVE  op \in HasModrm <=>
           \/ op < 64 /\ op % 8 < 4
           \/ op \in \h80..\h8F \cup {\hC0, \hC1} \cup \hC4..\hC7 \cup \hD0..\hD3
                      \cup \hD8..\hDF \cup {\hF6, \hF7, \hFE, \hFF}
  <1>1. op \in Rows(0..3) <=> op < 64 /\ op % 8 \in 0..3
    BY RowsOfKinds
  <1>2. op % 8 \in 0..3 <=> op % 8 < 4
    OBVIOUS
  <1>3. QED
    BY <1>1, <1>2 DEF HasModrm

LEMMA OperandIs ==
  ASSUME NEW op, op \in 0..255, NEW arg, arg \in 0..255
  PROVE  EncodedOperand(op, arg) =
           IF op \in HasModrm THEN 1 + DispSize(arg \div 64, arg % 8) ELSE 0
  <1> DEFINE mod == arg \div 64
             rm == arg % 8
  <1>1. mod \in 0..3 /\ rm \in 0..7
    OBVIOUS
  <1>2. EncodedOperand(op, arg) =
          IF op \in HasModrm
            THEN CASE mod = 1 -> 2
                   [] mod = 2 \/ (mod = 0 /\ rm = 6) -> 3
                   [] OTHER -> 1
            ELSE 0
    BY ModrmIs DEF EncodedOperand
  <1> HIDE DEF mod, rm
  <1>3. (CASE mod = 1 -> 2
           [] mod = 2 \/ (mod = 0 /\ rm = 6) -> 3
           [] OTHER -> 1) = 1 + DispSize(mod, rm)
    BY <1>1 DEF DispSize
  <1>4. QED
    BY <1>2, <1>3 DEF mod, rm

\* the immediate of an instruction by the tables, and its ModRM byte
Immediate(op) == IF op \in HasImmediate THEN (op % 2) + 1 ELSE 0
ModrmByte(op) == IF op \in HasModrm THEN 1 ELSE 0
Plain8086 ==
  Encoded \ ({\h9A, \hC2, \hC3, \hCA, \hCB, \hCC, \hCD, \hCE, \hCF, \hF6, \hF7}
              \cup \hE8..\hEB \cup \h80..\h83 \cup \hB0..\hBF)

SizesOf(op, reg) ==
  /\ op \in Plain8086 =>
       BaseSize[op] + Immediate(op) = 1 + ModrmByte(op) + EncodedImmediate(op, reg)
  /\ op \in \h80..\h83 => /\ BaseSize[op] = 2 /\ Immediate(op) = (op % 2) + 1
                          /\ EncodedImmediate(op, reg) = IF op = \h81 THEN 2 ELSE 1
  /\ op \in \hB0..\hBF => EncodedImmediate(op, reg) = IF op >= \hB8 THEN 2 ELSE 1
  /\ op \in {\hF6, \hF7} =>
       /\ BaseSize[op] = 2 /\ Immediate(op) = 0
       /\ EncodedImmediate(op, reg) = IF reg = 0 THEN (op % 2) + 1 ELSE 0
  /\ op \in {\hE8, \hE9} => EncodedImmediate(op, reg) = 2
  /\ op = \hEB => EncodedImmediate(op, reg) = 1
  /\ op \in {\hCC, \hCE} => EncodedImmediate(op, reg) = 0
  /\ op = \hCD => EncodedImmediate(op, reg) = 1

LEMMA ImmediateIs ==
  ASSUME NEW op, op \in 0..255, NEW reg, reg \in 0..7
  PROVE  SizesOf(op, reg)
  <1>1. /\ op \in Rows(0..3) <=> op < 64 /\ op % 8 \in 0..3
        /\ op \in Rows({4, 5}) <=> op < 64 /\ op % 8 \in {4, 5}
    BY RowsOfKinds
  <1>2. /\ op % 8 \in 0..3 <=> op % 8 < 4
        /\ op % 8 \in {4, 5} <=> op % 8 = 4 \/ op % 8 = 5
    OBVIOUS
  <1>3. CASE 0 <= op /\ op < 64
    BY <1>1, <1>2, <1>3
    DEF BaseSize, Immediate, ModrmByte, HasImmediate, HasModrm, EncodedImmediate, Plain8086, Encoded, SizesOf
  <1>4. CASE 64 <= op /\ op < 128
    BY <1>1, <1>2, <1>4
    DEF BaseSize, Immediate, ModrmByte, HasImmediate, HasModrm, EncodedImmediate, Plain8086, Encoded, SizesOf
  <1>5. CASE 128 <= op /\ op < 192
    BY <1>1, <1>2, <1>5
    DEF BaseSize, Immediate, ModrmByte, HasImmediate, HasModrm, EncodedImmediate, Plain8086, Encoded, SizesOf
  <1>6. CASE 192 <= op /\ op < 224
    BY <1>1, <1>2, <1>6
    DEF BaseSize, Immediate, ModrmByte, HasImmediate, HasModrm, EncodedImmediate, Plain8086, Encoded, SizesOf
  <1>7. CASE 224 <= op /\ op < 256
    BY <1>1, <1>2, <1>7
    DEF BaseSize, Immediate, ModrmByte, HasImmediate, HasModrm, EncodedImmediate, Plain8086, Encoded, SizesOf
  <1>8. QED
    BY <1>3, <1>4, <1>5, <1>6, <1>7

\* where no return address and no far target is involved
Sized == Encoded \ {\h9A, \hC2, \hC3, \hCA, \hCB, \hCF, \hEA}

LEMMA LengthIs ==
  ASSUME NEW n, IsMachine(n), Fetch(n, 0) \in Sized
  PROVE  LET d == Decode(n)
             arg == Fetch(n, 1)
         IN  Length(d) = 1 + EncodedOperand(d.op, arg) + EncodedImmediate(d.op, (arg \div 8) % 8)
  <1> DEFINE d == Decode(n)
             op == Fetch(n, 0)
             arg == Fetch(n, 1)
             reg == (arg \div 8) % 8
             o == IF op \in HasModrm THEN DispSize(arg \div 64, arg % 8) ELSE 0
             i == Immediate(op)
             b == BaseSize[op]
             t == ModrmByte(op)
             e == EncodedImmediate(op, reg)
             k == Kind[op]
             w == op % 2
             dir == (op \div 2) % 2
  <1>1. IsInstr(d) /\ Fields(n, d)
        /\ d.len = BaseSize[d.op] + (IF d.op \in HasModrm THEN DispSize(d.mod, d.rm) ELSE 0)
                     + (IF d.op \in HasImmediate THEN d.w + 1 ELSE 0)
    BY DecodeIs
  <1>2. op \in 0..255 /\ arg \in 0..255
    <2> DEFINE one == 1
    <2>1. one \in Int
      OBVIOUS
    <2> HIDE DEF one
    <2>2. Fetch(n, one) \in 0..255
      BY <2>1, FetchIs
    <2>3. QED
      BY <1>1, <2>2, InstrIs DEF Fields, one
  <1>3. reg \in 0..7
    BY <1>2
  <1>4. /\ d.op = op /\ d.kind = k /\ d.w = w /\ d.dir = dir
        /\ op \in HasModrm => d.mod = arg \div 64 /\ d.rm = arg % 8 /\ d.reg = reg
    BY <1>1 DEF Fields
  <1>5. d.len = b + o + i
    <2>1. (IF d.op \in HasModrm THEN DispSize(d.mod, d.rm) ELSE 0) = o
      BY <1>4
    <2>2. (IF d.op \in HasImmediate THEN d.w + 1 ELSE 0) = i
      BY <1>4 DEF Immediate
    <2> HIDE DEF o, i, d
    <2>3. QED
      BY <1>1, <1>4, <2>1, <2>2
  <1>6. EncodedOperand(op, arg) = t + o
    BY <1>2, OperandIs DEF ModrmByte
  <1>7. o \in Int
    BY <1>2 DEF DispSize
  <1>8. Length(d) = CASE d.kind = "movRegImm" -> IF d.op >= \hB8 THEN 3 ELSE 2
                      [] d.kind = "group3" /\ d.reg = 0 -> d.len + d.w + 1
                      [] d.kind = "aluImm" -> d.len - d.w + (IF d.dir = 0 /\ d.w = 1 THEN 1 ELSE 0)
                      [] d.kind = "jump" -> 3 - d.dir
                      [] d.kind = "int" -> IF d.op = \hCD THEN 2 ELSE 1
                      [] OTHER -> d.len
    BY DEF Length
  <1> DEFINE len == d.len
             r == d.reg
             l == Length(d)
  <1>9. l = CASE k = "movRegImm" -> IF op >= \hB8 THEN 3 ELSE 2
              [] k = "group3" /\ r = 0 -> len + w + 1
              [] k = "aluImm" -> len - w + (IF dir = 0 /\ w = 1 THEN 1 ELSE 0)
              [] k = "jump" -> 3 - dir
              [] k = "int" -> IF op = \hCD THEN 2 ELSE 1
              [] OTHER -> len
    <2> HIDE DEF d
    <2>1. QED
      BY <1>4, <1>8
  <1>10. op \in HasModrm => r = reg
    BY <1>4
  <1>11. len = b + o + i
    BY <1>5
  <1>12. op \in Sized
    OBVIOUS
  <1>13. EncodedOperand(d.op, arg) = t + o /\ EncodedImmediate(d.op, reg) = e
    BY <1>4, <1>6
  <1> HIDE DEF d, l, len, r, o, op, reg
  <1>14. /\ k = "movRegImm" <=> op \in \hB0..\hBF
         /\ k = "group3" <=> op \in {\hF6, \hF7}
         /\ k = "aluImm" <=> op \in \h80..\h83
         /\ k = "jump" <=> op \in \hE8..\hEB
         /\ k = "int" <=> op \in {\hCC, \hCD, \hCE}
    BY <1>2, KindsOf
  <1>15. /\ op \in Plain8086 => b + i = 1 + t + e
         /\ op \in \h80..\h83 => b = 2 /\ i = (op % 2) + 1 /\ e = IF op = \h81 THEN 2 ELSE 1
         /\ op \in \hB0..\hBF => e = IF op >= \hB8 THEN 2 ELSE 1
         /\ op \in {\hF6, \hF7} => b = 2 /\ i = 0 /\ e = IF reg = 0 THEN (op % 2) + 1 ELSE 0
         /\ op \in {\hE8, \hE9} => e = 2
         /\ op = \hEB => e = 1
         /\ op \in {\hCC, \hCE} => e = 0
         /\ op = \hCD => e = 1
    <2>1. SizesOf(op, reg)
      BY <1>2, <1>3, ImmediateIs
    <2>2. QED
      BY <2>1 DEF SizesOf
  <1>16. b \in Int /\ i \in Int /\ t \in Int /\ e \in Int
    BY <1>2, BaseSizeIs DEF Immediate, ModrmByte, EncodedImmediate
  <1>17. op \in \h80..\h83 \cup {\hF6, \hF7} => op \in HasModrm /\ t = 1
    BY <1>2, ModrmIs DEF ModrmByte
  <1>18. op \in \hB0..\hBF \cup \hE8..\hEB \cup {\hCC, \hCD, \hCE} => op \notin HasModrm
    BY <1>2, ModrmIs
  <1>19. op \notin HasModrm => t = 0 /\ o = 0
    BY DEF ModrmByte, o
  <1> HIDE DEF b, i, t, e, k
  <1>20. l = 1 + t + o + e
    <2>1. CASE op \in Plain8086
      <3>1. l = len
        BY <1>9, <1>14, <2>1 DEF Plain8086, Encoded
      <3>2. QED
        BY <1>7, <1>11, <1>15, <1>16, <2>1, <3>1
    <2>2. CASE op \in \h80..\h83
      <3>1. l = len - w + (IF dir = 0 /\ w = 1 THEN 1 ELSE 0)
        BY <1>9, <1>14, <2>2
      <3>2. b = 2 /\ i = (op % 2) + 1 /\ t = 1 /\ e = IF op = \h81 THEN 2 ELSE 1
        BY <1>15, <1>17, <2>2
      <3>3. QED
        BY <1>7, <1>11, <2>2, <3>1, <3>2
    <2>3. CASE op \in \hB0..\hBF
      BY <1>9, <1>14, <1>15, <1>18, <1>19, <2>3
    <2>4. CASE op \in {\hF6, \hF7}
      <3>1. l = (IF r = 0 THEN len + w + 1 ELSE len) /\ r = reg /\ t = 1
        BY <1>9, <1>10, <1>14, <1>17, <2>4
      <3>2. b = 2 /\ i = 0 /\ e = IF reg = 0 THEN (op % 2) + 1 ELSE 0
        BY <1>15, <2>4
      <3>3. QED
        BY <1>7, <1>11, <2>4, <3>1, <3>2
    <2>5. CASE op \in {\hE8, \hE9, \hEB}
      <3>1. l = 3 - dir
        BY <1>9, <1>14, <2>5
      <3>2. QED
        BY <1>15, <1>18, <1>19, <2>5, <3>1
    <2>6. CASE op \in {\hCC, \hCD, \hCE}
      <3>1. l = IF op = \hCD THEN 2 ELSE 1
        BY <1>9, <1>14, <2>6
      <3>2. QED
        BY <1>15, <1>18, <1>19, <2>6, <3>1
    <2>7. QED
      BY <1>2, <1>12, <2>1, <2>2, <2>3, <2>4, <2>5, <2>6 DEF Sized, Plain8086
  <1>21. l = 1 + (t + o) + e
    BY <1>7, <1>16, <1>20
  <1>22. QED
    BY <1>13, <1>21 DEF l, d, reg

LEMMA JumpKinds ==
  ASSUME NEW op, op \in 0..255
  PROVE  /\ Kind[op] = "jcc" <=> op \in \h70..\h7F \cup {\hF1}
         /\ Kind[op] = "loop" <=> op \in \hE0..\hE3
         /\ Kind[op] = "ret" <=> op \in {\hC2, \hC3, \hCA, \hCB, \hCF}
         /\ Kind[op] = "callFar" <=> op = \h9A
         /\ Kind[op] = "group5" <=> op \in {\hFE, \hFF}
         /\ Kind[op] = "hlt" <=> op = \hF4
         /\ Kind[op] = "seg" <=> op \in {\h26, \h2E, \h36, \h3E}
         /\ Kind[op] = "rep" <=> op \in {\hF2, \hF3}
  <1> DEFINE k == Kind[op]
  <1>1. k \in DOMAIN Kinds /\ op \in Kinds[k]
    BY KindIs
  <1> HIDE DEF k
  <1>2. /\ op \in Rows({4, 5}) => op < 64 /\ op % 8 \in {4, 5}
        /\ op \in Rows(0..3) => op < 64 /\ op % 8 \in 0..3
    BY RowsOfKinds
  <1>3. QED
    BY <1>1, <1>2, KindNames, KindsAre, SMTT(20) DEF k

(* The signed distance of a short jump, in 16 bits or as an integer.        *)
LEMMA ShortIs ==
  ASSUME NEW b, b \in 0..255, NEW ip, ip \in Int
  PROVE  Wrap16(ip + SignExtend(b)) = Wrap16(ip + (IF b < 128 THEN b ELSE b - 256))
  BY DEF Wrap16, SignExtend

(* Where the opcodes of the encoding leave IP and the top of the stack.     *)
Arms(op, reg, next, short, near, o, ip, top) ==
  CASE op \in \h70..\h7F \cup \hE0..\hE3 \cup {\hEB} -> ip = short \/ (ip = next /\ op # \hEB)
    [] op = \hE9 -> ip = near
    [] op = \hE8 -> ip = near /\ top = next
    [] op \in {\hCC, \hCD} \/ (op = \hCE /\ o) -> top = next
    [] op \in {\hFE, \hFF} /\ reg \in {2, 3} -> top = next
    [] op \in {\h9A, \hC2, \hC3, \hCA, \hCB, \hCF, \hEA}
         \/ (op \in {\hFE, \hFF} /\ reg \in {4, 5}) -> TRUE
    [] OTHER -> ip = next \/ ((op = \hD4 \/ (op \in {\hF6, \hF7} /\ reg \in {6, 7})) /\ top = next)

EncodedNext(x) ==
  Wrap16(x.ip + 1 + EncodedOperand(Fetch(x, 0), Fetch(x, 1))
             + EncodedImmediate(Fetch(x, 0), (Fetch(x, 1) \div 8) % 8))

(* The machine with IP past the instruction, by the encoding.               *)
LEMMA AheadFollows ==
  ASSUME IsMachine(m), NEW kinds, NEW ops, Next8086(kinds, ops), Fetch(m, 0) \in Sized
  PROVE  Ahead.ip = EncodedNext(m)
  <1> DEFINE op == Fetch(m, 0)
             arg == Fetch(m, 1)
             o == EncodedOperand(op, arg)
             i == EncodedImmediate(op, (arg \div 8) % 8)
             d == Decode(Ready)
  <1>1. /\ IsMachine(Ready) /\ Ready.ip = m.ip /\ Ready.sreg = m.sreg /\ Ready.mem = m.mem
    BY CountDownIs DEF Ready
  <1>2. \A k : Fetch(Ready, k) = Fetch(m, k)
    BY <1>1 DEF Fetch, Peek
  <1>3. d.op = op
    <2>1. Fields(Ready, d)
      BY <1>1, DecodeIs
    <2> HIDE DEF d
    <2>2. QED
      BY <1>2, <2>1 DEF Fields
  <1>4. Length(d) = 1 + o + i
    <2>1. Fetch(Ready, 0) \in Sized
      BY <1>2
    <2>2. Length(d) = 1 + EncodedOperand(d.op, Fetch(Ready, 1))
                        + EncodedImmediate(d.op, (Fetch(Ready, 1) \div 8) % 8)
      BY <1>1, <2>1, LengthIs
    <2> HIDE DEF d
    <2>3. QED
      BY <1>2, <1>3, <2>2
  <1>5. This.len = Length(d) /\ IsInstr(This) /\ Ahead = Advance(Ready, This)
    BY ThisIs
  <1>6. Ahead.ip = Wrap16(Past(Ready, This))
    BY <1>1, <1>5, AheadIs
  <1>7. m.ip \in Int
    BY MachineIs, WordInt
  <1>8. o \in Int /\ i \in Int
    BY DEF EncodedOperand, EncodedImmediate
  <1> HIDE DEF d, o, i
  <1>9. Past(Ready, This) = m.ip + 1 + o + i
    BY <1>1, <1>4, <1>5, <1>7, <1>8 DEF Past
  <1>10. QED
    BY <1>6, <1>9 DEF EncodedNext, o, i

LEMMA FollowsNext ==
  ASSUME TypeOK, Next
  PROVE  Follows
  <1> DEFINE x == m'
             op == Fetch(m, 0)
             arg == Fetch(m, 1)
             reg == (arg \div 8) % 8
             next == EncodedNext(m)
             rel8 == IF arg < 128 THEN arg ELSE arg - 256
             short == Wrap16(next + rel8)
             near == Wrap16(next + Fetch16(m, 1))
             o == m.f.o
             ip == x.ip
             top == Top(x)
  <1>1. SUFFICES ASSUME op \in Encoded, x.stop # "killed"
                 PROVE  Arms(op, reg, next, short, near, o, ip, top)
    BY Zenon DEF Follows, Arms, EncodedNext
  <1>2. PICK kinds, ops : Next8086(kinds, ops)
    BY StepOutcome
  <1>3. IsMachine(m) /\ Fields(m, This)
    BY <1>2, ThisIs DEF TypeOK
  <1>4. op \in 0..255 /\ arg \in 0..255
    <2> DEFINE zero == 0
               one == 1
    <2>1. zero \in Int /\ one \in Int
      OBVIOUS
    <2> HIDE DEF zero, one
    <2>2. Fetch(m, zero) \in 0..255 /\ Fetch(m, one) \in 0..255
      BY <1>3, <2>1, FetchIs
    <2>3. QED
      BY <2>2 DEF zero, one
  <1> DEFINE d == This
             k == Kind[op]
             r == d.reg
             a == Ahead
  <1>5. d.op = op /\ d.kind = k /\ (op \in HasModrm => r = reg)
    BY <1>3 DEF Fields
  <1>6. Outcome(a, d, x)
    BY <1>2, StepOutcome
  <1>7. op \in {\hF6, \hF7, \hFE, \hFF} => r = reg
    BY <1>4, <1>5, ModrmIs
  <1>8. op \in Sized => a.ip = next
    BY <1>2, <1>3, AheadFollows
  <1>9. a.f.o = o
    <2>1. IsMachine(Ready) /\ Ready.f = m.f
      BY <1>3, CountDownIs DEF Ready
    <2>2. IsInstr(This) /\ Ahead = Advance(Ready, This)
      BY <1>2, <1>3, ThisIs
    <2>3. QED
      BY <2>1, <2>2, AheadIs
  <1>10. next \in Int
    <2> DEFINE v == m.ip + 1 + EncodedOperand(op, arg) + EncodedImmediate(op, reg)
    <2>1. m.ip \in Int
      BY <1>3, MachineIs, WordInt
    <2>2. EncodedOperand(op, arg) \in Int /\ EncodedImmediate(op, reg) \in Int
      BY DEF EncodedOperand, EncodedImmediate
    <2>3. v \in Int
      BY <2>1, <2>2
    <2>4. next = Wrap16(v)
      BY DEF EncodedNext
    <2> HIDE DEF v
    <2>5. QED
      BY <2>3, <2>4, WrapIn, WordInt
  <1>11. Wrap16(next + Rel8(d)) = short
    <2>1. AlOf(d.data0) = arg
      <3> DEFINE one == 1
      <3>1. one \in Int /\ d.data0 = Fetch16(m, one)
        BY <1>3 DEF Fields
      <3> HIDE DEF one
      <3>2. AlOf(d.data0) = Fetch(m, one)
        BY <1>3, <3>1, FetchLow
      <3>3. QED
        BY <3>2 DEF one
    <2>2. Rel8(d) = SignExtend(arg)
      BY <2>1 DEF Rel8, AlOf
    <2> HIDE DEF d, arg, next
    <2>3. QED
      BY <1>4, <1>10, <2>2, ShortIs
  <1>12. Wrap16(next + d.data0) = near
    BY <1>3 DEF Fields
  <1>13. /\ k = "jcc" <=> op \in \h70..\h7F \cup {\hF1}
         /\ k = "loop" <=> op \in \hE0..\hE3
         /\ k = "ret" <=> op \in {\hC2, \hC3, \hCA, \hCB, \hCF}
         /\ k = "callFar" <=> op = \h9A
         /\ k = "group5" <=> op \in {\hFE, \hFF}
         /\ k = "hlt" <=> op = \hF4
         /\ k = "seg" <=> op \in {\h26, \h2E, \h36, \h3E}
         /\ k = "rep" <=> op \in {\hF2, \hF3}
         /\ k = "group3" <=> op \in {\hF6, \hF7}
         /\ k = "jump" <=> op \in \hE8..\hEB
         /\ k = "int" <=> op \in {\hCC, \hCD, \hCE}
    BY <1>4, JumpKinds, KindsOf
  <1> DEFINE aip == a.ip
  <1>14. /\ Ordinary(a, d) => /\ k \notin {"jcc", "loop", "jump", "ret", "callFar"}
                              /\ k = "group5" => r \notin 2..5
                              /\ k = "int" => op = \hCE /\ ~o
         /\ Divides(d) => op = \hD4 \/ (k = "group3" /\ r \in {6, 7})
    BY <1>5, <1>9 DEF Ordinary, Divides
  <1>15. \/ Ordinary(a, d) /\ ip = aip
         \/ op \in {\h9D, \hFA, \hFB, \h8D} /\ ip = aip
         \/ k \in {"hlt", "seg", "rep"} /\ ip = aip
         \/ op \in {\hCC, \hCD} /\ top = aip
         \/ op = \hCE /\ o /\ top = aip
         \/ Divides(d) /\ top = aip
         \/ k \in {"jcc", "loop"} /\ ip \in {Wrap16(aip + Rel8(d)), aip}
         \/ /\ k = "jump"
            /\ op = \hE8 => ip = Wrap16(aip + d.data0) /\ top = aip
            /\ op = \hE9 => ip = Wrap16(aip + d.data0)
            /\ op = \hEB => ip = Wrap16(aip + Rel8(d))
         \/ k = "group5" /\ r \in 2..5 /\ (r \in {2, 3} => top = aip)
         \/ k \in {"ret", "callFar"}
         \/ op = \hCF
    <2> DEFINE xx == m'
    <2>1. Outcome(a, d, xx) /\ xx.stop # "killed" /\ d.op = op /\ d.kind = k /\ a.f.o = o
          /\ ip = xx.ip /\ top = Top(xx) /\ aip = a.ip /\ r = d.reg
      BY <1>1, <1>5, <1>6, <1>9
    <2> HIDE DEF xx, a, d, op, k, o, ip, top, aip, r
    <2>2. QED
      BY <2>1 DEF Outcome, Keeps, Moves, AfterLea, AfterHlt, AfterSeg, AfterRep, Trapped,
                  Interrupted, Jumped
  <1>16. op \in Encoded
    BY <1>1
  <1> DEFINE rel == Rel8(d)
             data == d.data0
             ordinary == Ordinary(a, d)
             divides == Divides(d)
  <1> HIDE DEF rel, data, ordinary, divides, a, aip, d, k, r, op, reg, next, short, near, o, ip, top
  <1>17. aip = next \/ op \in {\h9A, \hC2, \hC3, \hCA, \hCB, \hCF, \hEA}
    BY <1>8, <1>16 DEF aip, Sized
  <1>18. CASE op \in {\h9A, \hC2, \hC3, \hCA, \hCB, \hCF, \hEA}
    BY <1>18 DEF Arms
  <1>19. CASE op \notin {\h9A, \hC2, \hC3, \hCA, \hCB, \hCF, \hEA}
    <2>1. aip = next /\ op # \hF1
      BY <1>16, <1>17, <1>19 DEF Encoded
    <2>2. \/ ordinary /\ ip = next
          \/ op \in {\h9D, \hFA, \hFB, \h8D} /\ ip = next
          \/ k \in {"hlt", "seg", "rep"} /\ ip = next
          \/ op \in {\hCC, \hCD} /\ top = next
          \/ op = \hCE /\ o /\ top = next
          \/ divides /\ top = next
          \/ k \in {"jcc", "loop"} /\ ip \in {short, next}
          \/ /\ k = "jump"
             /\ op = \hE8 => ip = near /\ top = next
             /\ op = \hE9 => ip = near
             /\ op = \hEB => ip = short
          \/ k = "group5" /\ r \in 2..5 /\ (r \in {2, 3} => top = next)
      BY <1>11, <1>12, <1>13, <1>15, <1>19, <2>1 DEF ordinary, divides
    <2>3. ordinary => /\ k \notin {"jcc", "loop", "jump", "ret", "callFar"}
                      /\ k = "group5" => r \notin 2..5
                      /\ k = "int" => op = \hCE /\ ~o
      BY <1>14 DEF ordinary
    <2>4. divides => op = \hD4 \/ (k = "group3" /\ r \in {6, 7})
      BY <1>14 DEF divides
    <2>5. QED
      BY <1>4, <1>7, <1>13, <1>19, <2>1, <2>2, <2>3, <2>4 DEF Arms
  <1>20. QED
    BY <1>18, <1>19

(* Instructions end where the 8086's encoding says, whatever the program,    *)
(* the machine and the bytes: the tables of the BIOS and the five            *)
(* corrections of execute_instruction agree with it, and short and near      *)
(* jumps, return addresses and traps are counted from there.                 *)
THEOREM GuestInstructionsFollow == Spec => InstructionsFollow
  <1>1. TypeOK /\ [Next]_vars => [Follows]_vars
    BY FollowsNext
  <1>2. QED
    BY <1>1, GuestTypes, PTL DEF Spec, InstructionsFollow

-----------------------------------------------------------------------------
(* The addressing of the 8086, in words of its manual and not of the tables. *)
AddressBase(n, rm) ==
  CASE rm = 0 -> n.reg[BX] + n.reg[SI]
    [] rm = 1 -> n.reg[BX] + n.reg[DI]
    [] rm = 2 -> n.reg[BP] + n.reg[SI]
    [] rm = 3 -> n.reg[BP] + n.reg[DI]
    [] rm = 4 -> n.reg[SI]
    [] rm = 5 -> n.reg[DI]
    [] rm = 6 -> n.reg[BP]
    [] rm = 7 -> n.reg[BX]

Direct(mod, rm) == mod = 0 /\ rm = 6

Displacement(n, mod, rm) ==
  CASE mod = 1                    -> IF Fetch(n, 2) < 128 THEN Fetch(n, 2) ELSE Fetch(n, 2) - 256
    [] mod = 2 \/ Direct(mod, rm) -> Fetch16(n, 2)
    [] OTHER                      -> 0

EffectiveAddress(n, mod, rm) ==
  Wrap16((IF Direct(mod, rm) THEN 0 ELSE AddressBase(n, rm)) + Displacement(n, mod, rm))

AddressSegment(n, mod, rm) ==
  IF n.seg_override_en > 0 THEN n.seg_override
  ELSE IF rm \in {2, 3} \/ (rm = 6 /\ mod # 0) THEN SS ELSE DS

\* the displacement as the decoder keeps it, in 16 bits
DataWord(n, mod) == IF mod = 1 THEN SignExtend(Fetch(n, 2)) ELSE Fetch16(n, 2)

LEMMA OffsetFollows ==
  ASSUME NEW n, IsMachine(n), NEW mod, mod \in 0..2, NEW rm, rm \in 0..7
  PROVE  Offset(n, mod, rm, DataWord(n, mod)) = EffectiveAddress(n, mod, rm)
  <1> DEFINE base == AddressBase(n, rm)
             b == Fetch(n, 2)
             w == Fetch16(n, 2)
             data == DataWord(n, mod)
             disp == Displacement(n, mod, rm)
             a == TableReg(n, rm_mode0_reg1[rm + 1])
             c == TableReg(n, rm_mode012_reg2[rm + 1])
             e == TableReg(n, rm_mode12_reg1[rm + 1])
  <1>1. b \in 0..255 /\ w \in Int
    <2> DEFINE two == 2
    <2>1. two \in Int
      OBVIOUS
    <2> HIDE DEF two
    <2>2. Fetch(n, two) \in 0..255 /\ Fetch16(n, two) \in Words16
      BY <2>1, FetchIs
    <2>3. Fetch16(n, two) \in Int
      BY <2>2, WordInt
    <2>4. QED
      BY <2>2, <2>3 DEF two
  <1>2. \A r \in 0..7 : n.reg[r] \in Int
    <2>1. SUFFICES ASSUME NEW r \in 0..7 PROVE n.reg[r] \in Int
      OBVIOUS
    <2>2. n.reg[r] \in Words16
      BY RegIn
    <2>3. QED
      BY <2>2, WordInt
  <1>3. e + c = base
    BY <1>2, RegistersAre
    DEF AddressBase, TableReg, rm_mode12_reg1, rm_mode012_reg2, BX, BP, SI, DI
  <1>4. rm # 6 => a + c = base
    BY <1>2, RegistersAre
    DEF AddressBase, TableReg, rm_mode0_reg1, rm_mode012_reg2, BX, BP, SI, DI
  <1>5. rm = 6 => a + c = 0
    BY DEF TableReg, rm_mode0_reg1, rm_mode012_reg2
  <1>6. base \in Int
    BY <1>2, RegistersAre DEF AddressBase
  <1>7. a + c \in Int /\ e + c \in Int
    BY <1>3, <1>4, <1>5, <1>6
  <1>8. Offset(n, mod, rm, data) =
          Wrap16(IF mod = 0 THEN a + c + (IF rm = 6 THEN data ELSE 0) ELSE e + c + data)
    BY DEF Offset
  <1>9. EffectiveAddress(n, mod, rm) = Wrap16((IF mod = 0 /\ rm = 6 THEN 0 ELSE base) + disp)
    BY DEF EffectiveAddress, Direct
  <1>10. data = (IF mod = 1 THEN SignExtend(b) ELSE w)
    BY DEF DataWord
  <1>11. disp = CASE mod = 1 -> IF b < 128 THEN b ELSE b - 256
                  [] mod = 2 \/ (mod = 0 /\ rm = 6) -> w
                  [] OTHER -> 0
    BY DEF Displacement, Direct
  <1> DEFINE u == a + c
             v == e + c
  <1>12. Offset(n, mod, rm, data) =
          Wrap16(IF mod = 0 THEN u + (IF rm = 6 THEN data ELSE 0) ELSE v + data)
    BY <1>8
  <1>13. v = base /\ (rm # 6 => u = base) /\ (rm = 6 => u = 0)
    BY <1>3, <1>4, <1>5
  <1> HIDE DEF u, v, a, c, e, base, data, disp, b, w
  <1>14. CASE mod = 1
    <2>1. Wrap16(base + SignExtend(b)) = Wrap16(base + (IF b < 128 THEN b ELSE b - 256))
      BY <1>1, <1>6, ShortIs
    <2>2. QED
      BY <1>9, <1>10, <1>11, <1>12, <1>13, <1>14, <2>1 DEF data
  <1>15. CASE mod # 1
    BY <1>1, <1>6, <1>9, <1>10, <1>11, <1>12, <1>13, <1>15 DEF data
  <1>16. QED
    BY <1>14, <1>15

(* The address of a memory operand is where the 8086's addressing puts it,   *)
(* for every opcode with a ModRM byte, every mode and every prefix: the      *)
(* 16-bit sum of its registers and of its signed displacement, in the        *)
(* segment of the prefix, of the stack when BP is one of them, or of data    *)
(* (decode.h, the R/M tables of the BIOS); and LEA gets the same sum back    *)
(* from the linear address (run.c, case 10).                                 *)
THEOREM OperandAddressed ==
  ASSUME NEW n, IsMachine(n), Fetch(n, 0) \in HasModrm,
         NEW mod, mod = Fetch(n, 1) \div 64, mod # 3, NEW rm, rm = Fetch(n, 1) % 8
  PROVE  /\ Decode(n).addr = 16 * n.sreg[AddressSegment(n, mod, rm)] + EffectiveAddress(n, mod, rm)
         /\ LeaOffset(n, Decode(n)) = EffectiveAddress(n, mod, rm)
  <1> DEFINE ea == EffectiveAddress(n, mod, rm)
             seg == Segment(n, DefaultSeg(mod, rm))
             d == Decode(n)
             arg == Fetch(n, 1)
  <1>1. arg \in 0..255
    <2> DEFINE one == 1
    <2>1. one \in Int
      OBVIOUS
    <2> HIDE DEF one
    <2>2. Fetch(n, one) \in 0..255
      BY <2>1, FetchIs
    <2>3. QED
      BY <2>2 DEF one
  <1> HIDE DEF arg
  <1>2. mod \in 0..2 /\ rm \in 0..7
    <2>1. mod = arg \div 64 /\ rm = arg % 8
      BY DEF arg
    <2>2. QED
      BY <1>1, <2>1
  <1>3. d.addr = Linear(seg, Offset(n, mod, rm, DataWord(n, mod))) /\ d.mod = mod /\ d.rm = rm
    BY <1>2 DEF Decode, DataWord
  <1>4. Offset(n, mod, rm, DataWord(n, mod)) = ea
    BY <1>2, OffsetFollows
  <1>5. seg = n.sreg[AddressSegment(n, mod, rm)]
    BY <1>2 DEF Segment, DefaultSeg, AddressSegment, rm_mode0_dfseg, rm_mode12_dfseg
  <1>6. ea \in Words16
    <2> DEFINE two == 2
               b == Fetch(n, two)
    <2>1. two \in Int
      OBVIOUS
    <2> HIDE DEF two
    <2>2. b \in 0..255 /\ Fetch16(n, two) \in Words16
      BY <2>1, FetchIs
    <2> HIDE DEF b
    <2>3. SignExtend(b) \in Words16
      BY <2>2, SignExtendIs
    <2>4. DataWord(n, mod) \in Words16
      BY <2>2, <2>3 DEF DataWord, b, two
    <2>5. QED
      BY <1>2, <1>4, <2>4, OffsetIs
  <1>7. seg \in Int
    <2>1. seg \in Words16
      BY <1>2, DefaultSegIs, SegmentIs
    <2>2. QED
      BY <2>1, WordInt
  <1> HIDE DEF d, ea, seg
  <1>8. d.addr = 16 * seg + ea
    BY <1>3, <1>4, <1>6, <1>7, WordInt DEF Linear
  <1>9. LeaOffset(n, d) = Wrap16(d.addr - 16 * seg)
    BY <1>3 DEF LeaOffset, seg
  <1>10. LeaOffset(n, d) = ea
    BY <1>6, <1>7, <1>8, <1>9, WordInt DEF Wrap16
  <1>11. QED
    BY <1>5, <1>8, <1>10 DEF d, ea

-----------------------------------------------------------------------------
(* Interrupts return.                                                      *)

(* Three words on the stack are six bytes. *)
LEMMA FrameSize ==
  ASSUME NEW n, IsMachine(n), NEW u, NEW v, NEW w, NEW p, NEW q, NEW x,
         Pushed(n, u, p), Pushed(p, v, q), Pushed(q, w, x)
  PROVE  x.reg = [n.reg EXCEPT ![SP] = Wrap16(n.reg[SP] - 6)] /\ x.sreg = n.sreg
  <1> DEFINE f == n.reg
             k == SP
             a == f[k]
  <1>1. f \in [0..7 -> Words16] /\ k \in 0..7
    BY MachineIs, RegistersAre
  <1>2. p.reg = [f EXCEPT ![k] = Wrap16(f[k] - 2)]
    BY DEF Pushed
  <1>3. q.reg = [p.reg EXCEPT ![k] = Wrap16(p.reg[k] - 2)]
    BY DEF Pushed
  <1>4. x.reg = [q.reg EXCEPT ![k] = Wrap16(q.reg[k] - 2)]
    BY DEF Pushed
  <1>5. x.sreg = n.sreg
    BY DEF Pushed
  <1> HIDE DEF f, k
  <1>6. a \in Words16
    BY <1>1
  <1>7. x.reg = [f EXCEPT ![k] = Wrap16(Wrap16(Wrap16(a - 2) - 2) - 2)]
    BY <1>1, <1>2, <1>3, <1>4
  <1> HIDE DEF a
  <1>8. Wrap16(Wrap16(Wrap16(a - 2) - 2) - 2) = Wrap16(a - 6)
    <2>1. a \in Int
      BY <1>6, WordInt
    <2>2. QED
      BY <2>1 DEF Wrap16
  <1>9. QED
    BY <1>5, <1>7, <1>8 DEF f, k, a

LEMMA InterruptStack ==
  ASSUME NEW n, IsMachine(n), NEW v, v \in 0..255
  PROVE  LET x == Interrupt(n, v)
         IN  x.reg[SP] = Wrap16(n.reg[SP] - 6) /\ x.sreg[SS] = n.sreg[SS]
  <1> DEFINE u == flags_pack(n.f)
             s == n.sreg[CS]
             ip == n.ip
             y == Push(n, u)
             z == Push(y, s)
             p == Push(z, ip)
             a == 4 * v
             b == 4 * v + 2
             x == Entered(p, Peek16(p, a), Peek16(p, b), Masked(p.f))
  <1>1. u \in Words16 /\ s \in Words16 /\ ip \in Words16
    BY MachineIs, FlagsPacked, RegistersAre, SegIn
  <1>2. Interrupt(n, v) = x
    BY Zenon DEF Interrupt, Far, Entered, Masked
  <1> HIDE DEF u, s, ip
  <1>3. Pushed(n, u, y)
    BY <1>1, PushIs
  <1> HIDE DEF y
  <1>4. IsMachine(y)
    BY <1>3, KeepsMachine DEF Pushed
  <1>5. Pushed(y, s, z)
    BY <1>1, <1>4, PushIs
  <1> HIDE DEF z
  <1>6. IsMachine(z)
    BY <1>5, KeepsMachine DEF Pushed
  <1>7. Pushed(z, ip, p)
    BY <1>1, <1>6, PushIs
  <1> HIDE DEF p
  <1>8. IsMachine(p)
    BY <1>7, KeepsMachine DEF Pushed
  <1>9. p.reg = [n.reg EXCEPT ![SP] = Wrap16(n.reg[SP] - 6)] /\ p.sreg = n.sreg
    BY <1>3, <1>5, <1>7, FrameSize
  <1>10. a \in Int /\ b \in Int
    OBVIOUS
  <1> HIDE DEF a, b
  <1>11. Peek16(p, a) \in Words16 /\ Peek16(p, b) \in Words16 /\ Masked(p.f) \in FlagType
    <2>1. p.f \in FlagType
      BY <1>8, MachineIs
    <2>2. QED
      BY <1>8, <1>10, <2>1, PeekIs, MaskedIs
  <1>12. SameStack(p, x)
    BY <1>8, <1>11, EnteredIs
  <1>13. p.reg[SP] = Wrap16(n.reg[SP] - 6)
    <2>1. n.reg \in [0..7 -> Words16] /\ SP \in 0..7
      BY MachineIs, RegistersAre
    <2>2. QED
      BY <1>9, <2>1
  <1>14. QED
    BY <1>2, <1>9, <1>12, <1>13 DEF SameStack

\* y has the interrupt frame of x on top of its stack; below it, and in the
\* rest of memory, anything may have changed
SameFrame(x, y) ==
  y.reg[SP] = x.reg[SP] /\ y.sreg[SS] = x.sreg[SS] /\ \A k \in {0, 2, 4} : Deep(y, k) = Deep(x, k)

(* A handler that has left its frame alone returns to where the interrupt    *)
(* came, whatever else it has done: IRET brings back CS:IP, the stack        *)
(* pointer, and all ten flags, IF and TF included, for every interrupt       *)
(* vector and every machine, the frame split by the end of the stack segment *)
(* included (run.c pc_interrupt; control.h exec_iret; transfer.h             *)
(* flags_pack and flags_unpack).                                             *)
THEOREM InterruptReturns ==
  ASSUME NEW n, IsMachine(n), NEW v, v \in 0..255,
         NEW y, IsMachine(y), SameFrame(Interrupt(n, v), y),
         NEW d, IsInstr(d), d.op = \hCF
  PROVE  LET z == Ret(y, d)
         IN  /\ z.ip = n.ip /\ z.sreg = [y.sreg EXCEPT ![CS] = n.sreg[CS]]
             /\ z.reg = [y.reg EXCEPT ![SP] = n.reg[SP]]
             /\ z.f = [n.f EXCEPT !.r = TRUE] /\ z.mem = y.mem
  <1> DEFINE x == Interrupt(n, v)
             z == Ret(y, d)
             sp == n.reg[SP]
  <1>1. Interrupted(n, v, x)
    BY InterruptIs
  <1>2. x.reg[SP] = Wrap16(sp - 6) /\ x.sreg[SS] = n.sreg[SS]
    BY InterruptStack
  <1>3. SameFrame(x, y)
    OBVIOUS
  <1> HIDE DEF x
  <1>4. IsMachine(x)
    BY <1>1 DEF Interrupted
  <1>5. Top(y) = Top(x) /\ Top(Drop(y)) = Top(Drop(x)) /\ Top(Drop(Drop(y))) = Top(Drop(Drop(x)))
    <2>1. Deep(y, 0) = Deep(x, 0) /\ Deep(y, 2) = Deep(x, 2) /\ Deep(y, 4) = Deep(x, 4)
      BY <1>3 DEF SameFrame
    <2>2. Top(x) = Deep(x, 0) /\ Top(Drop(x)) = Deep(x, 2) /\ Top(Drop(Drop(x))) = Deep(x, 4)
      BY <1>4, DeepIs
    <2>3. Top(y) = Deep(y, 0) /\ Top(Drop(y)) = Deep(y, 2) /\ Top(Drop(Drop(y))) = Deep(y, 4)
      BY DeepIs
    <2>4. QED
      BY <2>1, <2>2, <2>3
  <1>6. z = FlagsOf(FarOf(Near(y)))
    BY RetIs
  <1>7. /\ z.mem = y.mem /\ z.ip = Top(y) /\ z.sreg = [y.sreg EXCEPT ![CS] = Top(Drop(y))]
        /\ z.f = flags_unpack(Top(Drop(Drop(y))))
        /\ z.reg = [y.reg EXCEPT ![SP] = Wrap16(y.reg[SP] + 6)]
    BY <1>6, FrameLoaded
  <1> HIDE DEF z
  <1>8. z.ip = n.ip /\ z.sreg = [y.sreg EXCEPT ![CS] = n.sreg[CS]] /\ z.f = [n.f EXCEPT !.r = TRUE]
    <2>1. n.f \in FlagType
      BY MachineIs
    <2>2. flags_unpack(flags_pack(n.f)) = [n.f EXCEPT !.r = TRUE]
      BY <2>1, FlagsPacked
    <2>3. QED
      BY <1>1, <1>5, <1>7, <2>2 DEF Interrupted
  <1>9. Wrap16(y.reg[SP] + 6) = sp
    <2>1. sp \in Words16
      BY RegistersAre, RegIn
    <2>2. y.reg[SP] = Wrap16(sp - 6)
      BY <1>2, <1>3 DEF SameFrame
    <2> HIDE DEF sp
    <2>3. sp \in Int /\ 0 <= sp /\ sp <= 65535
      BY <2>1, WordInt
    <2>4. Wrap16(Wrap16(sp - 6) + 6) = sp
      BY <2>3 DEF Wrap16
    <2>5. QED
      BY <2>2, <2>4
  <1>10. QED
    BY <1>7, <1>8, <1>9 DEF z, sp

\* y has the return address of x on top of its stack
SameReturn(x, y) ==
  y.reg[SP] = x.reg[SP] /\ y.sreg[SS] = x.sreg[SS] /\ Top(y) = Top(x)

\* x has called a procedure from n
Called(n, d, x) ==
  /\ Top(x) = Wrap16(Past(n, d)) /\ x.sreg = n.sreg
  /\ x.reg = [n.reg EXCEPT ![SP] = Wrap16(n.reg[SP] - 2)]

LEMMA CallIs ==
  ASSUME NEW n, IsMachine(n), NEW d, IsInstr(d)
  PROVE  /\ d.op = \hE8 => Called(n, d, Jump(n, d))
         /\ d.reg = 2 => Called(n, d, Indirect(n, d))
  <1> DEFINE v == Wrap16(Past(n, d))
             c == PushReturn(n, d)
             a == Past(n, d) + d.data0
             b == ReadRm(c, Wide(d))
  <1>1. v \in Words16
    BY PastIs
  <1>2. c = Push(n, v)
    BY DEF PushReturn
  <1> HIDE DEF v
  <1>3. Pushed(n, v, c)
    BY <1>1, <1>2, PushIs
  <1>4. d.op = \hE8 => Jump(n, d) = Go(c, a)
    BY DEF Jump, PushReturn
  <1>5. d.reg = 2 => Indirect(n, d) = Go(c, b)
    BY DEF Indirect
  <1> HIDE DEF c
  <1>6. IsMachine(c)
    BY <1>3, KeepsMachine DEF Pushed
  <1>7. a \in Int
    BY PastIs, InstrIs, WordInt
  <1>8. b \in Int
    <2>1. b \in Words16
      BY <1>6, WideIs, ReadRmIs
    <2>2. QED
      BY <2>1, WordInt
  <1> HIDE DEF a, b
  <1>9. ASSUME NEW u, u \in Int PROVE Called(n, d, Go(c, u))
    <2>1. /\ SameStack(c, Go(c, u)) /\ Go(c, u).sreg = c.sreg /\ Go(c, u).reg = c.reg
      BY <1>6, <1>9, GoIs
    <2>2. Top(Go(c, u)) = v
      BY <1>3, <2>1, SameStackIs DEF Pushed
    <2>3. QED
      BY <1>3, <2>1, <2>2 DEF Called, Pushed, v
  <1>10. QED
    BY <1>4, <1>5, <1>7, <1>8, <1>9

LEMMA SetTwice ==
  ASSUME NEW f, f \in [0..7 -> Words16], NEW k \in 0..7, NEW u, NEW v
  PROVE  [[f EXCEPT ![k] = u] EXCEPT ![k] = v] = [f EXCEPT ![k] = v]
  OBVIOUS

(* A procedure that has left its return address alone returns to the         *)
(* instruction after the near CALL, direct or through a register or memory,  *)
(* with the stack pointer as it was before, or moved by the parameters of    *)
(* RET n, wherever on the stack the segment ends; CS, the flags, the memory  *)
(* and the other registers are the procedure's (control.h exec_call,         *)
(* exec_ret; run.c, the FE/FF group).                                        *)
THEOREM CallReturns ==
  ASSUME NEW n, IsMachine(n), NEW d, IsInstr(d), NEW x,
         \/ d.op = \hE8 /\ x = Jump(n, d)
         \/ d.reg = 2 /\ x = Indirect(n, d),
         NEW y, IsMachine(y), SameReturn(x, y),
         NEW e, IsInstr(e), e.op \in {\hC2, \hC3}
  PROVE  LET z == Ret(y, e)
         IN  /\ z.ip = Wrap16(n.ip + d.len) /\ z.sreg = y.sreg /\ z.f = y.f /\ z.mem = y.mem
             /\ z.reg = [y.reg EXCEPT ![SP] =
                           Wrap16(n.reg[SP] + (IF e.op = \hC2 THEN e.data0 ELSE 0))]
  <1> DEFINE p == Near(y)
             z == Ret(y, e)
             f == y.reg
             s == n.reg[SP]
             a == e.data0
  <1>1. Called(n, d, x)
    BY CallIs
  <1>2. s \in Int /\ 0 <= s /\ s <= 65535 /\ a \in Int
    <2>1. s \in Words16 /\ a \in Words16
      BY RegistersAre, RegIn, InstrIs
    <2> HIDE DEF s, a
    <2>2. QED
      BY <2>1, WordInt
  <1>3. /\ p.ip = Top(y) /\ p.sreg = y.sreg /\ p.f = y.f /\ p.mem = y.mem /\ Popped(y, p)
        /\ IsMachine(p)
    BY NearIs DEF Leaves
  <1>4. z = IF e.op = \hC2 THEN [p EXCEPT !.reg[SP] = Wrap16(p.reg[SP] + a)] ELSE p
    <2> DEFINE q == FarOf(p)
               Parameters(k) == [k EXCEPT !.reg[SP] = Wrap16(@ + e.data0)]
    <2>1. z = CASE e.op = \hC2 -> Parameters(p)  [] e.op = \hC3 -> p
                [] e.op = \hCA -> Parameters(q)  [] e.op = \hCB -> q
                [] e.op = \hCF -> FlagsOf(q)
      BY Zenon DEF Ret, Near, FarOf, FlagsOf
    <2> DEFINE r == Parameters(p)
    <2>2. r = [p EXCEPT !.reg[SP] = Wrap16(p.reg[SP] + a)]
      OBVIOUS
    <2> HIDE DEF z, p, q, r
    <2>3. z = IF e.op = \hC2 THEN r ELSE p
      BY <2>1 DEF r
    <2>4. QED
      BY <2>2, <2>3
  <1> HIDE DEF p, z
  <1>5. f \in [0..7 -> Words16] /\ SP \in 0..7 /\ n.reg \in [0..7 -> Words16]
    BY MachineIs, RegistersAre
  <1>6. f[SP] = Wrap16(s - 2)
    <2>1. x.reg[SP] = Wrap16(s - 2)
      BY <1>1, <1>5 DEF Called
    <2>2. QED
      BY <2>1 DEF SameReturn
  <1>7. p.reg = [f EXCEPT ![SP] = s]
    <2>1. p.reg = [f EXCEPT ![SP] = Wrap16(f[SP] + 2)]
      BY <1>3 DEF Popped
    <2> HIDE DEF f, s
    <2>2. Wrap16(Wrap16(s - 2) + 2) = s
      BY <1>2 DEF Wrap16
    <2>3. QED
      BY <1>6, <2>1, <2>2
  <1>8. z.ip = p.ip /\ z.sreg = p.sreg /\ z.f = p.f /\ z.mem = p.mem
    BY <1>3, <1>4 DEF IsMachine
  <1>9. z.ip = Wrap16(n.ip + d.len)
    BY <1>1, <1>3, <1>8 DEF Called, SameReturn, Past
  <1>10. z.reg = [f EXCEPT ![SP] = Wrap16(s + (IF e.op = \hC2 THEN a ELSE 0))]
    <2>1. CASE e.op = \hC2
      <3>1. z.reg = [p.reg EXCEPT ![SP] = Wrap16(p.reg[SP] + a)]
        BY <1>3, <1>4, <2>1 DEF IsMachine
      <3> DEFINE k == SP
                 v == Wrap16(s + a)
      <3>2. f \in [0..7 -> Words16] /\ k \in 0..7
        BY <1>5
      <3>3. p.reg = [f EXCEPT ![k] = s]
        BY <1>7
      <3> HIDE DEF f, s, a
      <3>4. p.reg[k] = s
        BY <3>2, <3>3
      <3>5. z.reg = [p.reg EXCEPT ![k] = v]
        BY <3>1, <3>4
      <3> HIDE DEF k, v
      <3>6. z.reg = [f EXCEPT ![k] = v]
        <4>1. [[f EXCEPT ![k] = s] EXCEPT ![k] = v] = [f EXCEPT ![k] = v]
          BY <3>2, SetTwice
        <4>2. QED
          BY <3>3, <3>5, <4>1, Zenon
      <3>7. QED
        BY <2>1, <3>6 DEF k, v
    <2>2. CASE e.op # \hC2
      <3> HIDE DEF f, s, a
      <3>1. Wrap16(s + 0) = s
        BY <1>2 DEF Wrap16
      <3>2. QED
        BY <1>4, <1>7, <2>2, <3>1
    <2>3. QED
      BY <2>1, <2>2
  <1>11. QED
    BY <1>3, <1>8, <1>9, <1>10 DEF z, f, s, a

\* y has the far return address of x on top of its stack
SameFarReturn(x, y) ==
  y.reg[SP] = x.reg[SP] /\ y.sreg[SS] = x.sreg[SS] /\ \A k \in {0, 2} : Deep(y, k) = Deep(x, k)

\* x has called a far procedure from n
FarCalled(n, d, x) ==
  /\ Deep(x, 0) = Wrap16(Past(n, d)) /\ Deep(x, 2) = n.sreg[CS]
  /\ x.reg[SP] = Wrap16(n.reg[SP] - 4)

LEMMA PushTwice ==
  ASSUME NEW n, IsMachine(n), NEW d, IsInstr(d)
  PROVE  LET x == PushFarReturn(n, d) IN IsMachine(x) /\ FarCalled(n, d, x)
  <1> DEFINE s == n.sreg[CS]
             v == Wrap16(Past(n, d))
             p == Push(n, s)
             x == Push(p, v)
             r == n.reg[SP]
  <1>1. s \in Words16 /\ v \in Words16
    BY RegistersAre, SegIn, PastIs
  <1>2. r \in Int /\ 0 <= r /\ r <= 65535
    <2>1. r \in Words16
      BY RegistersAre, RegIn
    <2> HIDE DEF r
    <2>2. QED
      BY <2>1, WordInt
  <1> HIDE DEF s, v
  <1>3. Pushed(n, s, p)
    BY <1>1, PushIs
  <1> HIDE DEF p
  <1>4. IsMachine(p) /\ Past(p, d) = Past(n, d)
    BY <1>3, KeepsMachine DEF Pushed, Keeps, Past
  <1>5. PushFarReturn(n, d) = x
    BY <1>4 DEF PushFarReturn, PushReturn, p, s, v
  <1>6. Pushed(p, v, x)
    BY <1>1, <1>4, PushIs
  <1> HIDE DEF x
  <1>7. IsMachine(x)
    BY <1>6, KeepsMachine DEF Pushed
  <1>8. Deep(x, 0) = v
    BY <1>6, <1>7, TopIs DEF Pushed
  <1>9. Deep(x, 2) = s
    <2>1. Deep(p, 0) = s
      BY <1>3, <1>4, TopIs DEF Pushed
    <2> DEFINE zero == 0
    <2>2. zero \in {0, 2} /\ zero + 2 = 2
      OBVIOUS
    <2> HIDE DEF zero
    <2>3. Deep(x, zero + 2) = Deep(p, zero)
      BY <1>4, <1>6, <2>2, DeepUnderPush
    <2>4. QED
      BY <2>1, <2>2, <2>3 DEF zero
  <1>10. x.reg[SP] = Wrap16(r - 4)
    <2>1. n.reg \in [0..7 -> Words16] /\ p.reg \in [0..7 -> Words16] /\ SP \in 0..7
      BY <1>4, MachineIs, RegistersAre
    <2>2. p.reg[SP] = Wrap16(r - 2)
      BY <1>3, <2>1 DEF Pushed
    <2>3. x.reg[SP] = Wrap16(p.reg[SP] - 2)
      BY <1>6, <2>1 DEF Pushed
    <2> HIDE DEF r
    <2>4. Wrap16(Wrap16(r - 2) - 2) = Wrap16(r - 4)
      BY <1>2 DEF Wrap16
    <2>5. QED
      BY <2>2, <2>3, <2>4
  <1>11. QED
    BY <1>5, <1>7, <1>8, <1>9, <1>10 DEF FarCalled, r, s, v

LEMMA FarCallIs ==
  ASSUME NEW n, IsMachine(n), NEW d, IsInstr(d), NEW x,
         \/ d.kind = "callFar" /\ x = Far(PushFarReturn(n, d), d.data0, d.data2)
         \/ d.reg = 3 /\ x = Indirect(n, d)
  PROVE  FarCalled(n, d, x) /\ x.sreg[SS] = n.sreg[SS]
  <1> DEFINE c == PushFarReturn(n, d)
             a == d.addr
             b == a + 2
             t == IF d.reg = 3 /\ x = Indirect(n, d) THEN Peek16(c, a) ELSE d.data0
             g == IF d.reg = 3 /\ x = Indirect(n, d) THEN Peek16(c, b) ELSE d.data2
  <1>1. IsMachine(c) /\ FarCalled(n, d, c)
    BY PushTwice
  <1>2. c.sreg[SS] = n.sreg[SS]
    <2> DEFINE s == n.sreg[CS]
               v == Wrap16(Past(n, d))
               p == Push(n, s)
    <2>1. s \in Words16 /\ v \in Words16
      BY RegistersAre, SegIn, PastIs
    <2> HIDE DEF s, v
    <2>2. Pushed(n, s, p)
      BY <2>1, PushIs
    <2> HIDE DEF p
    <2>3. IsMachine(p) /\ Past(p, d) = Past(n, d) /\ p.sreg = n.sreg
      BY <2>2, KeepsMachine DEF Pushed, Keeps, Past
    <2>4. c = Push(p, v)
      BY <2>3 DEF PushFarReturn, PushReturn, p, s, v
    <2>5. Pushed(p, v, c)
      BY <2>1, <2>3, <2>4, PushIs
    <2>6. QED
      BY <2>3, <2>5 DEF Pushed
  <1>3. d.reg = 3 => Indirect(n, d) = Far(c, Peek16(c, a), Peek16(c, b))
    BY DEF Indirect
  <1>4. a \in Int /\ b \in Int /\ d.data0 \in Words16 /\ d.data2 \in Words16
    BY InstrIs
  <1> HIDE DEF c, a, b
  <1>5. Peek16(c, a) \in Words16 /\ Peek16(c, b) \in Words16
    BY <1>1, <1>4, PeekIs
  <1>6. x = Far(c, t, g) /\ t \in Words16 /\ g \in Words16
    BY <1>3, <1>4, <1>5 DEF c
  <1> HIDE DEF t, g
  <1>7. SameStack(c, x)
    BY <1>1, <1>6, FarIs
  <1>8. \A k : Deep(x, k) = Deep(c, k)
    BY <1>7, SameStackIs
  <1>9. QED
    BY <1>1, <1>2, <1>7, <1>8 DEF FarCalled, SameStack

LEMMA FarLoaded ==
  ASSUME NEW y, IsMachine(y)
  PROVE  LET x == FarOf(Near(y))
         IN  /\ IsMachine(x) /\ x.mem = y.mem /\ x.f = y.f
             /\ x.ip = Deep(y, 0) /\ x.sreg = [y.sreg EXCEPT ![CS] = Deep(y, 2)]
             /\ x.reg = [y.reg EXCEPT ![SP] = Wrap16(y.reg[SP] + 4)]
  <1> DEFINE p == Near(y)
             x == FarOf(p)
             f == y.reg
  <1>1. /\ Leaves(y, p) /\ p.ip = Top(y) /\ p.sreg = y.sreg /\ p.f = y.f /\ p.mem = y.mem
        /\ Popped(y, p) /\ SameStack(Drop(y), p)
    BY NearIs
  <1>2. IsMachine(p)
    BY <1>1 DEF Leaves
  <1>3. Top(p) = Deep(y, 2) /\ Top(y) = Deep(y, 0)
    BY <1>1, DeepIs, SameStackIs
  <1> HIDE DEF p
  <1>4. /\ Leaves(p, x) /\ x.ip = p.ip /\ x.sreg = [p.sreg EXCEPT ![CS] = Top(p)]
        /\ x.f = p.f /\ x.mem = p.mem /\ Popped(p, x)
    BY <1>2, FarOfIs
  <1>5. IsMachine(x)
    BY <1>4 DEF Leaves
  <1> HIDE DEF x
  <1>6. x.reg = [f EXCEPT ![SP] = Wrap16(f[SP] + 4)]
    <2> DEFINE k == SP
               s == f[k]
               u == Wrap16(s + 2)
               v == Wrap16(u + 2)
    <2>1. f \in [0..7 -> Words16] /\ k \in 0..7
      BY MachineIs, RegistersAre
    <2>2. p.reg = [f EXCEPT ![k] = u] /\ x.reg = [p.reg EXCEPT ![k] = Wrap16(p.reg[k] + 2)]
      BY <1>1, <1>4 DEF Popped
    <2>3. s \in Int
      <3>1. s \in Words16
        BY <2>1
      <3> HIDE DEF s
      <3>2. QED
        BY <3>1, WordInt
    <2> HIDE DEF f, k, s
    <2>4. v = Wrap16(s + 4)
      BY <2>3 DEF Wrap16
    <2> HIDE DEF u
    <2>5. p.reg[k] = u
      BY <2>1, <2>2
    <2> HIDE DEF v
    <2>6. x.reg = [p.reg EXCEPT ![k] = v]
      BY <2>2, <2>5 DEF v
    <2>7. x.reg = [f EXCEPT ![k] = v]
      <3>1. [[f EXCEPT ![k] = u] EXCEPT ![k] = v] = [f EXCEPT ![k] = v]
        BY <2>1, SetTwice
      <3>2. QED
        BY <2>2, <2>6, <3>1, Zenon
    <2>8. QED
      BY <2>4, <2>7 DEF k, s
  <1>7. QED
    BY <1>1, <1>3, <1>4, <1>5, <1>6 DEF f, x, p

(* A far procedure that has left its return address alone returns, by RETF   *)
(* or RETF n, to the segment it was called from and to the address the CALL  *)
(* has pushed: the one d.len bytes on, which is the next instruction for the *)
(* CALL of the FE/FF group, and the CALL itself for the direct one, whose    *)
(* length the tables give as 0 (FarCallReturns). The stack pointer, the      *)
(* flags, the memory and the other registers are as in CallReturns           *)
(* (control.h exec_call_far, exec_retf; run.c, case 32 and the FE/FF group). *)
THEOREM FarReturns ==
  ASSUME NEW n, IsMachine(n), NEW d, IsInstr(d), NEW x,
         \/ d.kind = "callFar" /\ x = Far(PushFarReturn(n, d), d.data0, d.data2)
         \/ d.reg = 3 /\ x = Indirect(n, d),
         NEW y, IsMachine(y), SameFarReturn(x, y),
         NEW e, IsInstr(e), e.op \in {\hCA, \hCB}
  PROVE  LET z == Ret(y, e)
         IN  /\ z.ip = Wrap16(n.ip + d.len) /\ z.sreg = [y.sreg EXCEPT ![CS] = n.sreg[CS]]
             /\ z.f = y.f /\ z.mem = y.mem
             /\ z.reg = [y.reg EXCEPT ![SP] =
                           Wrap16(n.reg[SP] + (IF e.op = \hCA THEN e.data0 ELSE 0))]
  <1> DEFINE q == FarOf(Near(y))
             z == Ret(y, e)
             f == y.reg
             s == n.reg[SP]
             a == e.data0
  <1>1. FarCalled(n, d, x)
    BY FarCallIs
  <1>2. s \in Int /\ 0 <= s /\ s <= 65535 /\ a \in Int
    <2>1. s \in Words16 /\ a \in Words16
      BY RegistersAre, RegIn, InstrIs
    <2> HIDE DEF s, a
    <2>2. QED
      BY <2>1, WordInt
  <1>3. /\ IsMachine(q) /\ q.mem = y.mem /\ q.f = y.f
        /\ q.ip = Deep(y, 0) /\ q.sreg = [y.sreg EXCEPT ![CS] = Deep(y, 2)]
        /\ q.reg = [f EXCEPT ![SP] = Wrap16(f[SP] + 4)]
    BY FarLoaded
  <1>4. z = IF e.op = \hCA THEN [q EXCEPT !.reg[SP] = Wrap16(q.reg[SP] + a)] ELSE q
    <2> DEFINE p == Near(y)
               Parameters(k) == [k EXCEPT !.reg[SP] = Wrap16(@ + e.data0)]
    <2>1. z = CASE e.op = \hC2 -> Parameters(p)  [] e.op = \hC3 -> p
                [] e.op = \hCA -> Parameters(q)  [] e.op = \hCB -> q
                [] e.op = \hCF -> FlagsOf(q)
      BY Zenon DEF Ret, Near, FarOf, FlagsOf
    <2> DEFINE r == Parameters(q)
    <2>2. r = [q EXCEPT !.reg[SP] = Wrap16(q.reg[SP] + a)]
      OBVIOUS
    <2> HIDE DEF z, p, q, r
    <2>3. z = IF e.op = \hCA THEN r ELSE q
      BY <2>1 DEF r
    <2>4. QED
      BY <2>2, <2>3
  <1> HIDE DEF q, z
  <1>5. f \in [0..7 -> Words16] /\ SP \in 0..7
    BY MachineIs, RegistersAre
  <1>6. f[SP] = Wrap16(s - 4)
    BY <1>1 DEF FarCalled, SameFarReturn
  <1>7. q.reg = [f EXCEPT ![SP] = s]
    <2> HIDE DEF f, s
    <2>1. Wrap16(Wrap16(s - 4) + 4) = s
      BY <1>2 DEF Wrap16
    <2>2. QED
      BY <1>3, <1>6, <2>1
  <1>8. z.ip = q.ip /\ z.sreg = q.sreg /\ z.f = q.f /\ z.mem = q.mem
    BY <1>3, <1>4 DEF IsMachine
  <1>9. z.ip = Wrap16(n.ip + d.len) /\ z.sreg = [y.sreg EXCEPT ![CS] = n.sreg[CS]]
    <2>1. Deep(y, 0) = Wrap16(Past(n, d)) /\ Deep(y, 2) = n.sreg[CS]
      BY <1>1 DEF FarCalled, SameFarReturn
    <2>2. QED
      BY <1>3, <1>8, <2>1 DEF Past
  <1>10. z.reg = [f EXCEPT ![SP] = Wrap16(s + (IF e.op = \hCA THEN a ELSE 0))]
    <2>1. CASE e.op = \hCA
      <3>1. z.reg = [q.reg EXCEPT ![SP] = Wrap16(q.reg[SP] + a)]
        BY <1>3, <1>4, <2>1 DEF IsMachine
      <3> DEFINE k == SP
                 v == Wrap16(s + a)
      <3>2. f \in [0..7 -> Words16] /\ k \in 0..7
        BY <1>5
      <3>3. q.reg = [f EXCEPT ![k] = s]
        BY <1>7
      <3> HIDE DEF f, s, a
      <3>4. q.reg[k] = s
        BY <3>2, <3>3
      <3>5. z.reg = [q.reg EXCEPT ![k] = v]
        BY <3>1, <3>4
      <3> HIDE DEF k, v
      <3>6. z.reg = [f EXCEPT ![k] = v]
        <4>1. [[f EXCEPT ![k] = s] EXCEPT ![k] = v] = [f EXCEPT ![k] = v]
          BY <3>2, SetTwice
        <4>2. QED
          BY <3>3, <3>5, <4>1, Zenon
      <3>7. QED
        BY <2>1, <3>6 DEF k, v
    <2>2. CASE e.op # \hCA
      <3> HIDE DEF f, s, a
      <3>1. Wrap16(s + 0) = s
        BY <1>2 DEF Wrap16
      <3>2. QED
        BY <1>4, <1>7, <2>2, <3>1
    <2>3. QED
      BY <2>1, <2>2
  <1>11. QED
    BY <1>3, <1>8, <1>9, <1>10 DEF z, f, s, a

-----------------------------------------------------------------------------
(* The repeated string instructions: one element of them.                  *)

\* by how much the indexes move, and which of them do
Stride(n, d) == IF n.f.d THEN 0 - (d.w + 1) ELSE d.w + 1
Indexes(d) == IF d.op \in {\hA4, \hA5, \hA6, \hA7} THEN {SI, DI} ELSE {DI}

SourceOf(n, d) == InMemory(d, Linear(Segment(n, DS), n.reg[SI]))
TargetOf(n, d) == InMemory(d, Linear(n.sreg[ES], n.reg[DI]))

\* MOVS, STOS, CMPS and SCAS; LODS is of no use in a loop
Repeated == \hA4..\hA7 \cup {\hAA, \hAB, \hAE, \hAF}

LEMMA CmpIs ==
  ASSUME NEW f, f \in FlagType, NEW w, IsSize(w), NEW x, x \in Values(w), NEW y, y \in Values(w)
  PROVE  Cmp(x, y, f, w).f.z = (x = y) /\ Cmp(x, y, f, w).f.d = f.d
  <1> DEFINE r == x - y
             g == SetSub(f, x, y, r, w)
             h == SetSZP(g, r, w)
  <1>1. Cmp(x, y, f, w).f = h
    BY DEF Cmp, Sub, SubOf, Out
  <1>2. x \in Int /\ y \in Int /\ 0 <= x /\ x < Modulus(w) /\ 0 <= y /\ y < Modulus(w)
        /\ Modulus(w) \in {256, 65536}
    <2>1. x \in Nat /\ y \in Nat
      BY ValuesAre
    <2>2. Modulus(w) \in {256, 65536}
      <3>1. CASE w.bits = 8
        BY <3>1, PowersAre DEF Modulus
      <3>2. CASE w.bits = 16
        BY <3>2, PowersAre DEF Modulus
      <3>3. QED
        BY <3>1, <3>2 DEF IsSize
    <2>3. QED
      BY <2>1, <2>2 DEF Values
  <1>3. (Low(r, w) = 0) <=> (x = y)
    <2>1. CASE Modulus(w) = 256
      BY <1>2, <2>1 DEF Low
    <2>2. CASE Modulus(w) = 65536
      BY <1>2, <2>2 DEF Low
    <2>3. QED
      BY <1>2, <2>1, <2>2
  <1>4. DOMAIN f = Names /\ {"z", "d", "c", "a", "o", "s", "p"} \subseteq Names
    BY FlagBitsAre DEF FlagType, Names
  <1> DEFINE c == Exceeds(r, w)
             a == Aux(x, y, r, w)
             o == Sign(x, w) # Sign(y, w) /\ Sign(x, w) # Sign(r, w)
             q == Sign(r, w)
             z == Low(r, w) = 0
             u == EvenParity(r, w)
  <1>5. g = [f EXCEPT !.c = c, !.a = a, !.o = o] /\ h = [g EXCEPT !.s = q, !.z = z, !.p = u]
    BY Zenon DEF SetSub, SetSZP
  <1> HIDE DEF g, h, c, a, o, q, z, u
  <1>6. h.z = z /\ h.d = f.d
    BY <1>4, <1>5
  <1>7. (z <=> (x = y)) /\ z \in BOOLEAN
    BY <1>3 DEF z
  <1>8. QED
    BY <1>1, <1>6, <1>7, Zenon

LEMMA SteppedDoes ==
  ASSUME NEW n, IsMachine(n), NEW d, IsInstr(d), NEW r, r \in {SI, DI}
  PROVE  LET x == Stepped(n, d, r)
         IN  /\ KeepsCount(n, x) /\ x.mem = n.mem /\ x.sreg = n.sreg /\ x.f = n.f
             /\ x.reg = [n.reg EXCEPT ![r] = Wrap16(n.reg[r] + Stride(n, d))]
  <1> DEFINE a == n.reg[r]
             w == d.w + 1
             v == Wrap16(IF n.f.d THEN a - w ELSE a + w)
             x == [n EXCEPT !.reg[r] = v]
  <1>1. Stepped(n, d, r) = x
    BY DEF Stepped
  <1>2. a \in Int /\ w \in Int
    <2>1. a \in Words16 /\ d.w \in {0, 1}
      BY RegistersAre, RegIn, InstrIs
    <2> HIDE DEF a
    <2>2. QED
      BY <2>1, WordInt
  <1>3. v = Wrap16(a + Stride(n, d))
    <2> HIDE DEF a
    <2>1. (IF n.f.d THEN a - w ELSE a + w) = a + (IF n.f.d THEN 0 - w ELSE w)
      BY <1>2
    <2>2. QED
      BY <2>1 DEF Stride
  <1> HIDE DEF v
  <1>4. x.mem = n.mem /\ x.sreg = n.sreg /\ x.f = n.f /\ x.reg = [n.reg EXCEPT ![r] = v]
    BY DEF IsMachine
  <1>5. QED
    BY <1>1, <1>3, <1>4, SteppedIs

\* the indexes have moved to the next element
Indexed(n, d, x) ==
  /\ Keeps(n, x) /\ x.sreg = n.sreg /\ x.f.d = n.f.d
  /\ x.reg = [r \in 0..7 |-> IF r \in Indexes(d) THEN Wrap16(n.reg[r] + Stride(n, d))
                                                 ELSE n.reg[r]]

LEMMA StepsAre ==
  ASSUME NEW n, IsMachine(n), NEW d, IsInstr(d), NEW x, Keeps(n, x), x.sreg = n.sreg,
         x.reg = n.reg, x.f.d = n.f.d
  PROVE  /\ LET y == Stepped(Stepped(x, d, SI), d, DI)
            IN  /\ y.mem = x.mem /\ y.f = x.f
                /\ d.op \in {\hA4, \hA5, \hA6, \hA7} => Indexed(n, d, y)
         /\ LET y == Stepped(x, d, DI)
            IN  /\ y.mem = x.mem /\ y.f = x.f
                /\ d.op \notin {\hA4, \hA5, \hA6, \hA7} => Indexed(n, d, y)
  <1> DEFINE p == Stepped(x, d, SI)
             y == Stepped(p, d, DI)
             z == Stepped(x, d, DI)
             s == Stride(n, d)
  <1>1. IsMachine(x) /\ Stride(x, d) = s
    BY KeepsMachine DEF Stride
  <1>2. /\ Keeps(x, p) /\ p.mem = x.mem /\ p.sreg = x.sreg /\ p.f = x.f
        /\ p.reg = [x.reg EXCEPT ![SI] = Wrap16(x.reg[SI] + s)]
    BY <1>1, SteppedDoes DEF KeepsCount
  <1>3. /\ Keeps(x, z) /\ z.mem = x.mem /\ z.sreg = x.sreg /\ z.f = x.f
        /\ z.reg = [x.reg EXCEPT ![DI] = Wrap16(x.reg[DI] + s)]
    BY <1>1, SteppedDoes DEF KeepsCount
  <1> HIDE DEF p, z
  <1>4. IsMachine(p) /\ Stride(p, d) = s
    BY <1>1, <1>2, KeepsMachine DEF Stride
  <1>5. /\ Keeps(p, y) /\ y.mem = p.mem /\ y.sreg = p.sreg /\ y.f = p.f
        /\ y.reg = [p.reg EXCEPT ![DI] = Wrap16(p.reg[DI] + s)]
    BY <1>4, SteppedDoes DEF KeepsCount
  <1> HIDE DEF y, s
  <1>6. Keeps(n, y) /\ Keeps(n, z)
    BY <1>2, <1>3, <1>5, KeepsMore
  <1> DEFINE f == n.reg
             i == SI
             j == DI
  <1>7. f \in [0..7 -> Words16] /\ i \in 0..7 /\ j \in 0..7 /\ i # j
    BY MachineIs DEF SI, DI
  <1>8. /\ p.reg = [f EXCEPT ![i] = Wrap16(f[i] + s)]
        /\ z.reg = [f EXCEPT ![j] = Wrap16(f[j] + s)]
        /\ y.reg = [p.reg EXCEPT ![j] = Wrap16(p.reg[j] + s)]
    BY <1>2, <1>3, <1>5
  <1> HIDE DEF f, i, j
  <1>0. p.reg[j] = f[j]
    BY <1>7, <1>8
  <1>9. z.reg = [r \in 0..7 |-> IF r \in {j} THEN Wrap16(f[r] + s) ELSE f[r]]
    BY <1>7, <1>8
  <1>10. y.reg = [r \in 0..7 |-> IF r \in {i, j} THEN Wrap16(f[r] + s) ELSE f[r]]
    <2> DEFINE G(k) == Wrap16(f[k] + s)
    <2>1. y.reg = [[f EXCEPT ![i] = G(i)] EXCEPT ![j] = G(j)]
      BY <1>0, <1>8
    <2> HIDE DEF G
    <2>2. y.reg = [r \in 0..7 |-> IF r \in {i, j} THEN G(r) ELSE f[r]]
      BY <1>7, <2>1
    <2>3. QED
      BY <2>2 DEF G
  <1>11. d.op \in {\hA4, \hA5, \hA6, \hA7} => Indexed(n, d, y)
    BY <1>2, <1>5, <1>6, <1>10 DEF Indexed, Indexes, f, i, j, s
  <1>12. d.op \notin {\hA4, \hA5, \hA6, \hA7} => Indexed(n, d, z)
    BY <1>3, <1>6, <1>9 DEF Indexed, Indexes, f, i, j, s
  <1>13. QED
    BY <1>2, <1>3, <1>5, <1>11, <1>12 DEF y, p, z

\* what an element is: of the source, or of AL or AX
Item(n, d) ==
  IF d.op \in {\hA4, \hA5, \hA6, \hA7} THEN ReadRm(n, SourceOf(n, d)) ELSE ReadRm(n, Accumulator(d))

\* an element written, and an element compared
Wrote(n, d, x) == x.f = n.f /\ x.mem = WriteRm(n, TargetOf(n, d), Item(n, d)).mem
Compared(n, d, x) == x.mem = n.mem /\ x.f.z = (Item(n, d) = ReadRm(n, TargetOf(n, d)))

LEMMA OperandsAre ==
  ASSUME NEW n, IsMachine(n), NEW d, IsInstr(d)
  PROVE  /\ SameSize(d, SourceOf(n, d)) /\ SameSize(d, TargetOf(n, d))
         /\ SameSize(d, Accumulator(d))
         /\ SourceOf(n, d).mod = 0 /\ SourceOf(n, d).addr = Linear(Segment(n, DS), n.reg[SI])
         /\ TargetOf(n, d).mod = 0 /\ TargetOf(n, d).addr = Linear(n.sreg[ES], n.reg[DI])
         /\ Accumulator(d).mod = 3 /\ Accumulator(d).rm = AX
  <1> DEFINE a == Linear(Segment(n, DS), n.reg[SI])
             b == Linear(n.sreg[ES], n.reg[DI])
  <1>1. a \in Int /\ b \in Int
    BY RegistersAre, SegmentIs, SegIn, RegIn, AddressIs
  <1>2. SourceOf(n, d) = InMemory(d, a) /\ TargetOf(n, d) = InMemory(d, b)
    BY DEF SourceOf, TargetOf
  <1> HIDE DEF a, b
  <1>3. /\ IsInstr(InMemory(d, a)) /\ InMemory(d, a).w = d.w /\ InMemory(d, a).mod = 0
        /\ InMemory(d, a).addr = a
        /\ IsInstr(InMemory(d, b)) /\ InMemory(d, b).w = d.w /\ InMemory(d, b).mod = 0
        /\ InMemory(d, b).addr = b
    BY <1>1, InMemoryIs
  <1>4. LET e == Accumulator(d) IN IsInstr(e) /\ e.w = d.w /\ e.mod = 3 /\ e.rm = AX
    BY RegistersAre, OnRegIs DEF Accumulator
  <1>5. QED
    BY <1>2, <1>3, <1>4 DEF SameSize, a, b

LEMMA ItemIs ==
  ASSUME NEW n, IsMachine(n), NEW d, IsInstr(d)
  PROVE  /\ Item(n, d) \in Values(Size(d)) /\ Item(n, d) \in Words16
         /\ ReadRm(n, TargetOf(n, d)) \in Values(Size(d))
  <1>1. /\ SameSize(d, SourceOf(n, d)) /\ SameSize(d, TargetOf(n, d)) /\ SameSize(d, Accumulator(d))
    BY OperandsAre
  <1>2. /\ ReadRm(n, SourceOf(n, d)) \in Values(Size(d)) /\ ReadRm(n, TargetOf(n, d)) \in Values(Size(d))
        /\ ReadRm(n, Accumulator(d)) \in Values(Size(d))
    BY <1>1, SameSizeIs
  <1>3. Values(Size(d)) \subseteq Words16
    BY SizeIs, ValuesAre
  <1>4. QED
    BY <1>2, <1>3 DEF Item

\* what an element is written or compared over
LEMMA WroteIs ==
  ASSUME NEW n, IsMachine(n), NEW d, IsInstr(d)
  PROVE  OnlyMem(n, WriteRm(n, TargetOf(n, d), Item(n, d)))
  <1> DEFINE e == TargetOf(n, d)
             v == Item(n, d)
             x == WriteRm(n, e, v)
  <1>1. IsInstr(e) /\ e.w = d.w /\ e.mod = 0
    BY OperandsAre DEF SameSize
  <1>2. v \in Words16
    BY ItemIs
  <1> HIDE DEF e, v
  <1>3. e.addr \in Int /\ e.w \in {0, 1} /\ v % 256 \in 0..255
    BY <1>1, <1>2, InstrIs, WordIs
  <1>4. x = IF e.w = 1 THEN Poke16(n, e.addr, v) ELSE Poke(n, e.addr, v % 256)
    BY <1>1, <1>3 DEF WriteRm
  <1> HIDE DEF x
  <1>5. OnlyMem(n, Poke16(n, e.addr, v)) /\ OnlyMem(n, Poke(n, e.addr, v % 256))
    BY <1>2, <1>3, Poke16Is, PokeIs
  <1>6. QED
    BY <1>4, <1>5 DEF x, e, v

LEMMA ComparedIs ==
  ASSUME NEW n, IsMachine(n), NEW d, IsInstr(d)
  PROVE  LET o == Cmp(Item(n, d), ReadRm(n, TargetOf(n, d)), n.f, Size(d))
             x == Flags(n, o)
         IN  /\ Keeps(n, x) /\ x.reg = n.reg /\ x.sreg = n.sreg /\ x.f = o.f
             /\ o.f.d = n.f.d /\ Compared(n, d, x)
  <1> DEFINE u == Item(n, d)
             v == ReadRm(n, TargetOf(n, d))
             w == Size(d)
             f == n.f
             o == Cmp(u, v, f, w)
             x == Flags(n, o)
  <1>1. u \in Values(w) /\ v \in Values(w) /\ IsSize(w) /\ f \in FlagType /\ Alike(f, f)
    BY ItemIs, SizeIs, MachineIs, AlikeSelf
  <1>2. KeepsCount(n, x)
    BY <1>1, CompareIs
  <1> HIDE DEF u, v, w
  <1>3. o.f.z = (u = v) /\ o.f.d = f.d
    BY <1>1, CmpIs
  <1> HIDE DEF o
  <1>4. x.reg = n.reg /\ x.sreg = n.sreg /\ x.f = o.f /\ x.mem = n.mem
    BY DEF Flags, IsMachine
  <1>5. QED
    BY <1>2, <1>3, <1>4 DEF KeepsCount, Compared, x, o, f, u, v, w

LEMMA ElementDoes ==
  ASSUME NEW n, IsMachine(n), NEW d, IsInstr(d), d.op \in Repeated, d.w = d.op % 2
  PROVE  LET x == Element(n, d)
         IN  /\ Indexed(n, d, x)
             /\ IF Compares(d) THEN Compared(n, d, x) ELSE Wrote(n, d, x)
  <1> DEFINE ds == SourceOf(n, d)
             es == TargetOf(n, d)
             ax == Accumulator(d)
             s == Size(d)
             Compare(x, y) == Flags(n, Cmp(x, y, n.f, s))
             op == d.op - d.w
             x1 == WriteRm(n, es, ReadRm(n, ds))
             x2 == Compare(ReadRm(n, ds), ReadRm(n, es))
             x3 == WriteRm(n, es, ReadRm(n, ax))
             x4 == WriteRm(n, ax, ReadRm(n, ds))
             x5 == Compare(ReadRm(n, ax), ReadRm(n, es))
             p == WriteRm(n, es, Item(n, d))
             q == Compare(Item(n, d), ReadRm(n, es))
  <1>1. Element(n, d) =
          CASE op = \hA4 -> Stepped(Stepped(x1, d, SI), d, DI)
            [] op = \hA6 -> Stepped(Stepped(x2, d, SI), d, DI)
            [] op = \hAA -> Stepped(x3, d, DI)
            [] op = \hAC -> Stepped(x4, d, SI)
            [] op = \hAE -> Stepped(x5, d, DI)
    BY Zenon DEF Element, Stepped, SourceOf, TargetOf
  <1>2. OnlyMem(n, p)
    BY WroteIs
  <1>3. Keeps(n, q) /\ q.reg = n.reg /\ q.sreg = n.sreg /\ Compared(n, d, q) /\ q.f.d = n.f.d
    BY ComparedIs
  <1>4. \/ op = \hA4 /\ d.op \in {\hA4, \hA5} /\ x1 = p /\ ~Compares(d)
        \/ op = \hA6 /\ d.op \in {\hA6, \hA7} /\ x2 = q /\ Compares(d)
        \/ op = \hAA /\ d.op \in {\hAA, \hAB} /\ x3 = p /\ ~Compares(d)
        \/ op = \hAE /\ d.op \in {\hAE, \hAF} /\ x5 = q /\ Compares(d)
    <2> HIDE DEF ds, es, ax, s
    <2>1. \/ d.op \in {\hA4, \hA5} /\ op = \hA4
          \/ d.op \in {\hA6, \hA7} /\ op = \hA6
          \/ d.op \in {\hAA, \hAB} /\ op = \hAA
          \/ d.op \in {\hAE, \hAF} /\ op = \hAE
      BY DEF Repeated
    <2>2. Item(n, d) = IF d.op \in {\hA4, \hA5, \hA6, \hA7} THEN ReadRm(n, ds) ELSE ReadRm(n, ax)
      BY DEF Item, ds, ax
    <2>3. Compares(d) <=> op \in {\hA6, \hAE}
      BY DEF Compares
    <2> HIDE DEF op
    <2>4. QED
      BY <2>1, <2>2, <2>3
  <1> HIDE DEF p, q, x1, x2, x3, x4, x5, op
  <1> DEFINE y1 == Stepped(Stepped(p, d, SI), d, DI)
             y2 == Stepped(Stepped(q, d, SI), d, DI)
             y3 == Stepped(p, d, DI)
             y5 == Stepped(q, d, DI)
  <1>5. /\ d.op \in {\hA4, \hA5} => Indexed(n, d, y1) /\ y1.mem = p.mem /\ y1.f = p.f
        /\ d.op \in {\hAA, \hAB} => Indexed(n, d, y3) /\ y3.mem = p.mem /\ y3.f = p.f
    BY <1>2, StepsAre DEF OnlyMem
  <1>6. /\ d.op \in {\hA6, \hA7} => Indexed(n, d, y2) /\ y2.mem = q.mem /\ y2.f = q.f
        /\ d.op \in {\hAE, \hAF} => Indexed(n, d, y5) /\ y5.mem = q.mem /\ y5.f = q.f
    BY <1>3, StepsAre
  <1>7. \/ /\ Element(n, d) = y1 /\ d.op \in {\hA4, \hA5} /\ ~Compares(d)
        \/ /\ Element(n, d) = y2 /\ d.op \in {\hA6, \hA7} /\ Compares(d)
        \/ /\ Element(n, d) = y3 /\ d.op \in {\hAA, \hAB} /\ ~Compares(d)
        \/ /\ Element(n, d) = y5 /\ d.op \in {\hAE, \hAF} /\ Compares(d)
    <2> HIDE DEF y1, y2, y3, y5
    <2>1. CASE op = \hA4
      BY <1>1, <1>4, <2>1 DEF y1
    <2>2. CASE op = \hA6
      BY <1>1, <1>4, <2>2 DEF y2
    <2>3. CASE op = \hAA
      BY <1>1, <1>4, <2>3 DEF y3
    <2>4. CASE op = \hAE
      BY <1>1, <1>4, <2>4 DEF y5
    <2>5. QED
      BY <1>4, <2>1, <2>2, <2>3, <2>4
  <1> HIDE DEF y1, y2, y3, y5
  <1>8. p.f = n.f
    BY <1>2 DEF OnlyMem
  <1>9. \A y : y.mem = p.mem /\ y.f = p.f => Wrote(n, d, y)
    BY <1>8 DEF Wrote, p, es
  <1>10. \A y : y.mem = q.mem /\ y.f = q.f => Compared(n, d, y)
    BY <1>3 DEF Compared
  <1>11. QED
    BY <1>5, <1>6, <1>7, <1>9, <1>10

-----------------------------------------------------------------------------
(* The repeated string instructions: the loop.                             *)

LEMMA Upto ==
  ASSUME NEW c, c \in Nat, NEW S, 0 \in S, \A k \in Nat : k \in S /\ k < c => k + 1 \in S
  PROVE  \A k \in 0..c : k \in S
  <1> DEFINE T == {k \in 0..c : k \notin S}
  <1>1. SUFFICES ASSUME T # {} PROVE FALSE
    OBVIOUS
  <1>2. PICK k \in T : \A i \in T : k <= i
    <2>1. T \subseteq Nat
      OBVIOUS
    <2> HIDE DEF T
    <2>2. QED
      BY <1>1, <2>1, LeastNat
  <1>3. k \in 1..c /\ k \notin S
    OBVIOUS
  <1>4. k - 1 \in Nat /\ k - 1 < c /\ k - 1 \notin T
    BY <1>2, <1>3
  <1>5. k - 1 \in S
    BY <1>4
  <1>6. (k - 1) + 1 \in S
    BY <1>4, <1>5
  <1>7. QED
    BY <1>3, <1>6

LEMMA CountIs == ASSUME NEW n, IsMachine(n) PROVE n.reg[CX] \in Nat /\ n.reg[CX] <= 65535
  <1> DEFINE c == n.reg[CX]
  <1>1. c \in Words16
    BY StringRegs, RegIn
  <1> HIDE DEF c
  <1>2. c \in Int /\ 0 <= c /\ c <= 65535
    BY <1>1, WordInt
  <1>3. c \in Nat /\ c <= 65535
    BY <1>2
  <1>4. QED
    BY <1>3 DEF c

LEMMA StrideIs ==
  ASSUME NEW n, IsMachine(n), NEW d, IsInstr(d)
  PROVE  Stride(n, d) \in {0 - 2, 0 - 1, 1, 2}
  <1>1. d.w \in {0, 1}
    BY InstrIs
  <1>2. QED
    BY <1>1 DEF Stride

LEMMA StrideTimes ==
  ASSUME NEW s, s \in {0 - 2, 0 - 1, 1, 2}, NEW a, a \in Int, NEW k, k \in Int
  PROVE  /\ s * k \in Int /\ s * 0 = 0
         /\ Wrap16(Wrap16(a + s * k) + s) = Wrap16(a + s * (k + 1))
  <1>1. CASE s = 1
    BY <1>1 DEF Wrap16
  <1>2. CASE s = 2
    BY <1>2 DEF Wrap16
  <1>3. CASE s = 0 - 1
    BY <1>3 DEF Wrap16
  <1>4. CASE s = 0 - 2
    BY <1>4 DEF Wrap16
  <1>5. QED
    BY <1>1, <1>2, <1>3, <1>4

\* where an index is at element k
IndexAt(n, d, r, k) == Wrap16(n.reg[r] + Stride(n, d) * k)

\* x is n after k elements
Stands(n, d, k, x) ==
  /\ Keeps(n, x) /\ x.sreg = n.sreg /\ x.f.d = n.f.d
  /\ x.reg = [r \in 0..7 |-> IF r = CX THEN n.reg[CX] - k
                             ELSE IF r \in Indexes(d) THEN IndexAt(n, d, r, k) ELSE n.reg[r]]

NextItem(x, d) == [Element(x, d) EXCEPT !.reg[CX] = @ - 1]

LEMMA StandsFirst ==
  ASSUME NEW n, IsMachine(n), NEW d, IsInstr(d)
  PROVE  Stands(n, d, 0, n)
  <1> DEFINE f == n.reg
             s == Stride(n, d)
             Z == s * 0
  <1>1. f \in [0..7 -> Words16]
    BY MachineIs
  <1>2. Z = 0
    BY StrideIs, StrideTimes
  <1> HIDE DEF f, Z
  <1>3. \A r \in 0..7 : f[r] - 0 = f[r] /\ Wrap16(f[r] + Z) = f[r]
    <2>1. SUFFICES ASSUME NEW r \in 0..7 PROVE f[r] - 0 = f[r] /\ Wrap16(f[r] + Z) = f[r]
      OBVIOUS
    <2>2. f[r] \in Int /\ 0 <= f[r] /\ f[r] <= 65535
      <3>1. f[r] \in Words16
        BY <1>1
      <3>2. QED
        BY <3>1, WordInt
    <2>3. QED
      BY <1>2, <2>2 DEF Wrap16
  <1>4. CX \in 0..7
    BY StringRegs
  <1>5. f = [r \in 0..7 |-> IF r = CX THEN f[CX] - 0
                            ELSE IF r \in Indexes(d) THEN Wrap16(f[r] + Z) ELSE f[r]]
    BY <1>1, <1>3, <1>4
  <1>6. QED
    BY <1>5, KeepsSelf DEF Stands, IndexAt, f, Z, s

LEMMA StandsNext ==
  ASSUME NEW n, IsMachine(n), NEW d, IsInstr(d), d.op \in Repeated, d.w = d.op % 2,
         NEW k, k \in Nat, k < n.reg[CX], NEW x, Stands(n, d, k, x)
  PROVE  LET y == NextItem(x, d)
         IN  /\ Stands(n, d, k + 1, y)
             /\ IF Compares(d) THEN Compared(x, d, y) ELSE Wrote(x, d, y)
  <1> DEFINE e == Element(x, d)
             c == n.reg[CX]
             l == k + 1
             v == e.reg[CX] - 1
             y == [e EXCEPT !.reg[CX] = v]
             s == Stride(n, d)
             f == n.reg
             I == Indexes(d)
             P(r) == IndexAt(n, d, r, k)
             Q(r) == IndexAt(n, d, r, l)
  <1>1. IsMachine(x) /\ Stride(x, d) = s
    BY KeepsMachine DEF Stands, Stride
  <1>2. Indexed(x, d, e) /\ IF Compares(d) THEN Compared(x, d, e) ELSE Wrote(x, d, e)
    BY <1>1, ElementDoes
  <1>3. NextItem(x, d) = y
    BY DEF NextItem
  <1> HIDE DEF e
  <1>4. c \in Nat /\ c <= 65535 /\ k < c
    BY CountIs
  <1>5. CX \in 0..7 /\ CX \notin I
    BY StringRegs DEF Indexes
  <1>6. \A r \in 0..7 : Wrap16(P(r) + s) = Q(r)
    <2>1. SUFFICES ASSUME NEW r \in 0..7 PROVE Wrap16(P(r) + s) = Q(r)
      OBVIOUS
    <2> DEFINE a == f[r]
    <2>2. a \in Int
      <3>1. a \in Words16
        BY RegIn
      <3>2. QED
        BY <3>1, WordInt
    <2>3. P(r) = Wrap16(a + s * k) /\ Q(r) = Wrap16(a + s * (k + 1))
      BY DEF IndexAt
    <2>4. s \in {0 - 2, 0 - 1, 1, 2} /\ k \in Int
      BY StrideIs
    <2> HIDE DEF a, s, P, Q
    <2>5. Wrap16(Wrap16(a + s * k) + s) = Wrap16(a + s * (k + 1))
      BY <2>2, <2>4, StrideTimes, Zenon
    <2>6. QED
      BY <2>3, <2>5, Zenon
  <1> HIDE DEF I, P, Q
  <1>7. /\ Keeps(n, x) /\ x.sreg = n.sreg /\ x.f.d = n.f.d
        /\ x.reg = [r \in 0..7 |-> IF r = CX THEN c - k ELSE IF r \in I THEN P(r) ELSE f[r]]
    BY DEF Stands, I, P
  <1>8. e.reg = [r \in 0..7 |-> IF r \in I THEN Wrap16(x.reg[r] + s) ELSE x.reg[r]]
    BY <1>1, <1>2 DEF Indexed, I
  <1>9. IsMachine(e) /\ Keeps(x, e) /\ e.sreg = x.sreg /\ e.f.d = x.f.d
    BY <1>2, KeepsMachine DEF Indexed
  <1> HIDE DEF f, s, c
  <1>10. e.reg = [r \in 0..7 |-> IF r = CX THEN c - k ELSE IF r \in I THEN Q(r) ELSE f[r]]
    <2>1. \A r \in I \cap 0..7 : x.reg[r] = P(r)
      BY <1>5, <1>7
    <2>2. \A r \in 0..7 \ I : x.reg[r] = IF r = CX THEN c - k ELSE f[r]
      BY <1>7
    <2> DEFINE g == x.reg
    <2> HIDE DEF g
    <2>3. \A r \in I \cap 0..7 : Wrap16(g[r] + s) = Q(r)
      BY <1>6, <2>1 DEF g
    <2>4. e.reg = [r \in 0..7 |-> IF r \in I THEN Q(r) ELSE g[r]]
      BY <1>8, <2>3 DEF g
    <2>5. QED
      BY <1>5, <2>2, <2>4 DEF g
  <1>11. v = c - l
    <2>1. e.reg[CX] = c - k
      BY <1>5, <1>10
    <2>2. QED
      BY <1>4, <2>1
  <1>12. v \in Words16
    <2>1. v \in Int /\ 0 <= v /\ v <= 65535
      BY <1>4, <1>11
    <2>2. QED
      BY <2>1, WordsAre
  <1> HIDE DEF v, l
  <1>13. Keeps(e, y)
    BY <1>5, <1>9, <1>12, SetRegIs
  <1>14. y.mem = e.mem /\ y.f = e.f /\ y.sreg = e.sreg /\ y.reg = [e.reg EXCEPT ![CX] = v]
    BY <1>9 DEF IsMachine
  <1> HIDE DEF y
  <1>15. y.reg = [r \in 0..7 |-> IF r = CX THEN c - l ELSE IF r \in I THEN Q(r) ELSE f[r]]
    BY <1>5, <1>10, <1>11, <1>14
  <1>16. Keeps(n, y) /\ y.sreg = n.sreg /\ y.f.d = n.f.d
    BY <1>7, <1>9, <1>13, <1>14, KeepsMore
  <1>17. Stands(n, d, l, y)
    BY <1>15, <1>16 DEF Stands, Q, f, I, c
  <1>18. IF Compares(d) THEN Compared(x, d, y) ELSE Wrote(x, d, y)
    BY <1>2, <1>14 DEF Compared, Wrote
  <1>19. QED
    BY <1>3, <1>17, <1>18 DEF y, l

\* the machines after each of the first j elements
Items(n, d, j, g) ==
  /\ g[0] = n /\ \A k \in 0..j : Stands(n, d, k, g[k])
  /\ \A k \in 1..j : g[k] = NextItem(g[k - 1], d)

\* the loop runs up to element k, none of whose predecessors stops it
LEMMA ItemsRun ==
  ASSUME NEW n, IsMachine(n), NEW d, IsInstr(d), d.op \in Repeated, d.w = d.op % 2,
         NEW c, c = n.reg[CX], NEW g, RunOf(n, d, c, g),
         NEW j, j \in 0..c, \A i \in 1..j - 1 : ~Stops(g[i], d)
  PROVE  Items(n, d, j, g)
  <1> DEFINE Good(k) == Stands(n, d, k, g[k]) /\ (k > 0 => g[k] = NextItem(g[k - 1], d))
             S == {k \in 0..j : Good(k)}
  <1>1. c \in Nat
    BY CountIs
  <1>2. g[0] = n /\ \A k \in 1..c : g[k] = Again(d, k, g[k - 1])
    BY DEF RunOf
  <1>3. 0 \in S
    BY <1>1, <1>2, StandsFirst
  <1>4. ASSUME NEW k, k \in Nat, k \in S, k < j PROVE k + 1 \in S
    <2> DEFINE x == g[k]
               l == k + 1
    <2>1. Stands(n, d, k, x) /\ k < n.reg[CX]
      BY <1>1, <1>4
    <2>2. l \in 1..c /\ l - 1 = k /\ l \in 0..j /\ l > 0
      BY <1>1, <1>4
    <2>3. g[l] = Again(d, l, x)
      BY <1>2, <2>2
    <2>4. ~(l > 1 /\ Stops(x, d))
      <3>1. l > 1 => k \in 1..j - 1
        BY <1>4, <2>2
      <3>2. QED
        BY <3>1
    <2> HIDE DEF x, S
    <2>5. g[l] = NextItem(x, d)
      BY <2>3, <2>4 DEF Again, NextItem
    <2>6. Stands(n, d, k + 1, NextItem(x, d))
      BY <1>4, <2>1, StandsNext
    <2>7. Good(l)
      BY <2>2, <2>5, <2>6 DEF x
    <2> HIDE DEF l, Good
    <2>8. l \in S
      BY <2>2, <2>7 DEF S
    <2>9. QED
      BY <2>8 DEF l
  <1> HIDE DEF S
  <1>5. \A k \in 0..j : k \in S
    <2>1. j \in Nat
      BY <1>1
    <2>2. \A k \in Nat : k \in S /\ k < j => k + 1 \in S
      BY <1>4
    <2>3. QED
      BY <1>3, <2>1, <2>2, Upto
  <1>6. \A k \in 0..j : Good(k)
    BY <1>5 DEF S
  <1>7. \A k \in 0..j : Stands(n, d, k, g[k])
    BY <1>6
  <1>8. \A k \in 1..j : g[k] = NextItem(g[k - 1], d)
    <2>1. SUFFICES ASSUME NEW k \in 1..j PROVE g[k] = NextItem(g[k - 1], d)
      OBVIOUS
    <2>2. k \in 0..j /\ k > 0
      BY <1>1
    <2>3. Good(k)
      BY <1>6, <2>2
    <2>4. QED
      BY <2>2, <2>3
  <1>9. QED
    BY <1>2, <1>7, <1>8 DEF Items

\* once it has stopped, the loop does nothing more
LEMMA StopsForGood ==
  ASSUME NEW n, NEW d, NEW c, c \in Nat, NEW g, RunOf(n, d, c, g),
         NEW j, j \in 1..c, Stops(g[j], d)
  PROVE  g[c] = g[j]
  <1> DEFINE S == {k \in 0..c : k >= j => g[k] = g[j]}
  <1>1. \A k \in 1..c : g[k] = Again(d, k, g[k - 1])
    BY DEF RunOf
  <1>2. 0 \in S
    OBVIOUS
  <1>3. ASSUME NEW k, k \in Nat, k \in S, k < c PROVE k + 1 \in S
    <2> DEFINE l == k + 1
    <2>1. l \in 1..c /\ l - 1 = k /\ l \in 0..c
      BY <1>3
    <2>2. CASE l < j
      BY <2>1, <2>2
    <2>3. CASE l = j
      BY <2>1, <2>3
    <2>4. CASE l > j
      <3>1. k >= j /\ l > 1
        BY <2>1, <2>4
      <3>2. g[k] = g[j]
        BY <1>3, <3>1
      <3>3. g[l] = Again(d, l, g[j])
        BY <1>1, <2>1, <3>2
      <3>4. g[l] = g[j]
        BY <3>1, <3>3 DEF Again
      <3>5. QED
        BY <2>1, <3>4
    <2>5. QED
      BY <2>1, <2>2, <2>3, <2>4
  <1>4. \A k \in Nat : k \in S /\ k < c => k + 1 \in S
    BY <1>3
  <1> HIDE DEF S
  <1>5. c \in S
    <2>1. \A k \in 0..c : k \in S
      BY <1>2, <1>4, Upto
    <2>2. QED
      BY <2>1
  <1>6. QED
    BY <1>5 DEF S

\* the first j elements, the last of which ends the loop
RunsTo(n, d, j, g) ==
  /\ Items(n, d, j, g) /\ Repeat(n, d) = g[j]
  /\ \A k \in 1..j - 1 : ~Stops(g[k], d)
  /\ IF n.reg[CX] = 0 THEN j = 0 ELSE j > 0 /\ Stops(g[j], d)

(* A repeated string instruction is a run of its elements, one after the     *)
(* other from the machine it starts on, each moving the indexes by the size  *)
(* of an element in the direction of DF and counting CX down by one; it      *)
(* stops after the first element that ends it, a comparison that goes        *)
(* against the prefix or the last of the count, never earlier and never      *)
(* later, and with CX = 0 it does nothing (string.h exec_string_op).         *)
THEOREM RepeatStops ==
  ASSUME NEW n, IsMachine(n), NEW d, IsInstr(d), d.op \in Repeated, d.w = d.op % 2
  PROVE  \E j \in 0..n.reg[CX] : \E g : RunsTo(n, d, j, g)
  <1> DEFINE c == n.reg[CX]
  <1>1. c \in Nat
    BY CountIs
  <1>2. PICK g : Runs(n, d, c, g) /\ Repeat(n, d) = g[c]
    BY RepeatRuns
  <1>3. RunOf(n, d, c, g)
    <2> HIDE DEF c
    <2>1. QED
      BY <1>1, <1>2, RunsIs
  <1>4. CASE c = 0
    <2> DEFINE zero == 0
    <2>1. zero \in 0..c /\ c = zero /\ \A i \in 1..zero - 1 : ~Stops(g[i], d)
      BY <1>4
    <2>2. Repeat(n, d) = g[zero]
      BY <1>2, <1>4
    <2> HIDE DEF zero
    <2>3. Items(n, d, zero, g)
      BY <1>3, <2>1, ItemsRun
    <2>4. RunsTo(n, d, zero, g)
      BY <1>4, <2>1, <2>2, <2>3 DEF RunsTo
    <2>5. QED
      BY <2>1, <2>4
  <1>5. CASE c # 0
    <2> DEFINE T == {k \in 1..c : Stops(g[k], d)}
    <2>1. T # {}
      <3>1. SUFFICES ASSUME T = {} PROVE FALSE
        OBVIOUS
      <3>2. c \in 0..c /\ c \in 1..c
        BY <1>1, <1>5
      <3>3. \A i \in 1..c - 1 : ~Stops(g[i], d)
        BY <1>1, <3>1
      <3>4. Items(n, d, c, g)
        BY <1>3, <3>2, <3>3, ItemsRun
      <3>5. Stands(n, d, c, g[c])
        BY <3>2, <3>4 DEF Items
      <3>6. g[c].reg[CX] = c - c
        BY <3>5, StringRegs DEF Stands
      <3>7. g[c].reg[CX] = 0
        <4> HIDE DEF c
        <4>1. QED
          BY <1>1, <3>6
      <3>8. Stops(g[c], d)
        BY <3>7 DEF Stops
      <3>9. QED
        BY <3>1, <3>2, <3>8
    <2>2. PICK j \in T : \A k \in T : j <= k
      <3>1. T \subseteq Nat
        BY <1>1
      <3> HIDE DEF T
      <3>2. QED
        BY <2>1, <3>1, LeastNat
    <2>3. j \in 1..c /\ Stops(g[j], d)
      OBVIOUS
    <2>4. \A i \in 1..j - 1 : ~Stops(g[i], d)
      <3>1. SUFFICES ASSUME NEW i \in 1..j - 1 PROVE i \notin T /\ i \in 1..c
        OBVIOUS
      <3>2. i \in 1..c /\ ~(j <= i)
        BY <1>1, <2>3
      <3>3. QED
        BY <2>2, <3>2
    <2> HIDE DEF T
    <2>5. j \in 0..c /\ j > 0
      BY <1>1, <2>3
    <2>6. Items(n, d, j, g)
      BY <1>3, <2>4, <2>5, ItemsRun
    <2>7. g[c] = g[j]
      <3> HIDE DEF c
      <3>1. QED
        BY <1>1, <1>3, <2>3, StopsForGood
    <2>8. RunsTo(n, d, j, g)
      BY <1>2, <1>5, <2>3, <2>4, <2>5, <2>6, <2>7 DEF RunsTo
    <2>9. QED
      BY <2>5, <2>8
  <1>6. QED
    BY <1>4, <1>5

-----------------------------------------------------------------------------
(* The repeated string instructions: comparisons.                          *)

\* n with its indexes at element k, and whether the two sides are equal there
AtItem(n, d, k) ==
  [n EXCEPT !.reg = [r \in 0..7 |-> IF r \in Indexes(d) THEN IndexAt(n, d, r, k) ELSE n.reg[r]]]

Equal(n, d, k) ==
  LET x == AtItem(n, d, k) IN Item(x, d) = ReadRm(x, TargetOf(x, d))

LEMMA ReadsAlike ==
  ASSUME NEW x, NEW y, NEW d, IsInstr(d), x.mem = y.mem, x.sreg = y.sreg,
         x.reg[AX] = y.reg[AX], x.reg[SI] = y.reg[SI], x.reg[DI] = y.reg[DI],
         x.seg_override_en = y.seg_override_en, x.seg_override = y.seg_override
  PROVE  /\ SourceOf(x, d) = SourceOf(y, d) /\ TargetOf(x, d) = TargetOf(y, d)
         /\ Item(x, d) = Item(y, d)
         /\ ReadRm(x, TargetOf(x, d)) = ReadRm(y, TargetOf(y, d))
  <1>1. SourceOf(x, d) = SourceOf(y, d) /\ TargetOf(x, d) = TargetOf(y, d)
    BY DEF SourceOf, TargetOf, Segment
  <1>2. ASSUME NEW e, e.mod = 0 \/ (e.mod = 3 /\ e.rm = AX), e.w \in {0, 1}
        PROVE  ReadRm(x, e) = ReadRm(y, e)
    <2>1. \A a : Peek(x, a) = Peek(y, a) /\ Peek16(x, a) = Peek16(y, a)
      BY DEF Peek, Peek16
    <2>2. e.rm = AX => x.reg[e.rm] = y.reg[e.rm] /\ Reg8(x, e.rm) = Reg8(y, e.rm)
      BY DEF Reg8, AX
    <2>3. CASE e.mod = 0
      BY <1>2, <2>1, <2>3 DEF ReadRm
    <2>4. CASE e.mod = 3 /\ e.rm = AX
      BY <1>2, <2>2, <2>4 DEF ReadRm
    <2>5. QED
      BY <1>2, <2>3, <2>4
  <1>3. /\ SourceOf(x, d).mod = 0 /\ SourceOf(x, d).w \in {0, 1}
        /\ TargetOf(x, d).mod = 0 /\ TargetOf(x, d).w \in {0, 1}
        /\ Accumulator(d).mod = 3 /\ Accumulator(d).rm = AX /\ Accumulator(d).w \in {0, 1}
    <2>1. \A a : InMemory(d, a).mod = 0 /\ InMemory(d, a).w \in {0, 1}
      BY DEF InMemory, IsInstr
    <2>2. LET e == Accumulator(d) IN e.mod = 3 /\ e.rm = AX /\ e.w \in {0, 1}
      BY RegistersAre, OnRegIs, InstrIs DEF Accumulator
    <2>3. QED
      BY <2>1, <2>2 DEF SourceOf, TargetOf
  <1>4. QED
    BY <1>1, <1>2, <1>3 DEF Item

\* what the machine after k elements reads and writes next
LEMMA StandsReads ==
  ASSUME NEW n, IsMachine(n), NEW d, IsInstr(d), NEW k, NEW x, Stands(n, d, k, x)
  PROVE  LET y == [AtItem(n, d, k) EXCEPT !.mem = x.mem]
         IN  /\ SourceOf(x, d) = SourceOf(y, d) /\ TargetOf(x, d) = TargetOf(y, d)
             /\ Item(x, d) = Item(y, d)
             /\ ReadRm(x, TargetOf(x, d)) = ReadRm(y, TargetOf(y, d))
             /\ x.mem = n.mem => y = AtItem(n, d, k)
  <1> DEFINE I == Indexes(d)
             P(r) == IndexAt(n, d, r, k)
             c == n.reg[CX] - k
             f == [r \in 0..7 |-> IF r \in I THEN P(r) ELSE n.reg[r]]
             z == AtItem(n, d, k)
             y == [z EXCEPT !.mem = x.mem]
  <1>1. x.reg = [r \in 0..7 |-> IF r = CX THEN c ELSE IF r \in I THEN P(r) ELSE n.reg[r]]
    BY DEF Stands
  <1>2. AX \in 0..7 /\ SI \in 0..7 /\ DI \in 0..7 /\ AX # CX /\ SI # CX /\ DI # CX
    BY RegistersAre, StringRegs
  <1>3. z = [n EXCEPT !.reg = f]
    BY DEF AtItem
  <1> HIDE DEF I, P, c
  <1>4. x.reg[AX] = f[AX] /\ x.reg[SI] = f[SI] /\ x.reg[DI] = f[DI]
    BY <1>1, <1>2
  <1> HIDE DEF f, z
  <1>5. /\ z.reg = f /\ z.mem = n.mem /\ z.sreg = n.sreg
        /\ z.seg_override_en = n.seg_override_en /\ z.seg_override = n.seg_override
        /\ y.reg = z.reg /\ y.mem = x.mem /\ y.sreg = z.sreg
        /\ y.seg_override_en = z.seg_override_en /\ y.seg_override = z.seg_override
        /\ (x.mem = n.mem => y = z)
    BY <1>3 DEF IsMachine
  <1>6. /\ x.sreg = n.sreg /\ x.seg_override_en = n.seg_override_en
        /\ x.seg_override = n.seg_override
    BY DEF Stands, Keeps, SameMode, SamePrefixes
  <1> HIDE DEF y
  <1>7. /\ SourceOf(x, d) = SourceOf(y, d) /\ TargetOf(x, d) = TargetOf(y, d)
        /\ Item(x, d) = Item(y, d)
        /\ ReadRm(x, TargetOf(x, d)) = ReadRm(y, TargetOf(y, d))
    BY <1>4, <1>5, <1>6, ReadsAlike
  <1>8. QED
    BY <1>5, <1>7 DEF y, z

\* a comparison ends the loop when it goes against the prefix
LEMMA StopsIs ==
  ASSUME NEW n, IsMachine(n), NEW d, NEW k, NEW x, Stands(n, d, k, x)
  PROVE  Stops(x, d) <=> \/ n.reg[CX] - k = 0
                         \/ Compares(d) /\ (n.rep_mode = "repz") # x.f.z
  <1>1. x.reg[CX] = n.reg[CX] - k
    BY StringRegs DEF Stands
  <1>2. x.rep_mode = n.rep_mode
    BY DEF Stands, Keeps, SameMode, SamePrefixes
  <1>3. QED
    BY <1>1, <1>2 DEF Stops

\* nothing in memory changes, and ZF says how the last element compared
LEMMA ItemsCompared ==
  ASSUME NEW n, IsMachine(n), NEW d, IsInstr(d), d.op \in Repeated, d.w = d.op % 2, Compares(d),
         NEW j, j \in 0..n.reg[CX], NEW g, Items(n, d, j, g)
  PROVE  /\ \A k \in 0..j : g[k].mem = n.mem
         /\ \A k \in 1..j : g[k].f.z = Equal(n, d, k - 1)
  <1>1. n.reg[CX] \in Nat /\ j \in Nat
    BY CountIs
  <1>2. ASSUME NEW k, k \in Nat, k < j, g[k].mem = n.mem
        PROVE  g[k + 1].mem = n.mem /\ g[k + 1].f.z = Equal(n, d, k)
    <2> DEFINE x == g[k]
               l == k + 1
               y == AtItem(n, d, k)
    <2>1. l \in 1..j /\ l - 1 = k /\ k \in 0..j /\ k < n.reg[CX]
      BY <1>1, <1>2
    <2>2. Stands(n, d, k, x) /\ g[l] = NextItem(x, d)
      BY <2>1 DEF Items
    <2>3. x.mem = n.mem
      BY <1>2
    <2> HIDE DEF x
    <2>4. Compared(x, d, NextItem(x, d))
      BY <1>2, <2>1, <2>2, StandsNext
    <2>5. [y EXCEPT !.mem = x.mem] = y
      BY <2>2, <2>3, StandsReads
    <2> HIDE DEF y
    <2>6. Item(x, d) = Item(y, d) /\ ReadRm(x, TargetOf(x, d)) = ReadRm(y, TargetOf(y, d))
      BY <2>2, <2>5, StandsReads DEF y
    <2>7. QED
      BY <2>2, <2>3, <2>4, <2>6 DEF Compared, Equal, y
  <1> DEFINE S == {k \in 0..j : g[k].mem = n.mem}
  <1>3. 0 \in S
    BY <1>1 DEF Items
  <1>4. \A k \in Nat : k \in S /\ k < j => k + 1 \in S
    <2>1. SUFFICES ASSUME NEW k \in Nat, k \in S, k < j PROVE k + 1 \in S
      OBVIOUS
    <2>2. g[k + 1].mem = n.mem
      BY <1>2, <2>1
    <2>3. QED
      BY <1>1, <2>1, <2>2
  <1> HIDE DEF S
  <1>5. \A k \in 0..j : k \in S
    BY <1>1, <1>3, <1>4, Upto
  <1>6. \A k \in 0..j : g[k].mem = n.mem
    BY <1>5 DEF S
  <1>7. ASSUME NEW k \in 1..j PROVE g[k].f.z = Equal(n, d, k - 1)
    <2> DEFINE l == k - 1
    <2>1. l \in Nat /\ l < j /\ l \in 0..j /\ l + 1 = k
      BY <1>1
    <2>2. g[l + 1].f.z = Equal(n, d, l)
      BY <1>2, <1>6, <2>1
    <2>3. QED
      BY <2>1, <2>2
  <1>8. QED
    BY <1>6, <1>7

\* the search is over after j elements
Scanned(n, d, j, x) ==
  /\ Stands(n, d, j, x) /\ x.mem = n.mem
  /\ \A k \in 0..j - 2 : Equal(n, d, k) = (n.rep_mode = "repz")
  /\ x.f.z = Equal(n, d, j - 1)
  /\ j = n.reg[CX] \/ Equal(n, d, j - 1) # (n.rep_mode = "repz")

(* REP CMPS and REP SCAS, of bytes and of words, under either prefix and in  *)
(* either direction, stop right after the first element that goes against    *)
(* the prefix, or after the last one: all the elements before it compare as  *)
(* the prefix says, ZF is that of the last one compared, CX is the count     *)
(* left, the indexes stand just past it (modulo 2^16, inside the segment of  *)
(* the prefix), and nothing in memory has changed; with CX = 0 nothing at    *)
(* all changes, ZF included (string.h exec_string_op).                       *)
THEOREM ScanStops ==
  ASSUME NEW n, IsMachine(n), NEW d, IsInstr(d), d.op \in Repeated, d.w = d.op % 2, Compares(d)
  PROVE  IF n.reg[CX] = 0 THEN Repeat(n, d) = n
         ELSE \E j \in 1..n.reg[CX] : Scanned(n, d, j, Repeat(n, d))
  <1> DEFINE c == n.reg[CX]
             repz == n.rep_mode = "repz"
             x == Repeat(n, d)
  <1>1. c \in Nat
    BY CountIs
  <1>2. PICK j \in 0..c : \E g : RunsTo(n, d, j, g)
    BY RepeatStops
  <1>3. PICK g : RunsTo(n, d, j, g)
    BY <1>2
  <1>4. /\ Items(n, d, j, g) /\ x = g[j] /\ \A k \in 1..j - 1 : ~Stops(g[k], d)
        /\ IF c = 0 THEN j = 0 ELSE j > 0 /\ Stops(g[j], d)
    BY <1>3 DEF RunsTo
  <1>5. CASE c = 0
    BY <1>4, <1>5 DEF Items
  <1>6. CASE c # 0
    <2>1. j \in 1..c /\ j \in 0..j /\ j \in 1..j /\ Stops(g[j], d)
      BY <1>1, <1>4, <1>6
    <2>2. \A k \in 0..j : g[k].mem = n.mem
      BY <1>4, ItemsCompared
    <2>3. \A k \in 1..j : g[k].f.z = Equal(n, d, k - 1)
      BY <1>4, ItemsCompared
    <2>4. \A k \in 0..j : Stands(n, d, k, g[k])
      BY <1>4 DEF Items
    <2>5. Stands(n, d, j, x) /\ x.mem = n.mem /\ x.f.z = Equal(n, d, j - 1)
      BY <1>4, <2>1, <2>2, <2>3, <2>4
    <2>6. ASSUME NEW k \in 0..j - 2 PROVE Equal(n, d, k) = repz
      <3> DEFINE l == k + 1
      <3>1. l \in 1..j - 1 /\ l \in 1..j /\ l \in 0..j /\ l - 1 = k
        BY <1>1
      <3>2. ~Stops(g[l], d) /\ Stands(n, d, l, g[l]) /\ g[l].f.z = Equal(n, d, k)
        BY <1>4, <2>3, <2>4, <3>1
      <3> HIDE DEF l
      <3>3. ~(repz # g[l].f.z)
        BY <3>2, StopsIs
      <3>4. QED
        BY <3>2, <3>3
    <2>7. j = c \/ Equal(n, d, j - 1) # repz
      <3>1. c - j = 0 \/ repz # x.f.z
        BY <1>4, <2>1, <2>5, StopsIs
      <3>2. c - j = 0 => j = c
        <4> HIDE DEF c
        <4>1. QED
          BY <1>1
      <3>3. QED
        BY <2>5, <3>1, <3>2
    <2>8. Scanned(n, d, j, x)
      BY <2>5, <2>6, <2>7 DEF Scanned
    <2>9. QED
      BY <1>6, <2>1, <2>8
  <1>7. QED
    BY <1>5, <1>6

-----------------------------------------------------------------------------
(* The repeated string instructions: blocks.                               *)

Moves8086 == {\hA4, \hA5}
Writes8086 == Moves8086 \cup {\hAA, \hAB}

\* the bytes of an element about to be written
ItemByte(x, d, b) ==
  IF d.op \in Moves8086 THEN Peek(x, SourceOf(x, d).addr + b)
  ELSE IF b = 0 THEN AlOf(x.reg[AX]) ELSE AhOf(x.reg[AX])

LEMMA PokedBytes ==
  ASSUME NEW n, IsMachine(n), NEW t, t \in Int, NEW v, v \in Words16
  PROVE  LET x == Poke16(n, t, v)
         IN  Peek(x, t) = v % 256 /\ Peek(x, t + 1) = v \div 256
  <1> DEFINE x == Poke16(n, t, v)
  <1>1. OnlyMem(n, x) /\ Peek16(x, t) = v
    <2>1. /\ OnlyMem(n, Poke16(n, t, v))
          /\ Peek16(Poke16(n, t, v), t) = v
          /\ \A k \in Int \ {t, t + 1} : Peek(Poke16(n, t, v), k) = Peek(n, k)
      BY Poke16Is
    <2>2. QED
      BY <2>1
  <1> HIDE DEF x
  <1> DEFINE p == Peek(x, t)
             q == Peek(x, t + 1)
  <1>2. IsMachine(x)
    BY <1>1, KeepsMachine DEF OnlyMem
  <1>3. p \in 0..255 /\ q \in 0..255
    BY <1>2, PeekByte
  <1>4. Word(p, q) = v
    BY <1>1 DEF Peek16
  <1> HIDE DEF p, q
  <1>5. p = v % 256 /\ q = v \div 256
    <2>1. Word(p, q) % 256 = p /\ Word(p, q) \div 256 = q
      BY <1>3 DEF Word
    <2>2. QED
      BY <1>4, <2>1
  <1>6. QED
    BY <1>5 DEF p, q, x

LEMMA ItemBytes ==
  ASSUME NEW x, IsMachine(x), NEW d, IsInstr(d), d.op \in Writes8086
  PROVE  /\ Item(x, d) % 256 = ItemByte(x, d, 0)
         /\ d.w = 1 => Item(x, d) \div 256 = ItemByte(x, d, 1)
  <1> DEFINE e == SourceOf(x, d)
             a == e.addr
             p == Peek(x, a)
             q == Peek(x, a + 1)
             r == x.reg[AX]
  <1>1. e.mod = 0 /\ e.w = d.w /\ a \in Int /\ d.w \in {0, 1}
    BY OperandsAre, InstrIs DEF SameSize
  <1>2. LET ax == Accumulator(d) IN ax.mod = 3 /\ ax.rm = AX /\ ax.w = d.w
    BY OperandsAre DEF SameSize
  <1>3. ReadRm(x, e) = IF d.w = 1 THEN Word(p, q) ELSE p
    BY <1>1 DEF ReadRm, Peek16
  <1>4. ReadRm(x, Accumulator(d)) = IF d.w = 1 THEN r ELSE r % 256
    <2>1. AX < 4 /\ AX = 0
      BY DEF AX
    <2>2. Reg8(x, AX) = r % 256
      BY <2>1 DEF Reg8
    <2>3. QED
      BY <1>1, <1>2, <2>2 DEF ReadRm
  <1>5. p \in 0..255 /\ q \in 0..255
    <2> HIDE DEF a
    <2>1. QED
      BY <1>1, PeekByte
  <1>6. r \in Int /\ 0 <= r /\ r <= 65535
    <2>1. r \in Words16
      BY RegistersAre, RegIn
    <2> HIDE DEF r
    <2>2. QED
      BY <2>1, WordInt
  <1>7. Item(x, d) = IF d.op \in Moves8086 THEN ReadRm(x, e) ELSE ReadRm(x, Accumulator(d))
    BY DEF Item, Writes8086, Moves8086
  <1>8. /\ ItemByte(x, d, 0) = IF d.op \in Moves8086 THEN p ELSE r % 256
        /\ ItemByte(x, d, 1) = IF d.op \in Moves8086 THEN q ELSE r \div 256
    <2>1. a + 0 = a
      BY <1>1
    <2>2. QED
      BY <2>1 DEF ItemByte, AlOf, AhOf
  <1> HIDE DEF e, a, p, q, r
  <1>9. Word(p, q) % 256 = p /\ Word(p, q) \div 256 = q /\ p % 256 = p /\ (r % 256) % 256 = r % 256
    BY <1>5, <1>6 DEF Word
  <1> HIDE DEF Word
  <1>10. QED
    BY <1>1, <1>3, <1>4, <1>7, <1>8, <1>9

LEMMA WroteBytes ==
  ASSUME NEW x, IsMachine(x), NEW d, IsInstr(d), d.op \in Writes8086, NEW y, Wrote(x, d, y),
         NEW t, t = TargetOf(x, d).addr
  PROVE  /\ \A b \in 0..d.w : Peek(y, t + b) = ItemByte(x, d, b)
         /\ \A a \in Int : (\A b \in 0..d.w : a # t + b) => Peek(y, a) = Peek(x, a)
  <1> DEFINE e == TargetOf(x, d)
             v == Item(x, d)
             lo == v % 256
             hi == v \div 256
             z == WriteRm(x, e, v)
             b0 == ItemByte(x, d, 0)
             b1 == ItemByte(x, d, 1)
  <1>1. e.mod = 0 /\ e.w = d.w /\ t \in Int /\ d.w \in {0, 1}
    BY OperandsAre, InstrIs DEF SameSize
  <1>2. v \in Words16 /\ lo \in 0..255 /\ lo = b0 /\ (d.w = 1 => hi = b1)
    BY ItemIs, ItemBytes, WordIs
  <1>3. \A a : Peek(y, a) = Peek(z, a)
    BY DEF Wrote, Peek
  <1>4. z = IF d.w = 1 THEN Poke16(x, t, v) ELSE Poke(x, t, lo)
    BY <1>1 DEF WriteRm
  <1> HIDE DEF z, v, e, b0, b1
  <1>5. CASE d.w = 1
    <2>1. /\ Peek(z, t) = lo /\ Peek(z, t + 1) = hi
          /\ \A k \in Int \ {t, t + 1} : Peek(z, k) = Peek(x, k)
      BY <1>1, <1>2, <1>4, <1>5, PokedBytes, Poke16Is
    <2> HIDE DEF lo, hi
    <2>2. Peek(y, t + 0) = b0 /\ Peek(y, t + 1) = b1
      BY <1>1, <1>2, <1>3, <1>5, <2>1
    <2>3. \A b \in 0..d.w : Peek(y, t + b) = ItemByte(x, d, b)
      BY <1>5, <2>2 DEF b0, b1
    <2>4. ASSUME NEW a \in Int, \A b \in 0..d.w : a # t + b PROVE Peek(y, a) = Peek(x, a)
      <3>1. a # t + 0 /\ a # t + 1
        BY <1>5, <2>4
      <3>2. QED
        BY <1>1, <1>3, <2>1, <3>1
    <2>5. QED
      BY <2>3, <2>4
  <1>6. CASE d.w = 0
    <2> HIDE DEF lo
    <2>1. Peek(z, t) = lo /\ \A k \in Int \ {t} : Peek(z, k) = Peek(x, k)
      BY <1>1, <1>2, <1>4, <1>6, PokeIs
    <2>2. Peek(y, t + 0) = b0
      BY <1>1, <1>2, <1>3, <2>1
    <2>3. \A b \in 0..d.w : Peek(y, t + b) = ItemByte(x, d, b)
      BY <1>6, <2>2 DEF b0
    <2>4. ASSUME NEW a \in Int, \A b \in 0..d.w : a # t + b PROVE Peek(y, a) = Peek(x, a)
      <3>1. a # t + 0
        BY <1>6, <2>4
      <3>2. QED
        BY <1>1, <1>3, <2>1, <3>1
    <2>5. QED
      BY <2>3, <2>4
  <1>7. QED
    BY <1>1, <1>5, <1>6

\* where element k is written, where it is read, and the bytes of it
TargetAt(n, d, k) == Linear(n.sreg[ES], IndexAt(n, d, DI, k))
SourceAt(n, d, k) == Linear(Segment(n, DS), IndexAt(n, d, SI, k))
ByteAt(n, d, k, b) ==
  IF d.op \in Moves8086 THEN Peek(n, SourceAt(n, d, k) + b)
  ELSE IF b = 0 THEN AlOf(n.reg[AX]) ELSE AhOf(n.reg[AX])

\* an element is not written over by a later one, nor before it is read
Clear(n, d) ==
  \A k \in 0..n.reg[CX] - 1 : \A i \in 0..k - 1 : \A a, b \in 0..d.w :
     /\ TargetAt(n, d, k) + b # TargetAt(n, d, i) + a
     /\ d.op \in Moves8086 => SourceAt(n, d, k) + b # TargetAt(n, d, i) + a

\* the first k elements have been written, and nothing else
Filled(n, d, k, x) ==
  /\ \A i \in 0..k - 1 : \A b \in 0..d.w : Peek(x, TargetAt(n, d, i) + b) = ByteAt(n, d, i, b)
  /\ \A a \in Int : (\A i \in 0..k - 1 : \A b \in 0..d.w : a # TargetAt(n, d, i) + b)
                      => Peek(x, a) = Peek(n, a)

LEMMA IndexAtIs ==
  ASSUME NEW n, IsMachine(n), NEW d, IsInstr(d), NEW r, r \in 0..7, NEW k, k \in Int
  PROVE  IndexAt(n, d, r, k) \in Words16
  <1> DEFINE a == n.reg[r]
             s == Stride(n, d)
             z == s * k
  <1>1. a \in Words16 /\ z \in Int
    BY RegIn, StrideIs, StrideTimes
  <1> HIDE DEF a, z
  <1>2. a + z \in Int
    BY <1>1, WordInt
  <1>3. Wrap16(a + z) \in Words16
    BY <1>2, WrapIn
  <1>4. QED
    BY <1>3 DEF IndexAt, a, z, s

LEMMA AddressesAre ==
  ASSUME NEW n, IsMachine(n), NEW d, IsInstr(d), NEW k, k \in Int
  PROVE  TargetAt(n, d, k) \in Int /\ SourceAt(n, d, k) \in Int
  <1>1. IndexAt(n, d, DI, k) \in Words16 /\ IndexAt(n, d, SI, k) \in Words16
    BY RegistersAre, IndexAtIs
  <1>2. n.sreg[ES] \in Words16 /\ Segment(n, DS) \in Words16
    BY RegistersAre, SegIn, SegmentIs
  <1>3. QED
    BY <1>1, <1>2, AddressIs DEF TargetAt, SourceAt

\* the next element is written where it belongs, and is still what it was
LEMMA ItemStill ==
  ASSUME NEW n, IsMachine(n), NEW d, IsInstr(d), d.op \in Writes8086, Clear(n, d),
         NEW k, k \in Nat, k < n.reg[CX], NEW x, Stands(n, d, k, x), Filled(n, d, k, x),
         NEW b, b \in 0..d.w
  PROVE  /\ TargetOf(x, d).addr = TargetAt(n, d, k)
         /\ ItemByte(x, d, b) = ByteAt(n, d, k, b)
  <1> DEFINE c == n.reg[CX]
             s == SourceAt(n, d, k)
             P(r) == IndexAt(n, d, r, k)
  <1>1. IsMachine(x) /\ x.sreg = n.sreg /\ SameMode(n, x)
    BY DEF Stands, Keeps
  <1>2. x.reg[DI] = P(DI) /\ (d.op \in Moves8086 => x.reg[SI] = P(SI)) /\ x.reg[AX] = n.reg[AX]
    <2>1. x.reg = [r \in 0..7 |-> IF r = CX THEN n.reg[CX] - k
                                  ELSE IF r \in Indexes(d) THEN P(r) ELSE n.reg[r]]
      BY DEF Stands
    <2>2. /\ DI \in Indexes(d) /\ (d.op \in Moves8086 => SI \in Indexes(d)) /\ AX \notin Indexes(d)
      BY DEF Indexes, Moves8086, AX, SI, DI
    <2>3. AX \in 0..7 /\ SI \in 0..7 /\ DI \in 0..7 /\ AX # CX /\ SI # CX /\ DI # CX
      BY RegistersAre, StringRegs
    <2> HIDE DEF P
    <2>4. QED
      BY <2>1, <2>2, <2>3
  <1>3. Segment(x, DS) = Segment(n, DS)
    BY <1>1 DEF Segment, SameMode, SamePrefixes
  <1>4. TargetOf(x, d).addr = TargetAt(n, d, k)
    BY <1>1, <1>2, OperandsAre DEF TargetAt
  <1>5. d.op \in Moves8086 => SourceOf(x, d).addr = s
    BY <1>1, <1>2, <1>3, OperandsAre DEF SourceAt
  <1>6. k \in 0..c - 1 /\ s \in Int /\ b \in Int
    <2>1. c \in Nat /\ d.w \in {0, 1} /\ s \in Int
      BY CountIs, AddressesAre, InstrIs
    <2> HIDE DEF c, s
    <2>2. k < c
      BY DEF c
    <2>3. QED
      BY <2>1, <2>2
  <1>7. CASE d.op \in Moves8086
    <2>1. ItemByte(x, d, b) = Peek(x, s + b) /\ ByteAt(n, d, k, b) = Peek(n, s + b)
      BY <1>5, <1>7 DEF ItemByte, ByteAt
    <2>2. \A i \in 0..k - 1 : \A a \in 0..d.w : s + b # TargetAt(n, d, i) + a
      BY <1>6, <1>7 DEF Clear
    <2>3. s + b \in Int
      BY <1>6
    <2> HIDE DEF s
    <2>4. Peek(x, s + b) = Peek(n, s + b)
      BY <2>2, <2>3 DEF Filled
    <2>5. QED
      BY <1>4, <2>1, <2>4
  <1>8. CASE d.op \notin Moves8086
    BY <1>2, <1>4, <1>8 DEF ItemByte, ByteAt
  <1>9. QED
    BY <1>7, <1>8

LEMMA FilledNext ==
  ASSUME NEW n, IsMachine(n), NEW d, IsInstr(d), d.op \in Writes8086, d.w = d.op % 2,
         Clear(n, d), NEW k, k \in Nat, k < n.reg[CX],
         NEW x, Stands(n, d, k, x), Filled(n, d, k, x)
  PROVE  LET y == NextItem(x, d) IN Filled(n, d, k + 1, y) /\ y.f = x.f
  <1> DEFINE y == NextItem(x, d)
             T(i) == TargetAt(n, d, i)
             B(i, b) == ByteAt(n, d, i, b)
             t == T(k)
             c == n.reg[CX]
  <1>1. d.op \in Repeated /\ ~Compares(d)
    <2>1. d.op \in {\hA4, \hA5, \hAA, \hAB}
      BY DEF Writes8086, Moves8086
    <2>2. d.op - d.w \notin {\hA6, \hAE}
      BY <2>1
    <2>3. QED
      BY <2>1, <2>2 DEF Repeated, Compares
  <1>2. Wrote(x, d, y) /\ IsMachine(x)
    BY <1>1, StandsNext DEF Stands, Keeps
  <1>3. d.w \in {0, 1} /\ 0 \in 0..d.w
    BY InstrIs
  <1>4. TargetOf(x, d).addr = t /\ \A b \in 0..d.w : ItemByte(x, d, b) = B(k, b)
    BY <1>3, ItemStill
  <1> HIDE DEF y
  <1>5. /\ \A b \in 0..d.w : Peek(y, t + b) = B(k, b)
        /\ \A a \in Int : (\A b \in 0..d.w : a # t + b) => Peek(y, a) = Peek(x, a)
    BY <1>2, <1>4, WroteBytes
  <1>6. /\ \A i \in 0..k - 1 : \A b \in 0..d.w : Peek(x, T(i) + b) = B(i, b)
        /\ \A a \in Int : (\A i \in 0..k - 1 : \A b \in 0..d.w : a # T(i) + b)
                            => Peek(x, a) = Peek(n, a)
    BY DEF Filled
  <1>7. \A i \in 0..k - 1 : \A a, b \in 0..d.w : T(k) + b # T(i) + a
    <2>1. k \in 0..c - 1
      <3>1. c \in Nat /\ k < c
        BY CountIs
      <3> HIDE DEF c
      <3>2. QED
        BY <3>1
    <2>2. QED
      BY <2>1 DEF Clear
  <1>8. \A i \in 0..k - 1 : T(i) \in Int
    BY AddressesAre
  <1> HIDE DEF T, B, t
  <1>9. ASSUME NEW i \in 0..(k + 1) - 1, NEW b \in 0..d.w PROVE Peek(y, T(i) + b) = B(i, b)
    <2>1. CASE i = k
      BY <1>5, <2>1 DEF t
    <2>2. CASE i # k
      <3>1. i \in 0..k - 1
        BY <2>2
      <3>2. T(i) + b \in Int
        BY <1>3, <1>8, <3>1
      <3>3. \A a \in 0..d.w : T(i) + b # t + a
        BY <1>7, <3>1 DEF t
      <3>4. Peek(y, T(i) + b) = Peek(x, T(i) + b)
        BY <1>5, <3>2, <3>3
      <3>5. QED
        BY <1>6, <3>1, <3>4
    <2>3. QED
      BY <2>1, <2>2
  <1>10. ASSUME NEW a \in Int, \A i \in 0..(k + 1) - 1 : \A b \in 0..d.w : a # T(i) + b
         PROVE  Peek(y, a) = Peek(n, a)
    <2>1. k \in 0..(k + 1) - 1 /\ \A i \in 0..k - 1 : i \in 0..(k + 1) - 1
      OBVIOUS
    <2>2. \A b \in 0..d.w : a # t + b
      BY <1>10, <2>1 DEF t
    <2>3. \A i \in 0..k - 1 : \A b \in 0..d.w : a # T(i) + b
      BY <1>10, <2>1
    <2>4. QED
      BY <1>5, <1>6, <2>2, <2>3
  <1>11. Filled(n, d, k + 1, y)
    BY <1>9, <1>10 DEF Filled, T, B
  <1>12. QED
    BY <1>2, <1>11 DEF Wrote, y

\* the first c indexes in r, from the one n holds, stay within the segment
Within(n, d, r) == \A k \in 0..n.reg[CX] - 1 : n.reg[r] + Stride(n, d) * k \in Words16

\* the direction suits the overlap of the block moved and its copy, if any
Suits(n, d) ==
  LET gap  == Linear(Segment(n, DS), n.reg[SI]) - Linear(n.sreg[ES], n.reg[DI])
      size == n.reg[CX] * (d.w + 1)
  IN  (IF n.f.d THEN gap <= 0 ELSE gap >= 0) \/ gap >= size \/ gap <= 0 - size

\* elements do not share bytes
LEMMA Apart ==
  ASSUME NEW w \in {0, 1}, NEW s \in {0 - (w + 1), w + 1}, NEW t \in Int,
         NEW k \in Int, NEW i \in Int, i < k, NEW a \in 0..w, NEW b \in 0..w
  PROVE  (t + s * k) + b # (t + s * i) + a
  <1>1. CASE w = 0 /\ s = 1
    BY <1>1
  <1>2. CASE w = 0 /\ s = 0 - 1
    BY <1>2
  <1>3. CASE w = 1 /\ s = 2
    BY <1>3
  <1>4. CASE w = 1 /\ s = 0 - 2
    BY <1>4
  <1>5. QED
    BY <1>1, <1>2, <1>3, <1>4

\* nor does an element read with those already written
LEMMA ReadFirst ==
  ASSUME NEW w \in {0, 1}, NEW f, NEW s, s = (IF f THEN 0 - (w + 1) ELSE w + 1),
         NEW c \in Nat, NEW u \in Int, NEW t \in Int,
         \/ IF f THEN u - t <= 0 ELSE u - t >= 0
         \/ u - t >= c * (w + 1)
         \/ u - t <= 0 - c * (w + 1),
         NEW k \in Int, k < c, NEW i \in Nat, i < k, NEW a \in 0..w, NEW b \in 0..w
  PROVE  (u + s * k) + b # (t + s * i) + a
  <1>1. CASE w = 0
    <2>1. CASE f
      BY <1>1, <2>1
    <2>2. CASE ~f
      BY <1>1, <2>2
    <2>3. QED
      BY <2>1, <2>2
  <1>2. CASE w = 1
    <2>1. CASE f
      BY <1>2, <2>1
    <2>2. CASE ~f
      BY <1>2, <2>2
    <2>3. QED
      BY <2>1, <2>2
  <1>3. QED
    BY <1>1, <1>2

LEMMA Unwrapped ==
  ASSUME NEW seg, seg \in Words16, NEW a, a \in Words16, NEW z, z \in Int, a + z \in Words16
  PROVE  Linear(seg, Wrap16(a + z)) = Linear(seg, a) + z
  <1>1. seg \in Int /\ a \in Int /\ 0 <= a + z /\ a + z <= 65535
    BY WordInt
  <1>2. Wrap16(a + z) = a + z
    BY <1>1 DEF Wrap16
  <1>3. QED
    BY <1>1, <1>2 DEF Linear

LEMMA InBlock ==
  ASSUME NEW n, IsMachine(n), NEW d, IsInstr(d), NEW k, k \in 0..n.reg[CX] - 1
  PROVE  /\ Within(n, d, DI) =>
              TargetAt(n, d, k) = Linear(n.sreg[ES], n.reg[DI]) + Stride(n, d) * k
         /\ Within(n, d, SI) =>
              SourceAt(n, d, k) = Linear(Segment(n, DS), n.reg[SI]) + Stride(n, d) * k
  <1> DEFINE z == Stride(n, d) * k
             p == n.reg[DI]
             q == n.reg[SI]
  <1>1. k \in Int
    BY CountIs
  <1>2. z \in Int
    BY <1>1, StrideIs, StrideTimes
  <1>3. p \in Words16 /\ q \in Words16 /\ n.sreg[ES] \in Words16 /\ Segment(n, DS) \in Words16
    BY RegistersAre, RegIn, SegIn, SegmentIs
  <1>4. (Within(n, d, DI) => p + z \in Words16) /\ (Within(n, d, SI) => q + z \in Words16)
    BY DEF Within
  <1>5. /\ TargetAt(n, d, k) = Linear(n.sreg[ES], Wrap16(p + z))
        /\ SourceAt(n, d, k) = Linear(Segment(n, DS), Wrap16(q + z))
    BY DEF TargetAt, SourceAt, IndexAt
  <1> HIDE DEF z, p, q
  <1>6. /\ Within(n, d, DI) => Linear(n.sreg[ES], Wrap16(p + z)) = Linear(n.sreg[ES], p) + z
        /\ Within(n, d, SI) => Linear(Segment(n, DS), Wrap16(q + z)) = Linear(Segment(n, DS), q) + z
    BY <1>2, <1>3, <1>4, Unwrapped
  <1>7. QED
    BY <1>5, <1>6 DEF z, p, q

LEMMA BlockClear ==
  ASSUME NEW n, IsMachine(n), NEW d, IsInstr(d), Within(n, d, DI),
         d.op \in Moves8086 => Within(n, d, SI) /\ Suits(n, d)
  PROVE  Clear(n, d)
  <1> DEFINE c == n.reg[CX]
             t == Linear(n.sreg[ES], n.reg[DI])
             u == Linear(Segment(n, DS), n.reg[SI])
             s == Stride(n, d)
             w == d.w
             f == n.f.d
  <1>1. c \in Nat /\ w \in {0, 1} /\ s = (IF f THEN 0 - (w + 1) ELSE w + 1)
    BY CountIs, InstrIs DEF Stride
  <1>2. t \in Int /\ u \in Int
    BY RegistersAre, RegIn, SegIn, SegmentIs, AddressIs
  <1>3. \A k \in 0..c - 1 : TargetAt(n, d, k) = t + s * k
                            /\ (d.op \in Moves8086 => SourceAt(n, d, k) = u + s * k)
    BY InBlock
  <1>4. d.op \in Moves8086 => \/ IF f THEN u - t <= 0 ELSE u - t >= 0
                              \/ u - t >= c * (w + 1)
                              \/ u - t <= 0 - c * (w + 1)
    BY DEF Suits
  <1>5. SUFFICES ASSUME NEW k \in 0..c - 1, NEW i \in 0..k - 1, NEW a \in 0..w, NEW b \in 0..w
                 PROVE  /\ TargetAt(n, d, k) + b # TargetAt(n, d, i) + a
                        /\ d.op \in Moves8086 => SourceAt(n, d, k) + b # TargetAt(n, d, i) + a
    BY DEF Clear
  <1> HIDE DEF c, t, u, s, w, f
  <1>6. k \in Int /\ k < c /\ i \in Nat /\ i \in Int /\ i < k /\ i \in 0..c - 1
    BY <1>1
  <1>7. (t + s * k) + b # (t + s * i) + a
    <2>1. s \in {0 - (w + 1), w + 1}
      BY <1>1
    <2>2. QED
      BY <1>1, <1>2, <1>6, <2>1, Apart
  <1>8. d.op \in Moves8086 => (u + s * k) + b # (t + s * i) + a
    BY <1>1, <1>2, <1>4, <1>6, ReadFirst
  <1>9. /\ TargetAt(n, d, k) = t + s * k /\ TargetAt(n, d, i) = t + s * i
        /\ d.op \in Moves8086 => SourceAt(n, d, k) = u + s * k
    BY <1>3, <1>6
  <1>10. QED
    BY <1>7, <1>8, <1>9

(* REP MOVS and REP STOS, of bytes and of words and in either direction,     *)
(* write the whole block and nothing else: each of the CX elements holds     *)
(* what the source held before the first one was written (or AL, AX), also   *)
(* when the two overlap and the direction suits, every other byte of memory  *)
(* is what it was, CX ends at 0, SI and DI just past the block, and no flag  *)
(* has changed (string.h exec_string_op). The block may end at either end of *)
(* its segment, not go past it: there the index wraps and the overlap may.   *)
THEOREM BlockWritten ==
  ASSUME NEW n, IsMachine(n), NEW d, IsInstr(d), d.op \in Writes8086, d.w = d.op % 2,
         Within(n, d, DI), d.op \in Moves8086 => Within(n, d, SI) /\ Suits(n, d)
  PROVE  LET x == Repeat(n, d)
             c == n.reg[CX]
         IN  Stands(n, d, c, x) /\ Filled(n, d, c, x) /\ x.f = n.f
  <1> DEFINE c == n.reg[CX]
  <1>1. c \in Nat
    BY CountIs
  <1>2. Clear(n, d)
    BY BlockClear
  <1>3. d.op \in Repeated /\ ~Compares(d)
    <2>1. d.op \in {\hA4, \hA5, \hAA, \hAB}
      BY DEF Writes8086, Moves8086
    <2>2. d.op - d.w \notin {\hA6, \hAE}
      BY <2>1
    <2>3. QED
      BY <2>1, <2>2 DEF Repeated, Compares
  <1>4. PICK j \in 0..c : \E g : RunsTo(n, d, j, g)
    BY <1>3, RepeatStops
  <1>5. PICK g : RunsTo(n, d, j, g)
    BY <1>4
  <1>6. /\ Items(n, d, j, g) /\ Repeat(n, d) = g[j]
        /\ IF c = 0 THEN j = 0 ELSE j > 0 /\ Stops(g[j], d)
    BY <1>5 DEF RunsTo
  <1>7. /\ g[0] = n /\ \A k \in 0..j : Stands(n, d, k, g[k])
        /\ \A k \in 1..j : g[k] = NextItem(g[k - 1], d)
    BY <1>6 DEF Items
  <1>8. j = c
    <2>1. j \in 0..j
      BY <1>1
    <2>2. c # 0 => c - j = 0
      BY <1>3, <1>6, <1>7, <2>1, StopsIs
    <2> HIDE DEF c
    <2>3. QED
      BY <1>1, <1>6, <2>2
  <1> DEFINE Good(k) == Filled(n, d, k, g[k]) /\ g[k].f = n.f
             S == {k \in 0..c : Good(k)}
  <1>9. Good(0)
    <2>1. \A i \in 0..0 - 1 : FALSE
      OBVIOUS
    <2>2. Filled(n, d, 0, n)
      BY <2>1 DEF Filled
    <2>3. QED
      BY <1>7, <2>2
  <1>10. ASSUME NEW k \in Nat, k \in S, k < c PROVE k + 1 \in S
    <2> DEFINE x == g[k]
               l == k + 1
    <2>1. l \in 1..j /\ l \in 0..c /\ l - 1 = k /\ k \in 0..j
      <3> HIDE DEF c
      <3>1. QED
        BY <1>1, <1>8, <1>10
    <2>2. Stands(n, d, k, x) /\ g[l] = NextItem(x, d)
      BY <1>7, <2>1
    <2>3. Filled(n, d, k, x) /\ x.f = n.f
      BY <1>10
    <2> HIDE DEF x
    <2>4. Filled(n, d, k + 1, NextItem(x, d)) /\ NextItem(x, d).f = x.f
      BY <1>2, <1>10, <2>2, <2>3, FilledNext
    <2>5. Good(l)
      BY <2>2, <2>3, <2>4
    <2> HIDE DEF Good
    <2>6. QED
      BY <2>1, <2>5
  <1>11. 0 \in S
    <2> HIDE DEF Good, c
    <2>1. QED
      BY <1>1, <1>9
  <1> HIDE DEF S
  <1>12. c \in S
    <2> HIDE DEF c
    <2>1. \A k \in 0..c : k \in S
      BY <1>1, <1>10, <1>11, Upto
    <2>2. QED
      BY <1>1, <2>1
  <1>13. Good(c)
    BY <1>12 DEF S
  <1>14. Stands(n, d, c, g[c])
    <2>1. c \in 0..j
      <3> HIDE DEF c
      <3>1. QED
        BY <1>1, <1>8
    <2>2. QED
      BY <1>7, <2>1
  <1>15. QED
    BY <1>6, <1>8, <1>13, <1>14
=============================================================================
