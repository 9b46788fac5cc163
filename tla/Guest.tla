------------------------------- MODULE Guest --------------------------------
(***************************************************************************)
(* The processor as a guest program sees it: a program of bytes in memory,  *)
(* and for each group of instructions an action that decodes the next one   *)
(* and executes it as execute_instruction (run.c) does, steps 4 to 7 of the *)
(* run loop. The functions executed are those of transfer.h, control.h,     *)
(* string.h and flags_io.h, and Alu for the ones that compute. Interrupts   *)
(* between instructions are EmuRun's.                                       *)
(***************************************************************************)
EXTENDS Decode, Alu

CONSTANTS
  Programs,     \* records [name, code, max], see MCGuest
  Input(_),     \* for a program, the machines it may start from
  Disks,        \* the contents of the disk images at the start
  Time          \* what the clock says: [s, min, h, ms]

VARIABLES
  prog,    \* the program
  start,   \* the machine it started from
  count,   \* instructions executed
  m,       \* the machine
  disk     \* the disk images, a function from offsets to bytes for each drive

vars == <<prog, start, count, m, disk>>

Cells(c) == DOMAIN c \subseteq Int /\ c \in [DOMAIN c -> 0..255]

Words16 == 0..2^16 - 1

\* the flags by their bits in FLAGS; bit 1 ("r") is set by whatever loads it
FlagBit == [c |-> 0, r |-> 1, p |-> 2, a |-> 4, z |-> 6, s |-> 7,
            t |-> 8, i |-> 9, d |-> 10, o |-> 11]

IsMachine(x) ==
  /\ x \in [reg : [0..7 -> Words16], sreg : [0..3 -> Words16], ip : Words16,
           f : [DOMAIN FlagBit -> BOOLEAN], mem : {x.mem}, io : {x.io},
           pit_lobyte_pending : 0..1, seg_override_en : 0..2, seg_override : 0..3,
           rep_override_en : 0..2, rep_mode : {"repnz", "repz"},
           stop : {"no", "halted", "killed"}]
  /\ Cells(x.mem) /\ Cells(x.io)

ASSUME GuestAssumption ==
  /\ \A p \in Programs : p.max \in Nat /\ \A x \in Input(p) : IsMachine(x)
  /\ \A drive \in DOMAIN Disks : Cells(Disks[drive])
  /\ Time \in [s : 0..60, min : 0..59, h : 0..23, ms : 0..999]

TypeOK ==
  /\ count \in 0..prog.max
  /\ IsMachine(start) /\ IsMachine(m)
  /\ DOMAIN disk = DOMAIN Disks /\ \A drive \in DOMAIN Disks : Cells(disk[drive])

-----------------------------------------------------------------------------
(* FLAGS *)

FlagWord(f) == MapThenSumSet(LAMBDA x : IF f[x] THEN 2^FlagBit[x] ELSE 0, DOMAIN FlagBit)

flags_pack(f) == 61440 + FlagWord([f EXCEPT !.r = TRUE])
flags_unpack(v) == [x \in DOMAIN FlagBit |-> x = "r" \/ Bit(v, FlagBit[x]) = 1]

\* the low byte, which LAHF and SAHF move
LoadLow(f, v) ==
  [x \in DOMAIN FlagBit |-> IF FlagBit[x] < 8 THEN flags_unpack(v)[x] ELSE f[x]]

AlOf(v) == v % 256
AhOf(v) == v \div 256
SetAl(n, v) == SetReg8(n, 0, v)
SetAh(n, v) == SetReg8(n, 4, v)

-----------------------------------------------------------------------------
(* Where an instruction goes on *)

\* the lengths that execute_instruction corrects
Length(d) ==
  CASE d.kind = "movRegImm" -> IF d.op >= \hB8 THEN 3 ELSE 2
    [] d.kind = "group3" /\ d.reg = 0 -> d.len + d.w + 1
    [] d.kind = "aluImm" -> d.len - d.w + (IF d.dir = 0 /\ d.w = 1 THEN 1 ELSE 0)
    [] d.kind = "jump" -> 3 - d.dir
    [] d.kind = "int" -> IF d.op = \hCD THEN 2 ELSE 1
    [] OTHER -> d.len

Instruction(n) == LET d == Decode(n) IN [d EXCEPT !.len = Length(d)]

Go(n, ip) == [n EXCEPT !.ip = Wrap16(ip)]
Far(n, ip, seg) == [n EXCEPT !.ip = ip, !.sreg[CS] = seg]
Past(n, d) == n.ip + d.len
Advance(n, d) == Go(n, Past(n, d))
Rel8(d) == SignExtend(d.data0 % 256)
Branch(n, d, taken) == Go(n, IF taken THEN Past(n, d) + Rel8(d) ELSE Past(n, d))

\* pc_interrupt
Interrupt(n, v) ==
  LET p == Push(Push(Push(n, flags_pack(n.f)), n.sreg[CS]), n.ip)
  IN  Far([p EXCEPT !.f.i = FALSE, !.f.t = FALSE], Peek16(p, 4 * v), Peek16(p, 4 * v + 2))

-----------------------------------------------------------------------------
(* Moves *)

Moffs(n, d) ==
  LET at == InMemory(d, Linear(Segment(n, DS), d.data0))
      ax == OnReg(d, AX)
  IN  IF d.dir = 1 THEN WriteRm(n, at, ReadRm(n, ax)) ELSE WriteRm(n, ax, ReadRm(n, at))

\* the offset of a memory operand, taken back from its address
LeaOffset(n, d) == Wrap16(d.addr - 16 * Segment(n, DefaultSeg(d.mod, d.rm)))

\* bug: the countdown that LEA leaves outlives the next instruction
LeaTwo(n, d) ==
  [(IF d.mod = 3 THEN n ELSE [n EXCEPT !.reg[d.reg] = LeaOffset(n, d)])
     EXCEPT !.seg_override_en = 2]

Lea(n, d) ==
  [(IF d.mod = 3 THEN n ELSE [n EXCEPT !.reg[d.reg] = LeaOffset(n, d)])
     EXCEPT !.seg_override_en = 1]

Mov(n, d) ==
  CASE d.kind = "mov"       -> WriteDest(n, d, ReadSrc(n, d))
    [] d.kind = "movImm"    -> WriteRm(n, d, d.data2)
    [] d.kind = "movRegImm" -> WriteRm(n, OnReg([d EXCEPT !.w = Num(d.op >= \hB8)], d.reg4), d.data0)
    [] d.kind = "moffs"     -> Moffs(n, d)
    [] d.kind = "xchg"      -> WriteReg(WriteRm(n, d, ReadReg(n, d)), d, ReadRm(n, d))
    [] d.kind = "xchgAx"    -> [n EXCEPT !.reg[AX] = n.reg[d.reg4], !.reg[d.reg4] = n.reg[AX]]
    [] d.op = \h8C          -> WriteRm(n, Wide(d), n.sreg[d.reg])
    [] d.op = \h8E          -> [n EXCEPT !.sreg[d.reg] = ReadRm(n, Wide(d))]
    [] d.op = \h8D          -> Lea(n, d)
    [] d.kind = "farLoad"   -> [n EXCEPT !.reg[d.reg] = Peek16(n, d.addr),
                                         !.sreg[IF d.op = \hC4 THEN ES ELSE DS] =
                                            Peek16(n, d.addr + 2)]
    [] d.kind = "xlat"      -> LET at == Wrap16(n.reg[BX] + AlOf(n.reg[AX]))
                               IN  SetAl(n, Peek(n, Linear(Segment(n, DS), at)))
    [] d.op = \h98          -> [n EXCEPT !.reg[AX] = SignExtend(AlOf(@))]
    [] d.op = \h99          -> [n EXCEPT !.reg[DX] = IF n.reg[AX] >= 32768 THEN 65535 ELSE 0]
    [] d.kind = "salc"      -> SetAl(n, IF n.f.c THEN 255 ELSE 0)

\* the stack: POP loads its operand after SP has moved
PopRm(n, d) == WriteRm(Drop(n), Wide(d), Top(n))

Stack(n, d) ==
  CASE d.kind = "pushReg" -> Push(n, n.reg[d.reg4])
    [] d.kind = "popReg"  -> PopRm(n, OnReg16(d, d.reg4))
    [] d.kind = "pushSeg" -> Push(n, n.sreg[d.op \div 8])
    [] d.kind = "popSeg"  -> [Drop(n) EXCEPT !.sreg[d.op \div 8] = Top(n)]
    [] d.op = \h8F        -> PopRm(n, d)
    [] d.op = \h9C        -> Push(n, flags_pack(n.f))
    [] d.op = \h9D        -> [Drop(n) EXCEPT !.f = flags_unpack(Top(n))]
    [] d.op = \h9E        -> [n EXCEPT !.f = LoadLow(@, AhOf(n.reg[AX]))]
    [] d.op = \h9F        -> SetAh(n, FlagWord(n.f) % 256)
    [] OTHER              -> Push(n, ReadRm(n, Wide(d)))          \* FE/FF, 6

-----------------------------------------------------------------------------
(* Arithmetic and logic *)

Size(d) == [bits |-> 8 * (d.w + 1), byte |-> 8]

AluOp(k, x, y, f, w) ==
  CASE k = 0 -> Add(x, y, f, w) [] k = 1 -> Or(x, y, f, w)
    [] k = 2 -> Adc(x, y, f, w) [] k = 3 -> Sbb(x, y, f, w)
    [] k = 4 -> And(x, y, f, w) [] k = 5 -> Sub(x, y, f, w)
    [] k = 6 -> Xor(x, y, f, w) [] k = 7 -> Cmp(x, y, f, w)

Flags(n, o) == [n EXCEPT !.f = o.f]

\* the destination is the register or memory of e; CMP leaves it alone
Binary(n, d, e, k, y) ==
  LET o == AluOp(k, ReadRm(n, e), Low(y, Size(d)), n.f, Size(d))
  IN  IF k = 7 THEN Flags(n, o) ELSE WriteRm(Flags(n, o), e, o.v)

Destination(d) == IF d.dir = 1 THEN OnReg(d, d.reg) ELSE d
Accumulator(d) == OnReg(d, AX)

Unary(n, e, o) == WriteRm(Flags(n, o), e, o.v)
ReadOnly(n, d, x, y) == Flags(n, Test(x, y, n.f, Size(d)))

ShiftOf == <<"rol", "ror", "rcl", "rcr", "shl", "shr", "shl", "sar">>
ShiftCount(n, d) == CASE d.op \in {\hC0, \hC1} -> AlOf(d.data1)
                      [] d.op \in {\hD2, \hD3} -> AlOf(n.reg[CX])
                      [] OTHER                 -> 1

SetFlag(n, d) ==      \* CLC STC CLI STI CLD STD
  LET on == d.op % 2 = 1
  IN  CASE d.op \in {\hF8, \hF9} -> [n EXCEPT !.f.c = on]
        [] d.op \in {\hFA, \hFB} -> [n EXCEPT !.f.i = on]
        [] d.op \in {\hFC, \hFD} -> [n EXCEPT !.f.d = on]

Arithmetic(n, d) ==
  LET x == ReadRm(n, d)
      s == Size(d)
      e == OnReg16(d, d.reg4)
      imm8 == d.dir = 1 \/ d.w = 0
  IN  CASE d.kind = "alu"     -> Binary(n, d, Destination(d), d.op \div 8, ReadSrc(n, d))
        [] d.kind = "aluAcc"  -> Binary(n, d, Accumulator(d), d.op \div 8, d.data0)
        [] d.kind = "aluImm"  -> Binary(n, d, d, d.reg, IF imm8 THEN SignExtend(AlOf(d.data2))
                                                                ELSE d.data2)
        [] d.kind = "test"    -> ReadOnly(n, d, ReadDest(n, d), ReadSrc(n, d))
        [] d.kind = "testAcc" -> ReadOnly(n, d, ReadRm(n, Accumulator(d)), Low(d.data0, s))
        [] d.kind = "incDec"  -> Unary(n, e, IF d.op < \h48 THEN Inc(ReadRm(n, e), n.f, Size(e))
                                                            ELSE Dec(ReadRm(n, e), n.f, Size(e)))
        [] d.kind = "shift"   -> Unary(n, d, Shift(ShiftOf[d.reg + 1], x, ShiftCount(n, d), n.f, s))
        [] d.kind = "cmc"     -> [n EXCEPT !.f.c = ~@]
        [] d.kind = "flag"    -> SetFlag(n, d)
        [] d.kind = "group5"  -> Unary(n, d, IF d.reg = 0 THEN Inc(x, n.f, s) ELSE Dec(x, n.f, s))
        [] d.kind = "group3"  -> CASE d.reg = 0 -> ReadOnly(n, d, x, Low(d.data2, s))
                                   [] d.reg = 1 -> n
                                   [] d.reg = 2 -> Unary(n, d, Not(x, n.f, s))
                                   [] d.reg = 3 -> Unary(n, d, Neg(x, n.f, s))

\* AX, or DX and AX, as the instructions of Alu name them
Pair(n, w) ==
  [r |-> IF w = 1 THEN [A |-> n.reg[AX], D |-> n.reg[DX]]
                  ELSE [A |-> AlOf(n.reg[AX]), D |-> AhOf(n.reg[AX])],
   f |-> n.f, out |-> "ok"]

Unpair(n, d, w, x) ==
  CASE x.out = "int0"   -> Interrupt(Advance(n, d), 0)
    [] x.out = "killed" -> [n EXCEPT !.stop = "killed"]
    [] x.out = "ok" /\ w = 1 -> Advance([n EXCEPT !.reg[AX] = x.r.A, !.reg[DX] = x.r.D,
                                                  !.f = x.f], d)
    [] x.out = "ok" /\ w = 0 -> Advance([n EXCEPT !.reg[AX] = Word(x.r.A, x.r.D), !.f = x.f], d)

Products(n, d) ==
  LET p == Pair(n, d.w)
      y == ReadRm(n, d)
  IN  CASE d.reg = 4 -> {Mul(p, y, Size(d))}  [] d.reg = 5 -> {Imul(p, y, Size(d))}
        [] d.reg = 6 -> {Div(p, y, Size(d))}  [] d.reg = 7 -> Idiv(p, y, Size(d))

Adjusted(n, d) ==
  LET p == Pair(n, 0)
  IN  CASE d.op = \h27 -> Daa(p) [] d.op = \h2F -> Das(p)
        [] d.op = \h37 -> Aaa(p) [] d.op = \h3F -> Aas(p)
        [] d.op = \hD4 -> Aam(p, AlOf(d.data0)) [] d.op = \hD5 -> Aad(p, AlOf(d.data0))

-----------------------------------------------------------------------------
(* Control transfer *)

Loops(n, d) ==
  CASE d.reg4 = 0 -> n.reg[CX] # 0 /\ ~n.f.z
    [] d.reg4 = 1 -> n.reg[CX] # 0 /\ n.f.z
    [] d.reg4 = 2 -> n.reg[CX] # 0

Loop(n, d) ==
  LET k == [n EXCEPT !.reg[CX] = Wrap16(@ - 1)]
  IN  IF d.reg4 = 3 THEN Branch(n, d, n.reg[CX] = 0) ELSE Branch(k, d, Loops(k, d))

Jump(n, d) ==
  CASE d.op = \hE8 -> Go(Push(n, Wrap16(Past(n, d))), Past(n, d) + d.data0)
    [] d.op = \hE9 -> Go(n, Past(n, d) + d.data0)
    [] d.op = \hEA -> Far(n, d.data0, d.data2)
    [] d.op = \hEB -> Branch(n, d, TRUE)

PushReturn(n, d) == Push(n, Wrap16(Past(n, d)))
PushFarReturn(n, d) == PushReturn(Push(n, n.sreg[CS]), d)

\* CALL and JMP of the FE/FF group: the return address is on the stack before
\* the operand is read
Indirect(n, d) ==
  LET c == CASE d.reg = 2 -> PushReturn(n, d) [] d.reg = 3 -> PushFarReturn(n, d)
             [] OTHER -> n
  IN  IF d.reg \in {2, 4} THEN Go(c, ReadRm(c, Wide(d)))
      ELSE Far(c, Peek16(c, d.addr), Peek16(c, d.addr + 2))

\* bug: RET n takes the parameters away before the return address
RetDropsFirst(n, d) ==
  LET k == [n EXCEPT !.reg[SP] = Wrap16(@ + (IF d.op \in {\hC2, \hCA} THEN d.data0 ELSE 0))]
      near == Go(Drop(k), Top(k))
      far == [Drop(near) EXCEPT !.sreg[CS] = Top(near)]
  IN  CASE d.op \in {\hC2, \hC3} -> near
        [] d.op \in {\hCA, \hCB} -> far
        [] d.op = \hCF -> [Drop(far) EXCEPT !.f = flags_unpack(Top(far))]

Ret(n, d) ==
  LET near == Go(Drop(n), Top(n))
      far == [Drop(near) EXCEPT !.sreg[CS] = Top(near)]
      Parameters(k) == [k EXCEPT !.reg[SP] = Wrap16(@ + d.data0)]
  IN  CASE d.op = \hC2 -> Parameters(near)  [] d.op = \hC3 -> near
        [] d.op = \hCA -> Parameters(far)   [] d.op = \hCB -> far
        [] d.op = \hCF -> [Drop(far) EXCEPT !.f = flags_unpack(Top(far))]

Trapping(n, d) ==
  CASE d.op = \hCC -> Interrupt(Advance(n, d), 3)
    [] d.op = \hCD -> Interrupt(Advance(n, d), AlOf(d.data0))
    [] d.op = \hCE -> IF n.f.o THEN Interrupt(Advance(n, d), 4) ELSE Advance(n, d)

-----------------------------------------------------------------------------
(* Strings *)

Element(n, d) ==
  LET ds == InMemory(d, Linear(Segment(n, DS), n.reg[SI]))
      es == InMemory(d, Linear(n.sreg[ES], n.reg[DI]))
      ax == Accumulator(d)
      Step(k, r) == [k EXCEPT !.reg[r] = Wrap16(IF k.f.d THEN @ - (d.w + 1) ELSE @ + (d.w + 1))]
      Compare(x, y) == Flags(n, Cmp(x, y, n.f, Size(d)))
      op == d.op - d.w
  IN  CASE op = \hA4 -> Step(Step(WriteRm(n, es, ReadRm(n, ds)), SI), DI)
        [] op = \hA6 -> Step(Step(Compare(ReadRm(n, ds), ReadRm(n, es)), SI), DI)
        [] op = \hAA -> Step(WriteRm(n, es, ReadRm(n, ax)), DI)
        [] op = \hAC -> Step(WriteRm(n, ax, ReadRm(n, ds)), SI)
        [] op = \hAE -> Step(Compare(ReadRm(n, ax), ReadRm(n, es)), DI)

Compares(d) == d.op - d.w \in {\hA6, \hAE}

\* bug: the prefix of a comparison is not looked at
StopsAtZero(n, d) == n.reg[CX] = 0

\* the REP loop is left after an element
Stops(n, d) ==
  \/ n.reg[CX] = 0
  \/ Compares(d) /\ (n.rep_mode = "repz") # n.f.z

\* the REP loop: the machine after each of its elements, and the last of them
Repeat(n, d) ==
  LET run[k \in 0..n.reg[CX]] ==
        IF k = 0 THEN n
        ELSE LET x == run[k - 1]
             IN  IF k > 1 /\ Stops(x, d) THEN x
                 ELSE [Element(x, d) EXCEPT !.reg[CX] = @ - 1]
  IN  run[n.reg[CX]]

String(n, d) == IF n.rep_override_en = 0 THEN Element(n, d) ELSE Repeat(n, d)

-----------------------------------------------------------------------------
(* Prefixes, ports, and the calls of the BIOS *)

CountDown(n) == [n EXCEPT !.seg_override_en = IF @ > 0 THEN @ - 1 ELSE @,
                          !.rep_override_en = IF @ > 0 THEN @ - 1 ELSE @]

\* bug: a segment prefix ends the REP before it
SegForgetsRep(n, d) ==
  IF d.kind = "seg"
    THEN [n EXCEPT !.seg_override_en = 2, !.seg_override = (d.op \div 8) % 4]
    ELSE [n EXCEPT !.rep_override_en = 2, !.rep_mode = IF d.w = 1 THEN "repz" ELSE "repnz",
                   !.seg_override_en = IF @ > 0 THEN @ + 1 ELSE @]

Prefix(n, d) ==
  IF d.kind = "seg"
    THEN [n EXCEPT !.seg_override_en = 2, !.seg_override = (d.op \div 8) % 4,
                   !.rep_override_en = IF @ > 0 THEN @ + 1 ELSE @]
    ELSE [n EXCEPT !.rep_override_en = 2, !.rep_mode = IF d.w = 1 THEN "repz" ELSE "repnz",
                   !.seg_override_en = IF @ > 0 THEN @ + 1 ELSE @]

Port(n, p) == IF p \in DOMAIN n.io THEN n.io[p] ELSE 0
SetPort(n, p, b) == [n EXCEPT !.io = Over(Cell(p, b), @)]
PortOf(n, d) == IF d.op >= \hEC THEN n.reg[DX] ELSE AlOf(d.data0)

InPort(n, d) ==
  LET p == PortOf(n, d)
      t == (Port(n, 64) - 1) % 256
      q == SetPort(SetPort(SetPort(SetPort(n, 32, 0), 64, t), 66, t),
                   \h3DA, Xor(Port(n, \h3DA), 9, n.f, Byte).v)
      k == IF p = 96 THEN SetPort(q, 100, 0) ELSE q
  IN  IF d.w = 1 THEN [k EXCEPT !.reg[AX] = Word(Port(k, p), Port(k, p + 1))]
                 ELSE SetAl(k, Port(k, p))

\* the rate of a timer is programmed in two bytes, the low one first; the
\* speaker's flag is written and never read
OutPort(n, d) ==
  LET p == PortOf(n, d)
      al == AlOf(n.reg[AX])
      k == IF d.w = 1 THEN SetPort(SetPort(n, p, al), p + 1, AhOf(n.reg[AX]))
                      ELSE SetPort(n, p, al)
      high == 1 - n.pit_lobyte_pending
  IN  IF p \in {64, 66} /\ (Port(k, 67) \div 2) % 4 # 0
        THEN Poke([k EXCEPT !.pit_lobyte_pending = high], \h469 + p - high, al)
        ELSE k

\* 36 bytes of struct tm, and the milliseconds
GetRtc(n) ==
  LET at == Linear(n.sreg[ES], n.reg[BX])
      tm == [a \in at..at + 37 |->
               CASE a = at -> Time.s [] a = at + 4 -> Time.min [] a = at + 8 -> Time.h
                 [] a = at + 36 -> Time.ms % 256 [] a = at + 37 -> Time.ms \div 256
                 [] OTHER -> 0]
  IN  [n EXCEPT !.mem = Over(tm, @)]

Stored(img, o) == IF o \in DOMAIN img THEN img[o] ELSE 0
Bytes(f(_), a, k) == [x \in a..a + k - 1 |-> f(x)]

\* AL after a disk call: the low byte of the count asked for, if the host's
\* function did not fail; it may have moved fewer
DiskDone(n, ok) == SetAl(n, IF ok THEN AlOf(n.reg[AX]) ELSE 0)

DiskRead(n, drive, k) ==
  LET at == Linear(n.sreg[ES], n.reg[BX])
      off == n.reg[BP] * 512
  IN  [n EXCEPT !.mem = Over(Bytes(LAMBDA a : Stored(disk[drive], off + a - at), at, k), @)]

DiskWrite(n, drive, k) ==
  LET at == Linear(n.sreg[ES], n.reg[BX])
      off == n.reg[BP] * 512
  IN  [disk EXCEPT ![drive] = Over(Bytes(LAMBDA o : Peek(n, at + o - off), off, k), @)]

-----------------------------------------------------------------------------
(* The steps *)

Init ==
  /\ prog \in Programs
  /\ start \in Input(prog)
  /\ count = 0
  /\ m = start
  /\ disk = Disks

\* the next instruction is of a kind, and of an operation of the FE/FF and
\* F6/F7 groups
Next8086(kinds, ops) ==
  /\ m.stop = "no" /\ count < prog.max
  /\ LET d == Decode(m)
     IN  /\ d.kind \in kinds
         /\ d.kind \in {"group3", "group5"} => d.reg \in ops
         /\ d.op \in {\h8C, \h8E} => d.reg <= DS   \* there are four segment registers
  /\ count' = count + 1
  /\ UNCHANGED <<prog, start>>

\* the instruction after the countdowns, and the machine it runs on
Do(Op(_, _)) == LET n == CountDown(m) IN Op(n, Instruction(n))
Then(Op(_, _)) == LET n == CountDown(m) IN Advance(Op(n, Instruction(n)), Instruction(n))

Transfer ==
  /\ Next8086({"mov", "movImm", "movRegImm", "moffs", "xchg", "xchgAx", "farLoad", "xlat",
               "convert", "salc", "segLea"}, {})
  /\ Fetch(m, 0) # \h8F
  /\ m' = Then(Mov)
  /\ UNCHANGED disk

PushPop ==
  /\ Next8086({"pushReg", "popReg", "pushSeg", "popSeg", "segLea", "flagsReg", "group5"}, {6})
  /\ Fetch(m, 0) \notin \h8C..\h8E
  /\ m' = Then(Stack)
  /\ UNCHANGED disk

Compute ==
  /\ Next8086({"alu", "aluAcc", "aluImm", "test", "testAcc", "incDec", "shift", "cmc", "flag",
               "group3", "group5"},
              IF Kind[Fetch(m, 0)] = "group3" THEN 0..3 ELSE 0..1)
  /\ m' = Then(Arithmetic)
  /\ UNCHANGED disk

MultiplyDivide ==
  /\ Next8086({"group3"}, 4..7)
  /\ m' \in Do(LAMBDA n, d : {Unpair(n, d, d.w, x) : x \in Products(n, d)})
  /\ UNCHANGED disk

Decimal ==
  /\ Next8086({"decimal"}, {})
  /\ m' = Do(LAMBDA n, d : Unpair(n, d, 0, Adjusted(n, d)))
  /\ UNCHANGED disk

Jumps ==
  /\ Next8086({"jcc", "loop", "jump", "callFar", "ret", "int", "group5"}, 2..5)
  /\ m' = Do(LAMBDA n, d :
            CASE d.kind = "jcc"  -> Branch(n, d, Condition(n.f, d.op % 16))
              [] d.kind = "loop" -> Loop(n, d)
              [] d.kind = "jump" -> Jump(n, d)
              [] d.kind = "ret"  -> Ret(n, d)
              [] d.kind = "int"  -> Trapping(n, d)
              [] d.kind = "callFar" -> Far(PushFarReturn(n, d), d.data0, d.data2)
              [] d.kind = "group5"  -> Indirect(n, d))
  /\ UNCHANGED disk

Strings ==
  /\ Next8086({"string"}, {})
  /\ m' = Then(String)
  /\ UNCHANGED disk

Prefixes ==
  /\ Next8086({"seg", "rep"}, {})
  /\ m' = Then(Prefix)
  /\ UNCHANGED disk

Ports ==
  /\ Next8086({"in", "out"}, {})
  /\ m' = Then(LAMBDA n, d : IF d.kind = "in" THEN InPort(n, d) ELSE OutPort(n, d))
  /\ UNCHANGED disk

Idle ==      \* HLT, LOCK, WAIT, what an 8086 does not have, and PUTCHAR
  /\ Next8086({"hlt", "ignored", "bios", "group5"}, {7})
  /\ Kind[Fetch(m, 0)] = "bios" => Fetch(m, 1) \notin 1..3
  /\ m' = Then(LAMBDA n, d : IF d.kind = "hlt" THEN [n EXCEPT !.stop = "halted"] ELSE n)
  /\ UNCHANGED disk

Clock ==
  /\ Next8086({"bios"}, {}) /\ Fetch(m, 1) = 1
  /\ m' = Then(LAMBDA n, d : GetRtc(n))
  /\ UNCHANGED disk

\* the host's function fails, or moves up to the count asked for
Disk ==
  /\ Next8086({"bios"}, {}) /\ Fetch(m, 1) \in {2, 3}
  /\ LET drive == AlOf(m.reg[DX])
         read == Fetch(m, 1) = 2
     IN  \/ /\ m' = Then(LAMBDA n, d : DiskDone(n, FALSE))
            /\ UNCHANGED disk
         \/ /\ drive \in DOMAIN disk
            /\ \E k \in 0..m.reg[AX] :
                 /\ m' = Then(LAMBDA n, d :
                           DiskDone(IF read THEN DiskRead(n, drive, k) ELSE n, TRUE))
                 /\ disk' = IF read THEN disk ELSE DiskWrite(m, drive, k)

Next ==
  \/ Transfer \/ PushPop \/ Compute \/ MultiplyDivide \/ Decimal \/ Jumps
  \/ Strings \/ Prefixes \/ Ports \/ Idle \/ Clock \/ Disk

Spec == Init /\ [][Next]_vars

-----------------------------------------------------------------------------
(* What programs rely on. The programs are those of MCGuest, by their names. *)

\* a program ends at its HLT; one that does not get there is cut off at the
\* bound, and is then not what the property says
Ended(name) == prog.name = name /\ (m.stop = "halted" \/ count = prog.max)

SameMemoryBut(S) ==
  \A a \in (DOMAIN m.mem \cup DOMAIN start.mem) \ S : Peek(m, a) = Peek(start, a)

(* The lengths of instructions in the 8086's encoding, without the tables:  *)
(* an opcode, a ModRM byte with its displacement, an immediate.             *)
EncodedOperand(op, modrm) ==
  LET mod == modrm \div 64
  IN  IF \/ op < 64 /\ op % 8 < 4
         \/ op \in \h80..\h8F \cup {\hC0, \hC1} \cup \hC4..\hC7 \cup \hD0..\hD3
                    \cup \hD8..\hDF \cup {\hF6, \hF7, \hFE, \hFF}
        THEN CASE mod = 1 -> 2
               [] mod = 2 \/ (mod = 0 /\ modrm % 8 = 6) -> 3
               [] OTHER -> 1
        ELSE 0

EncodedImmediate(op, reg) ==
  CASE \/ op < 64 /\ op % 8 = 4
       \/ op \in {\h0F, \h80, \h82, \h83, \hA8, \hC0, \hC1, \hC6, \hCD, \hD4, \hD5, \hEB}
                   \cup \h70..\h7F \cup \hB0..\hB7 \cup \hE0..\hE7
       \/ op = \hF6 /\ reg = 0 -> 1
    [] \/ op < 64 /\ op % 8 = 5
       \/ op \in {\h81, \hA9, \hC2, \hC7, \hCA, \hE8, \hE9} \cup \hA0..\hA3 \cup \hB8..\hBF
       \/ op = \hF7 /\ reg = 0 -> 2
    [] op \in {\h9A, \hEA} -> 4
    [] OTHER -> 0

\* the opcodes of the encoding; the others are the next generation's
Encoded == 0..255 \ (\h60..\h6F \cup {\hC8, \hC9, \hF1})

\* where an opcode of the encoding leaves IP, and the address on the stack
Follows ==
  Fetch(m, 0) \in Encoded /\ m'.stop # "killed" =>
    LET op == Fetch(m, 0)
        arg == Fetch(m, 1)
        reg == (arg \div 8) % 8
        next == Wrap16(m.ip + 1 + EncodedOperand(op, arg) + EncodedImmediate(op, reg))
        rel8 == IF arg < 128 THEN arg ELSE arg - 256
        divides == op = \hD4 \/ (op \in {\hF6, \hF7} /\ reg \in {6, 7})
    IN  CASE op \in \h70..\h7F \cup \hE0..\hE3 \cup {\hEB} ->
               m'.ip = Wrap16(next + rel8) \/ (m'.ip = next /\ op # \hEB)
          [] op = \hE9 -> m'.ip = Wrap16(next + Fetch16(m, 1))
          [] op = \hE8 -> m'.ip = Wrap16(next + Fetch16(m, 1)) /\ Top(m') = next
          [] op \in {\hCC, \hCD} \/ (op = \hCE /\ m.f.o) -> Top(m') = next
          [] op \in {\hFE, \hFF} /\ reg \in {2, 3} -> Top(m') = next
          [] op \in {\h9A, \hC2, \hC3, \hCA, \hCB, \hCF, \hEA}
               \/ (op \in {\hFE, \hFF} /\ reg \in {4, 5}) -> TRUE
          [] OTHER -> m'.ip = next \/ (divides /\ Top(m') = next)

\* An instruction ends where the 8086's encoding says, whatever its opcode, its
\* operand and its immediate: there the next one is fetched, from there short
\* and near jumps are counted, and that is the return address of calls and
\* interrupts (decode.h, the length of an instruction, over the three size
\* tables of the BIOS, with the corrections of run.c, cases 1, 6, 8, 14 and 38
\* to 40). The far CALL of case 32 is FarCallReturns's.
InstructionsFollow == [][Follows]_vars

\* A memory operand is where the 8086's addressing puts it: the 16-bit sum of
\* its registers and of its signed displacement, in the stack segment when BP
\* is one of them, or in the segment of the last prefix; LEA gives the offset
\* and does not move the instruction after it to another segment; nothing else
\* in memory changes (decode.h, the R/M tables; run.c, case 10).
OperandsAddressed ==
  Ended("operand") =>
    LET names == <<{BX, SI}, {BX, DI}, {BP, SI}, {BP, DI}, {SI}, {DI}, {BP}, {BX}>>
        regs == IF prog.mod = 0 /\ prog.rm = 6 THEN {} ELSE names[prog.rm + 1]
        ea == Wrap16(MapThenSumSet(LAMBDA r : start.reg[r], regs) + prog.disp)
        seg == CASE prog.segs # <<>> -> prog.segs[Len(prog.segs)]
                 [] prog.segs = <<>> /\ BP \in regs -> SS
                 [] OTHER -> DS
        at == Linear(start.sreg[seg], ea)
    IN  /\ m.reg = [start.reg EXCEPT ![CX] = ea]
        /\ IF prog.word THEN Peek16(m, at) = start.reg[DX]
                        ELSE Peek(m, at) = AlOf(start.reg[DX])
        /\ SameMemoryBut({at} \cup (IF prog.word THEN {at + 1} ELSE {}))

\* Calls return: to the next instruction, with the stack pointer, the saved
\* registers and the memory above the stack as they were, through near, far and
\* indirect calls, interrupts and parameters dropped by RET n, one inside the
\* other; a callee finds its parameter at a fixed distance from BP; and IRET
\* brings back all the flags, IF and TF included, whatever the handler did to
\* them (control.h; transfer.h, the stack, flags_pack and flags_unpack).
CallsReturn ==
  Ended("calls") =>
    LET sp == start.reg[SP]
        below == {Linear(start.sreg[SS], Wrap16(sp - k)) : k \in 1..40}
    IN  /\ m.ip = prog.back
        /\ m.reg = [start.reg EXCEPT ![CX] = @ + 1,
                                     ![DX] = IF prog.takes THEN start.reg[AX] ELSE @]
        /\ m.sreg = start.sreg
        /\ SameMemoryBut(below \cup {a + 1 : a \in below})
        /\ IF prog.interrupts THEN m.f = [start.f EXCEPT !.r = TRUE]
                              ELSE m.f.c /\ m.f.i /\ m.f.d /\ m.f.t = start.f.t

\* A block is moved whole: REP MOVS leaves in the destination what the source
\* held, also when they overlap and the direction suits, whichever of the two
\* prefixes comes first; REP STOS fills it; a loop of LODS and STOS maps it; SI,
\* DI and CX end where the block does and nothing else changes (string.h). A
\* block written to a disk and read back is the same in as many bytes as both
\* calls moved, at the place of its sector and no other (flags_io.h).
BlocksMoved ==
  /\ Ended("move") =>
       LET n == prog.n * prog.size
           Low0(r) == IF start.f.d THEN start.reg[r] - n + prog.size ELSE start.reg[r]
           src == Linear(start.sreg[prog.from], Low0(SI))
           dst == Linear(start.sreg[ES], Low0(DI))
           step == IF start.f.d THEN 0 - n ELSE n
           Byte0(k) == CASE prog.op = "movs" -> Peek(start, src + k)
                         [] prog.op = "stos" -> IF k % prog.size = 0 THEN AlOf(start.reg[AX])
                                                                     ELSE AhOf(start.reg[AX])
                         [] prog.op = "map"  -> (Peek(start, src + k) + 1) % 256
       IN  /\ \A k \in 0..n - 1 : Peek(m, dst + k) = Byte0(k)
           /\ SameMemoryBut(dst..dst + n - 1)
           /\ m.reg[CX] = 0
           /\ m.reg[DI] = Wrap16(start.reg[DI] + step)
           /\ m.reg[SI] = IF prog.op = "stos" THEN start.reg[SI]
                          ELSE Wrap16(start.reg[SI] + step)
  /\ Ended("disk") =>
       LET n == start.reg[AX]
           off == start.reg[BP] * 512
           there == Linear(start.sreg[ES], start.reg[BX])
           back == Linear(start.sreg[ES], prog.back)
           Old(o) == Stored(Disks[0], o)
       IN  \E k, l \in 0..n :
             /\ \A o \in DOMAIN disk[0] :
                  Stored(disk[0], o) = IF o \in off..off + k - 1 THEN Peek(start, there + o - off)
                                                                 ELSE Old(o)
             /\ \A i \in 0..l - 1 : Peek(m, back + i) = Stored(disk[0], off + i)
             /\ SameMemoryBut(back..back + l - 1)

\* A search stops right after the element it is for, or after the last one: the
\* count left, the index and ZF say which, for the string comparisons under
\* either REP prefix and for the loops LOOPZ and LOOPNZ; an empty string
\* changes no flag (string.h exec_string_op; control.h exec_loopz, exec_loopnz,
\* exec_jcxz).
ScansStop ==
  Ended("scan") =>
    LET n == prog.n
        base == Linear(start.sreg[IF prog.op = "loop" THEN DS ELSE ES],
                       start.reg[IF prog.op = "loop" THEN SI ELSE DI])
        Item(x, k) == LET a == base + (IF start.f.d THEN 0 - k * prog.size ELSE k * prog.size)
                      IN  IF prog.size = 2 THEN Peek16(x, a) ELSE Peek(x, a)
        \* the elements that compare equal, numbered from 0
        equal == {k \in 0..n - 1 : Item(start, k) = prog.against[k + 1]}
        stops == IF prog.while THEN (0..n - 1) \ equal ELSE equal
        done == IF stops = {} THEN n ELSE 1 + CHOOSE k \in stops : \A j \in stops : k <= j
        index == IF prog.op = "loop" THEN SI ELSE DI
        moved == done * prog.size
    IN  /\ m.reg[CX] = n - done
        /\ m.reg[index] = Wrap16(IF start.f.d THEN start.reg[index] - moved
                                              ELSE start.reg[index] + moved)
        /\ IF n = 0 THEN m.f = start.f ELSE m.f.z = (done - 1 \in equal)
        /\ SameMemoryBut({})

(* The abstraction of Cpu, which EmuRun, EntryPoints and Lockstep are built  *)
(* on: what this machine is to them.                                         *)
Control(x) ==
  [at |-> <<x.sreg[CS], x.ip>>, IFlag |-> x.f.i, TFlag |-> x.f.t,
   halted |-> x.stop = "halted", trap_flag |-> FALSE, int_pending |-> FALSE, int_vector |-> 0,
   seg_override_en |-> x.seg_override_en, seg_override |-> x.seg_override,
   rep_override_en |-> x.rep_override_en, rep_mode |-> x.rep_mode,
   int8_asap |-> FALSE, inst_count |-> 0, pushed |-> <<>>]

\* the interrupt frame on top of the stack
FrameOn(x) ==
  LET f == flags_unpack(Top(Drop(Drop(x))))
  IN  [at |-> <<Top(Drop(x)), Top(x)>>, IFlag |-> f.i, TFlag |-> f.t]

\* the vectors that Cpu names, and v
Table(x, v) == [u \in 0..4 \cup {7, 10, v} |-> <<Peek16(x, 4 * u + 2), Peek16(x, 4 * u)>>]

Abstract(locs, isr) ==
  INSTANCE Cpu WITH Loc <- locs, Isr <- isr, Exit <- <<0, 0>>, Boot <- <<61440, 256>>,
                    SegReg <- 0..3, Period <- 1

\* the opcodes behind the instructions of Cpu; at times they too are plain, a
\* division that does not trap or a CLI of an IF that is clear
Opcodes ==
  [plain |-> 0..255, lea |-> {\h8D}, hlt |-> {\hF4}, putchar |-> {\h0F},
   seg |-> Kinds.seg, rep |-> Kinds.rep, flags |-> {\h9D, \hCF, \hFA, \hFB},
   int |-> {\hCC, \hCD, \hCE, \hD4, \hF6, \hF7}]

\* some instruction of Cpu does what this step does
Abstracted ==
  m'.stop # "killed" =>
    LET here == Control(m')
        locs == {here.at, FrameOn(m').at}
        isr == Table(m', Fetch(m, 1))
        C(i) == Abstract(locs, isr)!Exec(Abstract(locs, isr)!DecPrefix(Control(m)), i)
    IN  \E i \in Abstract(locs, isr)!Instr :
          /\ Fetch(m, 0) \in Opcodes[i.op]
          /\ C(i) = IF i.op = "int" THEN [here EXCEPT !.pushed = <<FrameOn(m')>>] ELSE here

\* Every instruction of the 8086 does to the countdowns, to IF, TF and HLT, to
\* CS:IP and to the stack's interrupt frames what one of the few instructions
\* of Cpu does, and only POPF, IRET, CLI, STI and what enters an interrupt touch
\* IF and TF: that abstraction, which the properties of the run loop and of the
\* lockstep are checked on, leaves out no case of execute_instruction.
ControlAbstracted == [][Abstracted]_vars

\* A far CALL, five bytes long, leaves the address of the instruction after it
\* on the stack (test_control.c, call_far_and_retf: a call at 0100 is returned
\* from to 0105).
FarCallReturns ==
  prog.name = "call far" /\ count = 1 => Top(m) = start.ip + 5
=============================================================================
