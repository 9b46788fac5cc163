------------------------------- MODULE Decode -------------------------------
(***************************************************************************)
(* From the bytes at CS:IP to an instruction: decode_instruction (decode.h) *)
(* over the tables of the BIOS (bios.asm), the registers and the memory     *)
(* operands that it names.                                                  *)
(*                                                                          *)
(* A machine m holds the fields of Emu86State that instructions use. Memory *)
(* is a function on the cells a program has touched; the others hold zero.  *)
(* The 32-bit data words are kept in the 16 bits that every use of them     *)
(* takes.                                                                   *)
(***************************************************************************)
EXTENDS Integers, Sequences

\* registers and segment registers, by their numbers
AX == 0
CX == 1
DX == 2
BX == 3
SP == 4
BP == 5
SI == 6
DI == 7
ES == 0
CS == 1
SS == 2
DS == 3

Word(lo, hi) == lo + 256 * hi
Wrap16(v) == v % 65536
\* (int8_t), kept in 16 bits
SignExtend(b) == IF b >= 128 THEN 65280 + b ELSE b

-----------------------------------------------------------------------------
(* The tables of the BIOS, as sets of opcodes. *)

\* the opcodes below 40 whose low three bits are in S
Rows(S) == {8 * k + j : k \in 0..7, j \in S}

\* xlat_ids, each id by the name of its case in execute_instruction
Kinds ==
  [jcc      |-> \h70..\h7F \cup {\hF1},     movRegImm |-> \hB0..\hBF,
   incDec   |-> \h40..\h4F,                 pushReg   |-> \h50..\h57,
   popReg   |-> \h58..\h5F,                 group5    |-> {\hFE, \hFF},
   group3   |-> {\hF6, \hF7},               aluAcc    |-> Rows({4, 5}),
   aluImm   |-> \h80..\h83,                 alu       |-> Rows(0..3),
   mov      |-> \h88..\h8B,                 segLea    |-> \h8C..\h8F,
   moffs    |-> \hA0..\hA3,                 shift     |-> {\hC0, \hC1} \cup \hD0..\hD3,
   loop     |-> \hE0..\hE3,                 jump      |-> \hE8..\hEB,
   test     |-> {\h84, \h85},               xchgAx    |-> \h90..\h97,
   string   |-> \hA4..\hA7 \cup \hAA..\hAF, ret       |-> {\hC2, \hC3, \hCA, \hCB, \hCF},
   movImm   |-> {\hC6, \hC7},               in        |-> {\hE4, \hE5, \hEC, \hED},
   out      |-> {\hE6, \hE7, \hEE, \hEF},   rep       |-> {\hF2, \hF3},
   xchg     |-> {\h86, \h87},               pushSeg   |-> {\h06, \h0E, \h16, \h1E},
   popSeg   |-> {\h07, \h17, \h1F},         seg       |-> {\h26, \h2E, \h36, \h3E},
   decimal  |-> {\h27, \h2F, \h37, \h3F, \hD4, \hD5},
   convert  |-> {\h98, \h99},               callFar   |-> {\h9A},
   flagsReg |-> \h9C..\h9F,                 farLoad   |-> {\hC4, \hC5},
   int      |-> {\hCC, \hCD, \hCE},         salc      |-> {\hD6},
   xlat     |-> {\hD7},                     cmc       |-> {\hF5},
   flag     |-> \hF8..\hFD,                 testAcc   |-> {\hA8, \hA9},
   bios     |-> {\h0F},                     hlt       |-> {\hF4},
   ignored  |-> {\h9B, \hC8, \hC9, \hF0} \cup \h60..\h6F \cup \hD8..\hDF]

Kind == [op \in 0..255 |-> CHOOSE k \in DOMAIN Kinds : op \in Kinds[k]]

\* i_mod_adder
HasModrm ==
  Rows(0..3) \cup \h80..\h8F \cup {\hC0, \hC1, \hC4, \hC5, \hC6, \hC7}
    \cup \hD0..\hD3 \cup \hD8..\hDF \cup {\hF6, \hF7, \hFE, \hFF}

\* i_w_adder
HasImmediate ==
  Rows({4, 5}) \cup \h68..\h6B \cup \h80..\h83 \cup {\hA8, \hA9}
    \cup \hB0..\hBF \cup {\hC6, \hC7}

\* base_size
BaseSize ==
  LET Zero == {\h9A, \hC2, \hC3, \hCA, \hCB, \hCC, \hCD, \hCE, \hCF} \cup \hE8..\hEB
      Two  == Rows(0..3) \cup {\h0F} \cup \h70..\h8F \cup \hC4..\hC7 \cup \hD0..\hD5
                \cup \hD8..\hE7 \cup {\hF1, \hF6, \hF7, \hFE, \hFF}
  IN  [op \in 0..255 |-> CASE op \in Zero -> 0
                           [] op \in Two -> 2
                           [] op \in \hA0..\hA3 \cup {\hC0, \hC1} -> 3
                           [] op = \hC8 -> 4
                           [] OTHER -> 1]

\* the registers of an address, by R/M; 12 is REG_ZERO
rm_mode0_reg1   == <<BX, BX, BP, BP, SI, DI, 12, BX>>
rm_mode12_reg1  == <<BX, BX, BP, BP, SI, DI, BP, BX>>
rm_mode012_reg2 == <<SI, DI, SI, DI, 12, 12, 12, 12>>
rm_mode0_dfseg  == <<DS, DS, SS, SS, DS, DS, DS, DS>>
rm_mode12_dfseg == <<DS, DS, SS, SS, DS, DS, SS, DS>>

-----------------------------------------------------------------------------
(* Memory and registers *)

Linear(seg, off) == seg * 16 + off

\* the cells of c with those of b written over them
Over(b, c) == [a \in DOMAIN b \cup DOMAIN c |-> IF a \in DOMAIN b THEN b[a] ELSE c[a]]
Cell(a, b) == [k \in {a} |-> b]

Peek(m, a) == IF a \in DOMAIN m.mem THEN m.mem[a] ELSE 0
Peek16(m, a) == Word(Peek(m, a), Peek(m, a + 1))
Poke(m, a, b) == [m EXCEPT !.mem = Over(Cell(a, b), @)]
Poke16(m, a, v) == Poke(Poke(m, a, v % 256), a + 1, v \div 256)

Reg8(m, i) == IF i < 4 THEN m.reg[i] % 256 ELSE m.reg[i - 4] \div 256
SetReg8(m, i, v) ==
  IF i < 4 THEN [m EXCEPT !.reg[i] = Word(v, @ \div 256)]
           ELSE [m EXCEPT !.reg[i - 4] = Word(@ % 256, v)]

\* the segment of a prefix, or the one an operand has by default
Segment(m, default) ==
  IF m.seg_override_en > 0 THEN m.sreg[m.seg_override] ELSE m.sreg[default]

-----------------------------------------------------------------------------
(* The instruction at CS:IP *)

Fetch(m, k) == Peek(m, Linear(m.sreg[CS], m.ip) + k)
Fetch16(m, k) == Word(Fetch(m, k), Fetch(m, k + 1))

\* rm_addr of a memory operand: the 16-bit sum of the registers and of the
\* displacement, in the segment
TableReg(m, r) == IF r < 8 THEN m.reg[r] ELSE 0

Offset(m, mod, rm, disp) ==
  Wrap16(IF mod = 0
           THEN TableReg(m, rm_mode0_reg1[rm + 1]) + TableReg(m, rm_mode012_reg2[rm + 1])
                  + (IF rm = 6 THEN disp ELSE 0)
           ELSE TableReg(m, rm_mode12_reg1[rm + 1]) + TableReg(m, rm_mode012_reg2[rm + 1])
                  + disp)

\* bug: a displacement off BP is taken in the data segment
DefaultSegData(mod, rm) == rm_mode0_dfseg[rm + 1]

DefaultSeg(mod, rm) == IF mod = 0 THEN rm_mode0_dfseg[rm + 1] ELSE rm_mode12_dfseg[rm + 1]

\* bug: the displacement of a direct address is not counted
DispSizeNoDirect(mod, rm) == IF mod = 3 THEN 0 ELSE mod

DispSize(mod, rm) == IF mod = 0 /\ rm = 6 THEN 2 ELSE IF mod = 3 THEN 0 ELSE mod

Decode(m) ==
  LET op     == Fetch(m, 0)
      modrm  == op \in HasModrm
      w      == op % 2
      mod    == IF modrm THEN Fetch(m, 1) \div 64 ELSE 0
      rm     == IF modrm THEN Fetch(m, 1) % 8 ELSE 0
      direct == modrm /\ mod = 0 /\ rm = 6
      data1  == IF modrm /\ mod = 1 THEN SignExtend(Fetch(m, 2)) ELSE Fetch16(m, 2)
  IN  [op |-> op, kind |-> Kind[op], w |-> w, dir |-> (op \div 2) % 2,
       mod |-> mod, rm |-> rm, reg4 |-> op % 8,
       reg |-> IF modrm THEN (Fetch(m, 1) \div 8) % 8 ELSE 0,
       data0 |-> Fetch16(m, 1),
       data1 |-> data1,
       data2 |-> CASE ~modrm \/ mod = 1   -> Fetch16(m, 3)
                   [] direct \/ mod = 2   -> Fetch16(m, 4)
                   [] OTHER               -> data1,
       addr |-> IF mod = 3 THEN rm
                ELSE Linear(Segment(m, DefaultSeg(mod, rm)), Offset(m, mod, rm, data1)),
       len |-> BaseSize[op] + (IF modrm THEN DispSize(mod, rm) ELSE 0)
                 + (IF op \in HasImmediate THEN w + 1 ELSE 0)]

\* an instruction with its operand in a register, in memory, and of 16 bits
\* whatever its opcode's bits say
OnReg(d, r) == [d EXCEPT !.mod = 3, !.rm = r]
InMemory(d, a) == [d EXCEPT !.mod = 0, !.addr = a]
Wide(d) == [d EXCEPT !.w = 1]
OnReg16(d, r) == OnReg(Wide(d), r)

\* the R/M operand and the REG operand, of 8 or 16 bits
ReadRm(m, d) ==
  CASE d.mod = 3 /\ d.w = 1 -> m.reg[d.rm]
    [] d.mod = 3 /\ d.w = 0 -> Reg8(m, d.rm)
    [] d.mod # 3 /\ d.w = 1 -> Peek16(m, d.addr)
    [] d.mod # 3 /\ d.w = 0 -> Peek(m, d.addr)

WriteRm(m, d, v) ==
  CASE d.mod = 3 /\ d.w = 1 -> [m EXCEPT !.reg[d.rm] = v]
    [] d.mod = 3 /\ d.w = 0 -> SetReg8(m, d.rm, v % 256)
    [] d.mod # 3 /\ d.w = 1 -> Poke16(m, d.addr, v)
    [] d.mod # 3 /\ d.w = 0 -> Poke(m, d.addr, v % 256)

ReadReg(m, d) == ReadRm(m, OnReg(d, d.reg))
WriteReg(m, d, v) == WriteRm(m, OnReg(d, d.reg), v)

\* direction 1 has the register as its destination
ReadDest(m, d) == IF d.dir = 1 THEN ReadReg(m, d) ELSE ReadRm(m, d)
ReadSrc(m, d) == IF d.dir = 1 THEN ReadRm(m, d) ELSE ReadReg(m, d)
WriteDest(m, d, v) == IF d.dir = 1 THEN WriteReg(m, d, v) ELSE WriteRm(m, d, v)

\* the stack
Push(m, v) ==
  LET sp == Wrap16(m.reg[SP] - 2)
  IN  Poke16([m EXCEPT !.reg[SP] = sp], Linear(m.sreg[SS], sp), v)
Top(m) == Peek16(m, Linear(m.sreg[SS], m.reg[SP]))
Drop(m) == [m EXCEPT !.reg[SP] = Wrap16(@ + 2)]
=============================================================================
