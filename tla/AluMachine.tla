----------------------------- MODULE AluMachine -----------------------------
(* A processor that runs a short program of the instructions of Alu: what    *)
(* programs rely on is not one instruction but the flags that one hands to   *)
(* the next.                                                                 *)
EXTENDS Alu, Sequences

CONSTANT Programs   \* records [w, code]
CONSTANT Input(_)   \* for a program, the machines it may start from

-----------------------------------------------------------------------------
(* Instructions: the operation, its destination, and its source: a register, *)
(* or none and the immediate n, which is the count of a shift and the base   *)
(* of AAM and AAD.                                                           *)

TwoOperand == {"add", "adc", "sub", "sbb", "cmp", "and", "or", "xor", "test"}
OneOperand == {"inc", "dec", "neg", "not"}
Shifts == {"rol", "ror", "rcl", "rcr", "shl", "shr", "sar"}
Products == {"mul", "imul"}
Quotients == {"div", "idiv"}
Adjustments == {"daa", "das", "aaa", "aas", "aam", "aad"}

Register == {"A", "B", "C", "D", "S"}
None == "none"

Instruction ==
    [op : UNION {TwoOperand, OneOperand, Shifts, Products, Quotients,
                 Adjustments, {"xchg"}},
     d : Register, s : Register \cup {None}, n : 0..255]

I(op, d, s) == [op |-> op, d |-> d, s |-> s, n |-> 0]
N(op, d, n) == [op |-> op, d |-> d, s |-> None, n |-> n]

\* the widths of the code, and two scaled ones
Word == [bits |-> 16, byte |-> 8]
Small == [bits |-> 4, byte |-> 4]
Wide == [bits |-> 8, byte |-> 4]
Width == {Byte, Word, Small, Wide}

Machine(w) == [r : [Register -> 0..Modulus(w) - 1], f : [Flag -> BOOLEAN],
               out : {"ok"}]

ASSUME ProgramsAssumption ==
    \A p \in Programs : /\ p.w \in Width
                        /\ p.code \in Seq(Instruction) \ {<<>>}
                        /\ Input(p) \subseteq Machine(p.w)

-----------------------------------------------------------------------------
VARIABLES
    prog,   \* the program
    start,  \* the machine it started from
    left,   \* the instructions not executed yet
    m       \* the machine

vars == <<prog, start, left, m>>

\* an immediate byte is sign-extended to the width of the operand
Immediate(n, w) ==
    IF n >= 2^(w.byte - 1) THEN Low(n - 2^w.byte, w) ELSE n

Source(i, x, w) ==
    IF i.s = None THEN Immediate(i.n, w) ELSE x.r[i.s]

Compute(i, d, s, f, w) ==
    CASE i.op = "add" -> Add(d, s, f, w)  [] i.op = "adc" -> Adc(d, s, f, w)
      [] i.op = "sub" -> Sub(d, s, f, w)  [] i.op = "sbb" -> Sbb(d, s, f, w)
      [] i.op = "cmp" -> Cmp(d, s, f, w)  [] i.op = "and" -> And(d, s, f, w)
      [] i.op = "or"  -> Or(d, s, f, w)   [] i.op = "xor" -> Xor(d, s, f, w)
      [] i.op = "test" -> Test(d, s, f, w)
      [] i.op = "inc" -> Inc(d, f, w)     [] i.op = "dec" -> Dec(d, f, w)
      [] i.op = "neg" -> Neg(d, f, w)     [] i.op = "not" -> Not(d, f, w)
      [] i.op \in Shifts -> Shift(i.op, d, i.n, f, w)

Write(i, o) == m' = [m EXCEPT !.r[i.d] = o.v, !.f = o.f]

-----------------------------------------------------------------------------
Init ==
    /\ prog \in Programs
    /\ start \in Input(prog)
    /\ left = prog.code
    /\ m = start

\* the instruction next in the program, and those after it
Fetch(ops) ==
    /\ left # <<>> /\ Head(left).op \in ops
    /\ m.out = "ok"
    /\ left' = Tail(left)
    /\ UNCHANGED <<prog, start>>

Binary ==
    /\ Fetch(TwoOperand)
    /\ LET i == Head(left)
       IN  Write(i, Compute(i, m.r[i.d], Source(i, m, prog.w), m.f, prog.w))

Unary ==
    /\ Fetch(OneOperand \cup Shifts)
    /\ LET i == Head(left)
       IN  Write(i, Compute(i, m.r[i.d], 0, m.f, prog.w))

Exchange ==
    /\ Fetch({"xchg"})
    /\ LET i == Head(left)
       IN  m' = [m EXCEPT !.r[i.d] = m.r[i.s], !.r[i.s] = m.r[i.d]]

Multiply ==
    /\ Fetch(Products)
    /\ LET i == Head(left)
       IN  m' = IF i.op = "mul" THEN Mul(m, m.r[i.s], prog.w)
                                ELSE Imul(m, m.r[i.s], prog.w)

Divide ==
    /\ Fetch(Quotients)
    /\ LET i == Head(left)
       IN  m' \in IF i.op = "div" THEN {Div(m, m.r[i.s], prog.w)}
                                  ELSE Idiv(m, m.r[i.s], prog.w)

Decimal ==
    /\ Fetch(Adjustments)
    /\ LET i == Head(left)
       IN  m' = CASE i.op = "daa" -> Daa(m)      [] i.op = "das" -> Das(m)
                  [] i.op = "aaa" -> Aaa(m)      [] i.op = "aas" -> Aas(m)
                  [] i.op = "aam" -> Aam(m, i.n) [] i.op = "aad" -> Aad(m, i.n)

Next == Binary \/ Unary \/ Exchange \/ Multiply \/ Divide \/ Decimal

Spec == Init /\ [][Next]_vars

-----------------------------------------------------------------------------
(* What the programs compute *)

Ended(code) == prog.code = code /\ left = <<>>

WideAdd == <<I("add", "A", "B"), N("inc", "S", 1), I("adc", "D", "C")>>
WideSub == <<I("sub", "A", "B"), N("dec", "S", 1), I("sbb", "D", "C")>>
WideNeg == <<N("neg", "D", 0), N("neg", "A", 0), N("sbb", "D", 0)>>

Pair(x) == x.r.D * Modulus(prog.w) + x.r.A          \* D above A
Source2(x) == x.r.C * Modulus(prog.w) + x.r.B
Double(w) == [w EXCEPT !.bits = 2 * @]

\* x is what a pair of registers holds, and the flags are those of x
PairIs(x) ==
    LET ww == Double(prog.w)
    IN  /\ Pair(m) = Low(x, ww)
        /\ m.f.c = Exceeds(x, ww)
        /\ m.f.s = Sign(x, ww)

SignedOver(x, w) == x \notin 0 - 2^(w.bits - 1) .. 2^(w.bits - 1) - 1

\* Numbers of two words are added and subtracted word by word, the carry
\* passing from the first instruction to the second over an INC or DEC of a
\* pointer (arithmetic.h exec_add, exec_adc, exec_sub, exec_sbb, and INC and
\* DEC that must leave CF alone): the words, the carry, the sign and the
\* overflow are those of the whole numbers.
WideSums ==
    LET ww == Double(prog.w)
        Over(op(_, _)) ==
            m.f.o = SignedOver(op(Signed(Pair(start), ww),
                                  Signed(Source2(start), ww)), ww)
    IN  /\ Ended(WideAdd) =>
               /\ PairIs(Pair(start) + Source2(start))
               /\ Over(LAMBDA x, y : x + y)
        /\ Ended(WideSub) =>
               /\ PairIs(Pair(start) - Source2(start))
               /\ Over(LAMBDA x, y : x - y)
        /\ Ended(WideNeg) => Pair(m) = Low(0 - Pair(start), ww)

\* After CMP each of the sixteen conditional jumps decides what its name says
\* of the two operands, signed or unsigned (helpers.h set_flags_sub against
\* control.h eval_condition), and the operands are as they were.
JumpsDecide ==
    LET i == prog.code[1]
    IN  Ended(<<i>>) /\ i.op = "cmp" =>
        LET w == prog.w
            a == start.r[i.d]
            b == Source(i, start, w)
            sa == Signed(a, w)
            sb == Signed(b, w)
            Holds == <<SignedOver(sa - sb, w), a < b, a = b, a <= b,
                       Low(a - b, w) >= 2^(w.bits - 1),
                       EvenParity(a - b, w), sa < sb, sa <= sb>>
        IN  /\ \A k \in 0..7 : /\ Condition(m.f, 2 * k) = Holds[k + 1]
                               /\ Condition(m.f, 2 * k + 1) = ~Holds[k + 1]
            /\ m.r = start.r

MulDiv == <<I("mul", "A", "B"), I("div", "A", "B")>>
ImulIdiv == <<I("imul", "A", "B"), I("idiv", "A", "B")>>

\* Dividing a product by one of its factors gives the other, signed or
\* unsigned (arithmetic.h exec_mul, exec_imul, exec_div, exec_idiv), and CF and
\* OF of the product say whether its upper half matters. A division ends with
\* a quotient and a remainder that make up the dividend, the remainder smaller
\* than the divisor and signed as the dividend, or with INT 0 when the divisor
\* is zero or the quotient does not fit; when it fails it changes no register.
Divides(x, y, q, r) == /\ x = q * y + r
                       /\ Abs(r) < Abs(y)
                       /\ r = 0 \/ (r < 0) = (x < 0)

QuotientsUndo ==
    LET w == prog.w
        b == start.r.B
        sb == Signed(b, w)
        x == Pair(start)
        sx == Signed(x, Double(w))
    IN  /\ Ended(MulDiv) =>
               IF b = 0 THEN m.out = "int0"
               ELSE /\ m.out = "ok" /\ m.r.A = start.r.A /\ m.r.D = 0
                    /\ m.f.c = Exceeds(start.r.A * b, w) /\ m.f.o = m.f.c
        /\ Ended(ImulIdiv) =>
               IF b = 0 THEN m.out = "int0"
               ELSE /\ m.out = "ok" /\ m.r.A = start.r.A /\ m.r.D = 0
                    /\ m.f.c = SignedOver(Signed(start.r.A, w) * sb, w)
        /\ Ended(<<I("div", "A", "B")>>) =>
               IF m.out = "ok" THEN Divides(x, b, m.r.A, m.r.D)
               ELSE m.r = start.r /\ (b = 0 \/ x >= b * Modulus(w))
        /\ Ended(<<I("idiv", "A", "B")>>) =>
               IF m.out = "ok"
               THEN Divides(sx, sb, Signed(m.r.A, w), Signed(m.r.D, w))
               ELSE /\ m.r = start.r
                    /\ \A q \in 0 - 2^(w.bits - 1) .. 2^(w.bits - 1) - 1 :
                           ~\E r \in 1 - Abs(sb) .. Abs(sb) - 1 :
                               Divides(sx, sb, q, r)

\* A division comes back to the interpreter with one of the two results the
\* comment of exec_idiv names: success or divide error.
DivideReturns == m.out \in {"ok", "int0"}

\* A shift or rotation by n does what n of them by one do, to the value and to
\* CF, for every count below the size of C's type, counts above the width of
\* the operand and whole turns included (shift.h).
ShiftIsSteps ==
    LET i == prog.code[1]
        n == Len(prog.code) - Len(left)
        once == Shift(i.op, start.r[i.d], n, start.f, prog.w)
    IN  /\ i.op \in Shifts /\ i.n = 1 /\ \A k \in DOMAIN prog.code : prog.code[k] = i
        /\ n < 4 * prog.w.byte
        => m.r[i.d] = once.v /\ m.f.c = once.f.c

DoubleWords == <<N("shl", "A", 1), N("rcl", "D", 1)>>
HalfWords == <<N("shr", "D", 1), N("rcr", "A", 1)>>
SignedHalf == <<N("sar", "D", 1), N("rcr", "A", 1)>>
RotateBack(n) == <<N("rol", "A", n), N("ror", "A", n)>>
CarryBack(n) == <<N("rcl", "A", n), N("rcr", "A", n)>>

\* Two words are doubled, or halved with or without the sign, by a shift of
\* one and a rotation of the other through the carry between them; a rotation
\* followed by the opposite one gives back the word (and the carry, when it
\* turns too).
ShiftPairs ==
    LET ww == Double(prog.w)
        x == Pair(start)
        n == prog.code[1].n
    IN  /\ Ended(DoubleWords) =>
               Pair(m) = Low(2 * x, ww) /\ m.f.c = Sign(x, ww)
        /\ Ended(HalfWords) => Pair(m) = x \div 2 /\ m.f.c = Lsb(x)
        /\ Ended(SignedHalf) =>
               Pair(m) = Low(Signed(x, ww) \div 2, ww) /\ m.f.c = Lsb(x)
        /\ Ended(RotateBack(n)) => m.r = start.r
        /\ Ended(CarryBack(n)) =>
               m.r = start.r /\ m.f.c = start.f.c

Merge == <<I("xor", "B", "C"), I("xor", "C", "B"), I("xor", "B", "C"),
           I("and", "A", "C"), N("not", "C", 0), I("and", "D", "C"),
           I("or", "A", "D"), I("test", "A", "A")>>

\* Bits are merged under a mask with AND, NOT and OR, and exchanged with three
\* XORs (logic.h): each bit is the one chosen, the last instruction leaves CF
\* and OF clear, ZF as the result says and AF as it was before.
MergesBits ==
    LET w == prog.w
    IN  Ended(Merge) =>
           /\ \A i \in 0..w.bits - 1 :
                  Bit(m.r.A, i) = IF Bit(start.r.B, i) = 1
                                  THEN Bit(start.r.A, i) ELSE Bit(start.r.D, i)
           /\ m.r.B = start.r.C /\ m.r.C = Modulus(w) - 1 - start.r.B
           /\ ~m.f.c /\ ~m.f.o /\ m.f.z = (m.r.A = 0) /\ m.f.a = start.f.a

DecimalAdd == <<I("add", "A", "B"), N("daa", "A", 0), I("xchg", "A", "D"),
                I("adc", "A", "C"), N("daa", "A", 0), I("xchg", "A", "D")>>
DecimalSub == <<I("sub", "A", "B"), N("das", "A", 0), I("xchg", "A", "D"),
                I("sbb", "A", "C"), N("das", "A", 0), I("xchg", "A", "D")>>

PackedByte == {16 * h + l : h \in 0..9, l \in 0..9}
FourDigit == 0..9999

\* Two bytes of packed digits are added or subtracted byte by byte, each byte
\* adjusted after it: the four digits and the carry are those of decimal
\* arithmetic (exec_daa, exec_das).
Packed(h, l) ==
    LET Two(b) == 10 * (b \div 16) + (b % 16) IN 100 * Two(h) + Two(l)

PackedSums ==
    LET x == Packed(start.r.D, start.r.A)
        y == Packed(start.r.C, start.r.B)
        Is(z) == /\ Packed(m.r.D, m.r.A) = z % 10000
                 /\ m.f.c = (z \notin FourDigit)
    IN  /\ prog.w = Byte
        /\ {start.r[g] : g \in {"A", "B", "C", "D"}} \subseteq PackedByte
        => /\ Ended(DecimalAdd) => Is(x + y)
           /\ Ended(DecimalSub) => Is(x - y)

\* Digits of one byte each, the tens in AH: added, subtracted, multiplied and
\* divided with their adjustments (exec_aaa, exec_aas, exec_aam, exec_aad).
UnpackedDigits ==
    LET a == start.r.A
        b == start.r.B
        x == 10 * start.r.D + a
    IN  prog.w = Byte /\ {a, b, start.r.D} \subseteq 0..9 =>
        /\ Ended(<<I("add", "A", "B"), N("aaa", "A", 0)>>) =>
               10 * m.r.D + m.r.A = x + b /\ m.r.A \in 0..9
        /\ Ended(<<I("sub", "A", "B"), N("aas", "A", 0)>>) =>
               /\ m.r.A = (a - b) % 10
               /\ m.r.D = (start.r.D - Num(a < b)) % 256
               /\ m.f.c = (a < b)
        /\ Ended(<<I("mul", "A", "B"), N("aam", "A", 10)>>) =>
               m.r.D = (a * b) \div 10 /\ m.r.A = (a * b) % 10
        /\ Ended(<<N("aad", "A", 10), I("div", "A", "B")>>) /\ b # 0 =>
               m.out = "ok" /\ m.r.A = x \div b /\ m.r.D = x % b

\* Sums, differences, products and quotients of decimal numbers, packed and
\* not, are right with the adjustments of arithmetic.h after or before them.
DecimalSums == PackedSums /\ UnpackedDigits
=============================================================================
