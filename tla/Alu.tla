-------------------------------- MODULE Alu --------------------------------
(* The instructions that compute: opcodes/helpers.h, arithmetic.h, logic.h,  *)
(* shift.h and the conditions of control.h. An operator takes the values of  *)
(* the operands and the flags and returns the value written and the flags    *)
(* left.                                                                     *)
(*                                                                           *)
(* An operand width w is a record of two numbers of bits: the operand's, and *)
(* a byte's. In the code they are 8 or 16, and 8; the definitions hold for   *)
(* any size, so that TLC can try every operand of a small one. The bit of AF *)
(* is half a byte, the parity is that of the low byte, and C computes in     *)
(* four bytes.                                                               *)
(*                                                                           *)
(* A difference is kept as an integer, perhaps negative, where C wraps it to *)
(* 32 bits: it then exceeds the mask, and its low bits are the same.         *)
EXTENDS Integers, FiniteSetsExt

Byte == [bits |-> 8, byte |-> 8]

Flag == {"c", "p", "a", "z", "s", "o"}

Bit(v, i) == (v \div 2^i) % 2
Num(b) == IF b THEN 1 ELSE 0

-----------------------------------------------------------------------------
(* helpers.h *)

Modulus(w) == 2^w.bits
Low(v, w) == v % Modulus(w)
Sign(v, w) == Bit(v, w.bits - 1) = 1
Signed(v, w) == IF Sign(v, w) THEN v - Modulus(w) ELSE v

Exceeds(r, w) == r \notin 0..Modulus(w) - 1
EvenParity(v, w) == MapThenSumSet(LAMBDA i : Bit(v, i), 0..w.byte - 1) % 2 = 0
\* ((d ^ s ^ r) & 0x10) != 0
Aux(d, s, r, w) == LET h == w.byte \div 2
                   IN  (Bit(d, h) + Bit(s, h) + Bit(r, h)) % 2 = 1

SetSZP(f, r, w) ==
    [f EXCEPT !.s = Sign(r, w), !.z = Low(r, w) = 0, !.p = EvenParity(r, w)]

SetAdd(f, d, s, r, w) ==
    [f EXCEPT !.c = Exceeds(r, w),
              !.a = Aux(d, s, r, w),
              !.o = /\ Sign(d, w) # Sign(r, w)
                    /\ Sign(s, w) # Sign(r, w)]

\* bug: the overflow of an addition, for a subtraction
SetSubAsAdd(f, d, s, r, w) ==
    [SetAdd(f, d, s, r, w) EXCEPT !.c = Exceeds(r, w)]

SetSub(f, d, s, r, w) ==
    [f EXCEPT !.c = Exceeds(r, w),
              !.a = Aux(d, s, r, w),
              !.o = /\ Sign(d, w) # Sign(s, w)
                    /\ Sign(d, w) # Sign(r, w)]

\* bug: a logic operation leaves OF alone
SetLogicKeepsOF(f, r, w) == [SetSZP(f, r, w) EXCEPT !.c = FALSE]

SetLogic(f, r, w) == [SetSZP(f, r, w) EXCEPT !.c = FALSE, !.o = FALSE]

\* bug: INC sets CF as ADD does
SetIncCarry(f, d, r, w) == SetSZP(SetAdd(f, d, 1, r, w), r, w)

\* INC and DEC are an addition and a subtraction of 1 that leave CF alone
SetInc(f, d, r, w) == [SetSZP(SetAdd(f, d, 1, r, w), r, w) EXCEPT !.c = f.c]
SetDec(f, d, r, w) == [SetSZP(SetSub(f, d, 1, r, w), r, w) EXCEPT !.c = f.c]

-----------------------------------------------------------------------------
(* Addition and subtraction *)

Out(r, f, w) == [v |-> Low(r, w), f |-> f]

AddOf(d, s, r, f, w) == Out(r, SetSZP(SetAdd(f, d, s, r, w), r, w), w)
SubOf(d, s, r, f, w) == Out(r, SetSZP(SetSub(f, d, s, r, w), r, w), w)

Add(d, s, f, w) == AddOf(d, s, d + s, f, w)
Adc(d, s, f, w) == AddOf(d, s, d + s + Num(f.c), f, w)
Sub(d, s, f, w) == SubOf(d, s, d - s, f, w)

Sbb(d, s, f, w) == SubOf(d, s, d - s - Num(f.c), f, w)
Cmp(d, s, f, w) == [v |-> d, f |-> Sub(d, s, f, w).f]

Neg(d, f, w) == SubOf(0, d, 0 - d, f, w)
Inc(d, f, w) == Out(d + 1, SetInc(f, d, d + 1, w), w)
Dec(d, f, w) == Out(d - 1, SetDec(f, d, d - 1, w), w)

(* Logic *)

Bitwise(Op(_, _), d, s, w) ==
    MapThenSumSet(LAMBDA i : 2^i * Op(Bit(d, i), Bit(s, i)), 0..w.bits - 1)

Logic(r, f, w) == [v |-> r, f |-> SetLogic(f, r, w)]
And(d, s, f, w) == Logic(Bitwise(LAMBDA x, y : x * y, d, s, w), f, w)
Or(d, s, f, w) == Logic(Bitwise(LAMBDA x, y : x + y - x * y, d, s, w), f, w)
Xor(d, s, f, w) == Logic(Bitwise(LAMBDA x, y : (x + y) % 2, d, s, w), f, w)
Not(d, f, w) == [v |-> Modulus(w) - 1 - d, f |-> f]
Test(d, s, f, w) == [And(d, s, f, w) EXCEPT !.v = d]

-----------------------------------------------------------------------------
(* Shifts and rotates. A shift by as many bits as C's type has, or by a      *)
(* negative number, is undefined in C; the machines emu86 is built for take  *)
(* the count modulo the size of the type.                                    *)

CShift(n, w) == n % (4 * w.byte)
Right(v, n, w) == v \div 2^CShift(n, w)
\* the low bits of v moved up by k, without a product that TLC could not hold
Up(v, k, bits) == IF k >= bits THEN 0 ELSE (v % 2^(bits - k)) * 2^k
Left(v, n, w) == Up(v, CShift(n, w), w.bits)
Lsb(v) == v % 2 = 1

Shl(v, n, f, w) ==
    LET c == Lsb(Right(v, w.bits - n, w))
        r == Left(v, n, w)
    IN  Out(r, SetSZP([f EXCEPT !.c = c, !.o = c # Sign(r, w)], r, w), w)

Shr(v, n, f, w) ==
    LET r == Right(v, n, w)
    IN  Out(r, SetSZP([f EXCEPT !.o = Sign(v, w),
                                !.c = Lsb(Right(v, n - 1, w))], r, w), w)

Sar(v, n, f, w) ==
    LET x == Signed(v, w)
        r == IF n >= w.bits THEN IF x < 0 THEN -1 ELSE 0 ELSE Right(x, n, w)
    IN  Out(r, SetSZP([f EXCEPT !.c = Lsb(Right(x, n - 1, w)), !.o = FALSE],
                      r, w), w)

\* the rotations by 1..bits that the counts stand for
Turns(n, w) == IF n % w.bits = 0 THEN w.bits ELSE n % w.bits

Rol(v, n, f, w) ==
    LET k == Turns(n, w)
        r == Up(v, k, w.bits) + Right(v, w.bits - k, w)
    IN  Out(r, [f EXCEPT !.c = Lsb(r), !.o = Sign(r, w) # Lsb(r)], w)

Ror(v, n, f, w) ==
    LET k == Turns(n, w)
        r == Right(v, k, w) + Up(v, w.bits - k, w.bits)
        top == Sign(r, w)
    IN  Out(r, [f EXCEPT !.c = top, !.o = top # (Bit(r, w.bits - 2) = 1)], w)

\* Through the carry: the loop of rotations by one is a rotation of bits + 1
\* positions, those of the value with the carry above it.

\* bug: the count is reduced as for a rotation without the carry
CarryTurnsShort(n, w) == n % w.bits

CarryTurns(n, w) == n % (w.bits + 1)

\* bug: the carry does not come in
CarryAboveLost(v, f, w) == v

CarryAbove(v, f, w) == v + Num(f.c) * Modulus(w)

Rcl(v, n, f, w) ==
    LET k == CarryTurns(n, w)
        x == CarryAbove(v, f, w)
        y == Up(x, k, w.bits + 1) + x \div 2^(w.bits + 1 - k)
        c == y >= Modulus(w)
    IN  Out(y, [f EXCEPT !.c = c, !.o = Sign(Low(y, w), w) # c], w)

Rcr(v, n, f, w) ==
    LET k == CarryTurns(n, w)
        x == CarryAbove(v, f, w)
        y == x \div 2^k + Up(x, w.bits + 1 - k, w.bits + 1)
        r == Low(y, w)
    IN  Out(y, [f EXCEPT !.c = y >= Modulus(w),
                         !.o = Sign(r, w) # (Bit(r, w.bits - 2) = 1)], w)

\* each of them returns at once when the count is 0
Shift(op, v, n, f, w) ==
    IF n = 0 THEN [v |-> v, f |-> f]
    ELSE CASE op = "rol" -> Rol(v, n, f, w)
           [] op = "ror" -> Ror(v, n, f, w)
           [] op = "rcl" -> Rcl(v, n, f, w)
           [] op = "rcr" -> Rcr(v, n, f, w)
           [] op = "shl" -> Shl(v, n, f, w)
           [] op = "shr" -> Shr(v, n, f, w)
           [] op = "sar" -> Sar(v, n, f, w)

-----------------------------------------------------------------------------
(* Instructions with operands of their own. m is the machine: registers m.r, *)
(* where A is AL or AX and D the register above it, AH or DX; flags m.f; and *)
(* m.out, "ok" unless a division goes wrong.                                 *)

SetProduct(m, r, wide, w) ==
    [m EXCEPT !.r.A = Low(r, w),
              !.r.D = Low(r \div Modulus(w), w),
              !.f = [@ EXCEPT !.c = wide, !.o = wide, !.z = r = 0,
                              !.s = Sign(r, w), !.p = EvenParity(r, w)]]

Mul(m, s, w) ==
    LET r == m.r.A * s IN SetProduct(m, r, r \div Modulus(w) # 0, w)

Imul(m, s, w) ==
    LET r == Signed(m.r.A, w) * Signed(s, w)
    IN  SetProduct(m, r, r # Signed(Low(r, w), w), w)

Int0(m) == [m EXCEPT !.out = "int0"]
SetQuotient(m, q, r, w) == [m EXCEPT !.r.A = Low(q, w), !.r.D = Low(r, w)]

\* bug: a quotient one too large is accepted
DivLate(m, s, w) ==
    LET x == m.r.D * Modulus(w) + m.r.A
    IN  IF s = 0 \/ x \div s > Modulus(w)
        THEN Int0(m) ELSE SetQuotient(m, x \div s, x % s, w)

Div(m, s, w) ==
    LET x == m.r.D * Modulus(w) + m.r.A
    IN  IF s = 0 \/ x \div s >= Modulus(w)
        THEN Int0(m) ELSE SetQuotient(m, x \div s, x % s, w)

Abs(x) == IF x < 0 THEN 0 - x ELSE x
\* C divides towards zero
Quot(x, y) == IF (x < 0) = (y < 0) THEN Abs(x) \div Abs(y)
                                   ELSE 0 - (Abs(x) \div Abs(y))

\* The least dividend by -1 overflows C's int in the word form: the
\* processor's own division may stop the emulator with a signal (x86), or
\* return a quotient that the test after it rejects.
Idiv(m, s, w) ==
    LET x == Signed(m.r.D, w) * Modulus(w) + m.r.A
        y == Signed(s, w)
    IN  IF y = 0 THEN {Int0(m)}
        ELSE IF w.bits > w.byte /\ m.r.D = 2^(w.bits - 1) /\ m.r.A = 0 /\ y = -1
        THEN {Int0(m), [m EXCEPT !.out = "killed"]}
        ELSE IF Quot(x, y) \notin 0 - 2^(w.bits - 1) .. 2^(w.bits - 1) - 1
        THEN {Int0(m)}
        ELSE {SetQuotient(m, Quot(x, y), x - y * Quot(x, y), w)}

(* Decimal adjustments, all of AL and AH *)

SetAL(m, al) == [m EXCEPT !.r.A = al, !.f = SetSZP(@, al, Byte)]
LowDigit(m) == m.r.A % 16 > 9 \/ m.f.a

\* bug: the upper digit is judged after the lower one has been adjusted
AdjustInPlace(m, sign) ==
    LET al == m.r.A
        low == IF LowDigit(m) THEN (al + sign * 6) % 256 ELSE al
        high == low > 153 \/ m.f.c
    IN  SetAL([m EXCEPT !.f.a = LowDigit(m), !.f.c = high],
              IF high THEN (low + sign * 96) % 256 ELSE low)

\* DAA and DAS: sign is 1 or -1
Adjust(m, sign) ==
    LET al == m.r.A
        six == (al + sign * 6) % 256
        low == IF LowDigit(m) THEN six ELSE al
        high == al > 153 \/ m.f.c                     \* 0x99
        wraps == IF sign = 1 THEN six < al ELSE six > al
    IN  SetAL([m EXCEPT !.f.a = LowDigit(m),
                        !.f.c = high \/ (LowDigit(m) /\ wraps)],
              IF high THEN (low + sign * 96) % 256 ELSE low)

Daa(m) == Adjust(m, 1)
Das(m) == Adjust(m, -1)

\* AAA and AAS add or subtract 0x106 in AX, then keep the low digit of AL
AdjustAscii(m, sign) ==
    LET ax == IF LowDigit(m) THEN m.r.D * 256 + m.r.A + sign * 262
                             ELSE m.r.D * 256 + m.r.A
    IN  [m EXCEPT !.r.A = ax % 16,
                  !.r.D = (ax \div 256) % 256,
                  !.f.a = LowDigit(m), !.f.c = LowDigit(m)]

Aaa(m) == AdjustAscii(m, 1)
Aas(m) == AdjustAscii(m, -1)

Aam(m, base) ==
    IF base = 0 THEN Int0(m)
    ELSE SetAL([m EXCEPT !.r.D = m.r.A \div base], m.r.A % base)

Aad(m, base) ==
    SetAL([m EXCEPT !.r.D = 0], (m.r.D * base + m.r.A) % 256)

-----------------------------------------------------------------------------
(* control.h: the sixteen conditions *)

Condition(f, cc) ==
    LET test == CASE cc \div 2 = 0 -> f.o
                  [] cc \div 2 = 1 -> f.c
                  [] cc \div 2 = 2 -> f.z
                  [] cc \div 2 = 3 -> f.c \/ f.z
                  [] cc \div 2 = 4 -> f.s
                  [] cc \div 2 = 5 -> f.p
                  [] cc \div 2 = 6 -> f.s # f.o
                  [] cc \div 2 = 7 -> f.z \/ f.s # f.o
    IN  test # (cc % 2 = 1)
=============================================================================
