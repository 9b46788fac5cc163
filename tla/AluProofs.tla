------------------------------ MODULE AluProofs ------------------------------
(***************************************************************************)
(* Proofs about the programs of AluMachine at the widths of the code, 8    *)
(* and 16 bits, and at the scaled ones, for every operand: what the        *)
(* instructions leave in the registers and the flags, and what a program   *)
(* of several makes of it.                                                 *)
(***************************************************************************)
EXTENDS AluMachine, AluLemmas, SequenceTheorems

-----------------------------------------------------------------------------
(* Words.                                                                  *)

Half(w) == 2^(w.bits - 1)

Operand(w) == 0..Modulus(w) - 1
Flags == [Flag -> BOOLEAN]

LEMMA WidthIs ==
  ASSUME NEW w \in Width
  PROVE  /\ w.bits \in {4, 8, 16} /\ w.byte \in {4, 8} /\ w.byte <= w.bits
         /\ w.bits - w.byte \in {0, 4, 8}
  BY DEF Width, Small, Wide, Byte, Word

(* A modulus is twice the weight of the sign.                              *)
LEMMA ModulusIs ==
  ASSUME NEW w \in Width
  PROVE  /\ Modulus(w) \in {16, 256, 65536} /\ Half(w) \in {8, 128, 32768}
         /\ Modulus(w) = 2 * Half(w)
  <1>1. 2^4 = 16 /\ 2^8 = 256 /\ 2^16 = 65536 /\ 2^3 = 8 /\ 2^7 = 128 /\ 2^15 = 32768
    OBVIOUS
  <1>2. CASE w.bits = 4
    BY <1>1, <1>2 DEF Modulus, Half
  <1>3. CASE w.bits = 8
    BY <1>1, <1>3 DEF Modulus, Half
  <1>4. CASE w.bits = 16
    BY <1>1, <1>4 DEF Modulus, Half
  <1>5. QED
    BY <1>2, <1>3, <1>4, WidthIs

(* The low bits of a sum or a difference.                                  *)
LEMMA LowIs ==
  ASSUME NEW w \in Width, NEW v \in Int
  PROVE  /\ Low(v, w) \in Operand(w)
         /\ v \in Operand(w) => Low(v, w) = v
         /\ v \in Modulus(w)..2 * Modulus(w) - 1 => Low(v, w) = v - Modulus(w)
         /\ v \in -Modulus(w)..-1 => Low(v, w) = v + Modulus(w)
  <1>1. Modulus(w) \in {16, 256, 65536}
    BY ModulusIs
  <1>2. QED
    BY <1>1, Z3 DEF Low, Operand

LEMMA SignIs ==
  ASSUME NEW w \in Width, NEW v \in Int
  PROVE  Sign(v, w) = (Low(v, w) >= Half(w))
  <1>1. /\ Half(w) \in {8, 128, 32768} /\ Modulus(w) = 2 * Half(w)
    BY ModulusIs
  <1>2. CASE Half(w) = 8
    BY <1>1, <1>2 DEF Low, Sign, Bit, Half
  <1>3. CASE Half(w) = 128
    BY <1>1, <1>3 DEF Low, Sign, Bit, Half
  <1>4. CASE Half(w) = 32768
    BY <1>1, <1>4 DEF Low, Sign, Bit, Half
  <1>5. QED
    BY <1>1, <1>2, <1>3, <1>4

(* A word as a signed number.                                              *)
LEMMA SignedIs ==
  ASSUME NEW w \in Width, NEW v \in Operand(w)
  PROVE  /\ Sign(v, w) = (v >= Half(w))
         /\ Signed(v, w) = IF v >= Half(w) THEN v - Modulus(w) ELSE v
         /\ Signed(v, w) \in -Half(w)..Half(w) - 1
  <1>1. v \in Int /\ Modulus(w) \in Int /\ Half(w) \in Int /\ Modulus(w) = 2 * Half(w)
    BY ModulusIs DEF Operand
  <1>2. Sign(v, w) = (v >= Half(w))
    BY <1>1, LowIs, SignIs
  <1>3. Signed(v, w) = IF v >= Half(w) THEN v - Modulus(w) ELSE v
    BY <1>2, Zenon DEF Signed
  <1>4. QED
    BY <1>1, <1>2, <1>3 DEF Operand

(* The width of a pair of registers.                                       *)
LEMMA DoubleIs ==
  ASSUME NEW w \in Width
  PROVE  /\ Modulus(Double(w)) = Modulus(w) * Modulus(w)
         /\ Half(Double(w)) = Half(w) * Modulus(w)
  <1>1. /\ 2^4 = 16 /\ 2^8 = 256 /\ 2^16 = 65536 /\ 2^32 = 4294967296
        /\ 2^3 = 8 /\ 2^7 = 128 /\ 2^15 = 32768 /\ 2^31 = 2147483648
    OBVIOUS
  <1>2. Double(w).bits = 2 * w.bits
    BY DEF Double, Width, Small, Wide, Byte, Word
  <1>3. CASE w.bits = 4
    BY <1>1, <1>2, <1>3 DEF Modulus, Half
  <1>4. CASE w.bits = 8
    BY <1>1, <1>2, <1>4 DEF Modulus, Half
  <1>5. CASE w.bits = 16
    BY <1>1, <1>2, <1>5 DEF Modulus, Half
  <1>6. QED
    BY <1>3, <1>4, <1>5, WidthIs

LEMMA LowDouble ==
  ASSUME NEW w \in Width, NEW v \in Int
  PROVE  LET M == Modulus(w) * Modulus(w)
             H == Half(w) * Modulus(w)
         IN  /\ Low(v, Double(w)) \in 0..M - 1
             /\ v \in 0..M - 1 => Low(v, Double(w)) = v
             /\ v \in M..2 * M - 1 => Low(v, Double(w)) = v - M
             /\ v \in -M..-1 => Low(v, Double(w)) = v + M
             /\ Sign(v, Double(w)) <=> Low(v, Double(w)) >= H
  <1>1. /\ Modulus(w) \in {16, 256, 65536} /\ Modulus(w) = 2 * Half(w)
        /\ Half(w) \in {8, 128, 32768}
    BY ModulusIs
  <1>2. Low(v, Double(w)) = v % (Modulus(w) * Modulus(w))
    BY DoubleIs DEF Low
  <1>3. Sign(v, Double(w)) <=> (v \div (Half(w) * Modulus(w))) % 2 = 1
    BY DoubleIs DEF Sign, Bit, Half
  <1>4. CASE Half(w) = 8
    <2>1. Modulus(w) * Modulus(w) = 256 /\ Half(w) * Modulus(w) = 128
      BY <1>1, <1>4
    <2>2. Low(v, Double(w)) = v % 256
      BY <1>2, <2>1
    <2>3. Sign(v, Double(w)) <=> (v \div 128) % 2 = 1
      BY <1>3, <2>1
    <2>4. /\ 0 <= v % 256 /\ v % 256 < 256
          /\ 0 <= v /\ v < 256 => v % 256 = v
          /\ 256 <= v /\ v < 512 => v % 256 = v - 256
          /\ -256 <= v /\ v < 0 => v % 256 = v + 256
          /\ (v \div 128) % 2 = 1 <=> v % 256 >= 128
      OBVIOUS
    <2>5. QED
      BY <2>1, <2>2, <2>3, <2>4
  <1>5. CASE Half(w) = 128
    <2>1. Modulus(w) * Modulus(w) = 65536 /\ Half(w) * Modulus(w) = 32768
      BY <1>1, <1>5
    <2>2. Low(v, Double(w)) = v % 65536
      BY <1>2, <2>1
    <2>3. Sign(v, Double(w)) <=> (v \div 32768) % 2 = 1
      BY <1>3, <2>1
    <2>4. /\ 0 <= v % 65536 /\ v % 65536 < 65536
          /\ 0 <= v /\ v < 65536 => v % 65536 = v
          /\ 65536 <= v /\ v < 131072 => v % 65536 = v - 65536
          /\ -65536 <= v /\ v < 0 => v % 65536 = v + 65536
          /\ (v \div 32768) % 2 = 1 <=> v % 65536 >= 32768
      OBVIOUS
    <2>5. QED
      BY <2>1, <2>2, <2>3, <2>4
  <1>6. CASE Half(w) = 32768
    <2>1. Modulus(w) * Modulus(w) = 4294967296 /\ Half(w) * Modulus(w) = 2147483648
      BY <1>1, <1>6
    <2>2. Low(v, Double(w)) = v % 4294967296
      BY <1>2, <2>1
    <2>3. Sign(v, Double(w)) <=> (v \div 2147483648) % 2 = 1
      BY <1>3, <2>1
    <2>4. /\ 0 <= v % 4294967296 /\ v % 4294967296 < 4294967296
          /\ 0 <= v /\ v < 4294967296 => v % 4294967296 = v
          /\ 4294967296 <= v /\ v < 8589934592 => v % 4294967296 = v - 4294967296
          /\ -4294967296 <= v /\ v < 0 => v % 4294967296 = v + 4294967296
          /\ (v \div 2147483648) % 2 = 1 <=> v % 4294967296 >= 2147483648
      OBVIOUS
    <2>5. QED
      BY <2>1, <2>2, <2>3, <2>4
  <1>7. QED
    BY <1>1, <1>4, <1>5, <1>6

(* A number as its low bits and what is above them.                        *)
LEMMA SplitIs ==
  ASSUME NEW w \in Width, NEW v \in Int
  PROVE  /\ v \div Modulus(w) \in Int
         /\ v = (v \div Modulus(w)) * Modulus(w) + Low(v, w)
  <1>1. Modulus(w) \in {16, 256, 65536}
    BY ModulusIs
  <1>2. QED
    BY <1>1, Z3 DEF Low

-----------------------------------------------------------------------------
(* Sums and differences: the value and the flags left by the exact result  *)
(* r of one.                                                               *)

LEMMA SumFlags ==
  ASSUME NEW w \in Width, NEW d \in Operand(w), NEW s \in Operand(w), NEW r \in Int,
         NEW f \in Flags, NEW o, o = AddOf(d, s, r, f, w)
  PROVE  /\ o.v = Low(r, w) /\ o.v \in Operand(w) /\ o.f \in Flags
         /\ o.f.c <=> r \notin Operand(w)
         /\ o.f.z <=> Low(r, w) = 0
         /\ o.f.s <=> Low(r, w) >= Half(w)
         /\ o.f.p <=> EvenParity(r, w)
         /\ o.f.a <=> Aux(d, s, r, w)
         /\ o.f.o <=> /\ (d >= Half(w)) # (Low(r, w) >= Half(w))
                      /\ (s >= Half(w)) # (Low(r, w) >= Half(w))
  <1>1. /\ Sign(r, w) = (Low(r, w) >= Half(w))
        /\ Sign(d, w) = (d >= Half(w))
        /\ Sign(s, w) = (s >= Half(w))
    BY SignIs, SignedIs
  <1>2. Low(r, w) \in Operand(w)
    BY LowIs
  <1>3. /\ o.v = Low(r, w) /\ o.f \in Flags
        /\ o.f.c <=> r \notin Operand(w)
        /\ o.f.z <=> Low(r, w) = 0
        /\ o.f.s <=> Sign(r, w)
        /\ o.f.p <=> EvenParity(r, w)
        /\ o.f.a <=> Aux(d, s, r, w)
        /\ o.f.o = (Sign(d, w) # Sign(r, w) /\ Sign(s, w) # Sign(r, w))
    BY DEF AddOf, Out, SetSZP, SetAdd, Flag, Flags, Sign, EvenParity, Aux, Exceeds, Operand
  <1>4. o.f.o <=> /\ (d >= Half(w)) # (Low(r, w) >= Half(w))
                    /\ (s >= Half(w)) # (Low(r, w) >= Half(w))
    BY <1>1, <1>3
  <1>5. QED
    BY <1>1, <1>2, <1>3, <1>4

LEMMA DifferenceFlags ==
  ASSUME NEW w \in Width, NEW d \in Operand(w), NEW s \in Operand(w), NEW r \in Int,
         NEW f \in Flags, NEW o, o = SubOf(d, s, r, f, w)
  PROVE  /\ o.v = Low(r, w) /\ o.v \in Operand(w) /\ o.f \in Flags
         /\ o.f.c <=> r \notin Operand(w)
         /\ o.f.z <=> Low(r, w) = 0
         /\ o.f.s <=> Low(r, w) >= Half(w)
         /\ o.f.p <=> EvenParity(r, w)
         /\ o.f.a <=> Aux(d, s, r, w)
         /\ o.f.o <=> /\ (d >= Half(w)) # (s >= Half(w))
                      /\ (d >= Half(w)) # (Low(r, w) >= Half(w))
  <1>1. /\ Sign(r, w) = (Low(r, w) >= Half(w))
        /\ Sign(d, w) = (d >= Half(w))
        /\ Sign(s, w) = (s >= Half(w))
    BY SignIs, SignedIs
  <1>2. Low(r, w) \in Operand(w)
    BY LowIs
  <1>3. /\ o.v = Low(r, w) /\ o.f \in Flags
        /\ o.f.c <=> r \notin Operand(w)
        /\ o.f.z <=> Low(r, w) = 0
        /\ o.f.s <=> Sign(r, w)
        /\ o.f.p <=> EvenParity(r, w)
        /\ o.f.a <=> Aux(d, s, r, w)
        /\ o.f.o = (Sign(d, w) # Sign(s, w) /\ Sign(d, w) # Sign(r, w))
    BY DEF SubOf, Out, SetSZP, SetSub, Flag, Flags, Sign, EvenParity, Aux, Exceeds, Operand
  <1>4. o.f.o <=> /\ (d >= Half(w)) # (s >= Half(w))
                    /\ (d >= Half(w)) # (Low(r, w) >= Half(w))
    BY <1>1, <1>3
  <1>5. QED
    BY <1>1, <1>2, <1>3, <1>4

(* INC and DEC leave CF as it was.                                         *)
LEMMA IncIs ==
  ASSUME NEW w \in Width, NEW d \in Operand(w), NEW f \in Flags
  PROVE  /\ Inc(d, f, w).v = Low(d + 1, w) /\ Inc(d, f, w).f \in Flags
         /\ Inc(d, f, w).f.c = f.c
         /\ Dec(d, f, w).v = Low(d - 1, w) /\ Dec(d, f, w).f \in Flags
         /\ Dec(d, f, w).f.c = f.c
  BY DEF Inc, Dec, Out, SetInc, SetDec, SetSZP, SetAdd, SetSub, Flag, Flags, Sign,
         EvenParity, Aux, Exceeds

-----------------------------------------------------------------------------
(* Running a program.                                                      *)

\* the machines an instruction may leave
Written(i, x, o) == [x EXCEPT !.r[i.d] = o.v, !.f = o.f]

After(i, x, w) ==
  CASE i.op \in TwoOperand ->
         {Written(i, x, Compute(i, x.r[i.d], Source(i, x, w), x.f, w))}
    [] i.op \in OneOperand \cup Shifts ->
         {Written(i, x, Compute(i, x.r[i.d], 0, x.f, w))}
    [] i.op = "xchg" -> {[x EXCEPT !.r[i.d] = x.r[i.s], !.r[i.s] = x.r[i.d]]}
    [] i.op = "mul"  -> {Mul(x, x.r[i.s], w)}
    [] i.op = "imul" -> {Imul(x, x.r[i.s], w)}
    [] i.op = "div"  -> {Div(x, x.r[i.s], w)}
    [] i.op = "idiv" -> Idiv(x, x.r[i.s], w)
    [] i.op = "daa"  -> {Daa(x)}
    [] i.op = "das"  -> {Das(x)}
    [] i.op = "aaa"  -> {Aaa(x)}
    [] i.op = "aas"  -> {Aas(x)}
    [] i.op = "aam"  -> {Aam(x, i.n)}
    [] i.op = "aad"  -> {Aad(x, i.n)}

(* A step executes the instruction next in the program.                    *)
LEMMA StepIs ==
  ASSUME Next
  PROVE  /\ left # <<>> /\ left' = Tail(left) /\ UNCHANGED <<prog, start>>
         /\ m' \in After(Head(left), m, prog.w)
  <1> DEFINE i == Head(left)
  <1>1. CASE Binary
    <2>1. /\ i.op \in TwoOperand
          /\ m' = Written(i, m, Compute(i, m.r[i.d], Source(i, m, prog.w), m.f, prog.w))
      BY <1>1 DEF Binary, Fetch, Write, Written
    <2>2. After(i, m, prog.w)
            = {Written(i, m, Compute(i, m.r[i.d], Source(i, m, prog.w), m.f, prog.w))}
      BY <2>1 DEF After, TwoOperand, OneOperand, Shifts
    <2>3. QED
      BY <1>1, <2>1, <2>2 DEF Binary, Fetch
  <1>2. CASE Unary
    <2>1. i.op \notin TwoOperand
      BY <1>2 DEF Unary, Fetch, TwoOperand, OneOperand, Shifts
    <2>2. /\ i.op \in OneOperand \cup Shifts
          /\ m' = Written(i, m, Compute(i, m.r[i.d], 0, m.f, prog.w))
      BY <1>2 DEF Unary, Fetch, Write, Written
    <2>3. After(i, m, prog.w) = {Written(i, m, Compute(i, m.r[i.d], 0, m.f, prog.w))}
      BY <2>1, <2>2 DEF After, TwoOperand, OneOperand, Shifts
    <2>4. QED
      BY <1>2, <2>2, <2>3 DEF Unary, Fetch
  <1>3. CASE Exchange
    BY <1>3 DEF Exchange, Fetch, After, TwoOperand, OneOperand, Shifts
  <1>4. CASE Multiply
    BY <1>4 DEF Multiply, Fetch, After, TwoOperand, OneOperand, Shifts, Products
  <1>5. CASE Divide
    BY <1>5 DEF Divide, Fetch, After, TwoOperand, OneOperand, Shifts, Quotients
  <1>6. CASE Decimal
    <2>1. i.op \in Adjustments /\ i.op \notin TwoOperand /\ i.op \notin OneOperand \cup Shifts
      BY <1>6 DEF Decimal, Fetch, TwoOperand, OneOperand, Shifts, Adjustments
    <2>2. /\ left # <<>> /\ left' = Tail(left) /\ UNCHANGED <<prog, start>>
          /\ m' = CASE i.op = "daa" -> Daa(m)      [] i.op = "das" -> Das(m)
                    [] i.op = "aaa" -> Aaa(m)      [] i.op = "aas" -> Aas(m)
                    [] i.op = "aam" -> Aam(m, i.n) [] i.op = "aad" -> Aad(m, i.n)
      BY <1>6 DEF Decimal, Fetch
    <2>3. QED
      BY <2>1, <2>2 DEF After, Adjustments
  <1>7. QED
    BY <1>1, <1>2, <1>3, <1>4, <1>5, <1>6 DEF Next

\* where the program stands
Done == Len(prog.code) - Len(left)

Position ==
  /\ prog \in Programs /\ start \in Input(prog)
  /\ left \in Seq(Instruction) /\ Len(left) <= Len(prog.code)
  /\ \A j \in 1..Len(left) : left[j] = prog.code[Done + j]

\* what the first k instructions of a short program may leave
Run(k, p, x0) ==
  LET Then(j, X) == UNION {After(p.code[j], x, p.w) : x \in X}
      One == Then(1, {x0})
      Two == Then(2, One)
      Three == Then(3, Two)
      Four == Then(4, Three)
      Five == Then(5, Four)
      Six == Then(6, Five)
      Seven == Then(7, Six)
      Eight == Then(8, Seven)
  IN  CASE k = 0 -> {x0} [] k = 1 -> One [] k = 2 -> Two [] k = 3 -> Three
        [] k = 4 -> Four [] k = 5 -> Five [] k = 6 -> Six [] k = 7 -> Seven
        [] k = 8 -> Eight

Followed == Len(prog.code) <= 8 => m \in Run(Done, prog, start)

LEMMA RunIs ==
  ASSUME NEW p, NEW x0, NEW k \in 0..7, NEW x \in Run(k, p, x0)
  PROVE  After(p.code[k + 1], x, p.w) \subseteq Run(k + 1, p, x0)
  <1>1. k \in {0, 1, 2, 3, 4, 5, 6, 7}
    OBVIOUS
  <1>2. QED
    BY <1>1 DEF Run

LEMMA FollowedInit == Init => Position /\ Followed
  <1> SUFFICES ASSUME Init PROVE Position /\ Followed
    OBVIOUS
  <1>1. prog \in Programs /\ start \in Input(prog) /\ left = prog.code /\ m = start
    BY DEF Init
  <1>2. prog.code \in Seq(Instruction) /\ Len(prog.code) \in Nat
    BY <1>1, ProgramsAssumption
  <1>3. Done = 0 /\ Len(left) = Len(prog.code)
    BY <1>1, <1>2 DEF Done
  <1>4. Position
    BY <1>1, <1>2, <1>3 DEF Position
  <1>5. start \in Run(0, prog, start)
    BY DEF Run
  <1>6. QED
    BY <1>1, <1>3, <1>4, <1>5 DEF Followed

(* The programs go on in their order.                                      *)
LEMMA PositionStep ==
  ASSUME Position, Next
  PROVE  /\ Position' /\ Done \in 0..Len(prog.code) - 1 /\ Done' = Done + 1
         /\ prog' = prog /\ start' = start
         /\ m' \in After(prog.code[Done + 1], m, prog.w)
  <1>1. /\ left # <<>> /\ left' = Tail(left) /\ prog' = prog /\ start' = start
        /\ m' \in After(Head(left), m, prog.w)
    BY StepIs
  <1>2. /\ prog.code \in Seq(Instruction) /\ Len(prog.code) \in Nat
        /\ left \in Seq(Instruction) /\ Len(left) \in 1..Len(prog.code)
    BY <1>1, ProgramsAssumption, EmptySeq, LenProperties DEF Position
  <1>3. /\ Tail(left) \in Seq(Instruction) /\ Len(Tail(left)) = Len(left) - 1
        /\ \A j \in 1..Len(left) - 1 : Tail(left)[j] = left[j + 1]
    BY <1>1, <1>2, HeadTailProperties
  <1>4. Done \in 0..Len(prog.code) - 1 /\ Done' = Done + 1
    BY <1>1, <1>2, <1>3 DEF Done
  <1>5. Head(left) = prog.code[Done + 1]
    BY <1>2 DEF Position
  <1>6. Position'
    BY <1>1, <1>2, <1>3, <1>4 DEF Position
  <1>7. QED
    BY <1>1, <1>4, <1>5, <1>6

LEMMA FollowedStep == Position /\ Followed /\ [Next]_vars => Position' /\ Followed'
  <1> SUFFICES ASSUME Position, Followed, [Next]_vars PROVE Position' /\ Followed'
    OBVIOUS
  <1>1. CASE UNCHANGED vars
    BY <1>1 DEF vars, Position, Followed, Done, Run
  <1>2. CASE Next
    <2>1. /\ Position' /\ Done \in 0..Len(prog.code) - 1 /\ Done' = Done + 1
          /\ prog' = prog /\ start' = start
          /\ m' \in After(prog.code[Done + 1], m, prog.w)
      BY <1>2, PositionStep
    <2>2. ASSUME Len(prog.code) <= 8
          PROVE  m' \in Run(Done', prog', start')
      <3>1. m \in Run(Done, prog, start) /\ Done \in 0..7
        <4>1. Len(prog.code) \in Nat
          BY ProgramsAssumption DEF Position
        <4>2. QED
          BY <2>1, <2>2, <4>1 DEF Followed
      <3>2. m' \in Run(Done + 1, prog, start)
        BY <2>1, <3>1, RunIs
      <3>3. QED
        BY <2>1, <3>2
    <2>3. QED
      BY <2>1, <2>2 DEF Followed
  <1>3. QED
    BY <1>1, <1>2

(* What an operation of two operands computes.                             *)
LEMMA ComputeIs ==
  ASSUME NEW i, NEW d, NEW s, NEW f, NEW w
  PROVE  /\ i.op = "add" => Compute(i, d, s, f, w) = Add(d, s, f, w)
         /\ i.op = "adc" => Compute(i, d, s, f, w) = Adc(d, s, f, w)
         /\ i.op = "sub" => Compute(i, d, s, f, w) = Sub(d, s, f, w)
         /\ i.op = "sbb" => Compute(i, d, s, f, w) = Sbb(d, s, f, w)
         /\ i.op = "cmp" => Compute(i, d, s, f, w) = Cmp(d, s, f, w)
         /\ i.op = "inc" => Compute(i, d, s, f, w) = Inc(d, f, w)
         /\ i.op = "dec" => Compute(i, d, s, f, w) = Dec(d, f, w)
         /\ i.op = "neg" => Compute(i, d, s, f, w) = Neg(d, f, w)
         /\ i.op \in Shifts => Compute(i, d, s, f, w) = Shift(i.op, d, i.n, f, w)
  BY DEF Compute, Shifts

(* An immediate is an operand.                                             *)
LEMMA ImmediateIs ==
  ASSUME NEW w \in Width, NEW n \in Nat, n < 256
  PROVE  Immediate(n, w) \in Operand(w)
  <1>1. 2^16 = 65536 /\ 2^8 = 256 /\ 2^4 = 16 /\ 2^3 = 8 /\ 2^7 = 128
    OBVIOUS
  <1>2. 2^w.byte \in Int /\ 2^(w.byte - 1) \in Int /\ 2^(w.byte - 1) <= Modulus(w)
    <2>1. CASE w.byte = 4
      BY <1>1, <2>1, ModulusIs
    <2>2. CASE w.byte = 8
      <3>1. CASE w.bits = 8
        BY <1>1, <2>2, <3>1 DEF Modulus
      <3>2. CASE w.bits = 16
        BY <1>1, <2>2, <3>2 DEF Modulus
      <3>3. QED
        BY <2>2, <3>1, <3>2, WidthIs
    <2>3. QED
      BY <2>1, <2>2, WidthIs
  <1>3. CASE n >= 2^(w.byte - 1)
    BY <1>2, <1>3, LowIs DEF Immediate
  <1>4. CASE ~(n >= 2^(w.byte - 1))
    BY <1>2, <1>4, ModulusIs DEF Immediate, Operand
  <1>5. QED
    BY <1>3, <1>4

(* The machine when a short program has ended.                             *)
LEMMA EndIs ==
  ASSUME Position, Followed, NEW c, Ended(c), Len(c) <= 8
  PROVE  /\ prog \in Programs /\ prog.w \in Width /\ prog.code = c
         /\ start \in Machine(prog.w)
         /\ m \in Run(Len(c), prog, start)
  <1>1. prog.code = c /\ left = <<>> /\ Len(left) = 0
    BY EmptySeq DEF Ended
  <1>2. /\ prog \in Programs /\ prog.w \in Width /\ start \in Machine(prog.w)
        /\ Len(c) \in Nat
    BY <1>1, ProgramsAssumption DEF Position
  <1>3. Done = Len(c)
    BY <1>1, <1>2 DEF Done
  <1>4. QED
    BY <1>1, <1>2, <1>3 DEF Followed

LEMMA MachineIs ==
  ASSUME NEW w \in Width, NEW x \in Machine(w)
  PROVE  /\ \A g \in Register : x.r[g] \in Operand(w)
         /\ {x.r.A, x.r.B, x.r.C, x.r.D, x.r.S} \subseteq Operand(w)
         /\ x.f \in Flags /\ x.f.c \in BOOLEAN /\ x.out = "ok"
  BY DEF Machine, Register, Operand, Flags, Flag

-----------------------------------------------------------------------------
(* Comparisons.                                                            *)

LEMMA ConditionIs ==
  ASSUME NEW f \in Flags
  PROVE  /\ Condition(f, 0) = f.o /\ Condition(f, 1) = ~f.o
         /\ Condition(f, 2) = f.c /\ Condition(f, 3) = ~f.c
         /\ Condition(f, 4) = f.z /\ Condition(f, 5) = ~f.z
         /\ Condition(f, 6) = (f.c \/ f.z) /\ Condition(f, 7) = ~(f.c \/ f.z)
         /\ Condition(f, 8) = f.s /\ Condition(f, 9) = ~f.s
         /\ Condition(f, 10) = f.p /\ Condition(f, 11) = ~f.p
         /\ Condition(f, 12) = (f.s # f.o) /\ Condition(f, 13) = ~(f.s # f.o)
         /\ Condition(f, 14) = (f.z \/ (f.s # f.o)) /\ Condition(f, 15) = ~(f.z \/ (f.s # f.o))
  BY DEF Condition, Flags, Flag

LEMMA SignedOverIs ==
  ASSUME NEW w \in Width, NEW x \in Int
  PROVE  /\ SignedOver(x, w) \in BOOLEAN
         /\ SignedOver(x, w) <=> x < -Half(w) \/ x >= Half(w)
  <1>1. Half(w) \in Nat
    BY ModulusIs
  <1>2. /\ SignedOver(x, w) \in BOOLEAN
        /\ SignedOver(x, w) <=> x \notin 0 - Half(w)..Half(w) - 1
    BY DEF SignedOver, Half
  <1>3. QED
    BY <1>1, <1>2

(* The sign of a difference, and whether it is wrong, tell the lesser of   *)
(* two signed words.                                                       *)
LEMMA SignTells ==
  ASSUME NEW H \in Nat, NEW M \in Nat, M = 2 * H,
         NEW a \in Nat, NEW b \in Nat, a < M, b < M,
         NEW sa \in Int, sa = IF a >= H THEN a - M ELSE a,
         NEW sb \in Int, sb = IF b >= H THEN b - M ELSE b,
         NEW low \in Int, low = IF a < b THEN a - b + M ELSE a - b
  PROVE  /\ sa - sb < -H \/ sa - sb >= H <=> (a >= H) # (b >= H) /\ (a >= H) # (low >= H)
         /\ sa < sb <=> ((low >= H) # (sa - sb < -H \/ sa - sb >= H))
  OBVIOUS

(* What the flags of a difference say of the operands.                     *)
LEMMA CompareIs ==
  ASSUME NEW w \in Width, NEW a \in Operand(w), NEW b \in Operand(w), NEW f \in Flags,
         NEW o, o = Sub(a, b, f, w)
  PROVE  LET sa == Signed(a, w)
             sb == Signed(b, w)
         IN  /\ o.f \in Flags
             /\ o.f.o = SignedOver(sa - sb, w)
             /\ o.f.c = (a < b) /\ o.f.z = (a = b)
             /\ o.f.s = (Low(a - b, w) >= Half(w))
             /\ o.f.p = EvenParity(a - b, w)
             /\ (o.f.s # o.f.o) = (sa < sb)
  <1>1. /\ a \in Int /\ b \in Int /\ a - b \in Int /\ a >= 0 /\ b >= 0
        /\ a < Modulus(w) /\ b < Modulus(w)
        /\ Modulus(w) \in Nat /\ Half(w) \in Nat /\ Modulus(w) = 2 * Half(w)
    BY ModulusIs DEF Operand
  <1>2. o = SubOf(a, b, a - b, f, w)
    BY DEF Sub
  <1>3. /\ o.f \in Flags
        /\ o.f.c <=> a - b \notin Operand(w)
        /\ o.f.z <=> Low(a - b, w) = 0
        /\ o.f.s <=> Low(a - b, w) >= Half(w)
        /\ o.f.p <=> EvenParity(a - b, w)
        /\ o.f.o <=> /\ (a >= Half(w)) # (b >= Half(w))
                     /\ (a >= Half(w)) # (Low(a - b, w) >= Half(w))
    BY <1>1, <1>2, DifferenceFlags
  <1>4. Low(a - b, w) = IF a < b THEN a - b + Modulus(w) ELSE a - b
    BY <1>1, LowIs DEF Operand
  <1>5. /\ Signed(a, w) = IF a >= Half(w) THEN a - Modulus(w) ELSE a
        /\ Signed(b, w) = IF b >= Half(w) THEN b - Modulus(w) ELSE b
    BY SignedIs
  <1> DEFINE sa == Signed(a, w)
             sb == Signed(b, w)
             over == SignedOver(sa - sb, w)
             low == Low(a - b, w)
  <1>6. /\ over \in BOOLEAN
        /\ over <=> sa - sb < -Half(w) \/ sa - sb >= Half(w)
    <2>1. sa - sb \in Int
      BY <1>1, <1>5
    <2>2. QED
      BY <2>1, SignedOverIs
  <1>7. /\ {o.f.o, o.f.c, o.f.z, o.f.s, o.f.p} \subseteq BOOLEAN
        /\ EvenParity(a - b, w) \in BOOLEAN
    BY <1>3 DEF Flags, Flag, EvenParity
  <1>8. /\ o.f.c = (a < b) /\ o.f.z = (a = b)
        /\ o.f.s = (low >= Half(w)) /\ o.f.p = EvenParity(a - b, w)
    BY <1>1, <1>3, <1>4, <1>7 DEF Operand
  <1> HIDE DEF sa, sb, over, low
  <1>9. /\ over <=> (a >= Half(w)) # (b >= Half(w)) /\ (a >= Half(w)) # (low >= Half(w))
        /\ sa < sb <=> ((low >= Half(w)) # over)
    <2>1. sa \in Int /\ sb \in Int /\ low \in Int
      BY <1>1, <1>4, <1>5 DEF sa, sb, low
    <2>2. /\ sa - sb < -Half(w) \/ sa - sb >= Half(w)
                <=> (a >= Half(w)) # (b >= Half(w)) /\ (a >= Half(w)) # (low >= Half(w))
          /\ sa < sb <=> ((low >= Half(w)) # (sa - sb < -Half(w) \/ sa - sb >= Half(w)))
      BY <1>1, <1>4, <1>5, <2>1, SignTells DEF sa, sb, low
    <2>3. QED
      BY <1>6, <2>2
  <1>10. /\ o.f.o <=> over
         /\ (o.f.s # o.f.o) <=> (sa < sb)
    BY <1>3, <1>6, <1>7, <1>8, <1>9 DEF low
  <1>11. o.f.o = over /\ (o.f.s # o.f.o) = (sa < sb)
    BY <1>6, <1>7, <1>10
  <1>12. QED
    BY <1>3, <1>8, <1>11 DEF sa, sb, over, low

LEMMA JumpsAtEnd == Position /\ Followed => JumpsDecide
  <1> SUFFICES ASSUME Position, Followed,
                      NEW i, i = prog.code[1], Ended(<<i>>), i.op = "cmp"
               PROVE  LET w == prog.w
                          a == start.r[i.d]
                          b == Source(i, start, w)
                          sa == Signed(a, w)
                          sb == Signed(b, w)
                          Holds == <<SignedOver(sa - sb, w), a < b, a = b, a <= b,
                                     Low(a - b, w) >= 2^(w.bits - 1),
                                     EvenParity(a - b, w), sa < sb, sa <= sb>>
                      IN  /\ \A k \in 0..7 : /\ Condition(m.f, 2 * k) = Holds[k + 1]
                                             /\ Condition(m.f, 2 * k + 1) = ~Holds[k + 1]
                          /\ m.r = start.r
    BY DEF JumpsDecide
  <1> DEFINE w == prog.w
             a == start.r[i.d]
             b == Source(i, start, w)
  <1>1. /\ prog.code = <<i>> /\ w \in Width /\ start \in Machine(w)
        /\ m \in Run(1, prog, start)
    <2>1. Len(<<i>>) = 1 /\ Len(<<i>>) <= 8
      OBVIOUS
    <2>2. m \in Run(Len(<<i>>), prog, start)
      BY <2>1, EndIs
    <2>3. QED
      BY <2>1, <2>2, EndIs
  <1>2. i \in Instruction
    <2>1. prog \in Programs
      BY DEF Position
    <2>2. prog.code \in Seq(Instruction)
      BY <2>1, ProgramsAssumption
    <2>3. QED
      BY <1>1, <2>2
  <1>3. a \in Operand(w) /\ b \in Operand(w) /\ start.f \in Flags
    BY <1>1, <1>2, MachineIs, ImmediateIs DEF Instruction, Source
  <1>4. m \in After(i, start, w)
    BY <1>1 DEF Run
  <1>5. m = Written(i, start, Cmp(a, b, start.f, w))
    BY <1>4, ComputeIs DEF After, TwoOperand, OneOperand, Shifts
  <1>6. m.r = start.r /\ m.f = Sub(a, b, start.f, w).f
    BY <1>1, <1>2, <1>5 DEF Written, Cmp, Machine, Instruction
  <1> DEFINE sa == Signed(a, w)
             sb == Signed(b, w)
             f == m.f
  <1>7. /\ f \in Flags /\ f.o = SignedOver(sa - sb, w)
        /\ f.c = (a < b) /\ f.z = (a = b) /\ f.s = (Low(a - b, w) >= Half(w))
        /\ f.p = EvenParity(a - b, w) /\ (f.s # f.o) = (sa < sb)
    BY <1>1, <1>3, <1>6, CompareIs
  <1>8. /\ a \in Int /\ b \in Int /\ sa \in Int /\ sb \in Int
        /\ (a = b) = (sa = sb)
    BY <1>1, <1>3, SignedIs, ModulusIs DEF Operand
  <1> HIDE DEF w, a, b, sa, sb, f
  <1> DEFINE Holds == <<SignedOver(sa - sb, w), a < b, a = b, a <= b,
                        Low(a - b, w) >= 2^(w.bits - 1),
                        EvenParity(a - b, w), sa < sb, sa <= sb>>
  <1>9. \A k \in 0..7 : /\ Condition(f, 2 * k) = Holds[k + 1]
                        /\ Condition(f, 2 * k + 1) = ~Holds[k + 1]
    <2>1. /\ Holds[1] = SignedOver(sa - sb, w) /\ Holds[2] = (a < b)
          /\ Holds[3] = (a = b) /\ Holds[4] = (a <= b)
          /\ Holds[5] = (Low(a - b, w) >= Half(w)) /\ Holds[6] = EvenParity(a - b, w)
          /\ Holds[7] = (sa < sb) /\ Holds[8] = (sa <= sb)
      BY DEF Half
    <2> HIDE DEF Holds
    <2>2. /\ f.o = Holds[1] /\ f.c = Holds[2] /\ f.z = Holds[3]
          /\ f.s = Holds[5] /\ f.p = Holds[6] /\ (f.s # f.o) = Holds[7]
      BY <1>7, <2>1, Zenon
    <2>3. (f.c \/ f.z) = Holds[4]
      <3>1. (a < b \/ a = b) = (a <= b)
        BY <1>8
      <3>2. QED
        BY <1>7, <2>1, <3>1, Zenon
    <2>4. (f.z \/ (f.s # f.o)) = Holds[8]
      <3>1. (sa = sb \/ sa < sb) = (sa <= sb)
        BY <1>8
      <3>2. f.z = (sa = sb) /\ (f.s # f.o) = (sa < sb)
        BY <1>7, <1>8, Zenon
      <3>3. QED
        BY <2>1, <3>1, <3>2, Zenon
    <2> DEFINE Decides(k) == /\ Condition(f, 2 * k) = Holds[k + 1]
                           /\ Condition(f, 2 * k + 1) = ~Holds[k + 1]
    <2>9. /\ Condition(f, 0) = f.o /\ Condition(f, 1) = ~f.o
          /\ Condition(f, 2) = f.c /\ Condition(f, 3) = ~f.c
          /\ Condition(f, 4) = f.z /\ Condition(f, 5) = ~f.z
          /\ Condition(f, 6) = (f.c \/ f.z) /\ Condition(f, 7) = ~(f.c \/ f.z)
      BY <1>7, ConditionIs
    <2>10. /\ Condition(f, 8) = f.s /\ Condition(f, 9) = ~f.s
           /\ Condition(f, 10) = f.p /\ Condition(f, 11) = ~f.p
           /\ Condition(f, 12) = (f.s # f.o) /\ Condition(f, 13) = ~(f.s # f.o)
           /\ Condition(f, 14) = (f.z \/ (f.s # f.o))
           /\ Condition(f, 15) = ~(f.z \/ (f.s # f.o))
      BY <1>7, ConditionIs
    <2>5. Decides(0) /\ Decides(1) /\ Decides(2) /\ Decides(3)
      <3>1. /\ Condition(f, 0) = Holds[1] /\ Condition(f, 1) = ~Holds[1]
            /\ Condition(f, 2) = Holds[2] /\ Condition(f, 3) = ~Holds[2]
            /\ Condition(f, 4) = Holds[3] /\ Condition(f, 5) = ~Holds[3]
            /\ Condition(f, 6) = Holds[4] /\ Condition(f, 7) = ~Holds[4]
        BY <2>2, <2>3, <2>9, Zenon
      <3>2. QED
        BY <3>1
    <2>6. Decides(4) /\ Decides(5) /\ Decides(6) /\ Decides(7)
      <3>1. /\ Condition(f, 8) = Holds[5] /\ Condition(f, 9) = ~Holds[5]
            /\ Condition(f, 10) = Holds[6] /\ Condition(f, 11) = ~Holds[6]
            /\ Condition(f, 12) = Holds[7] /\ Condition(f, 13) = ~Holds[7]
            /\ Condition(f, 14) = Holds[8] /\ Condition(f, 15) = ~Holds[8]
        BY <2>2, <2>4, <2>10, Zenon
      <3>2. QED
        BY <3>1
    <2> HIDE DEF Decides
    <2>7. \A k \in 0..7 : Decides(k)
      <3> TAKE k \in 0..7
      <3>1. k = 0 \/ k = 1 \/ k = 2 \/ k = 3 \/ k = 4 \/ k = 5 \/ k = 6 \/ k = 7
        OBVIOUS
      <3>2. QED
        BY <2>5, <2>6, <3>1
    <2>8. QED
      BY <2>7 DEF Decides
  <1>10. QED
    BY <1>6, <1>9 DEF w, a, b, sa, sb, f


(* After CMP each conditional jump decides what its name says.             *)
THEOREM Comparisons == Spec => []JumpsDecide
  <1>1. Spec => [](Position /\ Followed)
    BY FollowedInit, FollowedStep, PTL DEF Spec
  <1>2. QED
    BY <1>1, JumpsAtEnd, PTL

-----------------------------------------------------------------------------
(* Sums and differences of two words.                                      *)

LEMMA NumIs ==
  ASSUME NEW b \in BOOLEAN
  PROVE  Num(b) \in {0, 1} /\ (b <=> Num(b) = 1)
  BY DEF Num

(* The exact sum is the word left and what the carry stands for.           *)
LEMMA AddIs ==
  ASSUME NEW w \in Width, NEW d \in Operand(w), NEW s \in Operand(w), NEW k \in {0, 1},
         NEW f \in Flags, NEW o, o = AddOf(d, s, d + s + k, f, w)
  PROVE  /\ o.v \in Operand(w) /\ o.f \in Flags
         /\ d + s + k = Num(o.f.c) * Modulus(w) + o.v
         /\ o.f.a <=> Aux(d, s, d + s + k, w)
         /\ o.f.s <=> o.v >= Half(w)
         /\ o.f.o <=> (d >= Half(w)) # (o.v >= Half(w)) /\ (s >= Half(w)) # (o.v >= Half(w))
  <1>1. /\ d \in Int /\ s \in Int /\ 0 <= d /\ 0 <= s /\ d < Modulus(w) /\ s < Modulus(w)
        /\ Modulus(w) \in Int /\ d + s + k \in Int
    BY ModulusIs DEF Operand
  <1>2. /\ o.v = Low(d + s + k, w) /\ o.v \in Operand(w) /\ o.f \in Flags
        /\ o.f.c <=> d + s + k \notin Operand(w)
        /\ o.f.a <=> Aux(d, s, d + s + k, w)
        /\ o.f.s <=> Low(d + s + k, w) >= Half(w)
        /\ o.f.o <=> /\ (d >= Half(w)) # (Low(d + s + k, w) >= Half(w))
                     /\ (s >= Half(w)) # (Low(d + s + k, w) >= Half(w))
    BY <1>1, SumFlags
  <1>3. o.f.c \in BOOLEAN
    BY <1>2 DEF Flags, Flag
  <1>4. d + s + k = Num(o.f.c) * Modulus(w) + o.v
    <2>1. CASE d + s + k < Modulus(w)
      BY <1>1, <1>2, <1>3, <2>1, LowIs, NumIs DEF Operand
    <2>2. CASE d + s + k >= Modulus(w)
      <3>1. Low(d + s + k, w) = d + s + k - Modulus(w)
        BY <1>1, <2>2, LowIs
      <3>2. o.f.c /\ Num(o.f.c) = 1
        BY <1>1, <1>2, <1>3, <2>2, NumIs DEF Operand
      <3>3. QED
        BY <1>1, <1>2, <3>1, <3>2
    <2>3. QED
      BY <1>1, <2>1, <2>2
  <1>5. QED
    BY <1>2, <1>4

(* The same of a difference and its borrow.                                *)
LEMMA SubIs ==
  ASSUME NEW w \in Width, NEW d \in Operand(w), NEW s \in Operand(w), NEW k \in {0, 1},
         NEW f \in Flags, NEW o, o = SubOf(d, s, d - s - k, f, w)
  PROVE  /\ o.v \in Operand(w) /\ o.f \in Flags
         /\ d - s - k = o.v - Num(o.f.c) * Modulus(w)
         /\ o.f.a <=> Aux(d, s, d - s - k, w)
         /\ o.f.s <=> o.v >= Half(w)
         /\ o.f.o <=> (d >= Half(w)) # (s >= Half(w)) /\ (d >= Half(w)) # (o.v >= Half(w))
  <1>1. /\ d \in Int /\ s \in Int /\ 0 <= d /\ 0 <= s /\ d < Modulus(w) /\ s < Modulus(w)
        /\ Modulus(w) \in Int /\ d - s - k \in Int
    BY ModulusIs DEF Operand
  <1>2. /\ o.v = Low(d - s - k, w) /\ o.v \in Operand(w) /\ o.f \in Flags
        /\ o.f.c <=> d - s - k \notin Operand(w)
        /\ o.f.a <=> Aux(d, s, d - s - k, w)
        /\ o.f.s <=> Low(d - s - k, w) >= Half(w)
        /\ o.f.o <=> /\ (d >= Half(w)) # (s >= Half(w))
                     /\ (d >= Half(w)) # (Low(d - s - k, w) >= Half(w))
    BY <1>1, DifferenceFlags
  <1>3. o.f.c \in BOOLEAN
    BY <1>2 DEF Flags, Flag
  <1>4. d - s - k = o.v - Num(o.f.c) * Modulus(w)
    <2>1. CASE d - s - k >= 0
      BY <1>1, <1>2, <1>3, <2>1, LowIs, NumIs DEF Operand
    <2>2. CASE d - s - k < 0
      <3>1. Low(d - s - k, w) = d - s - k + Modulus(w)
        BY <1>1, <2>2, LowIs
      <3>2. o.f.c /\ Num(o.f.c) = 1
        BY <1>1, <1>2, <1>3, <2>2, NumIs DEF Operand
      <3>3. QED
        BY <1>1, <1>2, <3>1, <3>2
    <2>3. QED
      BY <1>1, <2>1, <2>2
  <1>5. QED
    BY <1>2, <1>4

(* Two words added or subtracted word by word, k and j passed between the  *)
(* words and out of the upper one.                                         *)
Moduli == {16, 256, 65536}
Bits == {0, 1}
LowSum(M, a, b, lo, k) == a + b = lo + k * M
HighSum(M, d, c, k, hi, j) == d + c + k = hi + j * M
PairSum(M, d, a, c, b, hi, lo, j) ==
  (d * M + a) + (c * M + b) = j * (M * M) + (hi * M + lo)
LowDifference(M, a, b, lo, k) == a - b = lo - k * M
HighDifference(M, d, c, k, hi, j) == d - c - k = hi - j * M
PairDifference(M, d, a, c, b, hi, lo, j) ==
  (d * M + a) - (c * M + b) = (-j) * (M * M) + (hi * M + lo)

LEMMA SumByWord ==
  ASSUME NEW M \in Moduli, NEW a \in Int, NEW b \in Int, NEW c \in Int, NEW d \in Int,
         NEW lo \in Int, NEW hi \in Int, NEW k \in Bits, NEW j \in Bits,
         LowSum(M, a, b, lo, k), HighSum(M, d, c, k, hi, j)
  PROVE  PairSum(M, d, a, c, b, hi, lo, j)
  <1> USE DEF LowSum, HighSum, PairSum, Moduli, Bits
  <1>1. CASE M = 16
    BY <1>1
  <1>2. CASE M = 256
    BY <1>2
  <1>3. CASE M = 65536
    BY <1>3
  <1>4. QED
    BY <1>1, <1>2, <1>3

LEMMA DifferenceByWord ==
  ASSUME NEW M \in Moduli, NEW a \in Int, NEW b \in Int, NEW c \in Int, NEW d \in Int,
         NEW lo \in Int, NEW hi \in Int, NEW k \in Bits, NEW j \in Bits,
         LowDifference(M, a, b, lo, k), HighDifference(M, d, c, k, hi, j)
  PROVE  PairDifference(M, d, a, c, b, hi, lo, j)
  <1> USE DEF LowDifference, HighDifference, PairDifference, Moduli, Bits
  <1>1. CASE M = 16
    BY <1>1
  <1>2. CASE M = 256
    BY <1>2
  <1>3. CASE M = 65536
    BY <1>3
  <1>4. QED
    BY <1>1, <1>2, <1>3

LEMMA PairRange ==
  ASSUME NEW w \in Width, NEW hi \in Operand(w), NEW lo \in Operand(w)
  PROVE  LET M == Modulus(w)
             x == hi * M + lo
         IN  /\ x \in Int /\ 0 <= x /\ x < M * M
             /\ hi >= Half(w) <=> x >= Half(w) * M
             /\ M * M \in Int /\ Half(w) * M \in Int /\ M * M = 2 * (Half(w) * M)
  <1>1. /\ Modulus(w) \in {16, 256, 65536} /\ Modulus(w) = 2 * Half(w)
        /\ Half(w) \in {8, 128, 32768}
    BY ModulusIs
  <1>2. /\ hi \in Int /\ lo \in Int /\ 0 <= hi /\ 0 <= lo
        /\ hi < Modulus(w) /\ lo < Modulus(w)
    BY <1>1 DEF Operand
  <1>3. CASE Modulus(w) = 16
    BY <1>1, <1>2, <1>3
  <1>4. CASE Modulus(w) = 256
    BY <1>1, <1>2, <1>4
  <1>5. CASE Modulus(w) = 65536
    BY <1>1, <1>2, <1>5
  <1>6. QED
    BY <1>1, <1>3, <1>4, <1>5

(* The number x of which hi and lo are the words, up to j moduli.          *)
LEMMA PairOf ==
  ASSUME NEW w \in Width, NEW hi \in Operand(w), NEW lo \in Operand(w),
         NEW j \in {-1, 0, 1}, NEW x \in Int,
         x = j * (Modulus(w) * Modulus(w)) + (hi * Modulus(w) + lo)
  PROVE  /\ Low(x, Double(w)) = hi * Modulus(w) + lo
         /\ Exceeds(x, Double(w)) = (j # 0)
         /\ Sign(x, Double(w)) = (hi >= Half(w))
  <1> DEFINE M2 == Modulus(w) * Modulus(w)
             y == hi * Modulus(w) + lo
             H2 == Half(w) * Modulus(w)
  <1>1. /\ y \in Int /\ 0 <= y /\ y < M2 /\ M2 \in Int /\ H2 \in Int
        /\ hi >= Half(w) <=> y >= H2
    BY PairRange
  <1>2. /\ x \in 0..M2 - 1 => Low(x, Double(w)) = x
        /\ x \in M2..2 * M2 - 1 => Low(x, Double(w)) = x - M2
        /\ x \in -M2..-1 => Low(x, Double(w)) = x + M2
        /\ Sign(x, Double(w)) <=> Low(x, Double(w)) >= H2
    BY LowDouble
  <1>3. Exceeds(x, Double(w)) = (x \notin 0..M2 - 1)
    BY DoubleIs DEF Exceeds
  <1>4. x = j * M2 + y
    OBVIOUS
  <1>5. Sign(x, Double(w)) \in BOOLEAN
    BY DEF Sign
  <1> HIDE DEF M2, y, H2
  <1>6. CASE j = 0
    BY <1>1, <1>2, <1>3, <1>4, <1>5, <1>6 DEF y
  <1>7. CASE j = 1
    BY <1>1, <1>2, <1>3, <1>4, <1>5, <1>7 DEF y
  <1>8. CASE j = -1
    BY <1>1, <1>2, <1>3, <1>4, <1>5, <1>8 DEF y
  <1>9. QED
    BY <1>6, <1>7, <1>8

LEMMA SignedPair ==
  ASSUME NEW w \in Width, NEW hi \in Operand(w), NEW lo \in Operand(w)
  PROVE  LET x == hi * Modulus(w) + lo
         IN  Signed(x, Double(w)) = IF x >= Half(w) * Modulus(w)
                                    THEN x - Modulus(w) * Modulus(w) ELSE x
  <1>1. Sign(hi * Modulus(w) + lo, Double(w)) = (hi >= Half(w))
    BY PairRange, PairOf
  <1>2. QED
    BY <1>1, PairRange, DoubleIs DEF Signed

LEMMA SignedOverPair ==
  ASSUME NEW w \in Width, NEW x \in Int
  PROVE  /\ SignedOver(x, Double(w)) \in BOOLEAN
         /\ SignedOver(x, Double(w)) <=> \/ x < -(Half(w) * Modulus(w))
                                         \/ x >= Half(w) * Modulus(w)
  <1>1. Half(w) * Modulus(w) \in Nat
    BY ModulusIs
  <1>2. /\ SignedOver(x, Double(w)) \in BOOLEAN
        /\ SignedOver(x, Double(w)) <=> x \notin 0 - Half(Double(w))..Half(Double(w)) - 1
    BY DEF SignedOver, Half
  <1>3. QED
    BY <1>1, <1>2, DoubleIs

(* The signs of the operands and of the result tell an overflow.           *)
LEMMA SignsTell ==
  ASSUME NEW H \in Nat, NEW M \in Nat, M = 2 * H,
         NEW p \in Nat, NEW q \in Nat, NEW y \in Nat, p < M, q < M, y < M,
         NEW sp \in Int, sp = IF p >= H THEN p - M ELSE p,
         NEW sq \in Int, sq = IF q >= H THEN q - M ELSE q,
         NEW j \in {0, 1}
  PROVE  /\ p + q = j * M + y =>
              (sp + sq < -H \/ sp + sq >= H
                 <=> (p >= H) # (y >= H) /\ (q >= H) # (y >= H))
         /\ p - q = y - j * M =>
              (sp - sq < -H \/ sp - sq >= H
                 <=> (p >= H) # (q >= H) /\ (p >= H) # (y >= H))
  <1>1. CASE j = 0
    BY <1>1
  <1>2. CASE j = 1
    BY <1>2
  <1>3. QED
    BY <1>1, <1>2

(* The machine an operation leaves.                                        *)
LEMMA WrittenIs ==
  ASSUME NEW w \in Width, NEW x \in Machine(w), NEW i, i.d \in Register,
         NEW o, o.v \in Operand(w), o.f \in Flags
  PROVE  LET y == Written(i, x, o)
         IN  /\ y \in Machine(w) /\ y.f = o.f /\ y.r[i.d] = o.v
             /\ \A g \in Register \ {i.d} : y.r[g] = x.r[g]
  <1>1. /\ x \in [r : [Register -> Operand(w)], f : Flags, out : {"ok"}]
        /\ Machine(w) = [r : [Register -> Operand(w)], f : Flags, out : {"ok"}]
    BY DEF Machine, Operand, Flags
  <1> DEFINE y == Written(i, x, o)
  <1>2. y \in [r : [Register -> Operand(w)], f : Flags, out : {"ok"}]
    BY <1>1 DEF Written
  <1>3. /\ y.f = o.f /\ y.r[i.d] = o.v
        /\ \A g \in Register \ {i.d} : y.r[g] = x.r[g]
    BY <1>1 DEF Written
  <1>4. QED
    BY <1>1, <1>2, <1>3

LEMMA TwoSteps ==
  ASSUME Position, Followed, NEW c, Ended(c), Len(c) = 2
  PROVE  /\ prog \in Programs /\ prog.w \in Width /\ start \in Machine(prog.w)
         /\ \E x \in After(c[1], start, prog.w) : m \in After(c[2], x, prog.w)
  <1>0. Len(c) <= 8
    OBVIOUS
  <1>1. /\ prog \in Programs /\ prog.w \in Width /\ prog.code = c
        /\ start \in Machine(prog.w) /\ m \in Run(Len(c), prog, start)
    BY <1>0, EndIs, Zenon
  <1>2. Run(Len(c), prog, start)
          = UNION {After(c[2], x, prog.w) : x \in After(c[1], start, prog.w)}
    BY <1>1 DEF Run
  <1>3. QED
    BY <1>1, <1>2

LEMMA ThreeSteps ==
  ASSUME Position, Followed, NEW c, Ended(c), Len(c) = 3
  PROVE  /\ prog \in Programs /\ prog.w \in Width /\ start \in Machine(prog.w)
         /\ \E x \in After(c[1], start, prog.w) :
              \E y \in After(c[2], x, prog.w) : m \in After(c[3], y, prog.w)
  <1>0. Len(c) <= 8
    OBVIOUS
  <1>1. /\ prog \in Programs /\ prog.w \in Width /\ prog.code = c
        /\ start \in Machine(prog.w) /\ m \in Run(Len(c), prog, start)
    BY <1>0, EndIs, Zenon
  <1>2. Run(Len(c), prog, start)
          = UNION {After(c[3], y, prog.w) :
                     y \in UNION {After(c[2], x, prog.w) : x \in After(c[1], start, prog.w)}}
    BY <1>1 DEF Run
  <1>3. QED
    BY <1>1, <1>2

(* The machine after an instruction of each of the kinds used here.        *)
LEMMA AfterSum ==
  ASSUME NEW w \in Width, NEW x \in Machine(w), NEW i, i.d \in Register, i.s \in Register,
         i.op \in {"add", "adc"}, NEW y \in After(i, x, w),
         NEW k, k = IF i.op = "add" THEN 0 ELSE Num(x.f.c)
  PROVE  /\ y \in Machine(w) /\ \A g \in Register \ {i.d} : y.r[g] = x.r[g]
         /\ x.r[i.d] + x.r[i.s] + k = y.r[i.d] + Num(y.f.c) * Modulus(w)
         /\ y.f.a <=> Aux(x.r[i.d], x.r[i.s], x.r[i.d] + x.r[i.s] + k, w)
         /\ y.f.s <=> y.r[i.d] >= Half(w)
         /\ y.f.o <=> /\ (x.r[i.d] >= Half(w)) # (y.r[i.d] >= Half(w))
                      /\ (x.r[i.s] >= Half(w)) # (y.r[i.d] >= Half(w))
  <1> DEFINE d == x.r[i.d]
             s == x.r[i.s]
             o == AddOf(d, s, d + s + k, x.f, w)
  <1>1. d \in Operand(w) /\ s \in Operand(w) /\ x.f \in Flags /\ x.f.c \in BOOLEAN
    BY MachineIs
  <1>2. k \in {0, 1} /\ d + s + 0 = d + s
    BY <1>1, NumIs, ModulusIs DEF Operand
  <1>3. Source(i, x, w) = s
    BY DEF Source, None, Register
  <1>4. y = Written(i, x, o)
    <2>1. Compute(i, d, s, x.f, w) = o
      <3>1. CASE i.op = "add"
        BY <1>2, <3>1, ComputeIs DEF Add
      <3>2. CASE i.op = "adc"
        BY <3>2, ComputeIs DEF Adc
      <3>3. QED
        BY <3>1, <3>2
    <2>2. QED
      BY <1>3, <2>1 DEF After, TwoOperand, OneOperand, Shifts
  <1> HIDE DEF o, d, s
  <1>5. /\ o.v \in Operand(w) /\ o.f \in Flags
        /\ d + s + k = Num(o.f.c) * Modulus(w) + o.v
        /\ o.f.a <=> Aux(d, s, d + s + k, w)
        /\ o.f.s <=> o.v >= Half(w)
        /\ o.f.o <=> (d >= Half(w)) # (o.v >= Half(w)) /\ (s >= Half(w)) # (o.v >= Half(w))
    BY <1>1, <1>2, AddIs DEF o
  <1>6. /\ y \in Machine(w) /\ y.f = o.f /\ y.r[i.d] = o.v
        /\ \A g \in Register \ {i.d} : y.r[g] = x.r[g]
    BY <1>4, <1>5, WrittenIs
  <1>7. Num(o.f.c) * Modulus(w) \in Int /\ o.v \in Int
    <2>1. o.f.c \in BOOLEAN
      BY <1>5 DEF Flags, Flag
    <2>2. QED
      BY <1>5, <2>1, NumIs, ModulusIs DEF Operand
  <1>8. QED
    BY <1>5, <1>6, <1>7 DEF d, s

LEMMA AfterDifference ==
  ASSUME NEW w \in Width, NEW x \in Machine(w), NEW i, i.d \in Register,
         i.op \in {"sub", "sbb"}, NEW y \in After(i, x, w),
         NEW s \in Operand(w), s = Source(i, x, w),
         NEW k, k = IF i.op = "sub" THEN 0 ELSE Num(x.f.c)
  PROVE  /\ y \in Machine(w) /\ \A g \in Register \ {i.d} : y.r[g] = x.r[g]
         /\ x.r[i.d] - s - k = y.r[i.d] - Num(y.f.c) * Modulus(w)
         /\ y.f.a <=> Aux(x.r[i.d], s, x.r[i.d] - s - k, w)
         /\ y.f.s <=> y.r[i.d] >= Half(w)
         /\ y.f.o <=> /\ (x.r[i.d] >= Half(w)) # (s >= Half(w))
                      /\ (x.r[i.d] >= Half(w)) # (y.r[i.d] >= Half(w))
  <1> DEFINE d == x.r[i.d]
             o == SubOf(d, s, d - s - k, x.f, w)
  <1>1. d \in Operand(w) /\ x.f \in Flags /\ x.f.c \in BOOLEAN
    BY MachineIs
  <1>2. k \in {0, 1} /\ d - s - 0 = d - s
    BY <1>1, NumIs, ModulusIs DEF Operand
  <1>4. y = Written(i, x, o)
    <2>1. Compute(i, d, s, x.f, w) = o
      <3>1. CASE i.op = "sub"
        BY <1>2, <3>1, ComputeIs DEF Sub
      <3>2. CASE i.op = "sbb"
        BY <3>2, ComputeIs DEF Sbb
      <3>3. QED
        BY <3>1, <3>2
    <2>2. QED
      BY <2>1 DEF After, TwoOperand, OneOperand, Shifts
  <1> HIDE DEF o, d
  <1>5. /\ o.v \in Operand(w) /\ o.f \in Flags
        /\ d - s - k = o.v - Num(o.f.c) * Modulus(w)
        /\ o.f.a <=> Aux(d, s, d - s - k, w)
        /\ o.f.s <=> o.v >= Half(w)
        /\ o.f.o <=> (d >= Half(w)) # (s >= Half(w)) /\ (d >= Half(w)) # (o.v >= Half(w))
    BY <1>1, <1>2, SubIs DEF o
  <1>6. /\ y \in Machine(w) /\ y.f = o.f /\ y.r[i.d] = o.v
        /\ \A g \in Register \ {i.d} : y.r[g] = x.r[g]
    BY <1>4, <1>5, WrittenIs
  <1>8. QED
    BY <1>5, <1>6 DEF d

LEMMA AfterInc ==
  ASSUME NEW w \in Width, NEW x \in Machine(w), NEW i, i.d \in Register,
         i.op \in {"inc", "dec"}, NEW y \in After(i, x, w)
  PROVE  /\ y \in Machine(w) /\ y.f.c = x.f.c
         /\ \A g \in Register \ {i.d} : y.r[g] = x.r[g]
  <1> DEFINE d == x.r[i.d]
             o == Compute(i, d, 0, x.f, w)
  <1>1. d \in Operand(w) /\ x.f \in Flags /\ d + 1 \in Int /\ d - 1 \in Int
    BY MachineIs, ModulusIs DEF Operand
  <1>2. y = Written(i, x, o)
    BY DEF After, TwoOperand, OneOperand, Shifts
  <1>3. o.v \in Operand(w) /\ o.f \in Flags /\ o.f.c = x.f.c
    BY <1>1, ComputeIs, IncIs, LowIs
  <1> HIDE DEF o, d
  <1>4. QED
    BY <1>2, <1>3, WrittenIs

LEMMA AfterNeg ==
  ASSUME NEW w \in Width, NEW x \in Machine(w), NEW i, i.d \in Register,
         i.op = "neg", NEW y \in After(i, x, w)
  PROVE  /\ y \in Machine(w) /\ \A g \in Register \ {i.d} : y.r[g] = x.r[g]
         /\ 0 - x.r[i.d] = y.r[i.d] - Num(y.f.c) * Modulus(w)
  <1> DEFINE d == x.r[i.d]
             o == SubOf(0, d, 0 - d - 0, x.f, w)
  <1>1. d \in Operand(w) /\ 0 \in Operand(w) /\ x.f \in Flags /\ 0 - d - 0 = 0 - d
    BY MachineIs, ModulusIs DEF Operand
  <1>2. y = Written(i, x, o)
    BY <1>1, ComputeIs DEF After, TwoOperand, OneOperand, Shifts, Neg
  <1> HIDE DEF o, d
  <1>3. /\ o.v \in Operand(w) /\ o.f \in Flags
        /\ 0 - d - 0 = o.v - Num(o.f.c) * Modulus(w)
    BY <1>1, SubIs DEF o
  <1>4. /\ y \in Machine(w) /\ y.f = o.f /\ y.r[i.d] = o.v
        /\ \A g \in Register \ {i.d} : y.r[g] = x.r[g]
    BY <1>2, <1>3, WrittenIs
  <1>5. QED
    BY <1>1, <1>3, <1>4 DEF d

LEMMA SumAtEnd ==
  ASSUME Position, Followed, Ended(WideAdd)
  PROVE  /\ PairIs(Pair(start) + Source2(start))
         /\ m.f.o = SignedOver(Signed(Pair(start), Double(prog.w))
                                 + Signed(Source2(start), Double(prog.w)), Double(prog.w))
  <1> DEFINE w == prog.w
             M == Modulus(w)
             ww == Double(w)
             R == start.r
  <1>1. /\ Len(WideAdd) = 3 /\ WideAdd[1] = I("add", "A", "B")
        /\ WideAdd[2] = N("inc", "S", 1) /\ WideAdd[3] = I("adc", "D", "C")
    BY DEF WideAdd
  <1>2. /\ w \in Width /\ start \in Machine(w)
        /\ \E x \in After(WideAdd[1], start, w) :
             \E y \in After(WideAdd[2], x, w) : m \in After(WideAdd[3], y, w)
    BY <1>1, ThreeSteps, Zenon
  <1>3. PICK x \in After(I("add", "A", "B"), start, w) :
          \E y \in After(N("inc", "S", 1), x, w) : m \in After(I("adc", "D", "C"), y, w)
    BY <1>1, <1>2
  <1>4. PICK y \in After(N("inc", "S", 1), x, w) : m \in After(I("adc", "D", "C"), y, w)
    BY <1>3
  <1> HIDE DEF w
  <1>5. /\ x \in Machine(w) /\ x.r.D = R.D /\ x.r.C = R.C
        /\ R.A + R.B + 0 = x.r.A + Num(x.f.c) * M
    BY <1>2, AfterSum DEF I, Register
  <1>6. y \in Machine(w) /\ y.f.c = x.f.c /\ y.r.A = x.r.A /\ y.r.D = R.D /\ y.r.C = R.C
    BY <1>2, <1>5, AfterInc DEF N, Register
  <1>7. /\ m \in Machine(w) /\ m.r.A = y.r.A
        /\ y.r.D + y.r.C + Num(y.f.c) = m.r.D + Num(m.f.c) * M
        /\ m.f.s <=> m.r.D >= Half(w)
        /\ m.f.o <=> /\ (y.r.D >= Half(w)) # (m.r.D >= Half(w))
                     /\ (y.r.C >= Half(w)) # (m.r.D >= Half(w))
    BY <1>2, <1>4, <1>6, AfterSum DEF I, Register
  <1> DEFINE k == Num(x.f.c)
             j == Num(m.f.c)
             lo == m.r.A
             hi == m.r.D
  <1>8. /\ R.A \in Operand(w) /\ R.B \in Operand(w) /\ R.C \in Operand(w) /\ R.D \in Operand(w)
        /\ lo \in Operand(w) /\ hi \in Operand(w)
        /\ x.f.c \in BOOLEAN /\ m.f.c \in BOOLEAN /\ m.f.s \in BOOLEAN /\ m.f.o \in BOOLEAN
        /\ k \in {0, 1} /\ j \in {0, 1} /\ (m.f.c <=> j = 1)
    <2>1. m.f \in Flags
      BY <1>2, <1>7, MachineIs
    <2>2. x.f.c \in BOOLEAN /\ m.f.c \in BOOLEAN /\ m.f.s \in BOOLEAN /\ m.f.o \in BOOLEAN
      BY <1>2, <1>5, <2>1, MachineIs DEF Flags, Flag
    <2>3. QED
      BY <1>2, <1>7, <2>2, MachineIs, NumIs
  <1>9. /\ R.A + R.B = lo + k * M /\ R.D + R.C + k = hi + j * M
        /\ m.f.s <=> hi >= Half(w)
        /\ m.f.o <=> (R.D >= Half(w)) # (hi >= Half(w)) /\ (R.C >= Half(w)) # (hi >= Half(w))
    <2>1. R.A + R.B + 0 = R.A + R.B
      BY <1>2, <1>8, ModulusIs DEF Operand
    <2>2. QED
      BY <1>5, <1>6, <1>7, <2>1
  <1> DEFINE p == R.D * M + R.A
             q == R.C * M + R.B
             z == hi * M + lo
  <1>10. Pair(start) = p /\ Source2(start) = q /\ Pair(m) = z
    BY DEF Pair, Source2, w
  <1> HIDE DEF k, j, lo, hi, R
  <1>11. p + q = j * (M * M) + z
    <2>1. /\ M \in {16, 256, 65536} /\ R.A \in Int /\ R.B \in Int /\ R.C \in Int /\ R.D \in Int
          /\ lo \in Int /\ hi \in Int
      BY <1>2, <1>8, ModulusIs DEF Operand
    <2> HIDE DEF M
    <2>2. LowSum(M, R.A, R.B, lo, k) /\ HighSum(M, R.D, R.C, k, hi, j)
      BY <1>9 DEF LowSum, HighSum
    <2>3. PairSum(M, R.D, R.A, R.C, R.B, hi, lo, j)
      <3>1. M \in Moduli /\ k \in Bits /\ j \in Bits
        BY <1>8, <2>1 DEF Moduli, Bits
      <3>2. QED
        BY <2>1, <2>2, <3>1, SumByWord
    <2>4. QED
      BY <2>3, Zenon DEF PairSum
  <1>12. /\ p \in Int /\ q \in Int /\ z \in Int /\ 0 <= p /\ 0 <= q /\ 0 <= z
         /\ p < M * M /\ q < M * M /\ z < M * M
         /\ (R.D >= Half(w) <=> p >= Half(w) * M) /\ (R.C >= Half(w) <=> q >= Half(w) * M)
         /\ (hi >= Half(w) <=> z >= Half(w) * M)
         /\ M * M \in Nat /\ Half(w) * M \in Nat /\ M * M = 2 * (Half(w) * M)
    BY <1>2, <1>8, PairRange
  <1>13. /\ Low(p + q, ww) = z
         /\ Exceeds(p + q, ww) = (j # 0)
         /\ Sign(p + q, ww) = (hi >= Half(w))
    BY <1>2, <1>8, <1>11, <1>12, PairOf
  <1>14. /\ Signed(p, ww) = IF p >= Half(w) * M THEN p - M * M ELSE p
         /\ Signed(q, ww) = IF q >= Half(w) * M THEN q - M * M ELSE q
    BY <1>2, <1>8, SignedPair
  <1> DEFINE sp == Signed(p, ww)
             sq == Signed(q, ww)
             M2 == M * M
             H2 == Half(w) * M
  <1>15. m.f.o <=> SignedOver(sp + sq, ww)
    <2>1. /\ p \in Nat /\ q \in Nat /\ z \in Nat /\ p < M2 /\ q < M2 /\ z < M2
          /\ M2 \in Nat /\ H2 \in Nat /\ M2 = 2 * H2 /\ p + q = j * M2 + z
          /\ sp = IF p >= H2 THEN p - M2 ELSE p
          /\ sq = IF q >= H2 THEN q - M2 ELSE q
      BY <1>11, <1>12, <1>14
    <2>2. sp \in Int /\ sq \in Int
      BY <2>1
    <2> HIDE DEF p, q, z, sp, sq, M2, H2
    <2>3. sp + sq < -H2 \/ sp + sq >= H2
            <=> (p >= H2) # (z >= H2) /\ (q >= H2) # (z >= H2)
      BY <1>8, <2>1, <2>2, SignsTell
    <2>4. SignedOver(sp + sq, ww) <=> sp + sq < -H2 \/ sp + sq >= H2
      BY <1>2, <2>2, SignedOverPair DEF H2
    <2>5. /\ (R.D >= Half(w)) = (p >= H2) /\ (R.C >= Half(w)) = (q >= H2)
          /\ (hi >= Half(w)) = (z >= H2)
      BY <1>12 DEF p, q, z, H2
    <2>6. QED
      BY <1>9, <2>3, <2>4, <2>5
  <1>16. m.f.o = SignedOver(sp + sq, ww)
    BY <1>8, <1>15 DEF SignedOver
  <1>17. PairIs(p + q)
    <2>1. m.f.c = Exceeds(p + q, ww) /\ m.f.s = Sign(p + q, ww)
      BY <1>8, <1>9, <1>13
    <2>2. QED
      BY <1>10, <1>13, <2>1 DEF PairIs, w
  <1>18. QED
    BY <1>10, <1>16, <1>17 DEF w

LEMMA DifferenceAtEnd ==
  ASSUME Position, Followed, Ended(WideSub)
  PROVE  /\ PairIs(Pair(start) - Source2(start))
         /\ m.f.o = SignedOver(Signed(Pair(start), Double(prog.w))
                                 - Signed(Source2(start), Double(prog.w)), Double(prog.w))
  <1> DEFINE w == prog.w
             M == Modulus(w)
             ww == Double(w)
             R == start.r
  <1>1. /\ Len(WideSub) = 3 /\ WideSub[1] = I("sub", "A", "B")
        /\ WideSub[2] = N("dec", "S", 1) /\ WideSub[3] = I("sbb", "D", "C")
    BY DEF WideSub
  <1>2. /\ w \in Width /\ start \in Machine(w)
        /\ \E x \in After(WideSub[1], start, w) :
             \E y \in After(WideSub[2], x, w) : m \in After(WideSub[3], y, w)
    BY <1>1, ThreeSteps, Zenon
  <1>3. PICK x \in After(I("sub", "A", "B"), start, w) :
          \E y \in After(N("dec", "S", 1), x, w) : m \in After(I("sbb", "D", "C"), y, w)
    BY <1>1, <1>2
  <1>4. PICK y \in After(N("dec", "S", 1), x, w) : m \in After(I("sbb", "D", "C"), y, w)
    BY <1>3
  <1> HIDE DEF w
  <1>5. /\ x \in Machine(w) /\ x.r.D = R.D /\ x.r.C = R.C
        /\ R.A - R.B - 0 = x.r.A - Num(x.f.c) * M
    <2>1. Source(I("sub", "A", "B"), start, w) = R.B /\ R.B \in Operand(w)
      BY <1>2, MachineIs DEF Source, I, None
    <2>2. QED
      BY <1>2, <2>1, AfterDifference DEF I, Register
  <1>6. y \in Machine(w) /\ y.f.c = x.f.c /\ y.r.A = x.r.A /\ y.r.D = R.D /\ y.r.C = R.C
    BY <1>2, <1>5, AfterInc DEF N, Register
  <1>7. /\ m \in Machine(w) /\ m.r.A = y.r.A
        /\ y.r.D - y.r.C - Num(y.f.c) = m.r.D - Num(m.f.c) * M
        /\ m.f.s <=> m.r.D >= Half(w)
        /\ m.f.o <=> /\ (y.r.D >= Half(w)) # (y.r.C >= Half(w))
                     /\ (y.r.D >= Half(w)) # (m.r.D >= Half(w))
    <2>1. Source(I("sbb", "D", "C"), y, w) = y.r.C /\ y.r.C \in Operand(w)
      BY <1>2, <1>6, MachineIs DEF Source, I, None
    <2>2. QED
      BY <1>2, <1>4, <1>6, <2>1, AfterDifference DEF I, Register
  <1> DEFINE k == Num(x.f.c)
             j == Num(m.f.c)
             lo == m.r.A
             hi == m.r.D
  <1>8. /\ R.A \in Operand(w) /\ R.B \in Operand(w) /\ R.C \in Operand(w) /\ R.D \in Operand(w)
        /\ lo \in Operand(w) /\ hi \in Operand(w)
        /\ x.f.c \in BOOLEAN /\ m.f.c \in BOOLEAN /\ m.f.s \in BOOLEAN /\ m.f.o \in BOOLEAN
        /\ k \in {0, 1} /\ j \in {0, 1} /\ (m.f.c <=> j = 1)
    <2>1. m.f \in Flags
      BY <1>2, <1>7, MachineIs
    <2>2. x.f.c \in BOOLEAN /\ m.f.c \in BOOLEAN /\ m.f.s \in BOOLEAN /\ m.f.o \in BOOLEAN
      BY <1>2, <1>5, <2>1, MachineIs DEF Flags, Flag
    <2>3. QED
      BY <1>2, <1>7, <2>2, MachineIs, NumIs
  <1>9. /\ R.A - R.B = lo - k * M /\ R.D - R.C - k = hi - j * M
        /\ m.f.s <=> hi >= Half(w)
        /\ m.f.o <=> (R.D >= Half(w)) # (R.C >= Half(w)) /\ (R.D >= Half(w)) # (hi >= Half(w))
    <2>1. R.A - R.B - 0 = R.A - R.B
      BY <1>2, <1>8, ModulusIs DEF Operand
    <2>2. QED
      BY <1>5, <1>6, <1>7, <2>1
  <1> DEFINE p == R.D * M + R.A
             q == R.C * M + R.B
             z == hi * M + lo
  <1>10. Pair(start) = p /\ Source2(start) = q /\ Pair(m) = z
    BY DEF Pair, Source2, w
  <1> HIDE DEF k, j, lo, hi, R
  <1>11. p - q = (-j) * (M * M) + z
    <2>1. /\ M \in {16, 256, 65536} /\ R.A \in Int /\ R.B \in Int /\ R.C \in Int /\ R.D \in Int
          /\ lo \in Int /\ hi \in Int
      BY <1>2, <1>8, ModulusIs DEF Operand
    <2> HIDE DEF M
    <2>2. LowDifference(M, R.A, R.B, lo, k) /\ HighDifference(M, R.D, R.C, k, hi, j)
      BY <1>9 DEF LowDifference, HighDifference
    <2>3. PairDifference(M, R.D, R.A, R.C, R.B, hi, lo, j)
      <3>1. M \in Moduli /\ k \in Bits /\ j \in Bits
        BY <1>8, <2>1 DEF Moduli, Bits
      <3>2. QED
        BY <2>1, <2>2, <3>1, DifferenceByWord
    <2>4. QED
      BY <2>3, Zenon DEF PairDifference
  <1>12. /\ p \in Int /\ q \in Int /\ z \in Int /\ 0 <= p /\ 0 <= q /\ 0 <= z
         /\ p < M * M /\ q < M * M /\ z < M * M
         /\ (R.D >= Half(w) <=> p >= Half(w) * M) /\ (R.C >= Half(w) <=> q >= Half(w) * M)
         /\ (hi >= Half(w) <=> z >= Half(w) * M)
         /\ M * M \in Nat /\ Half(w) * M \in Nat /\ M * M = 2 * (Half(w) * M)
    BY <1>2, <1>8, PairRange
  <1>13. /\ Low(p - q, ww) = z
         /\ Exceeds(p - q, ww) = (j # 0)
         /\ Sign(p - q, ww) = (hi >= Half(w))
    BY <1>2, <1>8, <1>11, <1>12, PairOf
  <1>14. /\ Signed(p, ww) = IF p >= Half(w) * M THEN p - M * M ELSE p
         /\ Signed(q, ww) = IF q >= Half(w) * M THEN q - M * M ELSE q
    BY <1>2, <1>8, SignedPair
  <1> DEFINE sp == Signed(p, ww)
             sq == Signed(q, ww)
             M2 == M * M
             H2 == Half(w) * M
  <1>15. m.f.o <=> SignedOver(sp - sq, ww)
    <2>7. p - q = z - j * M2
      <3>1. CASE j = 0
        BY <1>11, <1>12, <3>1
      <3>2. CASE j = 1
        BY <1>11, <1>12, <3>2
      <3>3. QED
        BY <1>8, <3>1, <3>2
    <2>1. /\ p \in Nat /\ q \in Nat /\ z \in Nat /\ p < M2 /\ q < M2 /\ z < M2
          /\ M2 \in Nat /\ H2 \in Nat /\ M2 = 2 * H2 /\ p - q = z - j * M2
          /\ sp = IF p >= H2 THEN p - M2 ELSE p
          /\ sq = IF q >= H2 THEN q - M2 ELSE q
      BY <1>12, <1>14, <2>7
    <2>2. sp \in Int /\ sq \in Int
      BY <2>1
    <2> HIDE DEF p, q, z, sp, sq, M2, H2
    <2>3. sp - sq < -H2 \/ sp - sq >= H2
            <=> (p >= H2) # (q >= H2) /\ (p >= H2) # (z >= H2)
      BY <1>8, <2>1, <2>2, SignsTell
    <2>4. SignedOver(sp - sq, ww) <=> sp - sq < -H2 \/ sp - sq >= H2
      BY <1>2, <2>2, SignedOverPair DEF H2
    <2>5. /\ (R.D >= Half(w)) = (p >= H2) /\ (R.C >= Half(w)) = (q >= H2)
          /\ (hi >= Half(w)) = (z >= H2)
      BY <1>12 DEF p, q, z, H2
    <2>6. QED
      BY <1>9, <2>3, <2>4, <2>5
  <1>16. m.f.o = SignedOver(sp - sq, ww)
    BY <1>8, <1>15 DEF SignedOver
  <1>17. PairIs(p - q)
    <2>1. m.f.c = Exceeds(p - q, ww) /\ m.f.s = Sign(p - q, ww)
      BY <1>8, <1>9, <1>13
    <2>2. QED
      BY <1>10, <1>13, <2>1 DEF PairIs, w
  <1>18. QED
    BY <1>10, <1>16, <1>17 DEF w

LEMMA ZeroIs ==
  ASSUME NEW w \in Width
  PROVE  Immediate(0, w) = 0 /\ 0 \in Operand(w)
  <1>1. 2^3 = 8 /\ 2^7 = 128
    OBVIOUS
  <1>2. 2^(w.byte - 1) = 8 \/ 2^(w.byte - 1) = 128
    <2>1. CASE w.byte = 4
      BY <1>1, <2>1
    <2>2. CASE w.byte = 8
      BY <1>1, <2>2
    <2>3. QED
      BY <2>1, <2>2, WidthIs
  <1>3. ~(0 >= 2^(w.byte - 1))
    BY <1>2
  <1>4. QED
    BY <1>3, ModulusIs DEF Immediate, Operand

(* The negation of two words: that of the upper one, that of the lower one, *)
(* and the borrow of the lower taken from the upper.                       *)
NegatedWords(M, d, a, hi, lo, e, j, k, l) ==
  /\ 0 <= a /\ 0 <= d /\ 0 <= lo /\ 0 <= hi /\ a < M /\ d < M /\ lo < M /\ hi < M
  /\ 0 - a = lo - j * M /\ 0 - d = e - k * M /\ e - j = hi - l * M

NegatedPair(M, d, a, hi, lo, k, l) ==
  /\ k + l = 0 \/ k + l = 1
  /\ 0 - (d * M + a) = (0 - (k + l)) * (M * M) + (hi * M + lo)

LEMMA NegationByWord ==
  ASSUME NEW M \in Moduli,
         NEW a \in Int, NEW d \in Int, NEW lo \in Int, NEW hi \in Int, NEW e \in Int,
         NEW j \in Bits, NEW k \in Bits, NEW l \in Bits,
         NegatedWords(M, d, a, hi, lo, e, j, k, l)
  PROVE  NegatedPair(M, d, a, hi, lo, k, l)
  <1> USE DEF NegatedWords, NegatedPair, Moduli, Bits
  <1>1. CASE M = 16
    BY <1>1
  <1>2. CASE M = 256
    BY <1>2
  <1>3. CASE M = 65536
    BY <1>3
  <1>4. QED
    BY <1>1, <1>2, <1>3

LEMMA NegationAtEnd ==
  ASSUME Position, Followed, Ended(WideNeg)
  PROVE  Pair(m) = Low(0 - Pair(start), Double(prog.w))
  <1> DEFINE w == prog.w
             M == Modulus(w)
             R == start.r
  <1>1. /\ Len(WideNeg) = 3 /\ WideNeg[1] = N("neg", "D", 0)
        /\ WideNeg[2] = N("neg", "A", 0) /\ WideNeg[3] = N("sbb", "D", 0)
    BY DEF WideNeg
  <1>2. /\ w \in Width /\ start \in Machine(w)
        /\ \E x \in After(WideNeg[1], start, w) :
             \E y \in After(WideNeg[2], x, w) : m \in After(WideNeg[3], y, w)
    BY <1>1, ThreeSteps, Zenon
  <1>3. PICK x \in After(N("neg", "D", 0), start, w) :
          \E y \in After(N("neg", "A", 0), x, w) : m \in After(N("sbb", "D", 0), y, w)
    BY <1>1, <1>2
  <1>4. PICK y \in After(N("neg", "A", 0), x, w) : m \in After(N("sbb", "D", 0), y, w)
    BY <1>3
  <1> HIDE DEF w
  <1>5. /\ x \in Machine(w) /\ x.r.A = R.A /\ 0 - R.D = x.r.D - Num(x.f.c) * M
    BY <1>2, AfterNeg DEF N, Register
  <1>6. y \in Machine(w) /\ y.r.D = x.r.D /\ 0 - R.A = y.r.A - Num(y.f.c) * M
    BY <1>2, <1>5, AfterNeg DEF N, Register
  <1>7. /\ m \in Machine(w) /\ m.r.A = y.r.A
        /\ y.r.D - 0 - Num(y.f.c) = m.r.D - Num(m.f.c) * M
    <2>1. Source(N("sbb", "D", 0), y, w) = 0 /\ 0 \in Operand(w)
      BY <1>2, ZeroIs DEF Source, N, None
    <2>2. PICK z \in Operand(w) : z = 0
      BY <2>1
    <2>3. y.r.D - z - Num(y.f.c) = m.r.D - Num(m.f.c) * M
          /\ m \in Machine(w) /\ m.r.A = y.r.A
      BY <1>2, <1>4, <1>6, <2>1, <2>2, AfterDifference DEF N, Register
    <2>4. QED
      BY <2>2, <2>3
  <1> DEFINE k == Num(x.f.c)
             j == Num(y.f.c)
             l == Num(m.f.c)
             lo == m.r.A
             hi == m.r.D
             e == x.r.D
  <1>8. /\ R.A \in Operand(w) /\ R.D \in Operand(w) /\ e \in Operand(w)
        /\ lo \in Operand(w) /\ hi \in Operand(w)
        /\ k \in {0, 1} /\ j \in {0, 1} /\ l \in {0, 1}
    BY <1>2, <1>5, <1>6, <1>7, MachineIs, NumIs
  <1>9. /\ 0 - R.A = lo - j * M /\ 0 - R.D = e - k * M /\ e - j = hi - l * M
    BY <1>5, <1>6, <1>7, <1>8, ModulusIs DEF Operand
  <1> HIDE DEF k, j, l, lo, hi, e, R
  <1> DEFINE p == R.D * M + R.A
             z == hi * M + lo
  <1>10. \E n \in {-1, 0, 1} : 0 - p = n * (M * M) + z
    <2>1. /\ R.A \in Int /\ R.D \in Int /\ e \in Int /\ lo \in Int /\ hi \in Int
          /\ 0 <= R.A /\ 0 <= R.D /\ 0 <= lo /\ 0 <= hi
          /\ R.A < M /\ R.D < M /\ lo < M /\ hi < M
          /\ M = 16 \/ M = 256 \/ M = 65536
      BY <1>2, <1>8, ModulusIs DEF Operand
    <2> HIDE DEF M
    <2>2. /\ M \in Moduli /\ j \in Bits /\ k \in Bits /\ l \in Bits
          /\ R.A \in Int /\ R.D \in Int /\ e \in Int /\ lo \in Int /\ hi \in Int
      BY <1>8, <2>1 DEF Moduli, Bits
    <2>3. NegatedWords(M, R.D, R.A, hi, lo, e, j, k, l)
      BY <1>9, <2>1 DEF NegatedWords
    <2>4. NegatedPair(M, R.D, R.A, hi, lo, k, l)
      BY <2>2, <2>3, NegationByWord
    <2>5. /\ k + l = 0 \/ k + l = 1
          /\ 0 - p = (0 - (k + l)) * (M * M) + z
      BY <2>4, Zenon DEF NegatedPair
    <2>6. 0 - (k + l) \in {-1, 0, 1}
      BY <1>8, <2>5
    <2>7. QED
      BY <2>5, <2>6
  <1>11. p \in Int
    BY <1>2, <1>8, PairRange
  <1>12. Low(0 - p, Double(w)) = z
    BY <1>2, <1>8, <1>10, <1>11, PairOf
  <1>13. QED
    BY <1>12 DEF Pair, w, R, lo, hi

LEMMA SumsAtEnd == Position /\ Followed => WideSums
  <1> SUFFICES ASSUME Position, Followed PROVE WideSums
    OBVIOUS
  <1>1. Ended(WideAdd) =>
          /\ PairIs(Pair(start) + Source2(start))
          /\ m.f.o = SignedOver(Signed(Pair(start), Double(prog.w))
                                  + Signed(Source2(start), Double(prog.w)), Double(prog.w))
    BY SumAtEnd, Zenon
  <1>2. Ended(WideSub) =>
          /\ PairIs(Pair(start) - Source2(start))
          /\ m.f.o = SignedOver(Signed(Pair(start), Double(prog.w))
                                  - Signed(Source2(start), Double(prog.w)), Double(prog.w))
    BY DifferenceAtEnd, Zenon
  <1>3. Ended(WideNeg) => Pair(m) = Low(0 - Pair(start), Double(prog.w))
    BY NegationAtEnd, Zenon
  <1>4. QED
    BY <1>1, <1>2, <1>3, Zenon DEF WideSums

(* Numbers of two words added, subtracted and negated word by word.        *)
THEOREM SumsOfWords == Spec => []WideSums
  <1>1. Spec => [](Position /\ Followed)
    BY FollowedInit, FollowedStep, PTL DEF Spec
  <1>2. QED
    BY <1>1, SumsAtEnd, PTL

-----------------------------------------------------------------------------
(* Decimal numbers.                                                        *)

LEMMA ByteIs == /\ Byte \in Width /\ Modulus(Byte) = 256 /\ Half(Byte) = 128
                /\ Byte.bits = 8 /\ Byte.byte = 8
  BY DEF Byte, Width, Modulus, Half

LEMMA AuxIs ==
  ASSUME NEW d \in Int, NEW s \in Int, NEW r \in Int
  PROVE  Aux(d, s, r, Byte)
           = ((((d \div 16) % 2) + ((s \div 16) % 2) + ((r \div 16) % 2)) % 2 = 1)
  <1>1. 2^4 = 16 /\ Byte.byte \div 2 = 4
    BY ByteIs
  <1>2. Bit(d, 4) = (d \div 16) % 2 /\ Bit(s, 4) = (s \div 16) % 2 /\ Bit(r, 4) = (r \div 16) % 2
    BY <1>1 DEF Bit
  <1>3. QED
    BY <1>1, <1>2, Zenon DEF Aux

(* The half carry of a sum, and of a difference, is that of the low digits. *)
LEMMA AuxSum ==
  ASSUME NEW d \in Int, NEW s \in Int, NEW r \in Int
  PROVE  /\ 0 <= r - d - s /\ r - d - s <= 1
              => Aux(d, s, r, Byte) = ((d % 16) + (s % 16) + (r - d - s) >= 16)
         /\ 0 <= d - s - r /\ d - s - r <= 1
              => Aux(d, s, r, Byte) = ((d % 16) < (s % 16) + (d - s - r))
  <1> DEFINE g == d \div 16
             h == s \div 16
             l == d % 16
             n == s % 16
             q == r \div 16
  <1>1. /\ g \in Int /\ h \in Int /\ l \in Int /\ n \in Int /\ q \in Int
        /\ 0 <= l /\ l < 16 /\ 0 <= n /\ n < 16 /\ d = 16 * g + l /\ s = 16 * h + n
        /\ 16 * q <= r /\ r < 16 * q + 16
    OBVIOUS
  <1>2. Aux(d, s, r, Byte) = (((g % 2) + (h % 2) + (q % 2)) % 2 = 1)
    BY AuxIs
  <1> HIDE DEF g, h, l, n, q
  <1>3. /\ ((g % 2) + (h % 2) + ((g + h) % 2)) % 2 = 0
        /\ ((g % 2) + (h % 2) + ((g + h + 1) % 2)) % 2 = 1
        /\ ((g % 2) + (h % 2) + ((g - h) % 2)) % 2 = 0
        /\ ((g % 2) + (h % 2) + ((g - h - 1) % 2)) % 2 = 1
    BY <1>1
  <1>4. ASSUME 0 <= r - d - s, r - d - s <= 1
        PROVE  Aux(d, s, r, Byte) = (l + n + (r - d - s) >= 16)
    <2>1. q = IF l + n + (r - d - s) >= 16 THEN g + h + 1 ELSE g + h
      BY <1>1, <1>4
    <2>2. QED
      BY <1>2, <1>3, <2>1
  <1>5. ASSUME 0 <= d - s - r, d - s - r <= 1
        PROVE  Aux(d, s, r, Byte) = (l < n + (d - s - r))
    <2>1. q = IF l < n + (d - s - r) THEN g - h - 1 ELSE g - h
      BY <1>1, <1>5
    <2>2. QED
      BY <1>2, <1>3, <2>1
  <1>6. QED
    BY <1>4, <1>5 DEF l, n

(* Adjusting the sum s = 16 * H + L of packed digits, of which a byte and a *)
(* carry are kept.                                                         *)
SumToAdjust(H, L, s, al, low, v, u) ==
  /\ 0 <= H /\ H <= 18 /\ 0 <= L /\ L <= 19 /\ s = 16 * H + L
  /\ al = IF s >= 256 THEN s - 256 ELSE s
  /\ low = IF L > 9 THEN (al + 6) % 256 ELSE al
  /\ v = IF al > 153 \/ s >= 256 THEN (low + 96) % 256 ELSE low
  /\ u = IF L > 9 THEN H + 1 ELSE H

SumIsAdjusted(L, s, al, v, u) ==
  /\ al % 16 > 9 \/ L >= 16 <=> L > 9
  /\ al > 153 \/ s >= 256 \/ (L > 9 /\ (al + 6) % 256 < al) <=> u > 9
  /\ v = 16 * (IF u > 9 THEN u - 10 ELSE u) + (IF L > 9 THEN L - 10 ELSE L)

LEMMA SumAdjusted ==
  ASSUME NEW H \in Int, NEW L \in Int, NEW s \in Int, NEW al \in Int, NEW low \in Int,
         NEW v \in Int, NEW u \in Int, SumToAdjust(H, L, s, al, low, v, u)
  PROVE  SumIsAdjusted(L, s, al, v, u)
  <1> USE DEF SumToAdjust, SumIsAdjusted
  <1>1. al % 16 > 9 \/ L >= 16 <=> L > 9
    OBVIOUS
  <1>2. CASE L <= 9
    BY <1>2
  <1>3. CASE L > 9 /\ H < 9
    BY <1>3
  <1>4. CASE L > 9 /\ H >= 9
    BY <1>4
  <1>5. QED
    BY <1>1, <1>2, <1>3, <1>4

DifferenceToAdjust(H, L, s, al, low, v, u) ==
  /\ -9 <= H /\ H <= 9 /\ -10 <= L /\ L <= 9 /\ s = 16 * H + L
  /\ al = IF s < 0 THEN s + 256 ELSE s
  /\ low = IF L < 0 THEN (al - 6) % 256 ELSE al
  /\ v = IF al > 153 \/ s < 0 THEN (low - 96) % 256 ELSE low
  /\ u = IF L < 0 THEN H - 1 ELSE H

DifferenceIsAdjusted(L, s, al, v, u) ==
  /\ al % 16 > 9 \/ L < 0 <=> L < 0
  /\ al > 153 \/ s < 0 \/ (L < 0 /\ (al - 6) % 256 > al) <=> u < 0
  /\ v = 16 * (IF u < 0 THEN u + 10 ELSE u) + (IF L < 0 THEN L + 10 ELSE L)

LEMMA DifferenceAdjusted ==
  ASSUME NEW H \in Int, NEW L \in Int, NEW s \in Int, NEW al \in Int, NEW low \in Int,
         NEW v \in Int, NEW u \in Int, DifferenceToAdjust(H, L, s, al, low, v, u)
  PROVE  DifferenceIsAdjusted(L, s, al, v, u)
  <1> USE DEF DifferenceToAdjust, DifferenceIsAdjusted
  <1>1. al % 16 > 9 \/ L < 0 <=> L < 0
    OBVIOUS
  <1>2. CASE L >= 0
    BY <1>2
  <1>3. CASE L < 0 /\ H <= 0
    BY <1>3
  <1>4. CASE L < 0 /\ H > 0
    BY <1>4
  <1>5. QED
    BY <1>1, <1>2, <1>3, <1>4

LEMMA SZPIs ==
  ASSUME NEW f \in Flags, NEW r, NEW w
  PROVE  LET g == SetSZP(f, r, w)
         IN  g \in Flags /\ g.c = f.c /\ g.a = f.a /\ g.o = f.o
  <1>1. Sign(r, w) \in BOOLEAN /\ EvenParity(r, w) \in BOOLEAN
    BY DEF Sign, EvenParity
  <1>2. QED
    BY <1>1 DEF SetSZP, Flags, Flag

(* What DAA and DAS leave.                                                 *)
LEMMA AdjustIs ==
  ASSUME NEW x \in Machine(Byte), NEW sign \in {1, -1}, NEW y, y = Adjust(x, sign)
  PROVE  LET al == x.r.A
             six == (al + sign * 6) % 256
             low == IF LowDigit(x) THEN six ELSE al
             high == al > 153 \/ x.f.c
         IN  /\ y \in Machine(Byte)
             /\ \A g \in Register \ {"A"} : y.r[g] = x.r[g]
             /\ y.r.A = IF high THEN (low + sign * 96) % 256 ELSE low
             /\ y.f.c = (high \/ (LowDigit(x)
                                    /\ IF sign = 1 THEN six < al ELSE six > al))
  <1> DEFINE al == x.r.A
             six == (al + sign * 6) % 256
             low == IF LowDigit(x) THEN six ELSE al
             high == al > 153 \/ x.f.c
             wraps == IF sign = 1 THEN six < al ELSE six > al
             v == IF high THEN (low + sign * 96) % 256 ELSE low
             c == high \/ (LowDigit(x) /\ wraps)
             a == LowDigit(x)
  <1>1. /\ x \in [r : [Register -> Operand(Byte)], f : Flags, out : {"ok"}]
        /\ Machine(Byte) = [r : [Register -> Operand(Byte)], f : Flags, out : {"ok"}]
    BY DEF Machine, Operand, Flags
  <1>2. al \in Operand(Byte) /\ x.f.c \in BOOLEAN /\ x.f.a \in BOOLEAN
    BY <1>1 DEF Register, Flags, Flag
  <1>3. a \in BOOLEAN
    BY <1>2 DEF LowDigit
  <1>4. c \in BOOLEAN /\ v \in Operand(Byte)
    <2>1. six \in Operand(Byte) /\ al \in Int /\ Modulus(Byte) = 256
      BY <1>2, ByteIs DEF Operand
    <2>2. low \in Operand(Byte) /\ low \in Int
      BY <1>2, <1>3, <2>1 DEF Operand
    <2> HIDE DEF low, six
    <2>3. v \in Operand(Byte)
      BY <2>1, <2>2 DEF Operand
    <2>4. QED
      BY <2>3
  <1>5. y = SetAL([x EXCEPT !.f.a = a, !.f.c = c], v)
    BY Zenon DEF Adjust
  <1> HIDE DEF v, c, a, high, low, six, wraps, al
  <1> DEFINE z == [x EXCEPT !.f.a = a, !.f.c = c]
  <1>6. /\ z \in [r : [Register -> Operand(Byte)], f : Flags, out : {"ok"}]
        /\ z.r = x.r /\ z.f.c = c /\ z.f \in Flags
    BY <1>1, <1>3, <1>4 DEF Flags, Flag
  <1>7. y = [z EXCEPT !.r.A = v, !.f = SetSZP(z.f, v, Byte)]
    BY <1>5, Zenon DEF SetAL
  <1> HIDE DEF z
  <1> DEFINE f == SetSZP(z.f, v, Byte)
  <1>8. f \in Flags /\ f.c = c
    BY <1>6, SZPIs
  <1> HIDE DEF f
  <1>9. /\ y \in Machine(Byte) /\ y.r.A = v /\ y.f.c = c
        /\ \A g \in Register \ {"A"} : y.r[g] = x.r[g]
    <2>1. z \in [r : [Register -> Operand(Byte)], f : Flags, out : {"ok"}]
      BY <1>1, <1>6
    <2>2. y = [z EXCEPT !.r.A = v, !.f = f]
      BY <1>7 DEF f
    <2>4. y.f = f /\ y.r = [z.r EXCEPT !.A = v]
      BY <2>1, <2>2
    <2>6. [z.r EXCEPT !.A = v] \in [Register -> Operand(Byte)]
      BY <1>4, <2>1
    <2>3. y \in [r : [Register -> Operand(Byte)], f : Flags, out : {"ok"}]
      BY <1>8, <2>1, <2>2, <2>4, <2>6
    <2>5. QED
      BY <1>1, <1>6, <1>8, <2>1, <2>3, <2>4 DEF Register
  <1>10. QED
    BY <1>9 DEF v, c, a, high, low, six, wraps, al

\* the number two packed digits stand for
Value(b) == 10 * (b \div 16) + (b % 16)

LEMMA PackedIs ==
  ASSUME NEW h \in Int, NEW l \in Int, 0 <= h, h <= 9, 0 <= l, l <= 9
  PROVE  /\ 16 * h + l \in PackedByte
         /\ (16 * h + l) \div 16 = h /\ (16 * h + l) % 16 = l
         /\ Value(16 * h + l) = 10 * h + l
  <1>1. h \in 0..9 /\ l \in 0..9
    OBVIOUS
  <1>2. 16 * h + l \in PackedByte
    BY <1>1 DEF PackedByte
  <1>3. (16 * h + l) \div 16 = h /\ (16 * h + l) % 16 = l
    OBVIOUS
  <1>4. QED
    BY <1>2, <1>3, Zenon DEF Value

(* DAA after the sum, and DAS after the difference, of two packed bytes.   *)
LEMMA DaaIs ==
  ASSUME NEW x \in Machine(Byte), NEW a \in PackedByte, NEW b \in PackedByte, NEW k \in {0, 1},
         a + b + k = x.r.A + Num(x.f.c) * Modulus(Byte),
         x.f.a <=> Aux(a, b, a + b + k, Byte),
         NEW y, y = Adjust(x, 1)
  PROVE  /\ y \in Machine(Byte) /\ \A g \in Register \ {"A"} : y.r[g] = x.r[g]
         /\ y.r.A \in PackedByte
         /\ Value(a) + Value(b) + k = Value(y.r.A) + 100 * Num(y.f.c)
  <1>1. PICK g \in 0..9, l \in 0..9 : a = 16 * g + l
    BY DEF PackedByte
  <1>2. PICK h \in 0..9, n \in 0..9 : b = 16 * h + n
    BY DEF PackedByte
  <1> DEFINE H == g + h
             L == l + n + k
             al == x.r.A
             S == 16 * H + L
             u == IF L > 9 THEN H + 1 ELSE H
             low == IF L > 9 THEN (al + 6) % 256 ELSE al
             v == IF al > 153 \/ S >= 256 THEN (low + 96) % 256 ELSE low
  <1>3. /\ H \in Int /\ L \in Int /\ 0 <= H /\ H <= 18 /\ 0 <= L /\ L <= 19
        /\ g \in Int /\ h \in Int /\ l \in Int /\ n \in Int
        /\ 0 <= l /\ l <= 9 /\ 0 <= n /\ n <= 9 /\ 0 <= g /\ g <= 9 /\ 0 <= h /\ h <= 9
        /\ a + b + k = S
    BY <1>1, <1>2
  <1>4. /\ al \in Int /\ 0 <= al /\ al < 256 /\ x.f.c \in BOOLEAN /\ x.f.a \in BOOLEAN
        /\ Num(x.f.c) \in {0, 1} /\ (x.f.c <=> Num(x.f.c) = 1)
    <2>1. x.f \in Flags /\ x.f.c \in BOOLEAN /\ al \in Operand(Byte)
      BY ByteIs, MachineIs
    <2>2. QED
      BY <2>1, ByteIs, NumIs DEF Operand, Flags, Flag
  <1>5. al + Num(x.f.c) * 256 = S
    BY <1>3, ByteIs
  <1>6. /\ al = IF S >= 256 THEN S - 256 ELSE S
        /\ x.f.c <=> S >= 256
    BY <1>3, <1>4, <1>5
  <1>7. x.f.a <=> L >= 16
    <2> DEFINE r == a + b + k
    <2>1. /\ a \in Int /\ b \in Int /\ r \in Int /\ r - a - b = k /\ 0 <= k /\ k <= 1
          /\ a % 16 = l /\ b % 16 = n
      BY <1>1, <1>2, <1>3
    <2> HIDE DEF r
    <2>2. Aux(a, b, r, Byte) = ((a % 16) + (b % 16) + (r - a - b) >= 16)
      BY <2>1, AuxSum
    <2>3. Aux(a, b, a + b + k, Byte) = (l + n + k >= 16)
      BY <2>1, <2>2 DEF r
    <2>4. QED
      BY <1>4, <2>3
  <1>8. u \in Int /\ low \in Int /\ v \in Int /\ S \in Int
    BY <1>3, <1>4
  <1>9. /\ al % 16 > 9 \/ L >= 16 <=> L > 9
        /\ al > 153 \/ S >= 256 \/ (L > 9 /\ (al + 6) % 256 < al) <=> u > 9
        /\ v = 16 * (IF u > 9 THEN u - 10 ELSE u) + (IF L > 9 THEN L - 10 ELSE L)
    <2>1. SumToAdjust(H, L, S, al, low, v, u)
      BY <1>3, <1>6 DEF SumToAdjust
    <2> HIDE DEF H, L, S, al, low, v, u
    <2>2. SumIsAdjusted(L, S, al, v, u)
      <3>1. /\ H \in Int /\ L \in Int /\ S \in Int /\ al \in Int /\ low \in Int
            /\ v \in Int /\ u \in Int
        BY <1>3, <1>4, <1>8
      <3>2. QED
        BY <2>1, <3>1, SumAdjusted
    <2>3. QED
      BY <2>2, Zenon DEF SumIsAdjusted
  <1>10. LowDigit(x) <=> L > 9
    BY <1>7, <1>9 DEF LowDigit
  <1> DEFINE six == (al + 1 * 6) % 256
             low2 == IF LowDigit(x) THEN six ELSE al
             high == al > 153 \/ x.f.c
  <1>11. /\ y \in Machine(Byte) /\ \A e \in Register \ {"A"} : y.r[e] = x.r[e]
         /\ y.r.A = IF high THEN (low2 + 1 * 96) % 256 ELSE low2
         /\ y.f.c = (high \/ (LowDigit(x) /\ IF 1 = 1 THEN six < al ELSE six > al))
    BY AdjustIs
  <1>12. y.r.A = v /\ (y.f.c <=> u > 9)
    <2>1. six = (al + 6) % 256 /\ low2 = low /\ (high <=> al > 153 \/ S >= 256)
      BY <1>4, <1>6, <1>10
    <2>2. low \in Int /\ 1 * 96 = 96
      BY <1>8
    <2> HIDE DEF six, low, low2, high, S, u
    <2>3. y.r.A = IF al > 153 \/ S >= 256 THEN (low + 96) % 256 ELSE low
      BY <1>11, <2>1, <2>2
    <2>4. y.f.c <=> al > 153 \/ S >= 256 \/ (L > 9 /\ (al + 6) % 256 < al)
      BY <1>10, <1>11, <2>1
    <2>5. QED
      BY <1>9, <2>3, <2>4
  <1> DEFINE h2 == IF u > 9 THEN u - 10 ELSE u
             l2 == IF L > 9 THEN L - 10 ELSE L
  <1>13. /\ h2 \in Int /\ l2 \in Int /\ 0 <= h2 /\ h2 <= 9 /\ 0 <= l2 /\ l2 <= 9
         /\ 10 * H + L = 10 * h2 + l2 + 100 * (IF u > 9 THEN 1 ELSE 0)
    BY <1>3
  <1>14. y.r.A = 16 * h2 + l2
    BY <1>9, <1>12
  <1>15. Num(y.f.c) = IF u > 9 THEN 1 ELSE 0
    BY <1>12, Zenon DEF Num
  <1> HIDE DEF h2, l2, u, v, al, low
  <1>16. 16 * h2 + l2 \in PackedByte /\ Value(16 * h2 + l2) = 10 * h2 + l2
    BY <1>13, PackedIs
  <1>17. Value(a) = 10 * g + l /\ Value(b) = 10 * h + n
    BY <1>1, <1>2, <1>3, PackedIs
  <1>18. Value(a) + Value(b) + k = Value(y.r.A) + 100 * Num(y.f.c)
    BY <1>3, <1>13, <1>14, <1>15, <1>16, <1>17
  <1>19. QED
    BY <1>11, <1>14, <1>16, <1>18

LEMMA DasIs ==
  ASSUME NEW x \in Machine(Byte), NEW a \in PackedByte, NEW b \in PackedByte, NEW k \in {0, 1},
         a - b - k = x.r.A - Num(x.f.c) * Modulus(Byte),
         x.f.a <=> Aux(a, b, a - b - k, Byte),
         NEW y, y = Adjust(x, -1)
  PROVE  /\ y \in Machine(Byte) /\ \A g \in Register \ {"A"} : y.r[g] = x.r[g]
         /\ y.r.A \in PackedByte
         /\ Value(a) - Value(b) - k = Value(y.r.A) - 100 * Num(y.f.c)
  <1>1. PICK g \in 0..9, l \in 0..9 : a = 16 * g + l
    BY DEF PackedByte
  <1>2. PICK h \in 0..9, n \in 0..9 : b = 16 * h + n
    BY DEF PackedByte
  <1> DEFINE H == g - h
             L == l - n - k
             al == x.r.A
             S == 16 * H + L
             u == IF L < 0 THEN H - 1 ELSE H
             low == IF L < 0 THEN (al - 6) % 256 ELSE al
             v == IF al > 153 \/ S < 0 THEN (low - 96) % 256 ELSE low
  <1>3. /\ H \in Int /\ L \in Int /\ -9 <= H /\ H <= 9 /\ -10 <= L /\ L <= 9
        /\ g \in Int /\ h \in Int /\ l \in Int /\ n \in Int
        /\ 0 <= l /\ l <= 9 /\ 0 <= n /\ n <= 9 /\ 0 <= g /\ g <= 9 /\ 0 <= h /\ h <= 9
        /\ a - b - k = S
    BY <1>1, <1>2
  <1>4. /\ al \in Int /\ 0 <= al /\ al < 256 /\ x.f.c \in BOOLEAN /\ x.f.a \in BOOLEAN
        /\ Num(x.f.c) \in {0, 1} /\ (x.f.c <=> Num(x.f.c) = 1)
    <2>1. x.f \in Flags /\ x.f.c \in BOOLEAN /\ al \in Operand(Byte)
      BY ByteIs, MachineIs
    <2>2. QED
      BY <2>1, ByteIs, NumIs DEF Operand, Flags, Flag
  <1>5. al - Num(x.f.c) * 256 = S
    BY <1>3, ByteIs
  <1>6. /\ al = IF S < 0 THEN S + 256 ELSE S
        /\ x.f.c <=> S < 0
    BY <1>3, <1>4, <1>5
  <1>7. x.f.a <=> L < 0
    <2> DEFINE r == a - b - k
    <2>1. /\ a \in Int /\ b \in Int /\ r \in Int /\ a - b - r = k /\ 0 <= k /\ k <= 1
          /\ a % 16 = l /\ b % 16 = n
      BY <1>1, <1>2, <1>3
    <2> HIDE DEF r
    <2>2. Aux(a, b, r, Byte) = ((a % 16) < (b % 16) + (a - b - r))
      BY <2>1, AuxSum
    <2>3. Aux(a, b, a - b - k, Byte) = (l - n - k < 0)
      BY <2>1, <2>2 DEF r
    <2>4. QED
      BY <1>4, <2>3
  <1>8. u \in Int /\ low \in Int /\ v \in Int /\ S \in Int
    BY <1>3, <1>4
  <1>9. /\ al % 16 > 9 \/ L < 0 <=> L < 0
        /\ al > 153 \/ S < 0 \/ (L < 0 /\ (al - 6) % 256 > al) <=> u < 0
        /\ v = 16 * (IF u < 0 THEN u + 10 ELSE u) + (IF L < 0 THEN L + 10 ELSE L)
    <2>1. DifferenceToAdjust(H, L, S, al, low, v, u)
      BY <1>3, <1>6 DEF DifferenceToAdjust
    <2> HIDE DEF H, L, S, al, low, v, u
    <2>2. DifferenceIsAdjusted(L, S, al, v, u)
      <3>1. /\ H \in Int /\ L \in Int /\ S \in Int /\ al \in Int /\ low \in Int
            /\ v \in Int /\ u \in Int
        BY <1>3, <1>4, <1>8
      <3>2. QED
        BY <2>1, <3>1, DifferenceAdjusted
    <2>3. QED
      BY <2>2, Zenon DEF DifferenceIsAdjusted
  <1>10. LowDigit(x) <=> L < 0
    BY <1>7, <1>9 DEF LowDigit
  <1> DEFINE six == (al + (-1) * 6) % 256
             low2 == IF LowDigit(x) THEN six ELSE al
             high == al > 153 \/ x.f.c
  <1>11. /\ y \in Machine(Byte) /\ \A e \in Register \ {"A"} : y.r[e] = x.r[e]
         /\ y.r.A = IF high THEN (low2 + (-1) * 96) % 256 ELSE low2
         /\ y.f.c = (high \/ (LowDigit(x) /\ IF -1 = 1 THEN six < al ELSE six > al))
    BY AdjustIs
  <1>12. y.r.A = v /\ (y.f.c <=> u < 0)
    <2>1. six = (al - 6) % 256 /\ low2 = low /\ (high <=> al > 153 \/ S < 0)
      BY <1>4, <1>6, <1>10
    <2>2. low \in Int /\ (-1) * 96 = -96
      BY <1>8
    <2> HIDE DEF six, low, low2, high, S, u
    <2>3. y.r.A = IF al > 153 \/ S < 0 THEN (low - 96) % 256 ELSE low
      BY <1>11, <2>1, <2>2
    <2>6. y.f.c = (high \/ (LowDigit(x) /\ six > al))
      BY <1>11
    <2>4. y.f.c <=> al > 153 \/ S < 0 \/ (L < 0 /\ (al - 6) % 256 > al)
      BY <1>10, <2>1, <2>6
    <2>5. QED
      BY <1>9, <2>3, <2>4
  <1> DEFINE h2 == IF u < 0 THEN u + 10 ELSE u
             l2 == IF L < 0 THEN L + 10 ELSE L
  <1>13. /\ h2 \in Int /\ l2 \in Int /\ 0 <= h2 /\ h2 <= 9 /\ 0 <= l2 /\ l2 <= 9
         /\ 10 * H + L = 10 * h2 + l2 - 100 * (IF u < 0 THEN 1 ELSE 0)
    BY <1>3
  <1>14. y.r.A = 16 * h2 + l2
    BY <1>9, <1>12
  <1>15. Num(y.f.c) = IF u < 0 THEN 1 ELSE 0
    BY <1>12, Zenon DEF Num
  <1> HIDE DEF h2, l2, u, v, al, low
  <1>16. 16 * h2 + l2 \in PackedByte /\ Value(16 * h2 + l2) = 10 * h2 + l2
    BY <1>13, PackedIs
  <1>17. Value(a) = 10 * g + l /\ Value(b) = 10 * h + n
    BY <1>1, <1>2, <1>3, PackedIs
  <1>18. Value(a) - Value(b) - k = Value(y.r.A) - 100 * Num(y.f.c)
    BY <1>3, <1>13, <1>14, <1>15, <1>16, <1>17
  <1>19. QED
    BY <1>11, <1>14, <1>16, <1>18

LEMMA SixSteps ==
  ASSUME Position, Followed, NEW c, Ended(c), Len(c) = 6
  PROVE  /\ prog \in Programs /\ prog.w \in Width /\ start \in Machine(prog.w)
         /\ \E x1, x2, x3, x4, x5 :
              /\ x1 \in After(c[1], start, prog.w) /\ x2 \in After(c[2], x1, prog.w)
              /\ x3 \in After(c[3], x2, prog.w) /\ x4 \in After(c[4], x3, prog.w)
              /\ x5 \in After(c[5], x4, prog.w) /\ m \in After(c[6], x5, prog.w)
  <1>0. Len(c) <= 8
    OBVIOUS
  <1>1. /\ prog \in Programs /\ prog.w \in Width /\ prog.code = c
        /\ start \in Machine(prog.w) /\ m \in Run(Len(c), prog, start)
    BY <1>0, EndIs, Zenon
  <1> DEFINE Then(j, X) == UNION {After(c[j], x, prog.w) : x \in X}
  <1>2. Run(Len(c), prog, start)
          = Then(6, Then(5, Then(4, Then(3, Then(2, Then(1, {start}))))))
    BY <1>1 DEF Run
  <1>3. \A j, X : \A y \in Then(j, X) : \E x \in X : y \in After(c[j], x, prog.w)
    OBVIOUS
  <1> HIDE DEF Then
  <1>4. PICK x5 \in Then(5, Then(4, Then(3, Then(2, Then(1, {start}))))) :
          m \in After(c[6], x5, prog.w)
    BY <1>1, <1>2, <1>3
  <1>5. PICK x4 \in Then(4, Then(3, Then(2, Then(1, {start})))) :
          x5 \in After(c[5], x4, prog.w)
    BY <1>3
  <1>6. PICK x3 \in Then(3, Then(2, Then(1, {start}))) : x4 \in After(c[4], x3, prog.w)
    BY <1>3
  <1>7. PICK x2 \in Then(2, Then(1, {start})) : x3 \in After(c[3], x2, prog.w)
    BY <1>3
  <1>8. PICK x1 \in Then(1, {start}) : x2 \in After(c[2], x1, prog.w)
    BY <1>3
  <1>9. x1 \in After(c[1], start, prog.w)
    BY <1>3
  <1>10. QED
    BY <1>1, <1>4, <1>5, <1>6, <1>7, <1>8, <1>9

LEMMA AfterExchange ==
  ASSUME NEW w \in Width, NEW x \in Machine(w), NEW i, i = I("xchg", "A", "D"),
         NEW y \in After(i, x, w)
  PROVE  /\ y \in Machine(w) /\ y.f = x.f /\ y.r.A = x.r.D /\ y.r.D = x.r.A
         /\ y.r.B = x.r.B /\ y.r.C = x.r.C
  <1>1. /\ x \in [r : [Register -> Operand(w)], f : Flags, out : {"ok"}]
        /\ Machine(w) = [r : [Register -> Operand(w)], f : Flags, out : {"ok"}]
    BY DEF Machine, Operand, Flags
  <1>2. y = [x EXCEPT !.r["A"] = x.r["D"], !.r["D"] = x.r["A"]]
    BY DEF After, I, TwoOperand, OneOperand, Shifts
  <1>3. /\ x.r \in [Register -> Operand(w)] /\ x.r.A \in Operand(w) /\ x.r.D \in Operand(w)
        /\ y.r = [[x.r EXCEPT !.A = x.r.D] EXCEPT !.D = x.r.A]
        /\ y.f = x.f /\ y.out = x.out
    BY <1>1, <1>2 DEF Register
  <1>4. [[x.r EXCEPT !.A = x.r.D] EXCEPT !.D = x.r.A] \in [Register -> Operand(w)]
    BY <1>3 DEF Register
  <1>5. y \in [r : [Register -> Operand(w)], f : Flags, out : {"ok"}]
    BY <1>1, <1>2, <1>3, <1>4
  <1>6. QED
    BY <1>1, <1>3, <1>5 DEF Register

LEMMA AfterAdjust ==
  ASSUME NEW w, NEW x, NEW i, NEW y \in After(i, x, w)
  PROVE  /\ i.op = "daa" => y = Adjust(x, 1)
         /\ i.op = "das" => y = Adjust(x, -1)
  BY DEF After, TwoOperand, OneOperand, Shifts, Daa, Das

(* One byte of a sum or a difference of packed numbers: the addition or the *)
(* subtraction, and the adjustment.                                        *)
LEMMA PackedSum ==
  ASSUME NEW x \in Machine(Byte), NEW i, i.op \in {"add", "adc"}, i.d = "A",
         i.s \in {"B", "C"}, NEW y \in After(i, x, Byte),
         NEW j, j.op = "daa", NEW z \in After(j, y, Byte),
         x.r.A \in PackedByte, x.r[i.s] \in PackedByte,
         NEW k, k = IF i.op = "add" THEN 0 ELSE Num(x.f.c)
  PROVE  /\ z \in Machine(Byte) /\ \A g \in Register \ {"A"} : z.r[g] = x.r[g]
         /\ z.r.A \in PackedByte
         /\ Value(x.r.A) + Value(x.r[i.s]) + k = Value(z.r.A) + 100 * Num(z.f.c)
  <1>1. Byte \in Width /\ i.d \in Register /\ i.s \in Register
    BY ByteIs DEF Register
  <1>2. /\ y \in Machine(Byte) /\ \A g \in Register \ {"A"} : y.r[g] = x.r[g]
        /\ x.r.A + x.r[i.s] + k = y.r.A + Num(y.f.c) * Modulus(Byte)
        /\ y.f.a <=> Aux(x.r.A, x.r[i.s], x.r.A + x.r[i.s] + k, Byte)
    BY <1>1, AfterSum
  <1>3. k \in {0, 1}
    BY <1>1, MachineIs, NumIs
  <1>4. z = Adjust(y, 1)
    BY AfterAdjust
  <1>5. QED
    BY <1>2, <1>3, <1>4, DaaIs

LEMMA PackedDifference ==
  ASSUME NEW x \in Machine(Byte), NEW i, i.op \in {"sub", "sbb"}, i.d = "A",
         i.s \in {"B", "C"}, NEW y \in After(i, x, Byte),
         NEW j, j.op = "das", NEW z \in After(j, y, Byte),
         x.r.A \in PackedByte, x.r[i.s] \in PackedByte,
         NEW k, k = IF i.op = "sub" THEN 0 ELSE Num(x.f.c)
  PROVE  /\ z \in Machine(Byte) /\ \A g \in Register \ {"A"} : z.r[g] = x.r[g]
         /\ z.r.A \in PackedByte
         /\ Value(x.r.A) - Value(x.r[i.s]) - k = Value(z.r.A) - 100 * Num(z.f.c)
  <1>1. Byte \in Width /\ i.d \in Register /\ i.s \in Register
    BY ByteIs DEF Register
  <1>6. Source(i, x, Byte) = x.r[i.s] /\ x.r[i.s] \in Operand(Byte)
    BY <1>1, MachineIs DEF Source, None, Register
  <1>2. /\ y \in Machine(Byte) /\ \A g \in Register \ {"A"} : y.r[g] = x.r[g]
        /\ x.r.A - x.r[i.s] - k = y.r.A - Num(y.f.c) * Modulus(Byte)
        /\ y.f.a <=> Aux(x.r.A, x.r[i.s], x.r.A - x.r[i.s] - k, Byte)
    BY <1>1, <1>6, AfterDifference
  <1>3. k \in {0, 1}
    BY <1>1, MachineIs, NumIs
  <1>4. z = Adjust(y, -1)
    BY AfterAdjust
  <1>5. QED
    BY <1>2, <1>3, <1>4, DasIs

LEMMA ValueIs ==
  ASSUME NEW b \in PackedByte
  PROVE  Value(b) \in Int /\ 0 <= Value(b) /\ Value(b) <= 99
  <1>1. PICK h \in 0..9, l \in 0..9 : b = 16 * h + l
    BY DEF PackedByte
  <1>2. h \in Int /\ l \in Int /\ 0 <= h /\ h <= 9 /\ 0 <= l /\ l <= 9
    OBVIOUS
  <1>3. Value(16 * h + l) = 10 * h + l
    BY <1>2, PackedIs
  <1>4. QED
    BY <1>1, <1>2, <1>3

(* A number of four digits with a carry or a borrow.                       *)
DigitsAndCarry(z, v, j) == /\ 0 <= v /\ v <= 9999 /\ (j = 0 \/ j = 1)
                           /\ z = v + 10000 * j \/ z = v - 10000 * j
IsFourDigits(z, v, j) == z % 10000 = v /\ (z \in FourDigit <=> j # 1)

LEMMA FourDigits ==
  ASSUME NEW z \in Int, NEW v \in Int, NEW j \in Int, DigitsAndCarry(z, v, j)
  PROVE  IsFourDigits(z, v, j)
  <1>1. \A n \in Int : z \in 0..n <=> 0 <= z /\ z <= n
    OBVIOUS
  <1>2. PICK n \in Int : n = 9999
    OBVIOUS
  <1>3. z \in FourDigit <=> 0 <= z /\ z <= 9999
    <2>1. FourDigit = 0..n
      BY <1>2 DEF FourDigit
    <2>2. QED
      BY <1>1, <1>2, <2>1
  <1>4. CASE j = 0
    BY <1>3, <1>4 DEF DigitsAndCarry, IsFourDigits
  <1>5. CASE j = 1
    BY <1>3, <1>5 DEF DigitsAndCarry, IsFourDigits
  <1>6. QED
    BY <1>4, <1>5 DEF DigitsAndCarry

PackedOperands ==
  /\ prog.w = Byte
  /\ {start.r[g] : g \in {"A", "B", "C", "D"}} \subseteq PackedByte

DecimalIs(z) == /\ Packed(m.r.D, m.r.A) = z % 10000
                /\ m.f.c = (z \notin FourDigit)

LEMMA DecimalSumAtEnd ==
  ASSUME Position, Followed, Ended(DecimalAdd), PackedOperands
  PROVE  DecimalIs(Packed(start.r.D, start.r.A) + Packed(start.r.C, start.r.B))
  <1> DEFINE c == DecimalAdd
             R == start.r
  <1>1. /\ Len(c) = 6
        /\ c[1] = I("add", "A", "B") /\ c[2] = N("daa", "A", 0) /\ c[3] = I("xchg", "A", "D")
        /\ c[4] = I("adc", "A", "C") /\ c[5] = N("daa", "A", 0) /\ c[6] = I("xchg", "A", "D")
    BY DEF DecimalAdd
  <1> HIDE DEF c
  <1>2. /\ start \in Machine(Byte)
        /\ \E x1, x2, x3, x4, x5 :
              /\ x1 \in After(c[1], start, Byte) /\ x2 \in After(c[2], x1, Byte)
              /\ x3 \in After(c[3], x2, Byte) /\ x4 \in After(c[4], x3, Byte)
              /\ x5 \in After(c[5], x4, Byte) /\ m \in After(c[6], x5, Byte)
    <2>1. Ended(c)
      BY DEF c
    <2>2. /\ start \in Machine(prog.w)
          /\ \E x1, x2, x3, x4, x5 :
                /\ x1 \in After(c[1], start, prog.w) /\ x2 \in After(c[2], x1, prog.w)
                /\ x3 \in After(c[3], x2, prog.w) /\ x4 \in After(c[4], x3, prog.w)
                /\ x5 \in After(c[5], x4, prog.w) /\ m \in After(c[6], x5, prog.w)
      BY <1>1, <2>1, SixSteps, Zenon
    <2>3. prog.w = Byte
      BY DEF PackedOperands
    <2>4. QED
      BY <2>2, <2>3, Zenon
  <1>3. PICK x1, x2, x3, x4, x5 :
              /\ x1 \in After(c[1], start, Byte) /\ x2 \in After(c[2], x1, Byte)
              /\ x3 \in After(c[3], x2, Byte) /\ x4 \in After(c[4], x3, Byte)
              /\ x5 \in After(c[5], x4, Byte) /\ m \in After(c[6], x5, Byte)
    BY <1>2
  <1>4. R.A \in PackedByte /\ R.B \in PackedByte /\ R.C \in PackedByte /\ R.D \in PackedByte
    BY DEF PackedOperands
  <1>5. /\ x2 \in Machine(Byte) /\ x2.r.C = R.C /\ x2.r.D = R.D /\ x2.r.A \in PackedByte
        /\ Value(R.A) + Value(R.B) + 0 = Value(x2.r.A) + 100 * Num(x2.f.c)
    <2> DEFINE i == c[1]
               j == c[2]
               k == IF i.op = "add" THEN 0 ELSE Num(start.f.c)
    <2>1. i.op \in {"add", "adc"} /\ i.d = "A" /\ i.s = "B" /\ i.s \in {"B", "C"}
          /\ j.op = "daa" /\ k = 0
      BY <1>1 DEF I, N
    <2> HIDE DEF i, j, k
    <2>2. /\ x2 \in Machine(Byte) /\ \A g \in Register \ {"A"} : x2.r[g] = R[g]
          /\ x2.r.A \in PackedByte
          /\ Value(R.A) + Value(R[i.s]) + k = Value(x2.r.A) + 100 * Num(x2.f.c)
      BY <1>2, <1>3, <1>4, <2>1, PackedSum DEF i, j, k
    <2>3. QED
      BY <2>1, <2>2 DEF Register
  <1>6. /\ x3 \in Machine(Byte) /\ x3.r.A = R.D /\ x3.r.D = x2.r.A /\ x3.r.C = R.C
        /\ x3.f = x2.f
    BY <1>1, <1>3, <1>5, ByteIs, AfterExchange
  <1>7. /\ x5 \in Machine(Byte) /\ x5.r.D = x2.r.A /\ x5.r.A \in PackedByte
        /\ Value(R.D) + Value(R.C) + Num(x2.f.c) = Value(x5.r.A) + 100 * Num(x5.f.c)
    <2> DEFINE i == c[4]
               j == c[5]
               k == IF i.op = "add" THEN 0 ELSE Num(x3.f.c)
    <2>1. i.op \in {"add", "adc"} /\ i.d = "A" /\ i.s = "C" /\ i.s \in {"B", "C"}
          /\ j.op = "daa" /\ k = Num(x2.f.c)
      BY <1>1, <1>6 DEF I, N
    <2> HIDE DEF i, j, k
    <2>2. /\ x5 \in Machine(Byte) /\ \A g \in Register \ {"A"} : x5.r[g] = x3.r[g]
          /\ x5.r.A \in PackedByte
          /\ Value(x3.r.A) + Value(x3.r[i.s]) + k = Value(x5.r.A) + 100 * Num(x5.f.c)
      BY <1>3, <1>4, <1>6, <2>1, PackedSum DEF i, j, k
    <2>3. QED
      BY <1>6, <2>1, <2>2 DEF Register
  <1>8. m.r.A = x2.r.A /\ m.r.D = x5.r.A /\ m.f = x5.f
    BY <1>1, <1>3, <1>7, ByteIs, AfterExchange
  <1>9. \A b \in PackedByte : Value(b) \in Int /\ 0 <= Value(b) /\ Value(b) <= 99
    BY ValueIs
  <1>10. \A h, l : Packed(h, l) = 100 * Value(h) + Value(l)
    BY DEF Packed, Value
  <1>11. /\ x5.f.c \in BOOLEAN /\ Num(x2.f.c) \in {0, 1} /\ Num(x5.f.c) \in {0, 1}
         /\ (x5.f.c <=> Num(x5.f.c) = 1)
    BY <1>5, <1>7, ByteIs, MachineIs, NumIs
  <1> DEFINE a == Value(R.A)
             b == Value(R.B)
             e == Value(R.C)
             d == Value(R.D)
             lo == Value(m.r.A)
             hi == Value(m.r.D)
             k == Num(x2.f.c)
             j == Num(x5.f.c)
             z == (100 * d + a) + (100 * e + b)
  <1>12. /\ a \in Int /\ b \in Int /\ e \in Int /\ d \in Int /\ lo \in Int /\ hi \in Int
         /\ 0 <= lo /\ lo <= 99 /\ 0 <= hi /\ hi <= 99
         /\ a + b + 0 = lo + 100 * k /\ d + e + k = hi + 100 * j
    BY <1>4, <1>5, <1>7, <1>8, <1>9
  <1> HIDE DEF a, b, e, d, lo, hi, k, j
  <1>13. z = 10000 * j + (100 * hi + lo) /\ j \in {0, 1}
    BY <1>11, <1>12 DEF k, j
  <1>14. z % 10000 = 100 * hi + lo /\ (z \in FourDigit <=> j # 1)
    <2> DEFINE v == 100 * hi + lo
    <2>1. z \in Int /\ v \in Int /\ j \in Int /\ DigitsAndCarry(z, v, j)
      BY <1>12, <1>13 DEF DigitsAndCarry
    <2> HIDE DEF v, z
    <2>2. IsFourDigits(z, v, j)
      BY <2>1, FourDigits
    <2>3. QED
      BY <2>2 DEF IsFourDigits, v
  <1>15. m.f.c = (z \notin FourDigit)
    BY <1>8, <1>11, <1>14 DEF j
  <1>16. Packed(R.D, R.A) + Packed(R.C, R.B) = z /\ Packed(m.r.D, m.r.A) = 100 * hi + lo
    BY <1>10 DEF a, b, e, d, lo, hi
  <1> DEFINE y == Packed(R.D, R.A) + Packed(R.C, R.B)
             four == Packed(m.r.D, m.r.A)
  <1> HIDE DEF z
  <1>17. y = z /\ four = 100 * hi + lo
    BY <1>16
  <1> HIDE DEF y, four
  <1>18. four = y % 10000 /\ m.f.c = (y \notin FourDigit)
    BY <1>14, <1>15, <1>17
  <1>19. QED
    BY <1>18 DEF y, four, DecimalIs

LEMMA DecimalDifferenceAtEnd ==
  ASSUME Position, Followed, Ended(DecimalSub), PackedOperands
  PROVE  DecimalIs(Packed(start.r.D, start.r.A) - Packed(start.r.C, start.r.B))
  <1> DEFINE c == DecimalSub
             R == start.r
  <1>1. /\ Len(c) = 6
        /\ c[1] = I("sub", "A", "B") /\ c[2] = N("das", "A", 0) /\ c[3] = I("xchg", "A", "D")
        /\ c[4] = I("sbb", "A", "C") /\ c[5] = N("das", "A", 0) /\ c[6] = I("xchg", "A", "D")
    BY DEF DecimalSub
  <1> HIDE DEF c
  <1>2. /\ start \in Machine(Byte)
        /\ \E x1, x2, x3, x4, x5 :
              /\ x1 \in After(c[1], start, Byte) /\ x2 \in After(c[2], x1, Byte)
              /\ x3 \in After(c[3], x2, Byte) /\ x4 \in After(c[4], x3, Byte)
              /\ x5 \in After(c[5], x4, Byte) /\ m \in After(c[6], x5, Byte)
    <2>1. Ended(c)
      BY DEF c
    <2>2. /\ start \in Machine(prog.w)
          /\ \E x1, x2, x3, x4, x5 :
                /\ x1 \in After(c[1], start, prog.w) /\ x2 \in After(c[2], x1, prog.w)
                /\ x3 \in After(c[3], x2, prog.w) /\ x4 \in After(c[4], x3, prog.w)
                /\ x5 \in After(c[5], x4, prog.w) /\ m \in After(c[6], x5, prog.w)
      BY <1>1, <2>1, SixSteps, Zenon
    <2>3. prog.w = Byte
      BY DEF PackedOperands
    <2>4. QED
      BY <2>2, <2>3, Zenon
  <1>3. PICK x1, x2, x3, x4, x5 :
              /\ x1 \in After(c[1], start, Byte) /\ x2 \in After(c[2], x1, Byte)
              /\ x3 \in After(c[3], x2, Byte) /\ x4 \in After(c[4], x3, Byte)
              /\ x5 \in After(c[5], x4, Byte) /\ m \in After(c[6], x5, Byte)
    BY <1>2
  <1>4. R.A \in PackedByte /\ R.B \in PackedByte /\ R.C \in PackedByte /\ R.D \in PackedByte
    BY DEF PackedOperands
  <1>5. /\ x2 \in Machine(Byte) /\ x2.r.C = R.C /\ x2.r.D = R.D /\ x2.r.A \in PackedByte
        /\ Value(R.A) - Value(R.B) - 0 = Value(x2.r.A) - 100 * Num(x2.f.c)
    <2> DEFINE i == c[1]
               j == c[2]
               k == IF i.op = "sub" THEN 0 ELSE Num(start.f.c)
    <2>1. i.op \in {"sub", "sbb"} /\ i.d = "A" /\ i.s = "B" /\ i.s \in {"B", "C"}
          /\ j.op = "das" /\ k = 0
      BY <1>1 DEF I, N
    <2> HIDE DEF i, j, k
    <2>2. /\ x2 \in Machine(Byte) /\ \A g \in Register \ {"A"} : x2.r[g] = R[g]
          /\ x2.r.A \in PackedByte
          /\ Value(R.A) - Value(R[i.s]) - k = Value(x2.r.A) - 100 * Num(x2.f.c)
      BY <1>2, <1>3, <1>4, <2>1, PackedDifference DEF i, j, k
    <2>3. QED
      BY <2>1, <2>2 DEF Register
  <1>6. /\ x3 \in Machine(Byte) /\ x3.r.A = R.D /\ x3.r.D = x2.r.A /\ x3.r.C = R.C
        /\ x3.f = x2.f
    BY <1>1, <1>3, <1>5, ByteIs, AfterExchange
  <1>7. /\ x5 \in Machine(Byte) /\ x5.r.D = x2.r.A /\ x5.r.A \in PackedByte
        /\ Value(R.D) - Value(R.C) - Num(x2.f.c) = Value(x5.r.A) - 100 * Num(x5.f.c)
    <2> DEFINE i == c[4]
               j == c[5]
               k == IF i.op = "sub" THEN 0 ELSE Num(x3.f.c)
    <2>1. i.op \in {"sub", "sbb"} /\ i.d = "A" /\ i.s = "C" /\ i.s \in {"B", "C"}
          /\ j.op = "das" /\ k = Num(x2.f.c)
      BY <1>1, <1>6 DEF I, N
    <2> HIDE DEF i, j, k
    <2>2. /\ x5 \in Machine(Byte) /\ \A g \in Register \ {"A"} : x5.r[g] = x3.r[g]
          /\ x5.r.A \in PackedByte
          /\ Value(x3.r.A) - Value(x3.r[i.s]) - k = Value(x5.r.A) - 100 * Num(x5.f.c)
      BY <1>3, <1>4, <1>6, <2>1, PackedDifference DEF i, j, k
    <2>3. QED
      BY <1>6, <2>1, <2>2 DEF Register
  <1>8. m.r.A = x2.r.A /\ m.r.D = x5.r.A /\ m.f = x5.f
    BY <1>1, <1>3, <1>7, ByteIs, AfterExchange
  <1>9. \A b \in PackedByte : Value(b) \in Int /\ 0 <= Value(b) /\ Value(b) <= 99
    BY ValueIs
  <1>10. \A h, l : Packed(h, l) = 100 * Value(h) + Value(l)
    BY DEF Packed, Value
  <1>11. /\ x5.f.c \in BOOLEAN /\ Num(x2.f.c) \in {0, 1} /\ Num(x5.f.c) \in {0, 1}
         /\ (x5.f.c <=> Num(x5.f.c) = 1)
    BY <1>5, <1>7, ByteIs, MachineIs, NumIs
  <1> DEFINE a == Value(R.A)
             b == Value(R.B)
             e == Value(R.C)
             d == Value(R.D)
             lo == Value(m.r.A)
             hi == Value(m.r.D)
             k == Num(x2.f.c)
             j == Num(x5.f.c)
             z == (100 * d + a) - (100 * e + b)
  <1>12. /\ a \in Int /\ b \in Int /\ e \in Int /\ d \in Int /\ lo \in Int /\ hi \in Int
         /\ 0 <= lo /\ lo <= 99 /\ 0 <= hi /\ hi <= 99
         /\ a - b - 0 = lo - 100 * k /\ d - e - k = hi - 100 * j
    BY <1>4, <1>5, <1>7, <1>8, <1>9
  <1> HIDE DEF a, b, e, d, lo, hi, k, j
  <1>13. z = (100 * hi + lo) - 10000 * j /\ j \in {0, 1}
    BY <1>11, <1>12 DEF k, j
  <1>14. z % 10000 = 100 * hi + lo /\ (z \in FourDigit <=> j # 1)
    <2> DEFINE v == 100 * hi + lo
    <2>1. z \in Int /\ v \in Int /\ j \in Int /\ DigitsAndCarry(z, v, j)
      BY <1>12, <1>13 DEF DigitsAndCarry
    <2> HIDE DEF v, z
    <2>2. IsFourDigits(z, v, j)
      BY <2>1, FourDigits
    <2>3. QED
      BY <2>2 DEF IsFourDigits, v
  <1>15. m.f.c = (z \notin FourDigit)
    BY <1>8, <1>11, <1>14 DEF j
  <1>16. Packed(R.D, R.A) - Packed(R.C, R.B) = z /\ Packed(m.r.D, m.r.A) = 100 * hi + lo
    BY <1>10 DEF a, b, e, d, lo, hi
  <1> DEFINE y == Packed(R.D, R.A) - Packed(R.C, R.B)
             four == Packed(m.r.D, m.r.A)
  <1> HIDE DEF z
  <1>17. y = z /\ four = 100 * hi + lo
    BY <1>16
  <1> HIDE DEF y, four
  <1>18. four = y % 10000 /\ m.f.c = (y \notin FourDigit)
    BY <1>14, <1>15, <1>17
  <1>19. QED
    BY <1>18 DEF y, four, DecimalIs

(* What AAA and AAS leave.                                                 *)
LEMMA AsciiIs ==
  ASSUME NEW x \in Machine(Byte), NEW sign \in {1, -1}, NEW y, y = AdjustAscii(x, sign),
         NEW ax, ax = IF LowDigit(x) THEN x.r.D * 256 + x.r.A + sign * 262
                                     ELSE x.r.D * 256 + x.r.A
  PROVE  /\ y.r.A = ax % 16 /\ y.r.D = (ax \div 256) % 256
         /\ y.f.c = LowDigit(x)
  <1>1. x \in [r : [Register -> Operand(Byte)], f : Flags, out : {"ok"}]
    BY DEF Machine, Operand, Flags
  <1>2. y = [x EXCEPT !.r.A = ax % 16, !.r.D = (ax \div 256) % 256,
                      !.f.a = LowDigit(x), !.f.c = LowDigit(x)]
    BY DEF AdjustAscii
  <1>3. LowDigit(x) \in BOOLEAN
    BY <1>1 DEF LowDigit, Flags, Flag
  <1>4. /\ y.r = [[x.r EXCEPT !.A = ax % 16] EXCEPT !.D = (ax \div 256) % 256]
        /\ y.f = [[x.f EXCEPT !.a = LowDigit(x)] EXCEPT !.c = LowDigit(x)]
    BY <1>1, <1>2
  <1>5. x.r \in [Register -> Operand(Byte)] /\ x.f \in [Flag -> BOOLEAN]
    BY <1>1 DEF Flags
  <1>6. y.r.A = ax % 16 /\ y.r.D = (ax \div 256) % 256
    BY <1>4, <1>5 DEF Register
  <1>7. y.f.c = LowDigit(x)
    BY <1>4, <1>5 DEF Flag
  <1>8. QED
    BY <1>6, <1>7

LEMMA AfterDecimal ==
  ASSUME NEW w, NEW x, NEW i, NEW y \in After(i, x, w)
  PROVE  /\ i.op = "aaa" => y = AdjustAscii(x, 1)
         /\ i.op = "aas" => y = AdjustAscii(x, -1)
         /\ i.op = "aam" => y = Aam(x, i.n)
         /\ i.op = "aad" => y = Aad(x, i.n)
         /\ i.op = "mul" => y = Mul(x, x.r[i.s], w)
         /\ i.op = "div" => y = Div(x, x.r[i.s], w)
  BY DEF After, TwoOperand, OneOperand, Shifts, Aaa, Aas

(* A digit in each of two registers.                                       *)
LEMMA AsciiSumAtEnd ==
  ASSUME Position, Followed, prog.w = Byte, {start.r.A, start.r.B, start.r.D} \subseteq 0..9,
         Ended(<<I("add", "A", "B"), N("aaa", "A", 0)>>)
  PROVE  /\ 10 * m.r.D + m.r.A = (10 * start.r.D + start.r.A) + start.r.B
         /\ m.r.A \in 0..9
  <1> DEFINE c == <<I("add", "A", "B"), N("aaa", "A", 0)>>
             R == start.r
  <1>1. Len(c) = 2 /\ c[1] = I("add", "A", "B") /\ c[2] = N("aaa", "A", 0) /\ Ended(c)
    OBVIOUS
  <1> HIDE DEF c
  <1>2. /\ start \in Machine(Byte)
        /\ \E x \in After(c[1], start, Byte) : m \in After(c[2], x, Byte)
    <2>1. /\ start \in Machine(prog.w)
          /\ \E x \in After(c[1], start, prog.w) : m \in After(c[2], x, prog.w)
      BY <1>1, TwoSteps, Zenon
    <2>2. QED
      BY <2>1
  <1>3. PICK x \in After(c[1], start, Byte) : m \in After(c[2], x, Byte)
    BY <1>2
  <1>4. /\ R.A \in Int /\ 0 <= R.A /\ R.A <= 9 /\ R.B \in Int /\ 0 <= R.B /\ R.B <= 9
        /\ R.D \in Int /\ 0 <= R.D /\ R.D <= 9
    OBVIOUS
  <1>5. /\ x \in Machine(Byte) /\ x.r.D = R.D
        /\ R.A + R.B + 0 = x.r.A + Num(x.f.c) * 256
        /\ x.f.a <=> Aux(R.A, R.B, R.A + R.B + 0, Byte)
    <2> DEFINE i == c[1]
    <2>1. i.op = "add" /\ i.op \in {"add", "adc"} /\ i.d = "A" /\ i.s = "B"
          /\ i.d \in Register /\ i.s \in Register
      BY <1>1 DEF I, Register
    <2> HIDE DEF i
    <2>2. PICK k : k = 0
      OBVIOUS
    <2>3. k = IF i.op = "add" THEN 0 ELSE Num(start.f.c)
      BY <2>1, <2>2
    <2>4. /\ x \in Machine(Byte) /\ \A g \in Register \ {i.d} : x.r[g] = R[g]
          /\ R[i.d] + R[i.s] + k = x.r[i.d] + Num(x.f.c) * Modulus(Byte)
          /\ x.f.a <=> Aux(R[i.d], R[i.s], R[i.d] + R[i.s] + k, Byte)
      BY <1>2, <1>3, <2>1, <2>3, ByteIs, AfterSum DEF i
    <2>5. QED
      BY <2>1, <2>2, <2>4, ByteIs DEF Register
  <1>6. x.r.A \in Int /\ 0 <= x.r.A /\ x.r.A < 256 /\ Num(x.f.c) \in {0, 1} /\ x.f.a \in BOOLEAN
    <2>1. x.f \in Flags /\ x.f.c \in BOOLEAN /\ x.r.A \in Operand(Byte)
      BY <1>5, ByteIs, MachineIs
    <2>2. QED
      BY <2>1, ByteIs, NumIs DEF Operand, Flags, Flag
  <1>7. x.r.A = R.A + R.B
    BY <1>4, <1>5, <1>6
  <1>8. x.f.a <=> R.A + R.B >= 16
    <2> DEFINE a == R.A
               b == R.B
               r == a + b + 0
    <2>2. x.f.a <=> Aux(a, b, r, Byte)
      BY <1>5
    <2>0. a \in Int /\ 0 <= a /\ a <= 9 /\ b \in Int /\ 0 <= b /\ b <= 9 /\ r = a + b
      BY <1>4
    <2> HIDE DEF a, b, r
    <2>1. /\ r \in Int /\ r - a - b = 0 /\ 0 <= r - a - b /\ r - a - b <= 1
          /\ a % 16 = a /\ b % 16 = b
      BY <2>0
    <2>3. Aux(a, b, r, Byte) = ((a % 16) + (b % 16) + (r - a - b) >= 16)
      BY <2>0, <2>1, AuxSum
    <2>4. QED
      <3>0. (a % 16) + (b % 16) + (r - a - b) = a + b
        BY <2>0, <2>1
      <3>1. x.f.a <=> a + b >= 16
        BY <2>2, <2>3, <3>0
      <3>2. QED
        BY <3>1 DEF a, b
  <1> DEFINE s == R.A + R.B
             ax == IF LowDigit(x) THEN x.r.D * 256 + x.r.A + 1 * 262
                                  ELSE x.r.D * 256 + x.r.A
  <1>9. LowDigit(x) <=> s > 9
    BY <1>4, <1>6, <1>7, <1>8 DEF LowDigit
  <1>10. m = AdjustAscii(x, 1)
    BY <1>1, <1>3, AfterDecimal DEF N
  <1>11. m.r.A = ax % 16 /\ m.r.D = (ax \div 256) % 256
    BY <1>5, <1>10, AsciiIs
  <1> DEFINE D == R.D
  <1>12. ax = IF s > 9 THEN D * 256 + s + 262 ELSE D * 256 + s
    BY <1>4, <1>5, <1>7, <1>9
  <1>13. s \in Int /\ 0 <= s /\ s <= 18 /\ D \in Int /\ 0 <= D /\ D <= 9
    BY <1>4
  <1>14. 10 * D + s = (10 * R.D + R.A) + R.B
    BY <1>4
  <1> HIDE DEF s, ax, D
  <1>15. CASE s > 9
    <2>1. ax = 256 * (D + 1) + (s + 6)
      BY <1>12, <1>13, <1>15
    <2>2. ax % 16 = s - 10 /\ (ax \div 256) % 256 = D + 1
      BY <1>13, <1>15, <2>1
    <2>3. QED
      BY <1>11, <1>13, <1>14, <1>15, <2>2
  <1>16. CASE ~(s > 9)
    <2>1. ax % 16 = s /\ (ax \div 256) % 256 = D
      BY <1>12, <1>13, <1>16
    <2>2. m.r.A = s /\ m.r.D = D
      BY <1>11, <2>1
    <2>3. m.r.A \in 0..9
      BY <1>13, <1>16, <2>2
    <2>4. QED
      BY <1>14, <2>2, <2>3
  <1>17. QED
    BY <1>15, <1>16

LEMMA AsciiDifferenceAtEnd ==
  ASSUME Position, Followed, prog.w = Byte, {start.r.A, start.r.B, start.r.D} \subseteq 0..9,
         Ended(<<I("sub", "A", "B"), N("aas", "A", 0)>>)
  PROVE  /\ m.r.A = (start.r.A - start.r.B) % 10
         /\ m.r.D = (start.r.D - Num(start.r.A < start.r.B)) % 256
         /\ m.f.c = (start.r.A < start.r.B)
  <1> DEFINE c == <<I("sub", "A", "B"), N("aas", "A", 0)>>
             R == start.r
  <1>1. Len(c) = 2 /\ c[1] = I("sub", "A", "B") /\ c[2] = N("aas", "A", 0) /\ Ended(c)
    OBVIOUS
  <1> HIDE DEF c
  <1>2. /\ start \in Machine(Byte)
        /\ \E x \in After(c[1], start, Byte) : m \in After(c[2], x, Byte)
    <2>1. /\ start \in Machine(prog.w)
          /\ \E x \in After(c[1], start, prog.w) : m \in After(c[2], x, prog.w)
      BY <1>1, TwoSteps, Zenon
    <2>2. QED
      BY <2>1
  <1>3. PICK x \in After(c[1], start, Byte) : m \in After(c[2], x, Byte)
    BY <1>2
  <1>4. /\ R.A \in Int /\ 0 <= R.A /\ R.A <= 9 /\ R.B \in Int /\ 0 <= R.B /\ R.B <= 9
        /\ R.D \in Int /\ 0 <= R.D /\ R.D <= 9
    OBVIOUS
  <1>5. /\ x \in Machine(Byte) /\ x.r.D = R.D
        /\ R.A - R.B - 0 = x.r.A - Num(x.f.c) * 256
        /\ x.f.a <=> Aux(R.A, R.B, R.A - R.B - 0, Byte)
    <2> DEFINE i == c[1]
    <2>1. i.op = "sub" /\ i.op \in {"sub", "sbb"} /\ i.d = "A" /\ i.s = "B"
          /\ i.d \in Register /\ i.s \in Register
      BY <1>1 DEF I, Register
    <2> HIDE DEF i
    <2>2. PICK k : k = 0
      OBVIOUS
    <2>3. k = IF i.op = "sub" THEN 0 ELSE Num(start.f.c)
      BY <2>1, <2>2
    <2>4. Byte \in Width /\ Source(i, start, Byte) = R[i.s] /\ R[i.s] \in Operand(Byte)
      BY <1>2, <2>1, ByteIs, MachineIs DEF Source, None, Register
    <2>5. /\ x \in Machine(Byte) /\ \A g \in Register \ {i.d} : x.r[g] = R[g]
          /\ R[i.d] - R[i.s] - k = x.r[i.d] - Num(x.f.c) * Modulus(Byte)
          /\ x.f.a <=> Aux(R[i.d], R[i.s], R[i.d] - R[i.s] - k, Byte)
      BY <1>2, <1>3, <2>1, <2>3, <2>4, AfterDifference DEF i
    <2>6. QED
      BY <2>1, <2>2, <2>5, ByteIs DEF Register
  <1>6. x.r.A \in Int /\ 0 <= x.r.A /\ x.r.A < 256 /\ Num(x.f.c) \in {0, 1} /\ x.f.a \in BOOLEAN
    <2>1. x.f \in Flags /\ x.f.c \in BOOLEAN /\ x.r.A \in Operand(Byte)
      BY <1>5, ByteIs, MachineIs
    <2>2. QED
      BY <2>1, ByteIs, NumIs DEF Operand, Flags, Flag
  <1>7. x.r.A = IF R.A < R.B THEN R.A - R.B + 256 ELSE R.A - R.B
    BY <1>4, <1>5, <1>6
  <1>8. x.f.a <=> R.A < R.B
    <2> DEFINE a == R.A
               b == R.B
               r == a - b - 0
    <2>1. x.f.a <=> Aux(a, b, r, Byte)
      BY <1>5
    <2>2. a \in Int /\ 0 <= a /\ a <= 9 /\ b \in Int /\ 0 <= b /\ b <= 9 /\ r = a - b
      BY <1>4
    <2> HIDE DEF a, b, r
    <2>3. /\ r \in Int /\ a - b - r = 0 /\ 0 <= a - b - r /\ a - b - r <= 1
          /\ a % 16 = a /\ b % 16 = b
      BY <2>2
    <2>4. Aux(a, b, r, Byte) = ((a % 16) < (b % 16) + (a - b - r))
      BY <2>2, <2>3, AuxSum
    <2>5. (a % 16) < (b % 16) + (a - b - r) <=> a < b
      BY <2>2, <2>3
    <2>6. x.f.a <=> a < b
      BY <2>1, <2>4, <2>5
    <2>7. QED
      BY <2>6 DEF a, b
  <1> DEFINE s == R.A - R.B
             D == R.D
             ax == IF LowDigit(x) THEN x.r.D * 256 + x.r.A + (-1) * 262
                                  ELSE x.r.D * 256 + x.r.A
  <1>9. LowDigit(x) <=> s < 0
    BY <1>4, <1>6, <1>7, <1>8 DEF LowDigit
  <1>10. m = AdjustAscii(x, -1)
    BY <1>1, <1>3, AfterDecimal DEF N
  <1>11. m.r.A = ax % 16 /\ m.r.D = (ax \div 256) % 256 /\ m.f.c = LowDigit(x)
    BY <1>5, <1>10, AsciiIs
  <1>12. ax = IF s < 0 THEN D * 256 + s - 6 ELSE D * 256 + s
    <2>1. (-1) * 262 = -262
      OBVIOUS
    <2>2. CASE s < 0
      BY <1>4, <1>5, <1>7, <1>9, <2>1, <2>2
    <2>3. CASE ~(s < 0)
      BY <1>4, <1>5, <1>7, <1>9, <2>3
    <2>4. QED
      BY <2>2, <2>3
  <1>13. s \in Int /\ -9 <= s /\ s <= 9 /\ D \in Int /\ 0 <= D /\ D <= 9
    BY <1>4
  <1>14. (s < 0 <=> R.A < R.B) /\ Num(R.A < R.B) = IF s < 0 THEN 1 ELSE 0
    <2>1. s < 0 <=> R.A < R.B
      BY <1>4
    <2>2. QED
      BY <2>1 DEF Num
  <1>15. m.f.c = (R.A < R.B)
    <2>1. m.f.c \in BOOLEAN
      BY <1>5, <1>11 DEF LowDigit, Machine, Flag
    <2>2. m.f.c <=> R.A < R.B
      BY <1>9, <1>11, <1>14
    <2>3. QED
      BY <2>1, <2>2
  <1> DEFINE borrow == Num(R.A < R.B)
  <1> HIDE DEF s, ax, D, borrow
  <1>16. m.r.A = s % 10 /\ m.r.D = (D - borrow) % 256
    <2>1. CASE s < 0
      <3>1. ax = 256 * (D - 1) + (s + 250) /\ borrow = 1
        BY <1>12, <1>13, <1>14, <2>1 DEF borrow
      <3>2. ax % 16 = s + 10 /\ ax \div 256 = D - 1 /\ s % 10 = s + 10
        BY <1>13, <2>1, <3>1
      <3>3. QED
        BY <1>11, <3>1, <3>2
    <2>2. CASE ~(s < 0)
      <3>1. ax = 256 * D + s /\ borrow = 0
        BY <1>12, <1>13, <1>14, <2>2 DEF borrow
      <3>2. ax % 16 = s /\ ax \div 256 = D /\ s % 10 = s
        BY <1>13, <2>2, <3>1
      <3>3. QED
        BY <1>11, <1>13, <3>1, <3>2
    <2>3. QED
      BY <2>1, <2>2
  <1>17. QED
    BY <1>15, <1>16 DEF s, D, borrow

(* What MUL, DIV, AAM and AAD leave in the two registers.                  *)
LEMMA ByteProductIs ==
  ASSUME NEW x \in Machine(Byte), NEW s, NEW y, y = Mul(x, s, Byte),
         NEW v \in Int, v = x.r.A * s, 0 <= v, v < 256
  PROVE  y.r.A = v
  <1>1. x.r \in [Register -> Operand(Byte)]
    BY DEF Machine, Operand
  <1>2. y.r = [[x.r EXCEPT !.A = Low(v, Byte)] EXCEPT !.D = Low(v \div Modulus(Byte), Byte)]
    BY DEF Mul, SetProduct, Machine
  <1>3. Low(v, Byte) = v
    BY ByteIs DEF Low
  <1>4. QED
    BY <1>1, <1>2, <1>3 DEF Register

LEMMA AamIs ==
  ASSUME NEW x, NEW y, x.r \in [Register -> Operand(Byte)], y = Aam(x, 10)
  PROVE  y.r.A = x.r.A % 10 /\ y.r.D = x.r.A \div 10
  <1>1. y.r = [[x.r EXCEPT !.D = x.r.A \div 10] EXCEPT !.A = x.r.A % 10]
    BY DEF Aam, SetAL
  <1>2. QED
    BY <1>1 DEF Register

LEMMA AadIs ==
  ASSUME NEW x \in Machine(Byte), NEW y, y = Aad(x, 10)
  PROVE  /\ y \in Machine(Byte) /\ y.r.B = x.r.B /\ y.r.D = 0
         /\ y.r.A = (x.r.D * 10 + x.r.A) % 256
  <1> DEFINE v == (x.r.D * 10 + x.r.A) % 256
             g == SetSZP(x.f, v, Byte)
  <1>1. /\ x \in [r : [Register -> Operand(Byte)], f : Flags, out : {"ok"}]
        /\ Machine(Byte) = [r : [Register -> Operand(Byte)], f : Flags, out : {"ok"}]
    BY DEF Machine, Operand, Flags
  <1>2. v \in Operand(Byte) /\ 0 \in Operand(Byte)
    <2> DEFINE t == x.r.D * 10 + x.r.A
    <2>1. x.r.D \in Operand(Byte) /\ x.r.A \in Operand(Byte)
      BY ByteIs, MachineIs
    <2>2. Operand(Byte) = 0..255
      BY ByteIs DEF Operand
    <2>6. \A u \in 0..255 : u \in Int
      OBVIOUS
    <2>7. x.r.D \in Int /\ x.r.A \in Int
      BY <2>1, <2>2, <2>6, Zenon
    <2>3. t \in Int
      BY <2>7
    <2> HIDE DEF t
    <2>4. t % 256 \in 0..255
      BY <2>3
    <2>5. QED
      BY <2>2, <2>4 DEF t
  <1>3. g \in Flags
    BY <1>1, SZPIs
  <1>4. y = [[x EXCEPT !.r.D = 0] EXCEPT !.r.A = v, !.f = g]
    <2>1. [x EXCEPT !.r.D = 0].f = x.f
      BY <1>1
    <2>2. QED
      BY <2>1 DEF Aad, SetAL
  <1> HIDE DEF v, g
  <1>5. y.r = [[x.r EXCEPT !.D = 0] EXCEPT !.A = v] /\ y.f = g /\ y.out = "ok"
    BY <1>1, <1>4
  <1>6. y.r \in [Register -> Operand(Byte)] /\ y.r.B = x.r.B /\ y.r.D = 0 /\ y.r.A = v
    <2>1. x.r \in [Register -> Operand(Byte)]
      BY <1>1
    <2>2. y.r \in [Register -> Operand(Byte)]
      BY <1>2, <1>5, <2>1 DEF Register
    <2>3. QED
      BY <1>5, <2>1, <2>2 DEF Register
  <1>7. y \in [r : [Register -> Operand(Byte)], f : Flags, out : {"ok"}]
    BY <1>1, <1>3, <1>4, <1>5, <1>6
  <1>8. QED
    BY <1>1, <1>6, <1>7 DEF v

TwoDigitsByOne(d, a, b) ==
  d = 0 /\ a \in Int /\ b \in Int /\ 0 <= a /\ a <= 99 /\ 1 <= b /\ b <= 9

LEMMA ByteQuotientIs ==
  ASSUME NEW x \in Machine(Byte), NEW a, a = x.r.A, NEW b, NEW y, y = Div(x, b, Byte),
         TwoDigitsByOne(x.r.D, a, b)
  PROVE  y.out = "ok" /\ y.r.A = a \div b /\ y.r.D = a % b
  <1>0. x.r.D = 0 /\ a \in Int /\ b \in Int /\ 0 <= a /\ a <= 99 /\ 1 <= b /\ b <= 9
    BY DEF TwoDigitsByOne
  <1>1. a \div b \in Int /\ a % b \in Int /\ 0 <= a \div b /\ a \div b <= 99
        /\ 0 <= a % b /\ a % b <= 8
    <2>1. b = 1 \/ b = 2 \/ b = 3 \/ b = 4 \/ b = 5 \/ b = 6 \/ b = 7 \/ b = 8 \/ b = 9
      BY <1>0
    <2>2. QED
      BY <1>0, <2>1
  <1>2. x.r.D * Modulus(Byte) + x.r.A = a
    BY <1>0, ByteIs
  <1>3. y = SetQuotient(x, a \div b, a % b, Byte)
    BY <1>0, <1>1, <1>2, ByteIs DEF Div
  <1>4. Low(a \div b, Byte) = a \div b /\ Low(a % b, Byte) = a % b
    BY <1>1, ByteIs DEF Low
  <1> DEFINE q == a \div b
             k == a % b
  <1>5. /\ x \in [r : [Register -> Operand(Byte)], f : Flags, out : {"ok"}]
        /\ y = [x EXCEPT !.r.A = q, !.r.D = k]
    BY <1>3, <1>4 DEF SetQuotient, Machine, Operand, Flags
  <1> HIDE DEF q, k
  <1>6. y.r = [[x.r EXCEPT !.A = q] EXCEPT !.D = k] /\ y.out = "ok"
    BY <1>5
  <1>7. y.r.A = q /\ y.r.D = k
    BY <1>5, <1>6 DEF Register
  <1>8. QED
    BY <1>6, <1>7 DEF q, k

LEMMA AsciiProductAtEnd ==
  ASSUME Position, Followed, prog.w = Byte, {start.r.A, start.r.B, start.r.D} \subseteq 0..9,
         Ended(<<I("mul", "A", "B"), N("aam", "A", 10)>>)
  PROVE  m.r.D = (start.r.A * start.r.B) \div 10 /\ m.r.A = (start.r.A * start.r.B) % 10
  <1> DEFINE c == <<I("mul", "A", "B"), N("aam", "A", 10)>>
             v == start.r.A * start.r.B
  <1>1. Len(c) = 2 /\ c[1] = I("mul", "A", "B") /\ c[2] = N("aam", "A", 10) /\ Ended(c)
    OBVIOUS
  <1> HIDE DEF c
  <1>2. /\ start \in Machine(Byte)
        /\ \E x \in After(c[1], start, Byte) : m \in After(c[2], x, Byte)
    <2>1. /\ start \in Machine(prog.w)
          /\ \E x \in After(c[1], start, prog.w) : m \in After(c[2], x, prog.w)
      BY <1>1, TwoSteps, Zenon
    <2>2. QED
      BY <2>1
  <1>3. PICK x \in After(c[1], start, Byte) : m \in After(c[2], x, Byte)
    BY <1>2
  <1>4. v \in Int /\ 0 <= v /\ v < 256
    <2>1. PICK a \in 0..9, b \in 0..9 : v = a * b
      OBVIOUS
    <2>2. a = 0 \/ a = 1 \/ a = 2 \/ a = 3 \/ a = 4 \/ a = 5 \/ a = 6 \/ a = 7 \/ a = 8 \/ a = 9
      OBVIOUS
    <2>3. QED
      BY <2>1, <2>2
  <1>5. x = Mul(start, start.r.B, Byte)
    BY <1>1, <1>3, AfterDecimal DEF I
  <1> HIDE DEF v
  <1>6. x.r.A = v
    BY <1>2, <1>4, <1>5, ByteProductIs DEF v
  <1>7. x.r \in [Register -> Operand(Byte)]
    <2>1. \A u : Low(u, Byte) \in Operand(Byte) \/ u \notin Int
      BY ByteIs, LowIs
    <2>2. v \div Modulus(Byte) \in Int
      BY <1>4, ByteIs
    <2>3. x.r = [[start.r EXCEPT !.A = Low(v, Byte)] EXCEPT !.D = Low(v \div Modulus(Byte), Byte)]
      BY <1>2, <1>5 DEF Mul, SetProduct, Machine, v
    <2>4. start.r \in [Register -> Operand(Byte)]
      BY <1>2 DEF Machine, Operand
    <2>5. QED
      BY <1>4, <2>1, <2>2, <2>3, <2>4 DEF Register
  <1>8. m = Aam(x, 10)
    BY <1>1, <1>3, AfterDecimal DEF N
  <1>9. QED
    BY <1>6, <1>7, <1>8, AamIs DEF v

LEMMA AsciiQuotientAtEnd ==
  ASSUME Position, Followed, prog.w = Byte, {start.r.A, start.r.B, start.r.D} \subseteq 0..9,
         Ended(<<N("aad", "A", 10), I("div", "A", "B")>>), start.r.B # 0
  PROVE  LET x == 10 * start.r.D + start.r.A
         IN  m.out = "ok" /\ m.r.A = x \div start.r.B /\ m.r.D = x % start.r.B
  <1> DEFINE c == <<N("aad", "A", 10), I("div", "A", "B")>>
             v == 10 * start.r.D + start.r.A
             b == start.r.B
  <1>1. Len(c) = 2 /\ c[1] = N("aad", "A", 10) /\ c[2] = I("div", "A", "B") /\ Ended(c)
    OBVIOUS
  <1> HIDE DEF c
  <1>2. /\ start \in Machine(Byte)
        /\ \E x \in After(c[1], start, Byte) : m \in After(c[2], x, Byte)
    <2>1. /\ start \in Machine(prog.w)
          /\ \E x \in After(c[1], start, prog.w) : m \in After(c[2], x, prog.w)
      BY <1>1, TwoSteps, Zenon
    <2>2. QED
      BY <2>1
  <1>3. PICK x \in After(c[1], start, Byte) : m \in After(c[2], x, Byte)
    BY <1>2
  <1>4. /\ v \in Int /\ 0 <= v /\ v <= 99 /\ b \in Int /\ 1 <= b /\ b <= 9
        /\ start.r.D * 10 + start.r.A = v /\ v % 256 = v
    OBVIOUS
  <1>5. x = Aad(start, 10)
    BY <1>1, <1>3, AfterDecimal DEF N
  <1>6. x \in Machine(Byte) /\ x.r.B = b /\ x.r.D = 0 /\ x.r.A = (start.r.D * 10 + start.r.A) % 256
    BY <1>2, <1>5, AadIs
  <1>7. x.r.A = v
    BY <1>4, <1>6
  <1>8. m = Div(x, b, Byte)
    <2>1. c[2].op = "div" /\ c[2].s = "B"
      BY <1>1 DEF I
    <2>2. m = Div(x, x.r[c[2].s], Byte)
      BY <1>3, <2>1, AfterDecimal
    <2>3. QED
      BY <1>6, <2>1, <2>2
  <1> HIDE DEF v, b
  <1>9. m.out = "ok" /\ m.r.A = v \div b /\ m.r.D = v % b
    <2>1. TwoDigitsByOne(x.r.D, v, b)
      BY <1>4, <1>6 DEF TwoDigitsByOne
    <2>2. QED
      BY <1>6, <1>7, <1>8, <2>1, ByteQuotientIs
  <1>10. QED
    BY <1>9 DEF v, b

LEMMA DecimalsAtEnd == Position /\ Followed => DecimalSums
  <1> SUFFICES ASSUME Position, Followed PROVE DecimalSums
    OBVIOUS
  <1>1. PackedSums
    <2>1. PackedOperands /\ Ended(DecimalAdd) =>
            DecimalIs(Packed(start.r.D, start.r.A) + Packed(start.r.C, start.r.B))
      BY DecimalSumAtEnd, Zenon
    <2>2. PackedOperands /\ Ended(DecimalSub) =>
            DecimalIs(Packed(start.r.D, start.r.A) - Packed(start.r.C, start.r.B))
      BY DecimalDifferenceAtEnd, Zenon
    <2>3. QED
      BY <2>1, <2>2 DEF PackedSums, PackedOperands, DecimalIs
  <1>2. UnpackedDigits
    <2> SUFFICES ASSUME prog.w = Byte, {start.r.A, start.r.B, start.r.D} \subseteq 0..9
                 PROVE  UnpackedDigits
      BY DEF UnpackedDigits
    <2>1. Ended(<<I("add", "A", "B"), N("aaa", "A", 0)>>) =>
            /\ 10 * m.r.D + m.r.A = (10 * start.r.D + start.r.A) + start.r.B
            /\ m.r.A \in 0..9
      BY AsciiSumAtEnd, Zenon
    <2>2. Ended(<<I("sub", "A", "B"), N("aas", "A", 0)>>) =>
            /\ m.r.A = (start.r.A - start.r.B) % 10
            /\ m.r.D = (start.r.D - Num(start.r.A < start.r.B)) % 256
            /\ m.f.c = (start.r.A < start.r.B)
      BY AsciiDifferenceAtEnd, Zenon
    <2>3. Ended(<<I("mul", "A", "B"), N("aam", "A", 10)>>) =>
            m.r.D = (start.r.A * start.r.B) \div 10 /\ m.r.A = (start.r.A * start.r.B) % 10
      BY AsciiProductAtEnd, Zenon
    <2>4. Ended(<<N("aad", "A", 10), I("div", "A", "B")>>) /\ start.r.B # 0 =>
            /\ m.out = "ok"
            /\ m.r.A = (10 * start.r.D + start.r.A) \div start.r.B
            /\ m.r.D = (10 * start.r.D + start.r.A) % start.r.B
      BY AsciiQuotientAtEnd, Zenon
    <2>5. QED
      BY <2>1, <2>2, <2>3, <2>4, Zenon DEF UnpackedDigits
  <1>3. QED
    BY <1>1, <1>2 DEF DecimalSums

(* Decimal arithmetic with the adjustments: the programs of packed numbers *)
(* of four digits and of digits of one byte each (exec_daa to exec_aad).   *)
THEOREM DecimalArithmetic == Spec => []DecimalSums
  <1>1. Spec => [](Position /\ Followed)
    BY FollowedInit, FollowedStep, PTL DEF Spec
  <1>2. QED
    BY <1>1, DecimalsAtEnd, PTL

-----------------------------------------------------------------------------
(* Shifts and rotations.                                                   *)

\* the places of an operand, without and with CF
Lengths == {4, 5, 8, 9, 16, 17}

LEMMA LengthIs ==
  ASSUME NEW w \in Width
  PROVE  w.bits \in Lengths /\ w.bits + 1 \in Lengths /\ w.bits \in Nat
  BY DEF Width, Small, Wide, Byte, Word, Lengths

(* The weights of two positions that make up a word.                       *)
LEMMA SplitPower ==
  ASSUME NEW b \in Lengths, NEW k \in 0..b
  PROVE  2^k \in Nat \ {0} /\ 2^(b - k) \in Nat \ {0} /\ 2^k * 2^(b - k) = 2^b
  <1> DEFINE Splits(c, j) ==
               2^j \in Nat \ {0} /\ 2^(c - j) \in Nat \ {0} /\ 2^j * 2^(c - j) = 2^c
  <1>1. CASE b = 4
    <2>1. /\ Splits(4, 0) /\ Splits(4, 1) /\ Splits(4, 2) /\ Splits(4, 3) /\ Splits(4, 4)
      BY PowersAre
    <2>2. k \in {0, 1, 2, 3, 4}
      BY <1>1
    <2> HIDE DEF Splits
    <2>3. Splits(b, k)
      BY <1>1, <2>1, <2>2
    <2>4. QED
      BY <2>3 DEF Splits
  <1>2. CASE b = 5
    <2>1. /\ Splits(5, 0) /\ Splits(5, 1) /\ Splits(5, 2) /\ Splits(5, 3) /\ Splits(5, 4)
          /\ Splits(5, 5)
      BY PowersAre
    <2>2. k \in {0, 1, 2, 3, 4, 5}
      BY <1>2
    <2> HIDE DEF Splits
    <2>3. Splits(b, k)
      BY <1>2, <2>1, <2>2
    <2>4. QED
      BY <2>3 DEF Splits
  <1>3. CASE b = 8
    <2>1. /\ Splits(8, 0) /\ Splits(8, 1) /\ Splits(8, 2) /\ Splits(8, 3) /\ Splits(8, 4)
          /\ Splits(8, 5) /\ Splits(8, 6) /\ Splits(8, 7) /\ Splits(8, 8)
      BY PowersAre
    <2>2. k \in {0, 1, 2, 3, 4, 5, 6, 7, 8}
      BY <1>3
    <2> HIDE DEF Splits
    <2>3. Splits(b, k)
      BY <1>3, <2>1, <2>2
    <2>4. QED
      BY <2>3 DEF Splits
  <1>4. CASE b = 9
    <2>1. /\ Splits(9, 0) /\ Splits(9, 1) /\ Splits(9, 2) /\ Splits(9, 3) /\ Splits(9, 4)
          /\ Splits(9, 5) /\ Splits(9, 6) /\ Splits(9, 7) /\ Splits(9, 8) /\ Splits(9, 9)
      BY PowersAre
    <2>2. k \in {0, 1, 2, 3, 4, 5, 6, 7, 8, 9}
      BY <1>4
    <2> HIDE DEF Splits
    <2>3. Splits(b, k)
      BY <1>4, <2>1, <2>2
    <2>4. QED
      BY <2>3 DEF Splits
  <1>5. CASE b = 16
    <2>1. /\ Splits(16, 0) /\ Splits(16, 1) /\ Splits(16, 2) /\ Splits(16, 3) /\ Splits(16, 4)
          /\ Splits(16, 5) /\ Splits(16, 6) /\ Splits(16, 7) /\ Splits(16, 8) /\ Splits(16, 9)
          /\ Splits(16, 10) /\ Splits(16, 11) /\ Splits(16, 12) /\ Splits(16, 13) /\ Splits(16, 14)
          /\ Splits(16, 15) /\ Splits(16, 16)
      BY PowersAre
    <2>2. k \in {0, 1, 2, 3, 4, 5, 6, 7, 8, 9, 10, 11, 12, 13, 14, 15, 16}
      BY <1>5
    <2> HIDE DEF Splits
    <2>3. Splits(b, k)
      BY <1>5, <2>1, <2>2
    <2>4. QED
      BY <2>3 DEF Splits
  <1>6. CASE b = 17
    <2>1. /\ Splits(17, 0) /\ Splits(17, 1) /\ Splits(17, 2) /\ Splits(17, 3) /\ Splits(17, 4)
          /\ Splits(17, 5) /\ Splits(17, 6) /\ Splits(17, 7) /\ Splits(17, 8) /\ Splits(17, 9)
          /\ Splits(17, 10) /\ Splits(17, 11) /\ Splits(17, 12) /\ Splits(17, 13) /\ Splits(17, 14)
          /\ Splits(17, 15) /\ Splits(17, 16) /\ Splits(17, 17)
      BY PowersAre
    <2>2. k \in {0, 1, 2, 3, 4, 5, 6, 7, 8, 9, 10, 11, 12, 13, 14, 15, 16, 17}
      BY <1>6
    <2> HIDE DEF Splits
    <2>3. Splits(b, k)
      BY <1>6, <2>1, <2>2
    <2>4. QED
      BY <2>3 DEF Splits
  <1>7. QED
    BY <1>1, <1>2, <1>3, <1>4, <1>5, <1>6 DEF Lengths

(* C shifts by the count itself when its type has as many bits.            *)
LEMMA CountWithin ==
  ASSUME NEW w \in Width, NEW n \in Int, 0 <= n, n < 4 * w.byte
  PROVE  CShift(n, w) = n /\ n \in 0..31 /\ (n >= w.bits => Modulus(w) <= 2^n)
  <1>1. 4 * w.byte \in {16, 32} /\ w.bits \in {4, 8, 16}
    BY DEF Width, Small, Wide, Byte, Word
  <1>2. n \in 0..31
    BY <1>1
  <1>3. ASSUME n >= w.bits PROVE Modulus(w) <= 2^n
    <2>1. Power(n)
      BY <1>2, PowerIs
    <2>2. CASE w.bits = 4
      BY <1>3, <2>1, <2>2, PowersAre DEF Power, Modulus
    <2>3. CASE w.bits = 8
      BY <1>3, <2>1, <2>3, PowersAre DEF Power, Modulus
    <2>4. CASE w.bits = 16
      BY <1>3, <2>1, <2>4, PowersAre DEF Power, Modulus
    <2>5. QED
      BY <1>1, <2>2, <2>3, <2>4
  <1>4. CShift(n, w) = n
    BY <1>1 DEF CShift
  <1>5. QED
    BY <1>2, <1>3, <1>4

LEMMA CountIs ==
  ASSUME NEW w \in Width, NEW n \in Int, 0 <= n, n <= w.bits
  PROVE  CShift(n, w) = n
  <1>1. w.bits < 4 * w.byte
    BY DEF Width, Small, Wide, Byte, Word
  <1>2. n < 4 * w.byte
    BY <1>1, WidthIs
  <1>3. QED
    BY <1>2, CountWithin

(* A rotation, as numbers: the upper part comes down, the lower goes up.   *)
Factors(P, Q, M) == P \in Nat \ {0} /\ Q \in Nat \ {0} /\ P * Q = M
Below(M) == 0..M - 1

LEMMA FactorDivides ==
  ASSUME NEW P, NEW Q, NEW M, Factors(P, Q, M), NEW v \in Int
  PROVE  v \div P \in Int /\ v % P \in Int
  <1>1. P \in Nat /\ P # 0
    BY DEF Factors
  <1>2. QED
    BY <1>1, DivisionIs DEF Divided

LEMMA QuotientBelow ==
  ASSUME NEW P, NEW Q, NEW M, Factors(P, Q, M), NEW v, v \in Below(M),
         NEW y, NEW z, Divided(v, Q, y, z)
  PROVE  y \in 0..P - 1
  <1>1. /\ P \in Nat /\ P # 0 /\ Q \in Nat /\ Q # 0 /\ P * Q = M
        /\ v \in 0..M - 1 /\ y \in Int /\ z \in 0..Q - 1 /\ v = Q * y + z
    BY DEF Divided, Factors, Below
  <1>2. ~(y < 0)
    <2>1. ASSUME y < 0 PROVE FALSE
      <3>1. Q * (-y) >= Q /\ Q * (-y) = -(Q * y)
        BY <1>1, <2>1, FactorOne
      <3>2. QED
        BY <1>1, <3>1
    <2>2. QED
      BY <2>1
  <1>3. ~(y >= P)
    <2>1. ASSUME y - P + 1 >= 1 PROVE FALSE
      <3>1. Q * (y - P + 1) >= Q /\ Q * (y - P + 1) = Q * y - P * Q + Q
        BY <1>1, <2>1, FactorOne
      <3>2. QED
        BY <1>1, <3>1
    <2>2. QED
      BY <1>1, <2>1
  <1>4. QED
    BY <1>1, <1>2, <1>3

LEMMA RotatedIs ==
  ASSUME NEW P, NEW Q, NEW M, Factors(P, Q, M), NEW v, v \in Below(M),
         NEW r, r = P * (v % Q) + (v \div Q)
  PROVE  r \in Below(M) /\ Q * (r % P) + (r \div P) = v
  <1> DEFINE y == v \div Q
             z == v % Q
  <1>1. P \in Nat /\ P # 0 /\ Q \in Nat /\ Q # 0 /\ P * Q = M /\ v \in Int
    BY DEF Factors, Below
  <1>2. Divided(v, Q, y, z) /\ r = P * z + y
    BY <1>1, DivisionIs
  <1> HIDE DEF y, z
  <1>3. y \in 0..P - 1 /\ y \in Int /\ z \in 0..Q - 1 /\ v = Q * y + z
    BY <1>1, <1>2, QuotientBelow DEF Divided
  <1>4. Divided(r, P, z, y)
    BY <1>1, <1>2, <1>3 DEF Divided
  <1>5. r \div P = z /\ r % P = y
    BY <1>4, DivisionOnly
  <1>6. r >= 0 /\ r < P * Q /\ r \in Int
    <2>1. P * (Q - z) >= P /\ P * (Q - z) = P * Q - P * z
      BY <1>1, <1>3, FactorOne
    <2>2. P * z >= 0
      BY <1>1, <1>3
    <2>3. QED
      BY <1>1, <1>2, <1>3, <2>1, <2>2
  <1>7. QED
    BY <1>1, <1>3, <1>5, <1>6 DEF Below

(* The flags a shift or rotation leaves.                                   *)
LEMMA FlagsLeft ==
  ASSUME NEW f \in Flags, NEW c \in BOOLEAN, NEW p \in BOOLEAN
  PROVE  /\ [f EXCEPT !.c = c, !.o = p] \in Flags /\ [f EXCEPT !.c = c, !.o = p].c = c
         /\ [f EXCEPT !.o = p, !.c = c] \in Flags /\ [f EXCEPT !.o = p, !.c = c].c = c
  BY DEF Flags, Flag

(* Shifting up, in b places.                                               *)
LEMMA UpIs ==
  ASSUME NEW b \in Lengths, NEW k \in 0..b, NEW v \in Int,
         NEW P, P = 2^k, NEW Q, Q = 2^(b - k)
  PROVE  Factors(P, Q, 2^b) /\ Up(v, k, b) = P * (v % Q)
  <1>0. b \in Nat
    BY DEF Lengths
  <1>1. Factors(P, Q, 2^b)
    BY SplitPower DEF Factors
  <1>2. v % Q \in 0..Q - 1 /\ P \in Nat
    BY <1>1, DivisionIs DEF Divided, Factors
  <1>3. CASE k >= b
    <2>1. k = b /\ b - k = 0
      BY <1>0, <1>3
    <2>2. Q = 1
      BY <2>1, PowersAre
    <2>3. v % Q = 0
      BY <1>2, <2>2
    <2>4. QED
      BY <1>1, <1>3, <2>3 DEF Up
  <1>4. CASE ~(k >= b)
    BY <1>1, <1>2, <1>4 DEF Up
  <1>5. QED
    BY <1>1, <1>3, <1>4

LEMMA TurnsAre ==
  ASSUME NEW w \in Width, NEW n \in Nat
  PROVE  Turns(n, w) \in 1..w.bits /\ CarryTurns(n, w) \in 0..w.bits
  BY WidthIs DEF Turns, CarryTurns

(* A product with one of its factors turned round.                         *)
LEMMA Turned ==
  ASSUME NEW y \in Int, NEW q \in Int
  PROVE  (-y) * q = -(y * q) /\ y * (-q) = -(y * q) /\ (-y) * (-q) = y * q
         /\ y * q = q * y /\ y * q \in Int
  BY Z3

(* ROL and ROR, by any count but 0.                                        *)
LEMMA RolIs ==
  ASSUME NEW w \in Width, NEW v \in Operand(w), NEW f \in Flags, NEW n \in Nat \ {0},
         NEW o, o = Shift("rol", v, n, f, w),
         NEW P, P = 2^Turns(n, w), NEW Q, Q = 2^(w.bits - Turns(n, w))
  PROVE  /\ o.v = P * (v % Q) + (v \div Q) /\ o.v \in Operand(w)
         /\ o.f \in Flags /\ o.f.c = Lsb(o.v)
  <1> DEFINE k == Turns(n, w)
             r == Up(v, k, w.bits) + Right(v, w.bits - k, w)
  <1>1. k \in 0..w.bits /\ w.bits \in Nat /\ w.bits - k \in 0..w.bits /\ v \in Int
    BY TurnsAre, LengthIs DEF Operand
  <1>2. o = Out(r, [f EXCEPT !.c = Lsb(r), !.o = Sign(r, w) # Lsb(r)], w)
    BY DEF Shift, Rol
  <1>3. Factors(P, Q, Modulus(w)) /\ Up(v, k, w.bits) = P * (v % Q)
    BY <1>1, LengthIs, UpIs DEF Modulus
  <1>4. v \in Below(Modulus(w))
    BY DEF Operand, Below
  <1>6. Right(v, w.bits - k, w) = v \div Q
    BY <1>1, CountIs DEF Right
  <1> HIDE DEF k
  <1>7. r \in Operand(w) /\ r = P * (v % Q) + (v \div Q)
    BY <1>3, <1>4, <1>6, RotatedIs DEF Operand, Below
  <1>8. Low(r, w) = r
    BY <1>7, LowIs DEF Operand
  <1> HIDE DEF r
  <1>9. o.v = r /\ o.f \in Flags /\ o.f.c = Lsb(r)
    <2> DEFINE c == Lsb(r)
               h == Sign(r, w) # c
               g == [f EXCEPT !.c = c, !.o = h]
    <2>1. c \in BOOLEAN /\ h \in BOOLEAN /\ o = Out(r, g, w)
      BY <1>2 DEF Lsb
    <2> HIDE DEF c, h
    <2>2. g \in Flags /\ g.c = c
      BY <2>1, FlagsLeft
    <2> HIDE DEF g
    <2>3. QED
      BY <1>8, <2>1, <2>2 DEF Out, c
  <1>10. QED
    BY <1>7, <1>9

LEMMA RorIs ==
  ASSUME NEW w \in Width, NEW v \in Operand(w), NEW f \in Flags, NEW n \in Nat \ {0},
         NEW o, o = Shift("ror", v, n, f, w),
         NEW P, P = 2^Turns(n, w), NEW Q, Q = 2^(w.bits - Turns(n, w))
  PROVE  /\ o.v = Low(Q * (v % P) + (v \div P), w)
         /\ o.f \in Flags /\ o.f.c = Sign(o.v, w)
  <1> DEFINE k == Turns(n, w)
             r == Right(v, k, w) + Up(v, w.bits - k, w.bits)
  <1>1. /\ k \in 0..w.bits /\ w.bits \in Nat /\ w.bits - k \in 0..w.bits
        /\ w.bits - (w.bits - k) = k /\ v \in Int
    BY TurnsAre, LengthIs DEF Operand
  <1>2. o.v = Low(r, w)
    BY DEF Shift, Ror, Out
  <1>3. Factors(Q, P, 2^w.bits) /\ Up(v, w.bits - k, w.bits) = Q * (v % P)
    <2>1. P = 2^(w.bits - (w.bits - k))
      BY <1>1
    <2>2. QED
      BY <1>1, <2>1, LengthIs, UpIs
  <1>5. Right(v, k, w) = v \div P
    BY <1>1, CountIs DEF Right
  <1> HIDE DEF k
  <1>6. v \div P \in Int /\ v % P \in Int
    <2>1. Factors(P, Q, Q * P)
      BY <1>3 DEF Factors
    <2>2. QED
      BY <1>1, <2>1, FactorDivides
  <1>7. r = Q * (v % P) + (v \div P)
    BY <1>3, <1>5, <1>6 DEF Factors
  <1>8. o.f \in Flags /\ o.f.c = Sign(r, w)
    <2> DEFINE c == Sign(r, w)
               h == c # (Bit(r, w.bits - 2) = 1)
               g == [f EXCEPT !.c = c, !.o = h]
    <2>1. o.f = g
      BY DEF Shift, Ror, Out, k
    <2>2. c \in BOOLEAN /\ h \in BOOLEAN
      BY DEF Sign
    <2> HIDE DEF c, h
    <2>3. g \in Flags /\ g.c = c
      BY <2>2, FlagsLeft
    <2> HIDE DEF g
    <2>4. QED
      BY <2>1, <2>3 DEF c
  <1>9. Sign(r, w) = Sign(Low(r, w), w)
    <2>1. r \in Int
      BY <1>3, <1>6, <1>7, Turned DEF Factors
    <2> HIDE DEF r
    <2>2. Low(r, w) \in Operand(w) /\ Low(r, w) \in Int
      BY <2>1, LowIs, ModulusIs DEF Operand
    <2>3. Low(Low(r, w), w) = Low(r, w)
      BY <2>2, LowIs
    <2>4. QED
      BY <2>1, <2>2, <2>3, SignIs
  <1>10. QED
    BY <1>2, <1>7, <1>8, <1>9

LEMMA NoShift ==
  ASSUME NEW op, NEW v, NEW n, n = 0, NEW f, NEW w
  PROVE  Shift(op, v, n, f, w).v = v /\ Shift(op, v, n, f, w).f = f
  BY DEF Shift

(* A rotation and the opposite one.                                        *)
LEMMA RotatedBack ==
  ASSUME NEW w \in Width, NEW v \in Operand(w), NEW f \in Flags, NEW n \in Nat,
         NEW o, o = Shift("rol", v, n, f, w),
         NEW u, u = Shift("ror", o.v, n, o.f, w)
  PROVE  u.v = v
  <1>1. CASE n = 0
    BY <1>1, NoShift
  <1>2. CASE n # 0
    <2> DEFINE k == Turns(n, w)
               P == 2^k
               Q == 2^(w.bits - k)
    <2>1. o.v = P * (v % Q) + (v \div Q) /\ o.v \in Operand(w) /\ o.f \in Flags
      BY <1>2, RolIs
    <2>2. Factors(P, Q, Modulus(w))
      <3>1. k \in 0..w.bits
        BY TurnsAre, LengthIs
      <3>2. QED
        BY <3>1, LengthIs, SplitPower DEF Modulus, Factors
    <2>3. u.v = Low(Q * (o.v % P) + (o.v \div P), w)
      BY <1>2, <2>1, RorIs
    <2> HIDE DEF P, Q
    <2>4. v \in Below(Modulus(w))
      BY DEF Operand, Below
    <2>5. Q * (o.v % P) + (o.v \div P) = v
      BY <2>1, <2>2, <2>4, RotatedIs
    <2>6. Low(v, w) = v
      BY LowIs DEF Operand
    <2>7. QED
      BY <2>3, <2>5, <2>6
  <1>3. QED
    BY <1>1, <1>2

(* The low word of a number that may have one bit above it.                *)
LEMMA LowBelow ==
  ASSUME NEW w \in Width, NEW M, M = Modulus(w), NEW y, y \in Below(2 * M)
  PROVE  /\ M \in Nat /\ y \in Int /\ 0 <= y /\ y < 2 * M
         /\ Low(y, w) = IF y >= M THEN y - M ELSE y
         /\ Low(y, w) \in Operand(w)
  <1>1. M \in Nat /\ y \in Int /\ 0 <= y /\ y < 2 * M
    BY ModulusIs DEF Below
  <1>2. CASE y >= M
    <2>1. y \in M..2 * M - 1
      BY <1>1, <1>2
    <2>2. QED
      BY <1>1, <1>2, <2>1, LowIs
  <1>3. CASE ~(y >= M)
    <2>1. y \in Operand(w)
      BY <1>1, <1>3 DEF Operand
    <2>2. QED
      BY <1>1, <1>3, <2>1, LowIs
  <1>4. QED
    BY <1>2, <1>3

(* RCL and RCR turn the operand with CF above it.                          *)
LEMMA CarryAboveIs ==
  ASSUME NEW w \in Width, NEW M, M = Modulus(w), NEW y, y \in Below(2 * M),
         NEW g, g.c = (y >= M)
  PROVE  Low(y, w) \in Operand(w) /\ CarryAbove(Low(y, w), g, w) = y
  <1>1. /\ M \in Nat /\ y \in Int
        /\ Low(y, w) = IF y >= M THEN y - M ELSE y
        /\ Low(y, w) \in Operand(w)
    BY LowBelow
  <1>2. CASE y >= M
    <2>1. Num(g.c) = 1
      BY <1>2 DEF Num
    <2>2. QED
      BY <1>1, <1>2, <2>1 DEF CarryAbove
  <1>3. CASE ~(y >= M)
    <2>1. Num(g.c) = 0
      BY <1>3 DEF Num
    <2>2. QED
      BY <1>1, <1>3, <2>1 DEF CarryAbove
  <1>4. QED
    BY <1>2, <1>3

LEMMA CarryOf ==
  ASSUME NEW w \in Width, NEW M, M = Modulus(w), NEW v \in Operand(w), NEW f \in Flags,
         NEW x, x = CarryAbove(v, f, w)
  PROVE  x \in Below(2 * M) /\ Low(x, w) = v /\ f.c = (x >= M)
  <1>1. M \in Nat /\ v \in Int /\ v >= 0 /\ v < M /\ f.c \in BOOLEAN
    BY ModulusIs DEF Operand, Flags, Flag
  <1>2. CASE f.c
    <2>1. x = v + M
      BY <1>1, <1>2 DEF CarryAbove, Num
    <2>2. x \in Below(2 * M) /\ x >= M /\ x - M = v
      BY <1>1, <2>1 DEF Below
    <2>3. QED
      BY <1>2, <2>2, LowBelow
  <1>3. CASE ~f.c
    <2>1. x = v
      BY <1>1, <1>3 DEF CarryAbove, Num
    <2>2. x \in Below(2 * M) /\ ~(x >= M)
      BY <1>1, <2>1 DEF Below
    <2>3. QED
      BY <1>1, <1>3, <2>1, <2>2, LowBelow
  <1>4. QED
    BY <1>1, <1>2, <1>3

LEMMA NextPower == ASSUME NEW w \in Width PROVE 2^(w.bits + 1) = 2 * Modulus(w)
  <1>1. CASE w.bits = 4
    BY <1>1, PowersAre DEF Modulus
  <1>2. CASE w.bits = 8
    BY <1>2, PowersAre DEF Modulus
  <1>3. CASE w.bits = 16
    BY <1>3, PowersAre DEF Modulus
  <1>4. QED
    BY <1>1, <1>2, <1>3, WidthIs

LEMMA RclIs ==
  ASSUME NEW w \in Width, NEW v \in Operand(w), NEW f \in Flags, NEW n \in Nat, n # 0,
         NEW o, o = Shift("rcl", v, n, f, w),
         NEW x, x = CarryAbove(v, f, w),
         NEW P, P = 2^CarryTurns(n, w), NEW Q, Q = 2^(w.bits + 1 - CarryTurns(n, w)),
         NEW y, y = P * (x % Q) + (x \div Q)
  PROVE  /\ Factors(P, Q, 2 * Modulus(w))
         /\ o.v = Low(y, w) /\ o.f \in Flags /\ o.f.c = (y >= Modulus(w))
  <1> DEFINE k == CarryTurns(n, w)
             c == y >= Modulus(w)
             u == Up(x, k, w.bits + 1) + x \div 2^(w.bits + 1 - k)
  <1>1. k \in 0..w.bits + 1 /\ x \in Int
    BY TurnsAre, LengthIs, CarryOf DEF Below
  <1>2. Factors(P, Q, 2 * Modulus(w)) /\ Up(x, k, w.bits + 1) = P * (x % Q)
    BY <1>1, LengthIs, UpIs, NextPower
  <1>3. u = y
    BY <1>2
  <1>4. o = Out(u, [f EXCEPT !.c = u >= Modulus(w), !.o = Sign(Low(u, w), w) # (u >= Modulus(w))], w)
    BY DEF Shift, Rcl
  <1> HIDE DEF k, u
  <1>5. o = Out(y, [f EXCEPT !.c = c, !.o = Sign(Low(y, w), w) # c], w)
    BY <1>3, <1>4
  <1>6. c \in BOOLEAN /\ (Sign(Low(y, w), w) # c) \in BOOLEAN
    OBVIOUS
  <1> HIDE DEF c
  <1> DEFINE h == Sign(Low(y, w), w) # c
             g == [f EXCEPT !.c = c, !.o = h]
  <1>7. h \in BOOLEAN /\ o = Out(y, g, w)
    BY <1>5, <1>6
  <1> HIDE DEF h
  <1>8. g \in Flags /\ g.c = c
    BY <1>6, <1>7, FlagsLeft
  <1> HIDE DEF g
  <1>9. o.v = Low(y, w) /\ o.f = g
    BY <1>7 DEF Out
  <1>10. QED
    BY <1>2, <1>8, <1>9 DEF c

LEMMA RcrIs ==
  ASSUME NEW w \in Width, NEW v \in Operand(w), NEW f \in Flags, NEW n \in Nat, n # 0,
         NEW o, o = Shift("rcr", v, n, f, w),
         NEW x, x = CarryAbove(v, f, w),
         NEW P, P = 2^CarryTurns(n, w), NEW Q, Q = 2^(w.bits + 1 - CarryTurns(n, w)),
         NEW y, y = Q * (x % P) + (x \div P)
  PROVE  o.v = Low(y, w) /\ o.f \in Flags /\ o.f.c = (y >= Modulus(w))
  <1> DEFINE k == CarryTurns(n, w)
             c == y >= Modulus(w)
             u == x \div 2^k + Up(x, w.bits + 1 - k, w.bits + 1)
             over(z) == Sign(Low(z, w), w) # (Bit(Low(z, w), w.bits - 2) = 1)
  <1>1. /\ k \in 0..w.bits + 1 /\ w.bits + 1 - k \in 0..w.bits + 1 /\ x \in Int
        /\ w.bits + 1 - (w.bits + 1 - k) = k
    BY TurnsAre, LengthIs, CarryOf DEF Below
  <1>2. Factors(Q, P, 2 * Modulus(w)) /\ Up(x, w.bits + 1 - k, w.bits + 1) = Q * (x % P)
    <2>1. P = 2^(w.bits + 1 - (w.bits + 1 - k))
      BY <1>1
    <2>2. QED
      BY <1>1, <2>1, LengthIs, UpIs, NextPower
  <1>3. u = y
    <2>1. Factors(P, Q, Q * P)
      BY <1>2 DEF Factors
    <2>2. x \div P \in Int /\ x % P \in Int
      BY <1>1, <2>1, FactorDivides
    <2>3. QED
      BY <1>2, <2>2 DEF Factors
  <1>4. o = Out(u, [f EXCEPT !.c = u >= Modulus(w), !.o = over(u)], w)
    BY DEF Shift, Rcr
  <1> HIDE DEF k, u
  <1>5. o = Out(y, [f EXCEPT !.c = c, !.o = over(y)], w)
    BY <1>3, <1>4
  <1>6. c \in BOOLEAN /\ over(y) \in BOOLEAN
    OBVIOUS
  <1> HIDE DEF c, over
  <1> DEFINE h == over(y)
             g == [f EXCEPT !.c = c, !.o = h]
  <1>7. h \in BOOLEAN /\ o = Out(y, g, w)
    BY <1>5, <1>6
  <1> HIDE DEF h
  <1>8. g \in Flags /\ g.c = c
    BY <1>6, <1>7, FlagsLeft
  <1> HIDE DEF g
  <1>9. o.v = Low(y, w) /\ o.f = g
    BY <1>7 DEF Out
  <1>10. QED
    BY <1>8, <1>9 DEF c

LEMMA CarryTurned ==
  ASSUME NEW w \in Width, NEW v \in Operand(w), NEW f \in Flags, NEW n \in Nat, n # 0,
         NEW o, o = Shift("rcl", v, n, f, w)
  PROVE  o.v \in Operand(w) /\ o.f \in Flags
  <1> DEFINE k == CarryTurns(n, w)
             P == 2^k
             Q == 2^(w.bits + 1 - k)
             x == CarryAbove(v, f, w)
             y == P * (x % Q) + (x \div Q)
  <1>1. Factors(P, Q, 2 * Modulus(w)) /\ o.v = Low(y, w) /\ o.f \in Flags
    BY RclIs
  <1>2. x \in Below(2 * Modulus(w))
    BY CarryOf
  <1> HIDE DEF P, Q, x
  <1>3. y \in Below(2 * Modulus(w))
    BY <1>1, <1>2, RotatedIs
  <1> HIDE DEF y
  <1>4. QED
    BY <1>1, <1>3, LowBelow

LEMMA CarryRotatedBack ==
  ASSUME NEW w \in Width, NEW v \in Operand(w), NEW f \in Flags, NEW n \in Nat,
         NEW o, o = Shift("rcl", v, n, f, w),
         NEW u, u = Shift("rcr", o.v, n, o.f, w)
  PROVE  u.v = v /\ u.f.c = f.c
  <1>1. CASE n = 0
    BY <1>1, NoShift
  <1>2. CASE n # 0
    <2> DEFINE k == CarryTurns(n, w)
               P == 2^k
               Q == 2^(w.bits + 1 - k)
               x == CarryAbove(v, f, w)
               y == P * (x % Q) + (x \div Q)
               z == Q * (y % P) + (y \div P)
    <2>1. /\ Factors(P, Q, 2 * Modulus(w))
          /\ o.v = Low(y, w) /\ o.f \in Flags /\ o.f.c = (y >= Modulus(w))
      BY <1>2, RclIs
    <2>2. x \in Below(2 * Modulus(w)) /\ Low(x, w) = v /\ f.c = (x >= Modulus(w))
      BY CarryOf
    <2>3. y \in Below(2 * Modulus(w)) /\ z = x
      <3> HIDE DEF P, Q, x
      <3>1. QED
        BY <2>1, <2>2, RotatedIs
    <2>4. o.v \in Operand(w) /\ CarryAbove(o.v, o.f, w) = y
      <3> HIDE DEF y
      <3>1. QED
        BY <2>1, <2>3, CarryAboveIs
    <2>5. u.v = Low(z, w) /\ u.f.c = (z >= Modulus(w))
      <3> HIDE DEF y
      <3>1. QED
        BY <1>2, <2>1, <2>4, RcrIs
    <2> HIDE DEF x, z
    <2>6. QED
      BY <2>2, <2>3, <2>5
  <1>3. QED
    BY <1>1, <1>2

(* SHL by up to the width of the operand, SHR and SAR by any count that     *)
(* C's type holds.                                                         *)
LEMMA ShlIs ==
  ASSUME NEW w \in Width, NEW v \in Operand(w), NEW f \in Flags,
         NEW n \in 1..w.bits,
         NEW o, o = Shift("shl", v, n, f, w),
         NEW P, P = 2^n, NEW Q, Q = 2^(w.bits - n)
  PROVE  /\ Factors(P, Q, Modulus(w))
         /\ o.v = Low(P * (v % Q), w) /\ o.f \in Flags /\ o.f.c = Lsb(v \div Q)
  <1> DEFINE c == Lsb(Right(v, w.bits - n, w))
             r == Left(v, n, w)
             h == c # Sign(r, w)
             g == [f EXCEPT !.c = c, !.o = h]
  <1>1. /\ n \in Nat /\ n # 0 /\ n \in 0..w.bits /\ w.bits \in Nat
        /\ w.bits - n \in 0..w.bits /\ v \in Int /\ n <= w.bits
    BY LengthIs DEF Operand
  <1>2. Right(v, w.bits - n, w) = v \div Q
    BY <1>1, CountIs DEF Right
  <1>3. Factors(P, Q, Modulus(w)) /\ Up(v, n, w.bits) = P * (v % Q)
    BY <1>1, LengthIs, UpIs DEF Modulus
  <1>4. r = P * (v % Q)
    BY <1>1, <1>3, CountIs DEF Left
  <1>5. o = Out(r, SetSZP(g, r, w), w)
    BY <1>1 DEF Shift, Shl
  <1>6. c \in BOOLEAN /\ h \in BOOLEAN
    BY DEF Lsb
  <1> HIDE DEF r, h
  <1>7. g \in Flags /\ g.c = c
    <2> HIDE DEF c
    <2>1. QED
      BY <1>6, FlagsLeft
  <1> HIDE DEF g
  <1>8. o.v = Low(r, w) /\ o.f \in Flags /\ o.f.c = c
    BY <1>5, <1>7, SZPIs DEF Out
  <1>9. QED
    BY <1>2, <1>3, <1>4, <1>8

LEMMA ShrIs ==
  ASSUME NEW w \in Width, NEW v \in Operand(w), NEW f \in Flags,
         NEW n \in 1..4 * w.byte - 1,
         NEW o, o = Shift("shr", v, n, f, w)
  PROVE  o.v = Low(v \div 2^n, w) /\ o.f \in Flags /\ o.f.c = Lsb(v \div 2^(n - 1))
  <1> DEFINE h == Sign(v, w)
             r == Right(v, n, w)
             c == Lsb(Right(v, n - 1, w))
             g == [f EXCEPT !.o = h, !.c = c]
  <1>1. /\ n # 0 /\ n \in Int /\ 0 <= n /\ n < 4 * w.byte
        /\ n - 1 \in Int /\ 0 <= n - 1 /\ n - 1 < 4 * w.byte
    BY WidthIs
  <1>2. r = v \div 2^n /\ Right(v, n - 1, w) = v \div 2^(n - 1)
    BY <1>1, CountWithin DEF Right
  <1>3. o = Out(r, SetSZP(g, r, w), w)
    BY <1>1 DEF Shift, Shr
  <1>4. c \in BOOLEAN /\ h \in BOOLEAN
    BY DEF Lsb, Sign
  <1> HIDE DEF r, h
  <1>5. g \in Flags /\ g.c = c
    <2> HIDE DEF c
    <2>1. QED
      BY <1>4, FlagsLeft
  <1> HIDE DEF g
  <1>6. o.v = Low(r, w) /\ o.f \in Flags /\ o.f.c = c
    BY <1>3, <1>5, SZPIs DEF Out
  <1>7. QED
    BY <1>2, <1>6

LEMMA SarIs ==
  ASSUME NEW w \in Width, NEW v \in Operand(w), NEW f \in Flags,
         NEW n \in 1..4 * w.byte - 1,
         NEW o, o = Shift("sar", v, n, f, w),
         NEW x, x = Signed(v, w)
  PROVE  o.v = Low(x \div 2^n, w) /\ o.f \in Flags /\ o.f.c = Lsb(x \div 2^(n - 1))
  <1> DEFINE r == IF n >= w.bits THEN IF x < 0 THEN -1 ELSE 0 ELSE Right(x, n, w)
             c == Lsb(Right(x, n - 1, w))
             h == FALSE
             g == [f EXCEPT !.c = c, !.o = h]
  <1>1. /\ n # 0 /\ n \in Int /\ 0 <= n /\ n < 4 * w.byte
        /\ n - 1 \in Int /\ 0 <= n - 1 /\ n - 1 < 4 * w.byte
    BY WidthIs
  <1>2. x \in Int /\ -Modulus(w) <= x /\ x < Modulus(w) /\ Modulus(w) \in Nat /\ Modulus(w) # 0
    BY SignedIs, ModulusIs
  <1>3. Right(x, n - 1, w) = x \div 2^(n - 1)
    BY <1>1, CountWithin DEF Right
  <1>4. r = x \div 2^n
    <2>1. CASE n >= w.bits
      <3>1. 2^n \in Nat /\ 2^n # 0 /\ Modulus(w) <= 2^n
        <4>1. n \in 0..31 /\ Modulus(w) <= 2^n
          BY <1>1, <2>1, CountWithin
        <4>2. Power(n)
          BY <4>1, PowerIs
        <4>3. QED
          BY <4>1, <4>2 DEF Power
      <3>2. CASE x < 0
        <4>1. Divided(x, 2^n, -1, x + 2^n)
          BY <1>2, <3>1, <3>2 DEF Divided
        <4>2. QED
          BY <2>1, <3>1, <3>2, <4>1, DivisionOnly
      <3>3. CASE ~(x < 0)
        <4>1. Divided(x, 2^n, 0, x)
          BY <1>2, <3>1, <3>3 DEF Divided
        <4>2. QED
          BY <2>1, <3>1, <3>3, <4>1, DivisionOnly
      <3>4. QED
        BY <3>2, <3>3
    <2>2. CASE ~(n >= w.bits)
      BY <1>1, <2>2, CountWithin DEF Right
    <2>3. QED
      BY <2>1, <2>2
  <1>5. o = Out(r, SetSZP(g, r, w), w)
    BY <1>1 DEF Shift, Sar
  <1>6. c \in BOOLEAN /\ h \in BOOLEAN
    BY DEF Lsb
  <1> HIDE DEF r, h
  <1>7. g \in Flags /\ g.c = c
    <2> HIDE DEF c
    <2>1. QED
      BY <1>6, FlagsLeft
  <1> HIDE DEF g
  <1>8. o.v = Low(r, w) /\ o.f \in Flags /\ o.f.c = c
    BY <1>5, <1>7, SZPIs DEF Out
  <1>9. QED
    BY <1>3, <1>4, <1>8

(* By one place: the number of which a shift leaves twice or half, with    *)
(* the bit it puts into CF and, when it turns, the one it takes from there. *)
One(n) == n = 1

LEMMA OneIs ==
  ASSUME NEW w \in Width, NEW n, One(n)
  PROVE  /\ n \in 1..w.bits /\ n \in 1..4 * w.byte - 1 /\ n \in Nat /\ n # 0
         /\ 2^n = 2 /\ 2^(n - 1) = 1 /\ 2^(w.bits - n) = Half(w)
         /\ CarryTurns(n, w) = n /\ 2^(w.bits + 1 - n) = Modulus(w)
  <1>1. w.bits \in {4, 8, 16} /\ n = 1
    BY WidthIs DEF One
  <1>2. 2^n = 2 /\ 2^(n - 1) = 1
    BY <1>1, PowersAre
  <1>3. /\ n \in 1..w.bits /\ n \in 1..4 * w.byte - 1
        /\ CarryTurns(n, w) = n /\ w.bits + 1 - n = w.bits
    BY <1>1, WidthIs DEF CarryTurns
  <1>4. QED
    BY <1>1, <1>2, <1>3 DEF Half, Modulus

Doubled(w, v, k, u, j) == u \in Operand(w) /\ 2 * v + k = u + j * Modulus(w)
Halved(w, v, k, u, j) == u \in Operand(w) /\ v + k * Modulus(w) = 2 * u + j

LEMMA LsbIs ==
  ASSUME NEW v \in Int
  PROVE  /\ v % 2 = Num(Lsb(v)) /\ v = 2 * (v \div 2) + Num(Lsb(v))
         /\ v \div 2 \in Int /\ v \div 1 = v /\ Lsb(v) \in BOOLEAN
  BY DEF Lsb, Num

LEMMA ShlOne ==
  ASSUME NEW w \in Width, NEW v \in Operand(w), NEW f \in Flags,
         NEW n, One(n), NEW o, o = Shift("shl", v, n, f, w)
  PROVE  o.f \in Flags /\ Doubled(w, v, 0, o.v, Num(o.f.c))
  <1> DEFINE H == Half(w)
             M == Modulus(w)
             y == v \div H
             z == v % H
  <1>1. /\ o.v = Low(2 * z, w) /\ o.f \in Flags /\ o.f.c = Lsb(y)
    <2> DEFINE P == 2^n
               Q == 2^(w.bits - n)
    <2>1. o.v = Low(P * (v % Q), w) /\ o.f \in Flags /\ o.f.c = Lsb(v \div Q)
      BY OneIs, ShlIs
    <2>2. P = 2 /\ Q = H
      BY OneIs
    <2> HIDE DEF P, Q, H
    <2>3. QED
      BY <2>1, <2>2
  <1>2. /\ H \in Nat /\ H # 0 /\ M \in Nat /\ M = 2 * H
        /\ v \in Int /\ 0 <= v /\ v < M
    BY ModulusIs DEF Operand
  <1>3. Divided(v, H, y, z)
    BY <1>2, DivisionIs
  <1>4. Factors(2, H, M) /\ v \in Below(M)
    BY <1>2 DEF Factors, Below
  <1> HIDE DEF y, z, H, M
  <1>5. y \in 0..1
    BY <1>3, <1>4, QuotientBelow
  <1>6. z \in Int /\ 0 <= z /\ z < H /\ v = H * y + z
    BY <1>3 DEF Divided
  <1>7. 2 * z \in Operand(w)
    BY <1>2, <1>6 DEF Operand, M
  <1>8. o.v = 2 * z
    BY <1>1, <1>7, LowIs DEF Operand
  <1>9. Num(o.f.c) = y
    <2>1. y = 0 \/ y = 1
      BY <1>5
    <2>2. Lsb(y) = (y = 1)
      BY <2>1 DEF Lsb
    <2>3. QED
      BY <1>1, <2>1, <2>2 DEF Num
  <1>10. 2 * v + 0 = 2 * z + y * M
    <2>1. y = 0 \/ y = 1
      BY <1>5
    <2>2. QED
      BY <1>2, <1>6, <2>1
  <1>11. QED
    BY <1>1, <1>7, <1>8, <1>9, <1>10 DEF Doubled, M

LEMMA RclOne ==
  ASSUME NEW w \in Width, NEW v \in Operand(w), NEW f \in Flags,
         NEW n, One(n), NEW o, o = Shift("rcl", v, n, f, w)
  PROVE  o.f \in Flags /\ Doubled(w, v, Num(f.c), o.v, Num(o.f.c))
  <1> DEFINE M == Modulus(w)
             x == CarryAbove(v, f, w)
             y == 2 * (x % M) + (x \div M)
             k == Num(f.c)
  <1>1. o.v = Low(y, w) /\ o.f \in Flags /\ o.f.c = (y >= M)
    <2> DEFINE t == CarryTurns(n, w)
               P == 2^t
               Q == 2^(w.bits + 1 - t)
               u == P * (x % Q) + (x \div Q)
    <2>1. o.v = Low(u, w) /\ o.f \in Flags /\ o.f.c = (u >= M)
      BY OneIs, RclIs
    <2>2. P = 2 /\ Q = M
      BY OneIs
    <2> HIDE DEF P, Q, M, x
    <2>3. u = y
      BY <2>2
    <2> HIDE DEF u, y
    <2>4. QED
      BY <2>1, <2>3
  <1>2. M \in Nat /\ v \in Int /\ 0 <= v /\ v < M /\ k \in {0, 1} /\ x = v + k * M
    BY ModulusIs, NumIs DEF Operand, CarryAbove, Flags, Flag
  <1> HIDE DEF k, M, x
  <1>3. Divided(x, M, k, v)
    BY <1>2 DEF Divided
  <1>4. y = 2 * v + k
    BY <1>3, DivisionOnly
  <1> HIDE DEF y
  <1>5. y \in Below(2 * M)
    BY <1>2, <1>4 DEF Below
  <1>6. o.v \in Operand(w) /\ o.v = (IF y >= M THEN y - M ELSE y) /\ y \in Int
    BY <1>1, <1>5, LowBelow DEF M
  <1>7. Num(o.f.c) = IF y >= M THEN 1 ELSE 0
    BY <1>1 DEF Num
  <1>8. y = o.v + Num(o.f.c) * M
    BY <1>2, <1>6, <1>7
  <1>9. QED
    BY <1>1, <1>4, <1>6, <1>8 DEF Doubled, M, k

LEMMA ShrOne ==
  ASSUME NEW w \in Width, NEW v \in Operand(w), NEW f \in Flags,
         NEW n, One(n), NEW o, o = Shift("shr", v, n, f, w)
  PROVE  o.f \in Flags /\ Halved(w, v, 0, o.v, Num(o.f.c))
  <1> DEFINE M == Modulus(w)
             r == v \div 2
  <1>1. v \in Int /\ 0 <= v /\ v < M /\ M \in Nat
    BY ModulusIs DEF Operand
  <1>2. o.v = Low(r, w) /\ o.f \in Flags /\ o.f.c = Lsb(v)
    <2> DEFINE P == 2^n
               Q == 2^(n - 1)
    <2>1. o.v = Low(v \div P, w) /\ o.f \in Flags /\ o.f.c = Lsb(v \div Q)
      BY OneIs, ShrIs
    <2>2. P = 2 /\ Q = 1
      BY OneIs
    <2> HIDE DEF P, Q
    <2>3. v \div Q = v /\ v \div P = r
      BY <1>1, <2>2, LsbIs
    <2>4. QED
      BY <2>1, <2>3
  <1>3. v = 2 * r + Num(Lsb(v)) /\ r \in Int /\ Lsb(v) \in BOOLEAN
    BY <1>1, LsbIs
  <1> HIDE DEF r
  <1>4. r \in Operand(w)
    <2>1. Num(Lsb(v)) \in {0, 1}
      BY <1>3, NumIs
    <2>2. QED
      BY <1>1, <1>3, <2>1 DEF Operand
  <1>5. o.v = r
    BY <1>2, <1>3, <1>4, LowIs
  <1>6. v + 0 * M = 2 * r + Num(o.f.c)
    BY <1>1, <1>2, <1>3
  <1>7. QED
    BY <1>2, <1>4, <1>5, <1>6 DEF Halved

LEMMA RcrOne ==
  ASSUME NEW w \in Width, NEW v \in Operand(w), NEW f \in Flags,
         NEW n, One(n), NEW o, o = Shift("rcr", v, n, f, w)
  PROVE  o.f \in Flags /\ Halved(w, v, Num(f.c), o.v, Num(o.f.c))
  <1> DEFINE M == Modulus(w)
             x == CarryAbove(v, f, w)
             j == Num(Lsb(x))
             q == x \div 2
             y == M * (x % 2) + q
             k == Num(f.c)
  <1>1. o.v = Low(y, w) /\ o.f \in Flags /\ o.f.c = (y >= M)
    <2> DEFINE t == CarryTurns(n, w)
               P == 2^t
               Q == 2^(w.bits + 1 - t)
               u == Q * (x % P) + (x \div P)
    <2>1. o.v = Low(u, w) /\ o.f \in Flags /\ o.f.c = (u >= M)
      BY OneIs, RcrIs
    <2>2. P = 2 /\ Q = M
      BY OneIs
    <2> HIDE DEF P, Q, M, x
    <2>3. u = y
      BY <2>2
    <2> HIDE DEF u, y
    <2>4. QED
      BY <2>1, <2>3
  <1>2. M \in Nat /\ v \in Int /\ 0 <= v /\ v < M /\ k \in {0, 1} /\ x = v + k * M
    BY ModulusIs, NumIs DEF Operand, CarryAbove, Flags, Flag
  <1>3. x \in Int
    BY <1>2
  <1>4. x = 2 * q + j /\ y = M * j + q /\ q \in Int /\ j \in {0, 1}
    <2>1. x % 2 = j /\ x = 2 * q + j /\ Lsb(x) \in BOOLEAN /\ q \in Int
      BY <1>3, LsbIs
    <2>2. j \in {0, 1}
      BY <2>1, NumIs
    <2>3. y = M * j + q
      BY <2>1
    <2>4. QED
      BY <2>1, <2>2, <2>3
  <1> HIDE DEF k, M, x, j, q, y
  <1>5. 0 <= q /\ q < M /\ y \in Below(2 * M) /\ (y >= M) = (j = 1)
    BY <1>2, <1>4 DEF Below
  <1>6. o.v \in Operand(w) /\ o.v = (IF y >= M THEN y - M ELSE y) /\ y \in Int
    BY <1>1, <1>5, LowBelow DEF M
  <1>7. o.v = q
    BY <1>2, <1>4, <1>5, <1>6
  <1>8. Num(o.f.c) = j
    BY <1>1, <1>4, <1>5 DEF Num
  <1>9. QED
    BY <1>1, <1>2, <1>4, <1>6, <1>7, <1>8 DEF Halved, M, k

LEMMA SarOne ==
  ASSUME NEW w \in Width, NEW v \in Operand(w), NEW f \in Flags,
         NEW n, One(n), NEW o, o = Shift("sar", v, n, f, w)
  PROVE  /\ o.f \in Flags /\ o.v \in Operand(w)
         /\ Signed(v, w) = 2 * Signed(o.v, w) + Num(o.f.c)
  <1> DEFINE M == Modulus(w)
             H == Half(w)
             x == Signed(v, w)
             r == x \div 2
             j == Num(Lsb(x))
  <1>1. x \in Int /\ -H <= x /\ x < H /\ M \in Nat /\ H \in Nat /\ H # 0 /\ M = 2 * H
    BY SignedIs, ModulusIs
  <1>2. o.v = Low(r, w) /\ o.f \in Flags /\ o.f.c = Lsb(x)
    <2> DEFINE P == 2^n
               Q == 2^(n - 1)
    <2>1. o.v = Low(x \div P, w) /\ o.f \in Flags /\ o.f.c = Lsb(x \div Q)
      BY OneIs, SarIs
    <2>2. P = 2 /\ Q = 1
      BY OneIs
    <2> HIDE DEF P, Q
    <2>3. x \div Q = x /\ x \div P = r
      BY <1>1, <2>2, LsbIs
    <2>4. QED
      BY <2>1, <2>3
  <1>3. x = 2 * r + j /\ r \in Int /\ j \in {0, 1}
    <2>1. x = 2 * r + j /\ r \in Int /\ Lsb(x) \in BOOLEAN
      BY <1>1, LsbIs
    <2>2. QED
      BY <2>1, NumIs
  <1> HIDE DEF r, x, j, M, H
  <1>4. -H <= r /\ r < H
    BY <1>1, <1>3
  <1>5. o.v \in Operand(w) /\ o.v = IF r < 0 THEN r + M ELSE r
    <2>1. CASE r < 0
      <3>1. r \in -M..-1
        BY <1>1, <1>3, <1>4, <2>1
      <3>2. QED
        BY <1>2, <1>3, <2>1, <3>1, LowIs DEF M
    <2>2. CASE ~(r < 0)
      <3>1. r \in Operand(w)
        BY <1>1, <1>3, <1>4, <2>2 DEF Operand, M
      <3>2. QED
        BY <1>2, <1>3, <2>2, <3>1, LowIs
    <2>3. QED
      BY <2>1, <2>2
  <1>6. Signed(o.v, w) = r
    <2>1. Signed(o.v, w) = IF o.v >= H THEN o.v - M ELSE o.v
      BY <1>5, SignedIs DEF H, M
    <2>2. QED
      BY <1>1, <1>3, <1>4, <1>5, <2>1
  <1>7. QED
    BY <1>2, <1>3, <1>5, <1>6 DEF x, j

(* The machine after a shift or rotation.                                  *)
LEMMA AfterShift ==
  ASSUME NEW w \in Width, NEW x \in Machine(w), NEW i, i.d \in Register, i.op \in Shifts,
         NEW y \in After(i, x, w),
         NEW o, o = Shift(i.op, x.r[i.d], i.n, x.f, w), o.v \in Operand(w), o.f \in Flags
  PROVE  /\ y \in Machine(w) /\ y.f = o.f /\ y.r[i.d] = o.v
         /\ \A g \in Register \ {i.d} : y.r[g] = x.r[g]
  <1>1. i.op \notin TwoOperand /\ i.op \in OneOperand \cup Shifts
    BY DEF TwoOperand, OneOperand, Shifts
  <1>2. y = Written(i, x, Compute(i, x.r[i.d], 0, x.f, w))
    BY <1>1 DEF After, TwoOperand, OneOperand, Shifts
  <1>3. y = Written(i, x, o)
    BY <1>2, ComputeIs
  <1>4. QED
    BY <1>3, WrittenIs

LEMMA AfterDoubled ==
  ASSUME NEW w \in Width, NEW x \in Machine(w), NEW i, i.d \in Register,
         i.op \in {"shl", "rcl"}, One(i.n), NEW y \in After(i, x, w),
         NEW k, k = IF i.op = "shl" THEN 0 ELSE Num(x.f.c)
  PROVE  /\ y \in Machine(w) /\ \A g \in Register \ {i.d} : y.r[g] = x.r[g]
         /\ Doubled(w, x.r[i.d], k, y.r[i.d], Num(y.f.c))
  <1> DEFINE o == Shift(i.op, x.r[i.d], i.n, x.f, w)
  <1>1. x.r[i.d] \in Operand(w) /\ x.f \in Flags /\ i.op \in Shifts
    BY MachineIs DEF Shifts
  <1>2. o.f \in Flags /\ Doubled(w, x.r[i.d], k, o.v, Num(o.f.c))
    <2>1. CASE i.op = "shl"
      BY <1>1, <2>1, ShlOne
    <2>2. CASE i.op = "rcl"
      BY <1>1, <2>2, RclOne
    <2>3. QED
      BY <2>1, <2>2
  <1>3. o.v \in Operand(w)
    BY <1>2 DEF Doubled
  <1>4. QED
    BY <1>1, <1>2, <1>3, AfterShift

LEMMA AfterHalved ==
  ASSUME NEW w \in Width, NEW x \in Machine(w), NEW i, i.d \in Register,
         i.op \in {"shr", "rcr"}, One(i.n), NEW y \in After(i, x, w),
         NEW k, k = IF i.op = "shr" THEN 0 ELSE Num(x.f.c)
  PROVE  /\ y \in Machine(w) /\ \A g \in Register \ {i.d} : y.r[g] = x.r[g]
         /\ Halved(w, x.r[i.d], k, y.r[i.d], Num(y.f.c))
  <1> DEFINE o == Shift(i.op, x.r[i.d], i.n, x.f, w)
  <1>1. x.r[i.d] \in Operand(w) /\ x.f \in Flags /\ i.op \in Shifts
    BY MachineIs DEF Shifts
  <1>2. o.f \in Flags /\ Halved(w, x.r[i.d], k, o.v, Num(o.f.c))
    <2>1. CASE i.op = "shr"
      BY <1>1, <2>1, ShrOne
    <2>2. CASE i.op = "rcr"
      BY <1>1, <2>2, RcrOne
    <2>3. QED
      BY <2>1, <2>2
  <1>3. o.v \in Operand(w)
    BY <1>2 DEF Halved
  <1>4. QED
    BY <1>1, <1>2, <1>3, AfterShift

LEMMA AfterSar ==
  ASSUME NEW w \in Width, NEW x \in Machine(w), NEW i, i.d \in Register,
         i.op = "sar", One(i.n), NEW y \in After(i, x, w)
  PROVE  /\ y \in Machine(w) /\ \A g \in Register \ {i.d} : y.r[g] = x.r[g]
         /\ Signed(x.r[i.d], w) = 2 * Signed(y.r[i.d], w) + Num(y.f.c)
  <1> DEFINE o == Shift(i.op, x.r[i.d], i.n, x.f, w)
  <1>1. x.r[i.d] \in Operand(w) /\ x.f \in Flags /\ i.op \in Shifts
    BY MachineIs DEF Shifts
  <1>2. /\ o.f \in Flags /\ o.v \in Operand(w)
        /\ Signed(x.r[i.d], w) = 2 * Signed(o.v, w) + Num(o.f.c)
    BY <1>1, SarOne
  <1>3. QED
    BY <1>1, <1>2, AfterShift

-----------------------------------------------------------------------------
(* Two words doubled and halved, and rotations undone.                     *)

HalfPair(M, d, a, hi, lo, j) == d * M + a = 2 * (hi * M + lo) + j

LEMMA HalvedByWord ==
  ASSUME NEW M \in Moduli, NEW a \in Int, NEW d \in Int, NEW lo \in Int, NEW hi \in Int,
         NEW k \in Int, NEW j \in Int, d = 2 * hi + k, a + k * M = 2 * lo + j
  PROVE  HalfPair(M, d, a, hi, lo, j)
  <1> USE DEF Moduli, HalfPair
  <1>1. CASE M = 16
    BY <1>1
  <1>2. CASE M = 256
    BY <1>2
  <1>3. CASE M = 65536
    BY <1>3
  <1>4. QED
    BY <1>1, <1>2, <1>3

LEMMA DoubleAtEnd ==
  ASSUME Position, Followed, Ended(DoubleWords)
  PROVE  LET ww == Double(prog.w)
         IN  Pair(m) = Low(2 * Pair(start), ww) /\ m.f.c = Sign(Pair(start), ww)
  <1> DEFINE w == prog.w
             M == Modulus(w)
             H == Half(w)
             R == start.r
             i1 == N("shl", "A", 1)
             i2 == N("rcl", "D", 1)
  <1>1. Len(DoubleWords) = 2 /\ DoubleWords[1] = i1 /\ DoubleWords[2] = i2
    BY DEF DoubleWords
  <1>2. /\ i1.d = "A" /\ i1.op = "shl" /\ One(i1.n) /\ i2.d = "D" /\ i2.op = "rcl" /\ One(i2.n)
    BY DEF N, One
  <1> HIDE DEF i1, i2
  <1>3. /\ w \in Width /\ start \in Machine(w)
        /\ \E x \in After(DoubleWords[1], start, w) : m \in After(DoubleWords[2], x, w)
    BY <1>1, TwoSteps, Zenon
  <1>4. PICK x \in After(i1, start, w) : m \in After(i2, x, w)
    BY <1>1, <1>3
  <1> HIDE DEF w
  <1> DEFINE k == Num(x.f.c)
             j == Num(m.f.c)
             lo == m.r.A
             hi == m.r.D
  <1>5. x \in Machine(w) /\ x.r.D = R.D /\ Doubled(w, R.A, 0, x.r.A, k)
    BY <1>2, <1>3, AfterDoubled DEF Register
  <1>6. m \in Machine(w) /\ m.r.A = x.r.A /\ Doubled(w, x.r.D, k, hi, j)
    BY <1>2, <1>4, <1>5, <1>3, AfterDoubled DEF Register
  <1>7. /\ R.A \in Operand(w) /\ R.D \in Operand(w) /\ lo \in Operand(w) /\ hi \in Operand(w)
        /\ k \in {0, 1} /\ j \in {0, 1} /\ m.f.c \in BOOLEAN
    BY <1>3, <1>5, <1>6, MachineIs, NumIs
  <1>8. 2 * R.A + 0 = lo + k * M /\ 2 * R.D + k = hi + j * M
    BY <1>5, <1>6 DEF Doubled
  <1>9. m.f.c = (j = 1)
    BY <1>7, NumIs
  <1>10. /\ R.A \in Int /\ R.D \in Int /\ lo \in Int /\ hi \in Int /\ M \in Nat /\ H \in Nat
         /\ 0 <= R.A /\ 0 <= R.D /\ 0 <= lo /\ 0 <= hi /\ R.A < M /\ R.D < M
         /\ lo < M /\ hi < M /\ M = 2 * H
    BY <1>3, <1>7, ModulusIs DEF Operand
  <1>11. M \in Moduli /\ k \in Bits /\ j \in Bits
    BY <1>3, <1>7, ModulusIs DEF Moduli, Bits
  <1> DEFINE p == R.D * M + R.A
             z == hi * M + lo
  <1>12. p \in Int /\ Sign(p, Double(w)) = (R.D >= H)
    BY <1>3, <1>7, PairRange, PairOf
  <1> HIDE DEF k, j, lo, hi, R, M, H
  <1>13. PairSum(M, R.D, R.A, R.D, R.A, hi, lo, j)
    <2>1. LowSum(M, R.A, R.A, lo, k) /\ HighSum(M, R.D, R.D, k, hi, j)
      BY <1>8, <1>10 DEF LowSum, HighSum
    <2>2. QED
      BY <1>10, <1>11, <2>1, SumByWord
  <1>14. (R.D >= H) = (j = 1)
    <2>1. CASE j = 0
      BY <1>7, <1>8, <1>10, <2>1
    <2>2. CASE j = 1
      BY <1>7, <1>8, <1>10, <2>2
    <2>3. QED
      BY <1>7, <2>1, <2>2
  <1>15. 2 * p = j * (M * M) + z /\ 2 * p \in Int
    <2>1. p + p = j * (M * M) + z
      BY <1>13 DEF PairSum
    <2> HIDE DEF p
    <2>2. QED
      BY <1>12, <2>1
  <1>16. j \in {-1, 0, 1}
    BY <1>7
  <1>17. Low(2 * p, Double(w)) = z
    <2> HIDE DEF p
    <2>1. QED
      BY <1>3, <1>7, <1>15, <1>16, PairOf DEF M
  <1>18. QED
    BY <1>9, <1>12, <1>14, <1>17 DEF Pair, w, R, lo, hi, M

LEMMA HalfAtEnd ==
  ASSUME Position, Followed, Ended(HalfWords)
  PROVE  Pair(m) = Pair(start) \div 2 /\ m.f.c = Lsb(Pair(start))
  <1> DEFINE w == prog.w
             M == Modulus(w)
             R == start.r
             i1 == N("shr", "D", 1)
             i2 == N("rcr", "A", 1)
  <1>1. Len(HalfWords) = 2 /\ HalfWords[1] = i1 /\ HalfWords[2] = i2
    BY DEF HalfWords
  <1>2. /\ i1.d = "D" /\ i1.op = "shr" /\ One(i1.n) /\ i2.d = "A" /\ i2.op = "rcr" /\ One(i2.n)
    BY DEF N, One
  <1> HIDE DEF i1, i2
  <1>3. /\ w \in Width /\ start \in Machine(w)
        /\ \E x \in After(HalfWords[1], start, w) : m \in After(HalfWords[2], x, w)
    BY <1>1, TwoSteps, Zenon
  <1>4. PICK x \in After(i1, start, w) : m \in After(i2, x, w)
    BY <1>1, <1>3
  <1> HIDE DEF w
  <1> DEFINE k == Num(x.f.c)
             j == Num(m.f.c)
             lo == m.r.A
             hi == m.r.D
  <1>5. x \in Machine(w) /\ x.r.A = R.A /\ Halved(w, R.D, 0, x.r.D, k)
    BY <1>2, <1>3, AfterHalved DEF Register
  <1>6. m \in Machine(w) /\ m.r.D = x.r.D /\ Halved(w, x.r.A, k, lo, j)
    BY <1>2, <1>4, <1>5, <1>3, AfterHalved DEF Register
  <1>7. /\ R.A \in Operand(w) /\ R.D \in Operand(w) /\ lo \in Operand(w) /\ hi \in Operand(w)
        /\ k \in {0, 1} /\ j \in {0, 1} /\ m.f.c \in BOOLEAN
    BY <1>3, <1>5, <1>6, MachineIs, NumIs
  <1>8. R.D + 0 * M = 2 * hi + k /\ R.A + k * M = 2 * lo + j
    BY <1>5, <1>6 DEF Halved
  <1>9. m.f.c = (j = 1)
    BY <1>7, NumIs
  <1>10. /\ R.A \in Int /\ R.D \in Int /\ lo \in Int /\ hi \in Int /\ M \in Nat
         /\ k \in Int /\ j \in Int /\ M \in Moduli
    BY <1>3, <1>7, ModulusIs DEF Operand, Moduli
  <1> DEFINE p == R.D * M + R.A
             z == hi * M + lo
  <1> HIDE DEF k, j, lo, hi, R, M
  <1>11. HalfPair(M, R.D, R.A, hi, lo, j)
    <2>1. R.D = 2 * hi + k
      BY <1>8, <1>10
    <2>2. QED
      BY <1>8, <1>10, <2>1, HalvedByWord
  <1>12. p = 2 * z + j /\ z \in Int /\ j \in 0..1
    BY <1>7, <1>10, <1>11 DEF HalfPair
  <1> HIDE DEF p, z
  <1>13. p \div 2 = z /\ p % 2 = j
    BY <1>12
  <1>14. QED
    BY <1>9, <1>13 DEF Pair, Lsb, w, R, lo, hi, M, p, z

LEMMA SignedHalfAtEnd ==
  ASSUME Position, Followed, Ended(SignedHalf)
  PROVE  LET ww == Double(prog.w)
         IN  /\ Pair(m) = Low(Signed(Pair(start), ww) \div 2, ww)
             /\ m.f.c = Lsb(Pair(start))
  <1> DEFINE w == prog.w
             M == Modulus(w)
             H == Half(w)
             R == start.r
             i1 == N("sar", "D", 1)
             i2 == N("rcr", "A", 1)
  <1>1. Len(SignedHalf) = 2 /\ SignedHalf[1] = i1 /\ SignedHalf[2] = i2
    BY DEF SignedHalf
  <1>2. /\ i1.d = "D" /\ i1.op = "sar" /\ One(i1.n) /\ i2.d = "A" /\ i2.op = "rcr" /\ One(i2.n)
    BY DEF N, One
  <1> HIDE DEF i1, i2
  <1>3. /\ w \in Width /\ start \in Machine(w)
        /\ \E x \in After(SignedHalf[1], start, w) : m \in After(SignedHalf[2], x, w)
    BY <1>1, TwoSteps, Zenon
  <1>4. PICK x \in After(i1, start, w) : m \in After(i2, x, w)
    BY <1>1, <1>3
  <1> HIDE DEF w
  <1> DEFINE k == Num(x.f.c)
             j == Num(m.f.c)
             lo == m.r.A
             hi == m.r.D
             d == Signed(R.D, w)
             h == Signed(hi, w)
  <1>5. x \in Machine(w) /\ x.r.A = R.A /\ d = 2 * Signed(x.r.D, w) + k
    BY <1>2, <1>3, AfterSar DEF Register
  <1>6. m \in Machine(w) /\ m.r.D = x.r.D /\ Halved(w, x.r.A, k, lo, j)
    BY <1>2, <1>4, <1>5, <1>3, AfterHalved DEF Register
  <1>7. /\ R.A \in Operand(w) /\ R.D \in Operand(w) /\ lo \in Operand(w) /\ hi \in Operand(w)
        /\ k \in {0, 1} /\ j \in {0, 1} /\ m.f.c \in BOOLEAN
    BY <1>3, <1>5, <1>6, MachineIs, NumIs
  <1>8. d = 2 * h + k /\ R.A + k * M = 2 * lo + j
    BY <1>5, <1>6 DEF Halved
  <1>9. m.f.c = (j = 1)
    BY <1>7, NumIs
  <1>10. /\ R.A \in Int /\ R.D \in Int /\ lo \in Int /\ hi \in Int /\ M \in Nat /\ H \in Nat
         /\ k \in Int /\ j \in Int /\ M \in Moduli /\ M = 2 * H
    BY <1>3, <1>7, ModulusIs DEF Operand, Moduli
  <1>11. /\ d = (IF R.D >= H THEN R.D - M ELSE R.D)
         /\ h = (IF hi >= H THEN hi - M ELSE hi)
    BY <1>3, <1>7, SignedIs
  <1> DEFINE p == R.D * M + R.A
             s == Signed(p, Double(w))
             q == d * M + R.A
             y == h * M + lo
             z == hi * M + lo
  <1>12. s = (IF p >= H * M THEN p - M * M ELSE p) /\ (p >= H * M) = (R.D >= H) /\ p \in Int
    BY <1>3, <1>7, SignedPair, PairRange
  <1> HIDE DEF s
  <1> HIDE DEF k, j, lo, hi, d, h, R, M, H
  <1>13. s = q /\ p = q + 2 * (IF R.D >= H THEN H * M ELSE 0)
    <2>1. CASE R.D >= H
      BY <1>10, <1>11, <1>12, <2>1
    <2>2. CASE ~(R.D >= H)
      BY <1>10, <1>11, <1>12, <2>2
    <2>3. QED
      BY <2>1, <2>2
  <1>14. d \in Int /\ h \in Int /\ y \in Int /\ j \in 0..1 /\ H * M \in Int
    BY <1>7, <1>10, <1>11
  <1>15. q = 2 * y + j
    <2>1. HalfPair(M, d, R.A, h, lo, j)
      BY <1>8, <1>10, <1>14, HalvedByWord
    <2>2. QED
      BY <2>1 DEF HalfPair
  <1> DEFINE n == IF hi >= H THEN -1 ELSE 0
             b == IF R.D >= H THEN H * M ELSE 0
  <1>16. y = n * (M * M) + z /\ n \in {-1, 0, 1}
    BY <1>10, <1>11
  <1>17. b \in Int
    BY <1>14
  <1> HIDE DEF p, q, y, b
  <1>18. s \div 2 = y /\ p % 2 = j
    <2>1. s = 2 * y + j /\ p = 2 * (y + b) + j /\ y + b \in Int
      BY <1>13, <1>14, <1>15, <1>17 DEF b
    <2>2. QED
      BY <1>14, <2>1
  <1>19. Low(y, Double(w)) = z
    <2> HIDE DEF n
    <2>1. QED
      BY <1>3, <1>7, <1>14, <1>16, PairOf DEF M
  <1>20. QED
    BY <1>9, <1>18, <1>19 DEF Pair, Lsb, w, R, lo, hi, M, s, p, z

LEMMA RotationsAtEnd ==
  ASSUME Position, Followed, NEW n, NEW c, Ended(c), Len(c) = 2,
         NEW i1, NEW i2, i1 = c[1], i2 = c[2],
         i1.d = "A", i2.d = "A", i1.n = n, i2.n = n, n \in Nat,
         \/ i1.op = "rol" /\ i2.op = "ror"
         \/ i1.op = "rcl" /\ i2.op = "rcr"
  PROVE  m.r = start.r /\ (i1.op = "rcl" => m.f.c = start.f.c)
  <1> DEFINE w == prog.w
             R == start.r
  <1>1. /\ w \in Width /\ start \in Machine(w)
        /\ \E x \in After(c[1], start, w) : m \in After(c[2], x, w)
    BY TwoSteps, Zenon
  <1>2. PICK x \in After(i1, start, w) : m \in After(i2, x, w)
    BY <1>1
  <1> HIDE DEF w
  <1>3. /\ i1.d \in Register /\ i2.d \in Register /\ i1.op \in Shifts /\ i2.op \in Shifts
        /\ R.A \in Operand(w) /\ start.f \in Flags
    BY <1>1, MachineIs DEF Register, Shifts
  <1> DEFINE o == Shift(i1.op, R.A, n, start.f, w)
             u == Shift(i2.op, o.v, n, o.f, w)
  <1>4. /\ o.v \in Operand(w) /\ o.f \in Flags /\ u.v = R.A /\ u.f \in Flags
        /\ i1.op = "rcl" => u.f.c = start.f.c
    <2>1. CASE n = 0
      BY <1>3, <2>1, NoShift
    <2>2. CASE n # 0 /\ i1.op = "rol"
      <3>1. i2.op = "ror"
        BY <2>2
      <3>2. o.v \in Operand(w) /\ o.f \in Flags
        BY <1>1, <1>3, <2>2, RolIs
      <3>3. u.v = R.A
        BY <1>1, <1>3, <2>2, <3>1, RotatedBack
      <3>4. u.f \in Flags
        BY <1>1, <2>2, <3>1, <3>2, RorIs
      <3>5. QED
        BY <2>2, <3>2, <3>3, <3>4
    <2>3. CASE n # 0 /\ i1.op = "rcl"
      <3>1. i2.op = "rcr"
        BY <2>3
      <3>2. o.v \in Operand(w) /\ o.f \in Flags
        BY <1>1, <1>3, <2>3, CarryTurned
      <3>3. u.v = R.A /\ u.f.c = start.f.c
        BY <1>1, <1>3, <2>3, <3>1, CarryRotatedBack
      <3>4. u.f \in Flags
        BY <1>1, <2>3, <3>1, <3>2, RcrIs
      <3>5. QED
        BY <2>3, <3>2, <3>3, <3>4
    <2>4. QED
      BY <2>1, <2>2, <2>3
  <1>5. /\ x \in Machine(w) /\ x.f = o.f /\ x.r.A = o.v
        /\ \A g \in Register \ {"A"} : x.r[g] = R[g]
    <2>1. o.v \in Operand(w) /\ o.f \in Flags
      BY <1>4
    <2>2. o = Shift(i1.op, R[i1.d], i1.n, start.f, w)
      OBVIOUS
    <2> HIDE DEF o, u
    <2>3. QED
      BY <1>1, <1>2, <1>3, <2>1, <2>2, AfterShift
  <1>6. u = Shift(i2.op, x.r[i2.d], i2.n, x.f, w)
    BY <1>5
  <1>7. /\ m \in Machine(w) /\ m.f = u.f /\ m.r.A = u.v
        /\ \A g \in Register \ {"A"} : m.r[g] = x.r[g]
    <2>1. u.v \in Operand(w) /\ u.f \in Flags
      BY <1>3, <1>4
    <2> HIDE DEF o, u
    <2>2. QED
      BY <1>1, <1>2, <1>3, <1>5, <1>6, <2>1, AfterShift
  <1> HIDE DEF o, u
  <1>8. \A g \in Register : m.r[g] = R[g]
    BY <1>4, <1>5, <1>7
  <1>9. m.r \in [Register -> Operand(w)] /\ start.r \in [Register -> Operand(w)]
    BY <1>1, <1>7 DEF Machine, Operand
  <1>10. m.r = start.r
    BY <1>8, <1>9
  <1>11. QED
    BY <1>4, <1>7, <1>10

LEMMA PairsAtEnd == Position /\ Followed => ShiftPairs
  <1> SUFFICES ASSUME Position, Followed PROVE ShiftPairs
    OBVIOUS
  <1> DEFINE n == prog.code[1].n
  <1>1. n \in Nat
    <2>1. prog.code \in Seq(Instruction) \ {<<>>}
      BY ProgramsAssumption DEF Position
    <2>2. prog.code[1] \in Instruction
      BY <2>1, EmptySeq, LenProperties
    <2>3. QED
      BY <2>2 DEF Instruction
  <1>2. ASSUME Ended(RotateBack(n))
        PROVE  m.r = start.r
    <2>1. /\ Len(RotateBack(n)) = 2 /\ RotateBack(n)[1] = N("rol", "A", n)
          /\ RotateBack(n)[2] = N("ror", "A", n)
      BY DEF RotateBack
    <2>2. /\ N("rol", "A", n).d = "A" /\ N("rol", "A", n).n = n /\ N("rol", "A", n).op = "rol"
          /\ N("ror", "A", n).d = "A" /\ N("ror", "A", n).n = n /\ N("ror", "A", n).op = "ror"
      BY DEF N
    <2> HIDE DEF n
    <2>3. QED
      BY <1>1, <1>2, <2>1, <2>2, RotationsAtEnd
  <1>3. ASSUME Ended(CarryBack(n))
        PROVE  m.r = start.r /\ m.f.c = start.f.c
    <2>1. /\ Len(CarryBack(n)) = 2 /\ CarryBack(n)[1] = N("rcl", "A", n)
          /\ CarryBack(n)[2] = N("rcr", "A", n)
      BY DEF CarryBack
    <2>2. /\ N("rcl", "A", n).d = "A" /\ N("rcl", "A", n).n = n /\ N("rcl", "A", n).op = "rcl"
          /\ N("rcr", "A", n).d = "A" /\ N("rcr", "A", n).n = n /\ N("rcr", "A", n).op = "rcr"
      BY DEF N
    <2> HIDE DEF n
    <2>3. QED
      BY <1>1, <1>3, <2>1, <2>2, RotationsAtEnd
  <1>4. Ended(DoubleWords) => /\ Pair(m) = Low(2 * Pair(start), Double(prog.w))
                              /\ m.f.c = Sign(Pair(start), Double(prog.w))
    BY DoubleAtEnd, Zenon
  <1>5. Ended(HalfWords) => Pair(m) = Pair(start) \div 2 /\ m.f.c = Lsb(Pair(start))
    BY HalfAtEnd, Zenon
  <1>6. Ended(SignedHalf) =>
          /\ Pair(m) = Low(Signed(Pair(start), Double(prog.w)) \div 2, Double(prog.w))
          /\ m.f.c = Lsb(Pair(start))
    BY SignedHalfAtEnd, Zenon
  <1>7. QED
    BY <1>2, <1>3, <1>4, <1>5, <1>6, Zenon DEF ShiftPairs

(* Two words are doubled and halved by a shift of one and a rotation of the *)
(* other, and a rotation is undone by the opposite one, by any count        *)
(* (shift.h).                                                              *)
THEOREM ShiftsOfWords == Spec => []ShiftPairs
  <1>1. Spec => [](Position /\ Followed)
    BY FollowedInit, FollowedStep, PTL DEF Spec
  <1>2. QED
    BY <1>1, PairsAtEnd, PTL

-----------------------------------------------------------------------------
(* Products and quotients.                                                 *)

(* The magnitude of a number.                                              *)
LEMMA AbsIs ==
  ASSUME NEW x \in Int
  PROVE  /\ Abs(x) \in Nat /\ (Abs(x) = 0 <=> x = 0)
         /\ x >= 0 => Abs(x) = x
         /\ x < 0 => Abs(x) = -x
  BY DEF Abs

(* The quotient of C and its remainder divide, and nothing else does.      *)
LEMMA QuotDivides ==
  ASSUME NEW x \in Int, NEW y \in Int, y # 0, NEW q, q = Quot(x, y), NEW r, r = x - y * q
  PROVE  q \in Int /\ r \in Int /\ Divides(x, y, q, r)
  <1> DEFINE d == Abs(y)
             u == Abs(x)
             p == u \div d
             k == u % d
  <1>1. d \in Nat /\ d # 0 /\ u \in Nat /\ u \in Int
    BY AbsIs
  <1>2. p \in Int /\ k \in 0..d - 1 /\ u = d * p + k
    <2> HIDE DEF d, u
    <2>1. Divided(u, d, p, k)
      BY <1>1, DivisionIs
    <2> HIDE DEF p, k
    <2>2. QED
      BY <2>1 DEF Divided
  <1>3. /\ q = IF (x < 0) = (y < 0) THEN p ELSE 0 - p
        /\ x >= 0 => u = x
        /\ x < 0 => u = -x
        /\ y >= 0 => d = y
        /\ y < 0 => d = -y
    BY AbsIs DEF Quot
  <1> HIDE DEF d, u, p, k
  <1>4. q \in Int /\ r \in Int
    BY <1>2, <1>3, Turned
  <1>5. r = IF x < 0 THEN -k ELSE k
    <2>1. CASE x < 0 /\ y < 0
      BY <1>2, <1>3, <2>1, Turned
    <2>2. CASE x < 0 /\ y >= 0
      <3>1. q = -p /\ u = -x /\ d = y
        BY <1>2, <1>3, <2>2
      <3>2. y * q = -(d * p)
        BY <1>2, <3>1, Turned
      <3>3. QED
        BY <1>1, <1>2, <1>4, <2>2, <3>1, <3>2, Turned
    <2>3. CASE x >= 0 /\ y < 0
      <3>1. q = -p /\ u = x /\ d = -y
        BY <1>2, <1>3, <2>3
      <3>2. y * q = d * p
        BY <1>2, <3>1, Turned
      <3>3. QED
        BY <1>1, <1>2, <1>4, <2>3, <3>1, <3>2, Turned
    <2>4. CASE x >= 0 /\ y >= 0
      BY <1>2, <1>3, <2>4
    <2>5. QED
      BY <2>1, <2>2, <2>3, <2>4
  <1>6. x = q * y + r
    BY <1>4, Turned
  <1>7. Abs(r) = k
    BY <1>1, <1>2, <1>4, <1>5, AbsIs
  <1>8. r = 0 \/ (r < 0) = (x < 0)
    BY <1>1, <1>2, <1>5
  <1>9. QED
    BY <1>1, <1>2, <1>4, <1>6, <1>7, <1>8 DEF Divides, d

LEMMA QuotOnly ==
  ASSUME NEW x \in Int, NEW y \in Int, y # 0, NEW q \in Int, NEW r \in Int,
         Divides(x, y, q, r)
  PROVE  Quot(x, y) = q
  <1> DEFINE d == Abs(y)
             u == Abs(x)
             k == Abs(r)
             p == IF (x < 0) = (y < 0) THEN q ELSE -q
  <1>1. /\ d \in Nat /\ d # 0 /\ u \in Nat /\ k \in Nat
        /\ x >= 0 => u = x
        /\ x < 0 => u = -x
        /\ y >= 0 => d = y
        /\ y < 0 => d = -y
        /\ r >= 0 => k = r
        /\ r < 0 => k = -r
    BY AbsIs
  <1>2. x = q * y + r /\ k < d /\ (r = 0 \/ (r < 0) = (x < 0))
    BY DEF Divides
  <1>3. p \in Int
    OBVIOUS
  <1>4. Quot(x, y) = IF (x < 0) = (y < 0) THEN u \div d ELSE 0 - (u \div d)
    BY DEF Quot
  <1> HIDE DEF d, u, k
  <1>5. u = d * p + k
    <2>1. CASE x < 0 /\ y < 0
      BY <1>1, <1>2, <2>1, Turned
    <2>2. CASE x < 0 /\ y >= 0
      BY <1>1, <1>2, <2>2, Turned
    <2>3. CASE x >= 0 /\ y < 0
      BY <1>1, <1>2, <2>3, Turned
    <2>4. CASE x >= 0 /\ y >= 0
      BY <1>1, <1>2, <2>4, Turned
    <2>5. QED
      BY <2>1, <2>2, <2>3, <2>4
  <1>6. u \div d = p
    <2>1. Divided(u, d, p, k)
      BY <1>1, <1>2, <1>3, <1>5 DEF Divided
    <2>2. QED
      BY <2>1, DivisionOnly
  <1>7. QED
    BY <1>4, <1>6

(* A signed number that a word holds.                                      *)
LEMMA SignedLow ==
  ASSUME NEW w \in Width, NEW v \in Int
  PROVE  (Signed(Low(v, w), w) = v) = (v \in -Half(w)..Half(w) - 1)
  <1>1. /\ Modulus(w) \in Nat /\ Half(w) \in Nat /\ Modulus(w) = 2 * Half(w)
        /\ Half(w) > 0
    BY ModulusIs
  <1>2. Signed(Low(v, w), w) \in -Half(w)..Half(w) - 1
    BY LowIs, SignedIs
  <1>3. ASSUME v \in -Half(w)..Half(w) - 1
        PROVE  Signed(Low(v, w), w) = v
    <2>1. CASE v >= 0
      <3>1. v \in Operand(w)
        BY <1>1, <1>3, <2>1 DEF Operand
      <3>2. QED
        BY <1>1, <1>3, <3>1, LowIs, SignedIs
    <2>2. CASE v < 0
      <3>1. v \in -Modulus(w)..-1 /\ v + Modulus(w) >= Half(w)
        BY <1>1, <1>3, <2>2
      <3>2. Low(v, w) = v + Modulus(w) /\ Low(v, w) \in Operand(w)
        BY <3>1, LowIs
      <3>3. Signed(Low(v, w), w) = Low(v, w) - Modulus(w)
        BY <3>1, <3>2, SignedIs
      <3>4. QED
        BY <1>1, <3>2, <3>3
    <2>3. QED
      BY <2>1, <2>2
  <1>4. QED
    BY <1>2, <1>3

(* The machine a product and a division leave.                             *)
LEMMA MachineHolds ==
  ASSUME NEW w \in Width
  PROVE  Machine(w) = [r : [Register -> Operand(w)], f : Flags, out : {"ok"}]
  BY DEF Machine, Operand, Flags

LEMMA ProductIs ==
  ASSUME NEW w \in Width, NEW x \in Machine(w), NEW v \in Int, NEW c \in BOOLEAN,
         NEW y, y = SetProduct(x, v, c, w)
  PROVE  /\ y \in Machine(w) /\ y.r.B = x.r.B /\ y.f.c = c /\ y.f.o = c
         /\ y.r.A = Low(v, w) /\ y.r.D = Low(v \div Modulus(w), w)
  <1> DEFINE a == Low(v, w)
             d == Low(v \div Modulus(w), w)
             z == v = 0
             s == Sign(v, w)
             p == EvenParity(v, w)
             g == [x.f EXCEPT !.c = c, !.o = c, !.z = z, !.s = s, !.p = p]
  <1>1. x \in [r : [Register -> Operand(w)], f : Flags, out : {"ok"}]
    BY MachineHolds
  <1>2. a \in Operand(w) /\ d \in Operand(w)
    BY LowIs, SplitIs
  <1>3. z \in BOOLEAN /\ s \in BOOLEAN /\ p \in BOOLEAN
    BY DEF Sign, EvenParity
  <1>4. y = [x EXCEPT !.r.A = a, !.r.D = d, !.f = g]
    BY DEF SetProduct
  <1> HIDE DEF a, d, z, s, p
  <1>5. g \in Flags /\ g.c = c /\ g.o = c
    BY <1>1, <1>3 DEF Flags, Flag
  <1> HIDE DEF g
  <1>6. y.r = [[x.r EXCEPT !.A = a] EXCEPT !.D = d] /\ y.f = g /\ y.out = "ok"
    BY <1>1, <1>4
  <1>7. /\ y.r \in [Register -> Operand(w)]
        /\ y.r.A = a /\ y.r.D = d /\ y.r.B = x.r.B
    <2>1. x.r \in [Register -> Operand(w)]
      BY <1>1
    <2>2. QED
      BY <1>2, <1>6, <2>1 DEF Register
  <1>8. y \in [r : [Register -> Operand(w)], f : Flags, out : {"ok"}]
    BY <1>1, <1>4, <1>5, <1>6, <1>7
  <1>9. y \in Machine(w)
    BY <1>8, MachineHolds
  <1>10. QED
    BY <1>5, <1>6, <1>7, <1>9 DEF a, d

LEMMA QuotientIs ==
  ASSUME NEW w \in Width, NEW x \in Machine(w), NEW q, NEW r,
         NEW y, y = SetQuotient(x, q, r, w)
  PROVE  y.r.A = Low(q, w) /\ y.r.D = Low(r, w) /\ y.out = "ok" /\ y.f = x.f
  <1> DEFINE a == Low(q, w)
             d == Low(r, w)
  <1>1. x \in [r : [Register -> Operand(w)], f : Flags, out : {"ok"}]
    BY MachineHolds
  <1>2. y = [x EXCEPT !.r.A = a, !.r.D = d]
    BY DEF SetQuotient
  <1> HIDE DEF a, d
  <1>3. y.r = [[x.r EXCEPT !.A = a] EXCEPT !.D = d] /\ y.f = x.f /\ y.out = "ok"
    BY <1>1, <1>2
  <1>4. y.r.A = a /\ y.r.D = d
    BY <1>1, <1>3 DEF Register
  <1>5. QED
    BY <1>3, <1>4 DEF a, d

LEMMA RefusedIs ==
  ASSUME NEW w \in Width, NEW x \in Machine(w)
  PROVE  /\ Int0(x).r = x.r /\ Int0(x).out = "int0"
         /\ [x EXCEPT !.out = "killed"].r = x.r /\ [x EXCEPT !.out = "killed"].out = "killed"
  <1>1. x \in [r : [Register -> Operand(w)], f : Flags, out : {"ok"}]
    BY MachineHolds
  <1>2. QED
    BY <1>1 DEF Int0

(* What a division leaves when it returns a quotient, and when it does not. *)
LEMMA DivIs ==
  ASSUME NEW w \in Width, NEW x \in Machine(w), NEW b \in Operand(w),
         NEW v, v = x.r.D * Modulus(w) + x.r.A, NEW y, y = Div(x, b, w)
  PROVE  IF b # 0 /\ v < b * Modulus(w)
         THEN /\ y.out = "ok" /\ y.f = x.f
              /\ y.r.A = v \div b /\ y.r.D = v % b /\ Divides(v, b, y.r.A, y.r.D)
         ELSE y.out = "int0" /\ y.r = x.r
  <1> DEFINE M == Modulus(w)
             q == v \div b
             r == v % b
  <1>1. M \in Nat /\ M > 0 /\ b \in Nat /\ b < M
    BY ModulusIs DEF Operand
  <1>2. v \in Int /\ 0 <= v
    BY PairRange, MachineIs
  <1>3. y = IF b = 0 \/ q >= M THEN Int0(x) ELSE SetQuotient(x, q, r, w)
    BY DEF Div
  <1> HIDE DEF M, q, r
  <1>4. CASE b = 0
    BY <1>3, <1>4, RefusedIs
  <1>5. CASE b # 0
    <2>1. Divided(v, b, q, r)
      BY <1>1, <1>2, <1>5, DivisionIs DEF q, r
    <2>2. q \in Int /\ r \in Int /\ 0 <= r /\ r < b /\ v = b * q + r
      BY <2>1 DEF Divided
    <2>3. CASE q >= M
      <3>1. b * (q - M + 1) >= b /\ b * (q - M + 1) = b * q - b * M + b
        BY <1>1, <1>5, <2>2, <2>3, FactorOne
      <3>2. ~(v < b * M)
        BY <1>1, <2>2, <3>1
      <3>3. QED
        BY <1>3, <2>3, <3>2, RefusedIs DEF M
    <2>4. CASE ~(q >= M)
      <3>1. b * (M - q) >= b /\ b * (M - q) = b * M - b * q
        BY <1>1, <1>5, <2>2, <2>4, FactorOne
      <3>2. v < b * M
        BY <1>1, <2>2, <3>1
      <3>3. q >= 0
        <4>1. ASSUME -q >= 1 PROVE FALSE
          <5>1. b * (-q) >= b /\ b * (-q) = -(b * q)
            BY <1>1, <1>5, <2>2, <4>1, FactorOne
          <5>2. QED
            BY <1>1, <1>2, <2>2, <5>1
        <4>2. QED
          BY <2>2, <4>1
      <3>4. q \in Operand(w) /\ r \in Operand(w)
        BY <1>1, <2>2, <2>4, <3>3 DEF Operand, M
      <3>5. Low(q, w) = q /\ Low(r, w) = r
        BY <2>2, <3>4, LowIs
      <3>6. y.out = "ok" /\ y.f = x.f /\ y.r.A = q /\ y.r.D = r
        BY <1>3, <1>5, <2>4, <3>5, QuotientIs
      <3>7. Divides(v, b, q, r)
        <4>1. Abs(r) = r /\ Abs(b) = b
          BY <1>1, <2>2, AbsIs
        <4>2. v = q * b + r
          BY <1>1, <2>2, Turned
        <4>3. QED
          BY <1>1, <1>2, <2>2, <4>1, <4>2 DEF Divides
      <3>8. QED
        BY <1>5, <3>2, <3>6, <3>7 DEF M, q, r
    <2>5. QED
      BY <2>3, <2>4
  <1>6. QED
    BY <1>4, <1>5

LEMMA LowSigned ==
  ASSUME NEW w \in Width, NEW a \in Operand(w)
  PROVE  /\ Low(Signed(a, w), w) = a
         /\ Signed(a, w) \in Int /\ (Signed(a, w) = 0 <=> a = 0)
         /\ -Half(w) <= Signed(a, w) /\ Signed(a, w) <= Half(w) - 1
         /\ Abs(Signed(a, w)) <= Half(w)
  <1>1. /\ Modulus(w) \in Nat /\ Half(w) \in Nat /\ Modulus(w) = 2 * Half(w)
        /\ Half(w) > 0 /\ a \in Int /\ 0 <= a /\ a < Modulus(w)
    BY ModulusIs DEF Operand
  <1>2. Signed(a, w) = IF a >= Half(w) THEN a - Modulus(w) ELSE a
    BY SignedIs
  <1>3. /\ Signed(a, w) \in Int /\ (Signed(a, w) = 0 <=> a = 0)
        /\ -Half(w) <= Signed(a, w) /\ Signed(a, w) <= Half(w) - 1
    BY <1>1, <1>2
  <1>4. Abs(Signed(a, w)) <= Half(w)
    BY <1>1, <1>3, AbsIs
  <1>5. Low(Signed(a, w), w) = a
    <2>1. CASE a >= Half(w)
      <3>1. a - Modulus(w) \in -Modulus(w)..-1
        BY <1>1
      <3>2. Low(a - Modulus(w), w) = a
        BY <1>1, <3>1, LowIs
      <3>3. QED
        BY <1>2, <2>1, <3>2
    <2>2. CASE ~(a >= Half(w))
      BY <1>1, <1>2, <2>2, LowIs
    <2>3. QED
      BY <2>1, <2>2
  <1>6. QED
    BY <1>3, <1>4, <1>5

\* the dividend of IDIV, and what C's quotient leaves of one
Dividend(x, w) == Signed(x.r.D, w) * Modulus(w) + x.r.A
Rest(x, y) == x - y * Quot(x, y)

\* q is a quotient of x by y that a word holds
Fits(x, y, q, w) ==
  q \in -Half(w)..Half(w) - 1 /\ \E r \in Int : Divides(x, y, q, r)

LEMMA IdivIs ==
  ASSUME NEW w \in Width, NEW x \in Machine(w), NEW b \in Operand(w),
         NEW v, v = Dividend(x, w),
         NEW d, d = Signed(b, w), NEW y \in Idiv(x, b, w)
  PROVE  /\ v \in Int /\ d \in Int
         /\ d = 0 => y.out = "int0"
         /\ y.out = "ok" => /\ d # 0 /\ y.f = x.f
                            /\ y.r.A = Low(Quot(v, d), w)
                            /\ y.r.D = Low(Rest(v, d), w)
                            /\ Divides(v, d, Signed(y.r.A, w), Signed(y.r.D, w))
         /\ y.out # "ok" => y.r = x.r /\ \A q : ~Fits(v, d, q, w)
  <1> DEFINE M == Modulus(w)
             H == Half(w)
             q == Quot(v, d)
             r == v - d * q
             Least == w.bits > w.byte /\ x.r.D = 2^(w.bits - 1) /\ x.r.A = 0 /\ d = -1
             Cut == [x EXCEPT !.out = "killed"]
  <1>1. M \in Nat /\ H \in Nat /\ H > 0 /\ M = 2 * H /\ M >= 16
    BY ModulusIs
  <1>2. /\ d \in Int /\ -H <= d /\ d <= H - 1 /\ Abs(d) <= H
        /\ x.r.A \in Operand(w) /\ x.r.D \in Operand(w)
    BY LowSigned, MachineIs
  <1>3. v \in Int
    <2>1. x.r.A \in Int
      BY <1>1, <1>2 DEF Operand
    <2>2. QED
      BY <1>1, <1>2, <2>1, LowSigned, Turned DEF Dividend
  <1>4. y \in IF d = 0 THEN {Int0(x)}
              ELSE IF Least THEN {Int0(x), Cut}
              ELSE IF q \notin 0 - H..H - 1 THEN {Int0(x)}
              ELSE {SetQuotient(x, q, r, w)}
    BY DEF Idiv, Half, Dividend
  <1>5. /\ Int0(x).r = x.r /\ Int0(x).out = "int0"
        /\ Cut.r = x.r /\ Cut.out = "killed"
    BY RefusedIs
  <1>6. CASE d = 0
    <2>1. y.r = x.r /\ y.out = "int0"
      BY <1>4, <1>5, <1>6
    <2>2. ASSUME NEW p, Fits(v, d, p, w) PROVE FALSE
      <3>1. PICK k \in Int : Abs(k) < Abs(d)
        BY <2>2 DEF Fits, Divides
      <3>2. QED
        BY <1>6, <3>1, AbsIs
    <2>3. QED
      BY <1>2, <1>3, <1>6, <2>1, <2>2
  <1>7. CASE d # 0 /\ Least
    <2>1. y.r = x.r /\ y.out # "ok"
      BY <1>4, <1>5, <1>7
    <2>2. v = -(H * M) /\ d = -1
      <3>1. Signed(x.r.D, w) = -H /\ x.r.A = 0
        BY <1>1, <1>2, <1>7, SignedIs DEF Half
      <3>2. QED
        BY <1>1, <1>7, <3>1, Turned DEF Dividend
    <2>3. ASSUME NEW p, Fits(v, d, p, w) PROVE FALSE
      <3>1. PICK k \in Int : v = p * d + k /\ Abs(k) < Abs(d)
        BY <2>3 DEF Fits, Divides
      <3>2. p \in Int /\ p <= H - 1
        BY <1>1, <2>3 DEF Fits
      <3>3. k = 0
        BY <2>2, <3>1, AbsIs
      <3>4. p = H * M
        BY <1>1, <2>2, <3>1, <3>2, <3>3
      <3>5. H * M >= H
        BY <1>1, FactorOne
      <3>6. QED
        BY <1>1, <3>2, <3>4, <3>5
    <2>4. QED
      BY <1>2, <1>3, <1>7, <2>1, <2>3
  <1>8. CASE d # 0 /\ ~Least
    <2>1. q \in Int /\ r \in Int /\ Divides(v, d, q, r)
      BY <1>2, <1>3, <1>8, QuotDivides
    <2> HIDE DEF q, r, Least
    <2>2. CASE q \notin -H..H - 1
      <3>1. y.r = x.r /\ y.out = "int0"
        BY <1>1, <1>4, <1>5, <1>8, <2>2
      <3>2. ASSUME NEW p, Fits(v, d, p, w) PROVE FALSE
        <4>1. p \in Int /\ p \in -H..H - 1
          BY <1>1, <3>2 DEF Fits
        <4>2. PICK k \in Int : Divides(v, d, p, k)
          BY <3>2 DEF Fits
        <4>3. q = p
          BY <1>2, <1>3, <1>8, <4>1, <4>2, QuotOnly DEF q
        <4>4. QED
          BY <2>2, <4>1, <4>3
      <3>3. QED
        BY <1>2, <1>3, <1>8, <3>1, <3>2
    <2>3. CASE q \in -H..H - 1
      <3>1. y = SetQuotient(x, q, r, w)
        BY <1>1, <1>4, <1>8, <2>3
      <3>2. y.r.A = Low(q, w) /\ y.r.D = Low(r, w) /\ y.out = "ok" /\ y.f = x.f
        BY <3>1, QuotientIs
      <3>3. r \in -H..H - 1
        <4>1. Abs(r) < H
          <5>1. Abs(r) < Abs(d) /\ Abs(r) \in Nat /\ Abs(d) \in Nat
            BY <1>2, <2>1, AbsIs DEF Divides
          <5>2. QED
            BY <1>1, <1>2, <5>1
        <4>2. QED
          BY <1>1, <2>1, <4>1, AbsIs
      <3>4. Signed(y.r.A, w) = q /\ Signed(y.r.D, w) = r
        BY <2>1, <2>3, <3>2, <3>3, SignedLow
      <3>5. QED
        BY <1>2, <1>3, <1>8, <2>1, <3>2, <3>4 DEF q, r, Rest
    <2>4. QED
      BY <2>2, <2>3
  <1>9. QED
    BY <1>6, <1>7, <1>8

LEMMA OneStep ==
  ASSUME Position, Followed, NEW c, Ended(c), Len(c) = 1
  PROVE  /\ prog \in Programs /\ prog.w \in Width /\ start \in Machine(prog.w)
         /\ m \in After(c[1], start, prog.w)
  <1>0. Len(c) <= 8
    OBVIOUS
  <1>1. /\ prog \in Programs /\ prog.w \in Width /\ prog.code = c
        /\ start \in Machine(prog.w) /\ m \in Run(Len(c), prog, start)
    BY <1>0, EndIs, Zenon
  <1>2. Run(Len(c), prog, start) = UNION {After(c[1], x, prog.w) : x \in {start}}
    BY <1>1 DEF Run
  <1>3. QED
    BY <1>1, <1>2

LEMMA AfterSigned ==
  ASSUME NEW w, NEW x, NEW i, NEW y \in After(i, x, w)
  PROVE  /\ i.op = "imul" => y = Imul(x, x.r[i.s], w)
         /\ i.op = "idiv" => y \in Idiv(x, x.r[i.s], w)
  BY DEF After, TwoOperand, OneOperand, Shifts

LEMMA DivAtEnd ==
  ASSUME Position, Followed, Ended(<<I("div", "A", "B")>>)
  PROVE  IF m.out = "ok" THEN Divides(Pair(start), start.r.B, m.r.A, m.r.D)
         ELSE m.r = start.r /\ (start.r.B = 0 \/ Pair(start) >= start.r.B * Modulus(prog.w))
  <1> DEFINE c == <<I("div", "A", "B")>>
             b == start.r.B
  <1>1. Len(c) = 1 /\ c[1] = I("div", "A", "B") /\ Ended(c)
    OBVIOUS
  <1>2. c[1].op = "div" /\ c[1].s = "B"
    BY DEF I
  <1> HIDE DEF c
  <1>3. prog.w \in Width /\ start \in Machine(prog.w) /\ m \in After(c[1], start, prog.w)
    BY <1>1, OneStep, Zenon
  <1>4. m = Div(start, b, prog.w)
    <2>1. m = Div(start, start.r[c[1].s], prog.w)
      BY <1>2, <1>3, AfterDecimal
    <2>2. QED
      BY <1>2, <2>1
  <1>5. b \in Operand(prog.w)
    BY <1>3, MachineIs
  <1> HIDE DEF b
  <1>6. IF b # 0 /\ Pair(start) < b * Modulus(prog.w)
        THEN m.out = "ok" /\ Divides(Pair(start), b, m.r.A, m.r.D)
        ELSE m.out = "int0" /\ m.r = start.r
    <2>1. Pair(start) = start.r.D * Modulus(prog.w) + start.r.A
      BY DEF Pair
    <2>2. QED
      BY <1>3, <1>4, <1>5, <2>1, DivIs
  <1>7. Pair(start) \in Int /\ b * Modulus(prog.w) \in Int
    <2>1. Pair(start) \in Int
      BY <1>3, PairRange, MachineIs DEF Pair
    <2>2. b \in Int /\ Modulus(prog.w) \in Int
      BY <1>3, <1>5, ModulusIs DEF Operand
    <2>3. QED
      BY <2>1, <2>2, Turned
  <1>8. QED
    BY <1>6, <1>7 DEF b

(* The dividend of IDIV is the pair of registers as a signed number.       *)
LEMMA SignedDividend ==
  ASSUME NEW w \in Width, NEW hi \in Operand(w), NEW lo \in Operand(w)
  PROVE  Signed(hi * Modulus(w) + lo, Double(w)) = Signed(hi, w) * Modulus(w) + lo
  <1> DEFINE M == Modulus(w)
             x == hi * M + lo
  <1>1. M \in Nat /\ hi \in Int /\ lo \in Int
    BY ModulusIs DEF Operand
  <1>2. /\ x \in Int /\ (hi >= Half(w) <=> x >= Half(w) * M)
        /\ Signed(x, Double(w)) = IF x >= Half(w) * M THEN x - M * M ELSE x
    BY PairRange, SignedPair
  <1>3. Signed(hi, w) = IF hi >= Half(w) THEN hi - M ELSE hi
    BY SignedIs
  <1>4. (hi - M) * M + lo = x - M * M
    BY <1>1
  <1> HIDE DEF M
  <1>5. QED
    BY <1>1, <1>2, <1>3, <1>4 DEF M

LEMMA IdivAtEnd ==
  ASSUME Position, Followed, Ended(<<I("idiv", "A", "B")>>)
  PROVE  LET w == prog.w
             sb == Signed(start.r.B, w)
             sx == Signed(Pair(start), Double(w))
         IN  IF m.out = "ok"
             THEN Divides(sx, sb, Signed(m.r.A, w), Signed(m.r.D, w))
             ELSE m.r = start.r /\ \A q : ~Fits(sx, sb, q, w)
  <1> DEFINE c == <<I("idiv", "A", "B")>>
             b == start.r.B
             sb == Signed(b, prog.w)
             sx == Signed(Pair(start), Double(prog.w))
  <1>1. Len(c) = 1 /\ c[1] = I("idiv", "A", "B") /\ Ended(c)
    OBVIOUS
  <1>2. c[1].op = "idiv" /\ c[1].s = "B"
    BY DEF I
  <1> HIDE DEF c
  <1>3. prog.w \in Width /\ start \in Machine(prog.w) /\ m \in After(c[1], start, prog.w)
    BY <1>1, OneStep, Zenon
  <1>4. m \in Idiv(start, b, prog.w)
    <2>1. m \in Idiv(start, start.r[c[1].s], prog.w)
      BY <1>2, <1>3, AfterSigned
    <2>2. QED
      BY <1>2, <2>1
  <1>5. /\ b \in Operand(prog.w) /\ start.r.A \in Operand(prog.w)
        /\ start.r.D \in Operand(prog.w)
    BY <1>3, MachineIs
  <1>6. sx = Dividend(start, prog.w)
    BY <1>3, <1>5, SignedDividend DEF Pair, Dividend
  <1> HIDE DEF b, sb, sx
  <1>7. /\ m.out = "ok" => Divides(sx, sb, Signed(m.r.A, prog.w), Signed(m.r.D, prog.w))
        /\ m.out # "ok" => m.r = start.r /\ \A q : ~Fits(sx, sb, q, prog.w)
    <2>1. sb = Signed(b, prog.w)
      BY DEF sb
    <2>2. QED
      BY <1>3, <1>4, <1>5, <1>6, <2>1, IdivIs
  <1>8. QED
    BY <1>7 DEF b, sb, sx

LEMMA ProductRange ==
  ASSUME NEW M \in Nat, NEW a \in Nat, NEW b \in Nat, a < M, b < M
  PROVE  a * b \in Int /\ 0 <= a * b /\ a * b < M * M /\ (b # 0 => a * b < b * M)
  <1>1. a * b \in Int /\ 0 <= a * b
    BY Z3
  <1>2. b # 0 => a * b < b * M
    <2>1. ASSUME b # 0 PROVE a * b < b * M
      <3>1. b * (M - a) >= b /\ b * (M - a) = b * M - a * b
        BY <2>1, FactorOne
      <3>2. QED
        BY <1>1, <2>1, <3>1
    <2>2. QED
      BY <2>1
  <1>3. a * b < M * M
    <2>1. CASE b = 0
      <3>1. M * M >= M
        BY FactorOne
      <3>2. a * b = 0
        BY <2>1
      <3>3. QED
        BY <3>1, <3>2
    <2>2. CASE b # 0
      <3>1. M * (M - b) >= M /\ M * (M - b) = M * M - b * M
        BY FactorOne
      <3>2. QED
        BY <1>1, <1>2, <2>2, <3>1
    <2>3. QED
      BY <2>1, <2>2
  <1>4. QED
    BY <1>1, <1>2, <1>3

(* The words of a number of two words, and when one is enough.             *)
LEMMA WordsOf ==
  ASSUME NEW w \in Width, NEW M, M = Modulus(w), NEW v \in Int, 0 <= v, v < M * M
  PROVE  /\ Low(v \div M, w) * M + Low(v, w) = v
         /\ (v \div M # 0) = Exceeds(v, w)
  <1> DEFINE h == v \div M
             l == v % M
  <1>1. M \in Nat /\ M > 0
    BY ModulusIs
  <1>2. Divided(v, M, h, l)
    BY <1>1, DivisionIs
  <1>3. Low(v, w) = l
    BY DEF Low
  <1> HIDE DEF h, l
  <1>4. h \in Int /\ l \in 0..M - 1 /\ v = M * h + l
    BY <1>2 DEF Divided
  <1>5. h \in 0..M - 1
    <2>1. Factors(M, M, M * M) /\ v \in Below(M * M)
      BY <1>1 DEF Factors, Below
    <2>2. QED
      BY <1>2, <2>1, QuotientBelow
  <1>6. Low(h, w) = h
    BY <1>4, <1>5, LowIs DEF Operand
  <1>7. Low(h, w) * M + Low(v, w) = v
    BY <1>1, <1>3, <1>4, <1>6, Turned
  <1>8. (h # 0) = Exceeds(v, w)
    <2>1. Exceeds(v, w) = (v \notin 0..M - 1)
      BY DEF Exceeds
    <2>2. CASE h = 0
      BY <1>1, <1>4, <2>1, <2>2
    <2>3. CASE h # 0
      <3>1. M * h >= M
        BY <1>1, <1>4, <1>5, <2>3, FactorOne
      <3>2. ~(v < M)
        BY <1>1, <1>4, <3>1
      <3>3. QED
        BY <1>1, <2>1, <2>3, <3>2
    <2>4. QED
      BY <2>2, <2>3
  <1>9. QED
    BY <1>7, <1>8 DEF h

LEMMA MulDivIs ==
  ASSUME NEW w \in Width, NEW s \in Machine(w), NEW b, b = s.r.B,
         NEW x, x = Mul(s, b, w), NEW y, y = Div(x, b, w)
  PROVE  IF b = 0 THEN y.out = "int0"
         ELSE /\ y.out = "ok" /\ y.r.A = s.r.A /\ y.r.D = 0
              /\ y.f.c = Exceeds(s.r.A * b, w) /\ y.f.o = y.f.c
  <1> DEFINE M == Modulus(w)
             a == s.r.A
             v == a * b
  <1>1. a \in Operand(w) /\ b \in Operand(w)
    BY MachineIs
  <1>2. M \in Nat /\ M > 0 /\ a \in Nat /\ b \in Nat /\ a < M /\ b < M
    BY <1>1, ModulusIs DEF Operand
  <1>3. x = SetProduct(s, v, v \div M # 0, w)
    BY DEF Mul
  <1> HIDE DEF M, a, v
  <1>4. v \in Int /\ 0 <= v /\ v < M * M /\ (b # 0 => v < b * M)
    BY <1>2, ProductRange DEF v
  <1> DEFINE e == v \div M # 0
             h == v \div M
  <1>5. /\ e \in BOOLEAN /\ e = Exceeds(v, w)
        /\ Low(h, w) * M + Low(v, w) = v
    BY <1>4, WordsOf DEF M
  <1> HIDE DEF e
  <1>6. /\ x \in Machine(w) /\ x.r.B = b /\ x.f.c = e /\ x.f.o = e
        /\ x.r.A = Low(v, w) /\ x.r.D = Low(h, w)
    <2>1. x = SetProduct(s, v, e, w)
      BY <1>3 DEF e
    <2>2. QED
      BY <1>4, <1>5, <2>1, ProductIs DEF M
  <1> HIDE DEF h
  <1>7. x.r.D * Modulus(w) + x.r.A = v
    BY <1>5, <1>6 DEF M
  <1>8. IF b # 0 /\ v < b * Modulus(w)
        THEN y.out = "ok" /\ y.f = x.f /\ y.r.A = v \div b /\ y.r.D = v % b
        ELSE y.out = "int0" /\ y.r = x.r
    BY <1>1, <1>6, <1>7, DivIs
  <1>9. CASE b = 0
    BY <1>8, <1>9
  <1>10. CASE b # 0
    <2>1. v \div b = a /\ v % b = 0
      <3>1. v = b * a + 0
        BY <1>2, Turned DEF v
      <3>2. Divided(v, b, a, 0)
        BY <1>2, <1>10, <3>1 DEF Divided
      <3>3. QED
        BY <3>2, DivisionOnly
    <2>2. y.out = "ok" /\ y.f = x.f /\ y.r.A = a /\ y.r.D = 0
      BY <1>4, <1>8, <1>10, <2>1 DEF M
    <2>3. QED
      BY <1>5, <1>6, <1>10, <2>2 DEF a, v
  <1>11. QED
    BY <1>9, <1>10

LEMMA SignedProductRange ==
  ASSUME NEW H \in Nat, NEW M, M = 2 * H, H > 0, NEW a \in Int, NEW d \in Int,
         Abs(a) <= H, Abs(d) <= H
  PROVE  a * d \in Int /\ -(H * M) <= a * d /\ a * d < H * M
  <1> DEFINE u == Abs(a)
             k == Abs(d)
  <1>1. /\ u \in Nat /\ k \in Nat /\ u <= H /\ k <= H
        /\ (a = u \/ a = -u) /\ (d = k \/ d = -k)
    BY AbsIs
  <1> HIDE DEF u, k
  <1>2. a * d = u * k \/ a * d = -(u * k)
    BY <1>1, Turned
  <1>3. u * k \in Int /\ 0 <= u * k /\ u * k < H * M
    <2>1. u * k \in Int /\ 0 <= u * k /\ (k # 0 => u * k < k * M)
      BY <1>1, ProductRange
    <2>2. H * M >= H
      BY FactorOne
    <2>3. CASE k = 0
      BY <1>1, <2>2, <2>3
    <2>4. CASE k # 0
      <3>1. (H - k) * M = H * M - k * M /\ (H - k) * M >= 0
        BY <1>1, Z3
      <3>2. k * M \in Int /\ H * M \in Int
        BY <1>1
      <3>3. QED
        BY <2>1, <2>4, <3>1, <3>2
    <2>5. QED
      BY <2>3, <2>4
  <1>4. QED
    BY <1>2, <1>3

LEMMA SignedWordsOf ==
  ASSUME NEW w \in Width, NEW M, M = Modulus(w), NEW H, H = Half(w),
         NEW v \in Int, -(H * M) <= v, v < H * M
  PROVE  Signed(Low(v \div M, w), w) * M + Low(v, w) = v
  <1> DEFINE h == v \div M
             l == v % M
  <1>1. M \in Nat /\ M > 0 /\ H \in Nat /\ M = 2 * H
    BY ModulusIs
  <1>2. Divided(v, M, h, l)
    BY <1>1, DivisionIs
  <1>3. Low(v, w) = l
    BY DEF Low
  <1> HIDE DEF h, l
  <1>4. h \in Int /\ l \in 0..M - 1 /\ v = M * h + l
    BY <1>2 DEF Divided
  <1>5. h \in -H..H - 1
    <2>1. Factors(M, M, M * M)
      BY <1>1 DEF Factors
    <2>2. v + H * M \in Below(M * M)
      <3>1. M * M = H * M + H * M /\ H * M \in Int
        BY <1>1
      <3>2. QED
        BY <1>1, <3>1 DEF Below
    <2>3. Divided(v + H * M, M, h + H, l)
      <3>1. M * (h + H) = M * h + H * M
        BY <1>1, <1>4
      <3>2. QED
        BY <1>1, <1>4, <3>1 DEF Divided
    <2>4. h + H \in 0..M - 1
      BY <2>1, <2>2, <2>3, QuotientBelow
    <2>5. QED
      BY <1>1, <1>4, <2>4
  <1>6. Signed(Low(h, w), w) = h
    BY <1>4, <1>5, SignedLow
  <1>7. QED
    BY <1>1, <1>3, <1>4, <1>6, Turned DEF h

LEMMA ImulIdivIs ==
  ASSUME NEW w \in Width, NEW s \in Machine(w), NEW b, b = s.r.B,
         NEW x, x = Imul(s, b, w), NEW y \in Idiv(x, b, w)
  PROVE  IF b = 0 THEN y.out = "int0"
         ELSE /\ y.out = "ok" /\ y.r.A = s.r.A /\ y.r.D = 0
              /\ y.f.c = SignedOver(Signed(s.r.A, w) * Signed(b, w), w)
  <1> DEFINE M == Modulus(w)
             H == Half(w)
             a == Signed(s.r.A, w)
             d == Signed(b, w)
             v == a * d
             e == v # Signed(Low(v, w), w)
             h == v \div M
  <1>1. s.r.A \in Operand(w) /\ b \in Operand(w)
    BY MachineIs
  <1>2. /\ a \in Int /\ d \in Int /\ Abs(a) <= H /\ Abs(d) <= H /\ (d = 0 <=> b = 0)
        /\ a \in -H..H - 1 /\ Low(a, w) = s.r.A
    BY <1>1, LowSigned, ModulusIs
  <1>3. H \in Nat /\ M = 2 * H /\ H > 0
    BY ModulusIs
  <1>4. x = SetProduct(s, v, e, w)
    BY DEF Imul
  <1> HIDE DEF a, d, H, M
  <1>5. v \in Int /\ -(H * M) <= v /\ v < H * M
    BY <1>2, <1>3, SignedProductRange
  <1> HIDE DEF v
  <1>6. e \in BOOLEAN /\ e = SignedOver(v, w)
    <2>1. (Signed(Low(v, w), w) = v) = (v \in -Half(w)..Half(w) - 1)
      BY <1>5, SignedLow
    <2>2. SignedOver(v, w) = (v \notin 0 - Half(w)..Half(w) - 1)
      BY DEF SignedOver, Half
    <2>3. 0 - Half(w) = -Half(w)
      BY ModulusIs
    <2>4. QED
      BY <2>1, <2>2, <2>3
  <1>7. Signed(Low(h, w), w) * M + Low(v, w) = v
    BY <1>5, SignedWordsOf DEF M, H
  <1> HIDE DEF e
  <1>8. /\ x \in Machine(w) /\ x.f.c = e
        /\ x.r.A = Low(v, w) /\ x.r.D = Low(h, w)
    BY <1>4, <1>5, <1>6, ProductIs DEF M
  <1> HIDE DEF h
  <1>9. v = Dividend(x, w)
    BY <1>7, <1>8 DEF M, Dividend
  <1>10. /\ d = 0 => y.out = "int0"
         /\ y.out = "ok" => /\ y.f = x.f
                            /\ y.r.A = Low(Quot(v, d), w)
                            /\ y.r.D = Low(Rest(v, d), w)
         /\ y.out # "ok" => \A q : ~Fits(v, d, q, w)
    <2>1. d = Signed(b, w)
      BY DEF d
    <2>2. QED
      BY <1>1, <1>8, <1>9, <2>1, IdivIs
  <1>11. CASE b = 0
    BY <1>2, <1>10, <1>11
  <1>12. CASE b # 0
    <2> DEFINE z == 0
    <2>1. Divides(v, d, a, z) /\ z \in Int
      <3>1. Abs(0) = 0 /\ Abs(d) \in Nat /\ Abs(d) # 0
        BY <1>2, <1>12, AbsIs
      <3>2. v = a * d + 0
        BY <1>5 DEF v
      <3>3. QED
        BY <3>1, <3>2 DEF Divides
    <2> HIDE DEF z
    <2>2. Quot(v, d) = a
      BY <1>2, <1>5, <1>12, <2>1, QuotOnly
    <2>3. Fits(v, d, a, w)
      BY <1>2, <2>1 DEF Fits, H
    <2>4. Rest(v, d) = 0
      BY <1>2, <2>2, Turned DEF v, Rest
    <2>5. Low(0, w) = 0
      <3>1. 0 \in Operand(w)
        BY ModulusIs DEF Operand
      <3>2. QED
        BY <3>1, LowIs
    <2>6. y.out = "ok" /\ y.r.A = s.r.A /\ y.r.D = 0 /\ y.f.c = e
      BY <1>2, <1>8, <1>10, <2>2, <2>3, <2>4, <2>5
    <2>7. QED
      BY <1>6, <1>12, <2>6 DEF v, a, d
  <1>13. QED
    BY <1>11, <1>12

LEMMA MulDivAtEnd ==
  ASSUME Position, Followed, Ended(MulDiv)
  PROVE  IF start.r.B = 0 THEN m.out = "int0"
         ELSE /\ m.out = "ok" /\ m.r.A = start.r.A /\ m.r.D = 0
              /\ m.f.c = Exceeds(start.r.A * start.r.B, prog.w) /\ m.f.o = m.f.c
  <1> DEFINE b == start.r.B
  <1>1. Len(MulDiv) = 2 /\ MulDiv[1] = I("mul", "A", "B") /\ MulDiv[2] = I("div", "A", "B")
    BY DEF MulDiv
  <1>2. /\ MulDiv[1].op = "mul" /\ MulDiv[1].s = "B"
        /\ MulDiv[2].op = "div" /\ MulDiv[2].s = "B"
    BY <1>1 DEF I
  <1>3. /\ prog.w \in Width /\ start \in Machine(prog.w)
        /\ \E x \in After(MulDiv[1], start, prog.w) : m \in After(MulDiv[2], x, prog.w)
    BY <1>1, TwoSteps, Zenon
  <1>4. PICK x \in After(MulDiv[1], start, prog.w) : m \in After(MulDiv[2], x, prog.w)
    BY <1>3
  <1>5. x = Mul(start, b, prog.w)
    <2>1. x = Mul(start, start.r[MulDiv[1].s], prog.w)
      BY <1>2, <1>4, AfterDecimal
    <2>2. QED
      BY <1>2, <2>1
  <1>6. x.r.B = b
    <2>1. start.r.A \in Int /\ b \in Int
      BY <1>3, MachineIs, ModulusIs DEF Operand
    <2> DEFINE v == start.r.A * b
               c == v \div Modulus(prog.w) # 0
    <2>2. v \in Int
      BY <2>1, Turned
    <2>3. x = SetProduct(start, v, c, prog.w) /\ c \in BOOLEAN
      BY <1>5 DEF Mul
    <2> HIDE DEF v, c
    <2>4. QED
      BY <1>3, <2>2, <2>3, ProductIs
  <1>7. m = Div(x, b, prog.w)
    <2>1. m = Div(x, x.r[MulDiv[2].s], prog.w)
      BY <1>2, <1>4, AfterDecimal
    <2>2. QED
      BY <1>2, <1>6, <2>1
  <1>8. QED
    BY <1>3, <1>5, <1>7, MulDivIs

LEMMA ImulIdivAtEnd ==
  ASSUME Position, Followed, Ended(ImulIdiv)
  PROVE  IF start.r.B = 0 THEN m.out = "int0"
         ELSE /\ m.out = "ok" /\ m.r.A = start.r.A /\ m.r.D = 0
              /\ m.f.c = SignedOver(Signed(start.r.A, prog.w) * Signed(start.r.B, prog.w),
                                    prog.w)
  <1> DEFINE b == start.r.B
  <1>1. /\ Len(ImulIdiv) = 2
        /\ ImulIdiv[1] = I("imul", "A", "B") /\ ImulIdiv[2] = I("idiv", "A", "B")
    BY DEF ImulIdiv
  <1>2. /\ ImulIdiv[1].op = "imul" /\ ImulIdiv[1].s = "B"
        /\ ImulIdiv[2].op = "idiv" /\ ImulIdiv[2].s = "B"
    BY <1>1 DEF I
  <1>3. /\ prog.w \in Width /\ start \in Machine(prog.w)
        /\ \E x \in After(ImulIdiv[1], start, prog.w) : m \in After(ImulIdiv[2], x, prog.w)
    BY <1>1, TwoSteps, Zenon
  <1>4. PICK x \in After(ImulIdiv[1], start, prog.w) : m \in After(ImulIdiv[2], x, prog.w)
    BY <1>3
  <1>5. x = Imul(start, b, prog.w)
    <2>1. x = Imul(start, start.r[ImulIdiv[1].s], prog.w)
      BY <1>2, <1>4, AfterSigned
    <2>2. QED
      BY <1>2, <2>1
  <1>6. x.r.B = b
    <2>1. Signed(start.r.A, prog.w) \in Int /\ Signed(b, prog.w) \in Int
      BY <1>3, MachineIs, LowSigned
    <2> DEFINE v == Signed(start.r.A, prog.w) * Signed(b, prog.w)
               c == v # Signed(Low(v, prog.w), prog.w)
    <2>2. v \in Int
      BY <2>1, Turned
    <2>3. x = SetProduct(start, v, c, prog.w) /\ c \in BOOLEAN
      BY <1>5 DEF Imul
    <2> HIDE DEF v, c
    <2>4. QED
      BY <1>3, <2>2, <2>3, ProductIs
  <1>7. m \in Idiv(x, b, prog.w)
    <2>1. m \in Idiv(x, x.r[ImulIdiv[2].s], prog.w)
      BY <1>2, <1>4, AfterSigned
    <2>2. QED
      BY <1>2, <1>6, <2>1
  <1>8. QED
    BY <1>3, <1>5, <1>7, ImulIdivIs

LEMMA QuotientsAtEnd == Position /\ Followed => QuotientsUndo
  <1> SUFFICES ASSUME Position, Followed PROVE QuotientsUndo
    OBVIOUS
  <1> DEFINE w == prog.w
             b == start.r.B
             sb == Signed(b, w)
             sx == Signed(Pair(start), Double(w))
  <1>1. Ended(MulDiv) =>
          IF b = 0 THEN m.out = "int0"
          ELSE /\ m.out = "ok" /\ m.r.A = start.r.A /\ m.r.D = 0
               /\ m.f.c = Exceeds(start.r.A * b, w) /\ m.f.o = m.f.c
    BY MulDivAtEnd, Zenon
  <1>2. Ended(ImulIdiv) =>
          IF b = 0 THEN m.out = "int0"
          ELSE /\ m.out = "ok" /\ m.r.A = start.r.A /\ m.r.D = 0
               /\ m.f.c = SignedOver(Signed(start.r.A, w) * sb, w)
    BY ImulIdivAtEnd, Zenon
  <1>3. Ended(<<I("div", "A", "B")>>) =>
          IF m.out = "ok" THEN Divides(Pair(start), b, m.r.A, m.r.D)
          ELSE m.r = start.r /\ (b = 0 \/ Pair(start) >= b * Modulus(w))
    BY DivAtEnd, Zenon
  <1>4. ASSUME Ended(<<I("idiv", "A", "B")>>)
        PROVE  IF m.out = "ok"
               THEN Divides(sx, sb, Signed(m.r.A, w), Signed(m.r.D, w))
               ELSE /\ m.r = start.r
                    /\ \A q \in 0 - 2^(w.bits - 1) .. 2^(w.bits - 1) - 1 :
                           ~\E r \in 1 - Abs(sb) .. Abs(sb) - 1 : Divides(sx, sb, q, r)
    <2>1. IF m.out = "ok"
          THEN Divides(sx, sb, Signed(m.r.A, w), Signed(m.r.D, w))
          ELSE m.r = start.r /\ \A q : ~Fits(sx, sb, q, w)
      BY <1>4, IdivAtEnd, Zenon
    <2>2. Abs(sb) \in Int /\ Half(w) \in Int /\ 0 - Half(w) = -Half(w)
      <3>1. w \in Width /\ start \in Machine(w)
        <4>1. prog.w \in Width /\ Input(prog) \subseteq Machine(prog.w)
          BY ProgramsAssumption DEF Position
        <4>2. QED
          BY <4>1 DEF Position
      <3>2. b \in Operand(w)
        BY <3>1, MachineIs
      <3>3. QED
        BY <3>1, <3>2, LowSigned, AbsIs, ModulusIs
    <2> HIDE DEF w, sb, sx
    <2>3. ASSUME NEW q \in 0 - 2^(w.bits - 1) .. 2^(w.bits - 1) - 1,
                 NEW r \in 1 - Abs(sb) .. Abs(sb) - 1, Divides(sx, sb, q, r),
                 \A p : ~Fits(sx, sb, p, w)
          PROVE  FALSE
      <3>1. r \in Int /\ q \in -Half(w)..Half(w) - 1
        BY <2>2 DEF Half
      <3>2. QED
        BY <2>3, <3>1 DEF Fits
    <2>4. CASE m.out = "ok"
      BY <2>1, <2>4
    <2>5. CASE m.out # "ok"
      <3>1. m.r = start.r /\ \A p : ~Fits(sx, sb, p, w)
        BY <2>1, <2>5
      <3>2. QED
        BY <2>3, <2>5, <3>1
    <2>6. QED
      BY <2>4, <2>5
  <1>5. QED
    BY <1>1, <1>2, <1>3, <1>4, Zenon DEF QuotientsUndo

(* A product divided by one of its factors gives the other, signed and      *)
(* unsigned, and a division ends with a quotient and a remainder that make  *)
(* up the dividend, or is refused when there is no quotient that a register *)
(* holds, whatever the operands (arithmetic.h exec_mul, exec_imul,          *)
(* exec_div, exec_idiv).                                                    *)
THEOREM ProductsAndQuotients == Spec => []QuotientsUndo
  <1>1. Spec => [](Position /\ Followed)
    BY FollowedInit, FollowedStep, PTL DEF Spec
  <1>2. QED
    BY <1>1, QuotientsAtEnd, PTL

-----------------------------------------------------------------------------
(* A shift or rotation by n is n of them by one.                           *)

\* v, of P * Q values, rotated upwards: over the P values of its upper part
Rotated(P, Q, v) == P * (v % Q) + (v \div Q)
Even(Q, R) == R \in Nat \ {0} /\ Q = 2 * R

(* One place more, up or down.                                             *)
LEMMA RotateUp ==
  ASSUME NEW P, NEW Q, NEW M, Factors(P, Q, M), NEW R, Even(Q, R), NEW H, Even(M, H),
         NEW T, T = 2, NEW v, v \in Below(M)
  PROVE  Rotated(T, H, Rotated(P, Q, v)) = Rotated(T * P, R, v)
  <1> DEFINE y == v \div Q
             z == v % Q
             e == z \div R
             x == z % R
             r == Rotated(P, Q, v)
  <1>1. /\ P \in Nat /\ P # 0 /\ Q \in Nat /\ Q # 0 /\ P * Q = M /\ v \in Int
        /\ R \in Nat /\ R # 0 /\ Q = 2 * R /\ H \in Nat /\ H # 0 /\ M = 2 * H
        /\ P \in Int /\ R \in Int
    BY DEF Factors, Below, Even
  <1>2. Divided(v, Q, y, z) /\ r = P * z + y
    BY <1>1, DivisionIs DEF Rotated
  <1> HIDE DEF y, z, r
  <1>3. y \in 0..P - 1 /\ y \in Int /\ z \in 0..Q - 1 /\ z \in Int /\ v = Q * y + z
    <2>1. y \in 0..P - 1
      BY <1>2, QuotientBelow
    <2>2. QED
      BY <1>2, <2>1 DEF Divided
  <1>4. Divided(z, R, e, x)
    BY <1>1, <1>3, DivisionIs
  <1> HIDE DEF e, x
  <1>5. e \in Int /\ x \in 0..R - 1 /\ x \in Int /\ z = R * e + x
    BY <1>4 DEF Divided
  <1>6. P * R = H /\ P * R \in Int /\ P * x \in Int
    <2>1. P * (2 * R) = 2 * (P * R)
      BY <1>1
    <2>2. P * R \in Int /\ P * x \in Int
      BY <1>1, <1>5, Turned
    <2>3. QED
      BY <1>1, <2>1, <2>2
  <1>7. Divided(r, H, e, P * x + y)
    <2>1. P * z = H * e + P * x
      <3>1. P * (R * e + x) = (P * R) * e + P * x
        BY <1>1, <1>5
      <3>2. QED
        BY <1>5, <1>6, <3>1
    <2>2. P * x + y \in 0..H - 1
      <3>1. P * (R - x) >= P /\ P * (R - x) = P * R - P * x
        BY <1>1, <1>5, FactorOne
      <3>2. P * x >= 0
        BY <1>1, <1>5
      <3>3. QED
        BY <1>1, <1>3, <1>6, <3>1, <3>2
    <2>3. r = H * e + (P * x + y)
      BY <1>1, <1>2, <1>3, <1>5, <1>6, <2>1
    <2>4. QED
      BY <1>1, <1>5, <2>2, <2>3 DEF Divided
  <1>8. Divided(v, R, 2 * y + e, x)
    <2>1. Q * y = R * (2 * y)
      BY <1>1, <1>3
    <2>2. v = R * (2 * y + e) + x
      BY <1>1, <1>3, <1>5, <2>1
    <2>3. QED
      BY <1>1, <1>3, <1>5, <2>2 DEF Divided
  <1>9. Rotated(T, H, r) = 2 * (P * x + y) + e
    BY <1>7, DivisionOnly DEF Rotated
  <1>10. Rotated(T * P, R, v) = (2 * P) * x + (2 * y + e)
    BY <1>8, DivisionOnly DEF Rotated
  <1>11. (2 * P) * x = 2 * (P * x)
    BY <1>1, <1>5
  <1>12. QED
    BY <1>3, <1>5, <1>6, <1>9, <1>10, <1>11 DEF r

LEMMA RotateDown ==
  ASSUME NEW P, NEW Q, NEW M, Factors(P, Q, M), NEW R, Even(Q, R), NEW H, Even(M, H),
         NEW T, T = 2, NEW v, v \in Below(M)
  PROVE  Rotated(H, T, Rotated(Q, P, v)) = Rotated(R, T * P, v)
  <1> DEFINE y == v \div P
             z == v % P
             h == y \div 2
             e == y % 2
             r == Rotated(Q, P, v)
  <1>1. /\ P \in Nat /\ P # 0 /\ Q \in Nat /\ Q # 0 /\ P * Q = M /\ v \in Int
        /\ R \in Nat /\ R # 0 /\ Q = 2 * R /\ H \in Nat /\ H # 0 /\ M = 2 * H
        /\ P \in Int /\ R \in Int
    BY DEF Factors, Below, Even
  <1>2. Divided(v, P, y, z) /\ r = Q * z + y
    BY <1>1, DivisionIs DEF Rotated
  <1> HIDE DEF y, z, r
  <1>3. y \in Int /\ z \in 0..P - 1 /\ z \in Int /\ v = P * y + z
    BY <1>2 DEF Divided
  <1>4. h \in Int /\ e \in 0..1 /\ y = 2 * h + e
    BY <1>3
  <1> HIDE DEF h, e
  <1>6. P * R = H /\ R * z \in Int /\ P * e \in Int /\ P * h \in Int /\ R * P = H
    <2>1. P * (2 * R) = 2 * (P * R)
      BY <1>1
    <2>2. P * R \in Int /\ R * z \in Int /\ R * P = P * R /\ P * e \in Int /\ P * h \in Int
      BY <1>1, <1>3, <1>4, Turned
    <2>3. QED
      BY <1>1, <2>1, <2>2
  <1>7. r \div T = R * z + h /\ r % T = e
    <2>1. Q * z = 2 * (R * z)
      BY <1>1, <1>3
    <2>2. r = 2 * (R * z + h) + e
      BY <1>2, <1>4, <1>6, <2>1
    <2>3. QED
      BY <1>4, <1>6, <2>2
  <1>8. Divided(v, T * P, h, P * e + z)
    <2>1. P * y = (2 * P) * h + P * e
      BY <1>1, <1>4
    <2>2. v = (2 * P) * h + (P * e + z)
      BY <1>1, <1>3, <1>4, <1>6, <2>1
    <2>3. P * e + z \in 0..2 * P - 1
      <3>1. e = 0 \/ e = 1
        BY <1>4
      <3>2. QED
        BY <1>1, <1>3, <3>1
    <2>4. QED
      BY <1>1, <1>4, <2>2, <2>3 DEF Divided
  <1>9. Rotated(H, T, r) = H * e + (R * z + h)
    BY <1>7 DEF Rotated
  <1>10. Rotated(R, T * P, v) = R * (P * e + z) + h
    BY <1>8, DivisionOnly DEF Rotated
  <1>11. R * (P * e + z) = H * e + R * z
    <2>1. R * (P * e + z) = (R * P) * e + R * z
      BY <1>1, <1>3, <1>4
    <2>2. QED
      BY <1>6, <2>1
  <1>12. H * e \in Int
    BY <1>1, <1>4
  <1>13. QED
    BY <1>4, <1>6, <1>9, <1>10, <1>11, <1>12 DEF r

(* A whole turn.                                                           *)
LEMMA WholeTurn ==
  ASSUME NEW M \in Nat, M # 0, NEW v, v \in Below(M), NEW j, j = 1
  PROVE  Rotated(M, j, v) = v /\ Rotated(j, M, v) = v
  <1> DEFINE z == 0
  <1>1. v \in Int /\ v >= 0 /\ v < M /\ z \in Int
    BY DEF Below
  <1>2. Divided(v, M, z, v) /\ v \div j = v /\ v % j = 0
    BY <1>1 DEF Divided
  <1> HIDE DEF z
  <1>3. v \div M = z /\ v % M = v
    BY <1>2, DivisionOnly
  <1>4. QED
    BY <1>1, <1>2, <1>3 DEF Rotated, z

(* A place more of b of them.                                              *)
LEMMA PlaceIs ==
  ASSUME NEW b \in Lengths, NEW k \in Nat, k < b
  PROVE  /\ 2^(k + 1) = 2 * 2^k /\ Even(2^(b - k), 2^(b - (k + 1)))
         /\ Even(2^b, 2^(b - 1)) /\ 2^0 = 1
         /\ k \in 0..b /\ k + 1 \in 0..b /\ k + 1 \in Nat
  <1>1. /\ b \in Nat /\ b >= 1 /\ b <= 17 /\ k \in 0..31 /\ b - (k + 1) \in 0..31
        /\ b - 1 \in 0..31 /\ b - (k + 1) + 1 = b - k /\ b - 1 + 1 = b
    BY DEF Lengths
  <1>2. Power(k) /\ Power(b - (k + 1)) /\ Power(b - 1)
    BY <1>1, PowerIs
  <1>3. 2^(k + 1) = 2 * 2^k
    BY <1>2 DEF Power
  <1>4. Even(2^(b - k), 2^(b - (k + 1)))
    BY <1>1, <1>2 DEF Power, Even
  <1>5. Even(2^b, 2^(b - 1))
    BY <1>1, <1>2 DEF Power, Even
  <1>6. QED
    BY <1>1, <1>3, <1>4, <1>5, PowersAre

LEMMA SplitFactors ==
  ASSUME NEW b \in Lengths, NEW k \in 0..b, NEW P, P = 2^k, NEW Q, Q = 2^(b - k)
  PROVE  Factors(P, Q, 2^b) /\ Factors(Q, P, 2^b)
  <1>1. Factors(P, Q, 2^b)
    BY SplitPower DEF Factors
  <1>2. P \in Int /\ Q \in Int
    BY <1>1 DEF Factors
  <1>3. Q * P = P * Q
    BY <1>2, Turned
  <1>4. QED
    BY <1>1, <1>3 DEF Factors

LEMMA TurnsMore ==
  ASSUME NEW w \in Width, NEW n \in Nat
  PROVE  /\ n # 0 => Turns(n + 1, w) = IF Turns(n, w) = w.bits THEN 1 ELSE Turns(n, w) + 1
         /\ n = 0 => Turns(n + 1, w) = 1
         /\ CarryTurns(n + 1, w)
              = IF CarryTurns(n, w) = w.bits THEN 0 ELSE CarryTurns(n, w) + 1
         /\ n = 0 => CarryTurns(n + 1, w) = 1
  <1>1. CASE w.bits = 4
    BY <1>1 DEF Turns, CarryTurns
  <1>2. CASE w.bits = 8
    BY <1>2 DEF Turns, CarryTurns
  <1>3. CASE w.bits = 16
    BY <1>3 DEF Turns, CarryTurns
  <1>4. QED
    BY <1>1, <1>2, <1>3, WidthIs

LEMMA OneTurn ==
  ASSUME NEW w \in Width, NEW j, One(j)
  PROVE  /\ j \in Nat \ {0} /\ Turns(j, w) = 1 /\ CarryTurns(j, w) = 1
         /\ 2^1 = 2 /\ 2^(w.bits - 1) = Half(w) /\ 2^(w.bits + 1 - 1) = Modulus(w)
  <1>1. j = 1 /\ w.bits \in {4, 8, 16}
    BY WidthIs DEF One
  <1>2. Turns(j, w) = 1 /\ CarryTurns(j, w) = 1 /\ w.bits + 1 - 1 = w.bits
    BY <1>1 DEF Turns, CarryTurns
  <1>3. QED
    BY <1>1, <1>2, PowersAre DEF Half, Modulus

LEMMA RolOnce ==
  ASSUME NEW w \in Width, NEW x \in Operand(w), NEW g \in Flags, NEW j, One(j),
         NEW u, u = Shift("rol", x, j, g, w), NEW T, T = 2
  PROVE  /\ u.v = Rotated(T, Half(w), x) /\ u.f.c = Lsb(u.v)
         /\ u.v \in Operand(w) /\ u.f \in Flags
  <1> DEFINE P == 2^Turns(j, w)
             Q == 2^(w.bits - Turns(j, w))
  <1>1. P = T /\ Q = Half(w) /\ j \in Nat \ {0}
    BY OneTurn
  <1>2. /\ u.v = P * (x % Q) + (x \div Q) /\ u.v \in Operand(w)
        /\ u.f \in Flags /\ u.f.c = Lsb(u.v)
    BY <1>1, RolIs
  <1> HIDE DEF P, Q
  <1>3. QED
    BY <1>1, <1>2 DEF Rotated

LEMMA RolMore ==
  ASSUME NEW w \in Width, NEW v \in Operand(w), NEW f \in Flags, NEW n \in Nat,
         NEW o, o = Shift("rol", v, n, f, w), NEW g \in Flags, NEW j, One(j),
         NEW u, u = Shift("rol", o.v, j, g, w),
         NEW t, t = Shift("rol", v, n + 1, f, w)
  PROVE  u.v = t.v /\ u.f.c = t.f.c /\ u.v \in Operand(w) /\ u.f \in Flags
  <1> DEFINE k == Turns(n, w)
             l == Turns(n + 1, w)
             H == Half(w)
             T == 2^1
  <1>1. /\ w.bits \in Lengths /\ w.bits \in Nat /\ n + 1 \in Nat \ {0}
        /\ k \in 1..w.bits /\ l \in 1..w.bits
        /\ Modulus(w) = 2^w.bits /\ H = 2^(w.bits - 1) /\ T = 2
    BY TurnsAre, LengthIs, PowersAre DEF Modulus, Half
  <1>2. t.v = Rotated(2^l, 2^(w.bits - l), v) /\ t.f.c = Lsb(t.v)
    BY <1>1, RolIs DEF Rotated
  <1>3. CASE n = 0
    <2>1. o.v = v /\ l = 1
      BY <1>3, NoShift, TurnsMore
    <2>2. /\ u.v = Rotated(T, H, v) /\ u.f.c = Lsb(u.v)
          /\ u.v \in Operand(w) /\ u.f \in Flags
      BY <1>1, <2>1, RolOnce
    <2>3. QED
      BY <1>1, <1>2, <2>1, <2>2
  <1>4. CASE n # 0
    <2> DEFINE P == 2^k
               Q == 2^(w.bits - k)
               R == 2^(w.bits - (k + 1))
    <2>1. o.v = Rotated(P, Q, v) /\ o.v \in Operand(w)
      BY <1>4, RolIs DEF Rotated
    <2>2. /\ u.v = Rotated(T, H, o.v) /\ u.f.c = Lsb(u.v)
          /\ u.v \in Operand(w) /\ u.f \in Flags
      BY <1>1, <2>1, RolOnce
    <2>3. v \in Below(Modulus(w))
      BY DEF Operand, Below
    <2>4. CASE k = w.bits
      <3>0. w.bits - k = 0 /\ l = 1
        BY <1>1, <1>4, <2>4, TurnsMore
      <3>1. P = Modulus(w) /\ Q = 1
        <4> HIDE DEF k
        <4>1. P = 2^w.bits /\ Q = 2^0
          BY <2>4, <3>0
        <4>2. QED
          BY <1>1, <4>1, PowersAre
      <3>2. Rotated(Modulus(w), Q, v) = v
        BY <2>3, <3>1, ModulusIs, WholeTurn
      <3>3. o.v = v
        BY <2>1, <3>1, <3>2
      <3>4. t.v = Rotated(T, H, v)
        BY <1>1, <1>2, <3>0
      <3>5. QED
        BY <1>2, <2>2, <3>3, <3>4
    <2>5. CASE k # w.bits
      <3>1. k \in Nat /\ k < w.bits /\ l = k + 1
        BY <1>1, <1>4, <2>5, TurnsMore
      <3>2. 2^l = T * P /\ Even(Q, R) /\ Even(Modulus(w), H)
        BY <1>1, <3>1, PlaceIs
      <3>3. Factors(P, Q, Modulus(w))
        BY <1>1, SplitPower DEF Factors
      <3>4. 2^(w.bits - l) = R
        BY <3>1
      <3>5. t.v = Rotated(T * P, R, v)
        BY <1>2, <3>2, <3>4
      <3> HIDE DEF P, Q, R, H, T
      <3>6. Rotated(T, H, Rotated(P, Q, v)) = Rotated(T * P, R, v)
        BY <1>1, <2>3, <3>2, <3>3, RotateUp
      <3>7. QED
        BY <1>2, <2>1, <2>2, <3>5, <3>6
    <2>6. QED
      BY <2>4, <2>5
  <1>5. QED
    BY <1>3, <1>4

LEMMA RorAt ==
  ASSUME NEW w \in Width, NEW v \in Operand(w), NEW f \in Flags, NEW n \in Nat \ {0},
         NEW o, o = Shift("ror", v, n, f, w),
         NEW P, P = 2^Turns(n, w), NEW Q, Q = 2^(w.bits - Turns(n, w))
  PROVE  /\ o.v = Rotated(Q, P, v) /\ o.v \in Operand(w)
         /\ o.f \in Flags /\ o.f.c = Sign(o.v, w)
  <1> DEFINE r == Rotated(Q, P, v)
             k == Turns(n, w)
  <1>1. o.v = Low(r, w) /\ o.f \in Flags /\ o.f.c = Sign(o.v, w)
    BY RorIs DEF Rotated
  <1>2. k \in 0..w.bits /\ w.bits \in Lengths
    BY TurnsAre, LengthIs
  <1>3. Factors(Q, P, Modulus(w))
    BY <1>2, SplitPower DEF Factors, Modulus
  <1>4. v \in Below(Modulus(w))
    BY DEF Operand, Below
  <1>5. r \in Operand(w)
    BY <1>3, <1>4, RotatedIs DEF Rotated, Operand, Below
  <1> HIDE DEF r
  <1>6. Low(r, w) = r
    BY <1>5, LowIs DEF Operand
  <1>7. QED
    BY <1>1, <1>5, <1>6 DEF r

LEMMA RorOnce ==
  ASSUME NEW w \in Width, NEW x \in Operand(w), NEW g \in Flags, NEW j, One(j),
         NEW u, u = Shift("ror", x, j, g, w), NEW T, T = 2
  PROVE  /\ u.v = Rotated(Half(w), T, x) /\ u.f.c = Sign(u.v, w)
         /\ u.v \in Operand(w) /\ u.f \in Flags
  <1> DEFINE P == 2^Turns(j, w)
             Q == 2^(w.bits - Turns(j, w))
  <1>1. P = T /\ Q = Half(w) /\ j \in Nat \ {0}
    BY OneTurn
  <1>2. /\ u.v = Rotated(Q, P, x) /\ u.v \in Operand(w)
        /\ u.f \in Flags /\ u.f.c = Sign(u.v, w)
    BY <1>1, RorAt
  <1> HIDE DEF P, Q
  <1>3. QED
    BY <1>1, <1>2

LEMMA RorMore ==
  ASSUME NEW w \in Width, NEW v \in Operand(w), NEW f \in Flags, NEW n \in Nat,
         NEW o, o = Shift("ror", v, n, f, w), NEW g \in Flags, NEW j, One(j),
         NEW u, u = Shift("ror", o.v, j, g, w),
         NEW t, t = Shift("ror", v, n + 1, f, w)
  PROVE  u.v = t.v /\ u.f.c = t.f.c /\ u.v \in Operand(w) /\ u.f \in Flags
  <1> DEFINE k == Turns(n, w)
             l == Turns(n + 1, w)
             H == Half(w)
             T == 2^1
  <1>1. /\ w.bits \in Lengths /\ w.bits \in Nat /\ n + 1 \in Nat \ {0}
        /\ k \in 1..w.bits /\ l \in 1..w.bits
        /\ Modulus(w) = 2^w.bits /\ H = 2^(w.bits - 1) /\ T = 2
    BY TurnsAre, LengthIs, PowersAre DEF Modulus, Half
  <1>2. t.v = Rotated(2^(w.bits - l), 2^l, v) /\ t.f.c = Sign(t.v, w)
    BY <1>1, RorAt
  <1>3. CASE n = 0
    <2>1. o.v = v /\ l = 1
      BY <1>3, NoShift, TurnsMore
    <2>2. /\ u.v = Rotated(H, T, v) /\ u.f.c = Sign(u.v, w)
          /\ u.v \in Operand(w) /\ u.f \in Flags
      BY <1>1, <2>1, RorOnce
    <2>3. QED
      BY <1>1, <1>2, <2>1, <2>2
  <1>4. CASE n # 0
    <2> DEFINE P == 2^k
               Q == 2^(w.bits - k)
               R == 2^(w.bits - (k + 1))
    <2>1. o.v = Rotated(Q, P, v) /\ o.v \in Operand(w)
      BY <1>4, RorAt
    <2>2. /\ u.v = Rotated(H, T, o.v) /\ u.f.c = Sign(u.v, w)
          /\ u.v \in Operand(w) /\ u.f \in Flags
      BY <1>1, <2>1, RorOnce
    <2>3. v \in Below(Modulus(w))
      BY DEF Operand, Below
    <2>4. CASE k = w.bits
      <3>0. w.bits - k = 0 /\ l = 1
        BY <1>1, <1>4, <2>4, TurnsMore
      <3>1. P = Modulus(w) /\ Q = 1
        <4> HIDE DEF k
        <4>1. P = 2^w.bits /\ Q = 2^0
          BY <2>4, <3>0
        <4>2. QED
          BY <1>1, <4>1, PowersAre
      <3>2. Rotated(Q, Modulus(w), v) = v
        BY <2>3, <3>1, ModulusIs, WholeTurn
      <3>3. o.v = v
        BY <2>1, <3>1, <3>2
      <3>4. t.v = Rotated(H, T, v)
        BY <1>1, <1>2, <3>0
      <3>5. QED
        BY <1>2, <2>2, <3>3, <3>4
    <2>5. CASE k # w.bits
      <3>1. k \in Nat /\ k < w.bits /\ l = k + 1
        BY <1>1, <1>4, <2>5, TurnsMore
      <3>2. 2^l = T * P /\ Even(Q, R) /\ Even(Modulus(w), H)
        BY <1>1, <3>1, PlaceIs
      <3>3. Factors(P, Q, Modulus(w))
        BY <1>1, SplitPower DEF Factors
      <3>4. 2^(w.bits - l) = R
        BY <3>1
      <3>5. t.v = Rotated(R, T * P, v)
        BY <1>2, <3>2, <3>4
      <3> HIDE DEF P, Q, R, H, T
      <3>6. Rotated(H, T, Rotated(Q, P, v)) = Rotated(R, T * P, v)
        BY <1>1, <2>3, <3>2, <3>3, RotateDown
      <3>7. QED
        BY <1>2, <2>1, <2>2, <3>5, <3>6
    <2>6. QED
      BY <2>4, <2>5
  <1>5. QED
    BY <1>3, <1>4

(* Through the carry: the operand and CF together are what turns.          *)
LEMMA RclAt ==
  ASSUME NEW w \in Width, NEW v \in Operand(w), NEW f \in Flags, NEW n \in Nat, n # 0,
         NEW o, o = Shift("rcl", v, n, f, w), NEW k, k = CarryTurns(n, w),
         NEW P, P = 2^k, NEW Q, Q = 2^(w.bits + 1 - k),
         NEW y, y = Rotated(P, Q, CarryAbove(v, f, w))
  PROVE  /\ o.v = Low(y, w) /\ o.v \in Operand(w) /\ o.f \in Flags
         /\ o.f.c = (y >= Modulus(w))
         /\ \A g : g.c = o.f.c => CarryAbove(o.v, g, w) = y
  <1> DEFINE x == CarryAbove(v, f, w)
  <1>1. /\ Factors(P, Q, 2 * Modulus(w))
        /\ o.v = Low(y, w) /\ o.f \in Flags /\ o.f.c = (y >= Modulus(w))
    BY RclIs DEF Rotated
  <1>2. x \in Below(2 * Modulus(w))
    BY CarryOf
  <1> HIDE DEF x
  <1>3. y \in Below(2 * Modulus(w))
    BY <1>1, <1>2, RotatedIs DEF Rotated, x
  <1>4. ASSUME NEW g, g.c = o.f.c PROVE CarryAbove(o.v, g, w) = y
    BY <1>1, <1>3, <1>4, CarryAboveIs
  <1>5. QED
    BY <1>1, <1>3, <1>4, LowBelow

LEMMA RcrAt ==
  ASSUME NEW w \in Width, NEW v \in Operand(w), NEW f \in Flags, NEW n \in Nat, n # 0,
         NEW o, o = Shift("rcr", v, n, f, w), NEW k, k = CarryTurns(n, w),
         NEW P, P = 2^k, NEW Q, Q = 2^(w.bits + 1 - k),
         NEW y, y = Rotated(Q, P, CarryAbove(v, f, w))
  PROVE  /\ o.v = Low(y, w) /\ o.v \in Operand(w) /\ o.f \in Flags
         /\ o.f.c = (y >= Modulus(w))
         /\ \A g : g.c = o.f.c => CarryAbove(o.v, g, w) = y
  <1> DEFINE x == CarryAbove(v, f, w)
  <1>1. o.v = Low(y, w) /\ o.f \in Flags /\ o.f.c = (y >= Modulus(w))
    BY RcrIs DEF Rotated
  <1>2. Factors(Q, P, 2 * Modulus(w))
    <2> DEFINE b == w.bits + 1
    <2>1. k \in 0..b /\ b \in Lengths /\ 2^b = 2 * Modulus(w) /\ Q = 2^(b - k)
      BY TurnsAre, LengthIs, NextPower
    <2> HIDE DEF b
    <2>2. Factors(Q, P, 2^b)
      BY <2>1, SplitFactors
    <2>3. QED
      BY <2>1, <2>2
  <1>3. x \in Below(2 * Modulus(w))
    BY CarryOf
  <1> HIDE DEF x
  <1>4. y \in Below(2 * Modulus(w))
    BY <1>2, <1>3, RotatedIs DEF Rotated, x
  <1>5. ASSUME NEW g, g.c = o.f.c PROVE CarryAbove(o.v, g, w) = y
    BY <1>1, <1>4, <1>5, CarryAboveIs
  <1>6. QED
    BY <1>1, <1>4, <1>5, LowBelow

LEMMA RclOnce ==
  ASSUME NEW w \in Width, NEW x \in Operand(w), NEW g \in Flags, NEW j, One(j),
         NEW u, u = Shift("rcl", x, j, g, w), NEW T, T = 2,
         NEW z, z = Rotated(T, Modulus(w), CarryAbove(x, g, w))
  PROVE  u.v = Low(z, w) /\ u.f.c = (z >= Modulus(w)) /\ u.v \in Operand(w) /\ u.f \in Flags
  <1> DEFINE i == CarryTurns(j, w)
             P == 2^i
             Q == 2^(w.bits + 1 - i)
  <1>1. P = T /\ Q = Modulus(w) /\ j \in Nat /\ j # 0
    BY OneTurn
  <1>2. i = CarryTurns(j, w) /\ P = 2^i /\ Q = 2^(w.bits + 1 - i)
    OBVIOUS
  <1> HIDE DEF i, P, Q
  <1>3. z = Rotated(P, Q, CarryAbove(x, g, w))
    BY <1>1
  <1>4. j \in Nat /\ j # 0
    BY <1>1
  <1>5. QED
    BY <1>2, <1>3, <1>4, RclAt

LEMMA RcrOnce ==
  ASSUME NEW w \in Width, NEW x \in Operand(w), NEW g \in Flags, NEW j, One(j),
         NEW u, u = Shift("rcr", x, j, g, w), NEW T, T = 2,
         NEW z, z = Rotated(Modulus(w), T, CarryAbove(x, g, w))
  PROVE  u.v = Low(z, w) /\ u.f.c = (z >= Modulus(w)) /\ u.v \in Operand(w) /\ u.f \in Flags
  <1> DEFINE i == CarryTurns(j, w)
             P == 2^i
             Q == 2^(w.bits + 1 - i)
  <1>1. P = T /\ Q = Modulus(w) /\ j \in Nat /\ j # 0
    BY OneTurn
  <1>2. i = CarryTurns(j, w) /\ P = 2^i /\ Q = 2^(w.bits + 1 - i)
    OBVIOUS
  <1> HIDE DEF i, P, Q
  <1>3. z = Rotated(Q, P, CarryAbove(x, g, w))
    BY <1>1
  <1>4. j \in Nat /\ j # 0
    BY <1>1
  <1>5. QED
    BY <1>2, <1>3, <1>4, RcrAt

LEMMA RclMore ==
  ASSUME NEW w \in Width, NEW v \in Operand(w), NEW f \in Flags, NEW n \in Nat,
         NEW o, o = Shift("rcl", v, n, f, w), NEW g \in Flags, g.c = o.f.c, NEW j, One(j),
         NEW u, u = Shift("rcl", o.v, j, g, w),
         NEW t, t = Shift("rcl", v, n + 1, f, w)
  PROVE  u.v = t.v /\ u.f.c = t.f.c /\ u.v \in Operand(w) /\ u.f \in Flags
  <1> DEFINE k == CarryTurns(n, w)
             l == CarryTurns(n + 1, w)
             M == Modulus(w)
             T == 2^1
             x == CarryAbove(v, f, w)
             s == CarryAbove(o.v, g, w)
             y == Rotated(2^l, 2^(w.bits + 1 - l), x)
             z == Rotated(T, M, s)
  <1>1. /\ w.bits + 1 \in Lengths /\ w.bits \in Nat /\ n + 1 \in Nat /\ n + 1 # 0
        /\ k \in 0..w.bits /\ l \in 0..w.bits
        /\ 2 * M = 2^(w.bits + 1) /\ M = 2^(w.bits + 1 - 1) /\ T = 2
    BY TurnsAre, LengthIs, PowersAre, OneTurn, NextPower DEF One
  <1>2. t.v = Low(y, w) /\ t.f.c = (y >= M)
    BY <1>1, RclAt
  <1>3. o.v \in Operand(w)
    <2>1. CASE n = 0
      BY <2>1, NoShift
    <2>2. CASE n # 0
      BY <2>2, RclAt
    <2>3. QED
      BY <2>1, <2>2
  <1>4. u.v = Low(z, w) /\ u.f.c = (z >= M) /\ u.v \in Operand(w) /\ u.f \in Flags
    BY <1>1, <1>3, RclOnce
  <1>5. z = y
    <2>1. CASE n = 0
      <3>1. o.v = v /\ o.f = f /\ l = 1
        BY <2>1, NoShift, TurnsMore
      <3>2. s = x
        BY <3>1 DEF CarryAbove
      <3>3. y = Rotated(2^1, 2^(w.bits + 1 - 1), x)
        BY <3>1
      <3>4. QED
        BY <1>1, <3>2, <3>3
    <2>2. CASE n # 0
      <3> DEFINE P == 2^k
                 Q == 2^(w.bits + 1 - k)
                 R == 2^(w.bits + 1 - (k + 1))
      <3>1. s = Rotated(P, Q, x)
        BY <2>2, RclAt
      <3>2. x \in Below(2 * M)
        BY CarryOf
      <3>3. /\ k \in Nat /\ k < w.bits + 1
            /\ l = IF k = w.bits THEN 0 ELSE k + 1
        BY <1>1, TurnsMore
      <3>4. /\ 2^(k + 1) = T * P /\ Even(Q, R) /\ Even(2 * M, M)
            /\ Factors(P, Q, 2 * M)
        <4> DEFINE b == w.bits + 1
        <4>0. b \in Lengths /\ k \in 0..b /\ k \in Nat /\ k < b
          BY <1>1, <3>3
        <4>a. b - k = w.bits + 1 - k /\ b - (k + 1) = w.bits + 1 - (k + 1)
          BY <1>1, <3>3
        <4> HIDE DEF k, M
        <4>1. /\ Q = 2^(b - k) /\ R = 2^(b - (k + 1))
              /\ 2^b = 2 * M /\ 2^(b - 1) = M
          <5>1. 2 * M = 2^b
            BY <1>1
          <5>2. M = 2^(b - 1)
            BY <1>1
          <5> HIDE DEF b
          <5>3. QED
            BY <4>a, <5>1, <5>2
        <4> HIDE DEF b, Q, R
        <4>2. 2^(k + 1) = 2 * 2^k /\ Even(Q, R) /\ Even(2^b, 2^(b - 1))
          BY <4>0, <4>1, PlaceIs
        <4>3. Factors(P, Q, 2^b)
          BY <4>0, <4>1, SplitFactors
        <4>4. QED
          BY <1>1, <4>1, <4>2, <4>3
      <3>5. z = Rotated(2^(k + 1), R, x)
        <4> HIDE DEF P, Q, R, M, T, x, s, k
        <4>1. Rotated(T, M, Rotated(P, Q, x)) = Rotated(T * P, R, x)
          BY <1>1, <3>2, <3>4, RotateUp
        <4>2. QED
          BY <3>1, <3>4, <4>1
      <3>6. CASE k = w.bits
        <4>1. l = 0 /\ k + 1 = w.bits + 1 /\ w.bits + 1 - (k + 1) = 0 /\ w.bits + 1 - l = w.bits + 1
          BY <1>1, <3>3, <3>6
        <4> HIDE DEF k, l, x
        <4>2. z = Rotated(2^(w.bits + 1), 2^0, x) /\ y = Rotated(2^0, 2^(w.bits + 1), x)
          BY <3>5, <4>1
        <4>3. 2^0 = 1 /\ 2^(w.bits + 1) = 2 * M /\ 2 * M \in Nat /\ 2 * M # 0
          BY <1>1, PowersAre, ModulusIs
        <4>4. QED
          BY <3>2, <4>2, <4>3, WholeTurn
      <3>7. CASE k # w.bits
        <4>1. l = k + 1
          BY <3>3, <3>7
        <4> HIDE DEF k, l, x, z
        <4>2. QED
          BY <3>5, <4>1
      <3>8. QED
        BY <3>6, <3>7
    <2>3. QED
      BY <2>1, <2>2
  <1> HIDE DEF y, z
  <1>6. QED
    BY <1>2, <1>4, <1>5

LEMMA RcrMore ==
  ASSUME NEW w \in Width, NEW v \in Operand(w), NEW f \in Flags, NEW n \in Nat,
         NEW o, o = Shift("rcr", v, n, f, w), NEW g \in Flags, g.c = o.f.c, NEW j, One(j),
         NEW u, u = Shift("rcr", o.v, j, g, w),
         NEW t, t = Shift("rcr", v, n + 1, f, w)
  PROVE  u.v = t.v /\ u.f.c = t.f.c /\ u.v \in Operand(w) /\ u.f \in Flags
  <1> DEFINE k == CarryTurns(n, w)
             l == CarryTurns(n + 1, w)
             M == Modulus(w)
             T == 2^1
             x == CarryAbove(v, f, w)
             s == CarryAbove(o.v, g, w)
             y == Rotated(2^(w.bits + 1 - l), 2^l, x)
             z == Rotated(M, T, s)
  <1>1. /\ w.bits + 1 \in Lengths /\ w.bits \in Nat /\ n + 1 \in Nat /\ n + 1 # 0
        /\ k \in 0..w.bits /\ l \in 0..w.bits
        /\ 2 * M = 2^(w.bits + 1) /\ M = 2^(w.bits + 1 - 1) /\ T = 2
    BY TurnsAre, LengthIs, PowersAre, OneTurn, NextPower DEF One
  <1>2. t.v = Low(y, w) /\ t.f.c = (y >= M)
    BY <1>1, RcrAt
  <1>3. o.v \in Operand(w)
    <2>1. CASE n = 0
      BY <2>1, NoShift
    <2>2. CASE n # 0
      BY <2>2, RcrAt
    <2>3. QED
      BY <2>1, <2>2
  <1>4. u.v = Low(z, w) /\ u.f.c = (z >= M) /\ u.v \in Operand(w) /\ u.f \in Flags
    BY <1>1, <1>3, RcrOnce
  <1>5. z = y
    <2>1. CASE n = 0
      <3>1. o.v = v /\ o.f = f /\ l = 1
        BY <2>1, NoShift, TurnsMore
      <3>2. s = x
        BY <3>1 DEF CarryAbove
      <3>3. y = Rotated(2^(w.bits + 1 - 1), 2^1, x)
        BY <3>1
      <3>4. QED
        BY <1>1, <3>2, <3>3
    <2>2. CASE n # 0
      <3> DEFINE P == 2^k
                 Q == 2^(w.bits + 1 - k)
                 R == 2^(w.bits + 1 - (k + 1))
      <3>1. s = Rotated(Q, P, x)
        BY <2>2, RcrAt
      <3>2. x \in Below(2 * M)
        BY CarryOf
      <3>3. /\ k \in Nat /\ k < w.bits + 1
            /\ l = IF k = w.bits THEN 0 ELSE k + 1
        BY <1>1, TurnsMore
      <3>4. /\ 2^(k + 1) = T * P /\ Even(Q, R) /\ Even(2 * M, M)
            /\ Factors(P, Q, 2 * M)
        <4> DEFINE b == w.bits + 1
        <4>0. b \in Lengths /\ k \in 0..b /\ k \in Nat /\ k < b
          BY <1>1, <3>3
        <4>a. b - k = w.bits + 1 - k /\ b - (k + 1) = w.bits + 1 - (k + 1)
          BY <1>1, <3>3
        <4> HIDE DEF k, M
        <4>1. /\ Q = 2^(b - k) /\ R = 2^(b - (k + 1))
              /\ 2^b = 2 * M /\ 2^(b - 1) = M
          <5>1. 2 * M = 2^b
            BY <1>1
          <5>2. M = 2^(b - 1)
            BY <1>1
          <5> HIDE DEF b
          <5>3. QED
            BY <4>a, <5>1, <5>2
        <4> HIDE DEF b, Q, R
        <4>2. 2^(k + 1) = 2 * 2^k /\ Even(Q, R) /\ Even(2^b, 2^(b - 1))
          BY <4>0, <4>1, PlaceIs
        <4>3. Factors(P, Q, 2^b)
          BY <4>0, <4>1, SplitFactors
        <4>4. QED
          BY <1>1, <4>1, <4>2, <4>3
      <3>5. z = Rotated(R, 2^(k + 1), x)
        <4> HIDE DEF P, Q, R, M, T, x, s, k
        <4>1. Rotated(M, T, Rotated(Q, P, x)) = Rotated(R, T * P, x)
          BY <1>1, <3>2, <3>4, RotateDown
        <4>2. QED
          BY <3>1, <3>4, <4>1
      <3>6. CASE k = w.bits
        <4>1. l = 0 /\ k + 1 = w.bits + 1 /\ w.bits + 1 - (k + 1) = 0 /\ w.bits + 1 - l = w.bits + 1
          BY <1>1, <3>3, <3>6
        <4> HIDE DEF k, l, x
        <4>2. z = Rotated(2^0, 2^(w.bits + 1), x) /\ y = Rotated(2^(w.bits + 1), 2^0, x)
          BY <3>5, <4>1
        <4>3. 2^0 = 1 /\ 2^(w.bits + 1) = 2 * M /\ 2 * M \in Nat /\ 2 * M # 0
          BY <1>1, PowersAre, ModulusIs
        <4>4. QED
          BY <3>2, <4>2, <4>3, WholeTurn
      <3>7. CASE k # w.bits
        <4>1. l = k + 1
          BY <3>3, <3>7
        <4> HIDE DEF k, l, x, z
        <4>2. QED
          BY <3>5, <4>1
      <3>8. QED
        BY <3>6, <3>7
    <2>3. QED
      BY <2>1, <2>2
  <1> HIDE DEF y, z
  <1>6. QED
    BY <1>2, <1>4, <1>5

(* SHL by more than the width of the operand.                              *)
LEMMA ShlFar ==
  ASSUME NEW w \in Width, NEW v \in Operand(w), NEW f \in Flags,
         NEW n \in Nat, w.bits < n, n < 4 * w.byte,
         NEW o, o = Shift("shl", v, n, f, w)
  PROVE  o.v = 0 /\ o.f \in Flags /\ o.f.c = FALSE
  <1> DEFINE e == CShift(w.bits - n, w)
             c == Lsb(Right(v, w.bits - n, w))
             r == Left(v, n, w)
             h == c # Sign(r, w)
             g == [f EXCEPT !.c = c, !.o = h]
  <1>1. /\ n # 0 /\ n \in Int /\ 0 <= n /\ w.bits \in Nat
        /\ Modulus(w) \in Nat /\ v \in Int /\ 0 <= v /\ v < Modulus(w)
    BY LengthIs, ModulusIs DEF Operand
  <1>2. e \in Nat /\ w.bits <= e /\ e < 4 * w.byte
    <2>1. 4 * w.byte \in {16, 32} /\ w.bits < 4 * w.byte
      BY DEF Width, Small, Wide, Byte, Word
    <2>2. (w.bits - n) % (4 * w.byte) = 4 * w.byte + w.bits - n
      BY <1>1, <2>1
    <2>3. QED
      BY <1>1, <2>1, <2>2 DEF CShift
  <1> HIDE DEF e
  <1>3. v \div 2^e = 0
    <2>1. Modulus(w) <= 2^e /\ e \in 0..31
      BY <1>2, CountWithin
    <2>2. Power(e)
      BY <2>1, PowerIs
    <2> DEFINE z == 0
               P == 2^e
    <2>3. P \in Nat /\ P # 0 /\ z \in Int /\ v = P * z + v /\ v \in 0..P - 1
      BY <1>1, <2>1, <2>2 DEF Power
    <2> HIDE DEF z, P
    <2>4. Divided(v, P, z, v)
      BY <2>3 DEF Divided
    <2>5. v \div P = z
      BY <2>4, DivisionOnly
    <2>6. QED
      BY <2>5 DEF z, P
  <1>4. c = FALSE
    BY <1>3 DEF Right, Lsb, e
  <1>5. r = 0
    <2>1. CShift(n, w) = n
      BY <1>1, CountWithin
    <2>2. QED
      BY <1>1, <2>1 DEF Left, Up
  <1>6. o = Out(r, SetSZP(g, r, w), w)
    BY <1>1 DEF Shift, Shl
  <1>7. h \in BOOLEAN /\ c \in BOOLEAN
    BY DEF Lsb
  <1> HIDE DEF r, h
  <1>8. g \in Flags /\ g.c = c
    <2> HIDE DEF c
    <2>1. QED
      BY <1>7, FlagsLeft
  <1> HIDE DEF g, c
  <1>9. o.v = Low(r, w) /\ o.f \in Flags /\ o.f.c = c
    BY <1>6, <1>8, SZPIs DEF Out
  <1>10. Low(0, w) = 0
    <2>1. 0 \in Operand(w)
      BY ModulusIs DEF Operand
    <2>2. QED
      BY <2>1, LowIs
  <1>11. QED
    BY <1>4, <1>5, <1>9, <1>10

(* SHL by up to that: the product and its two parts.                       *)
LEMMA ShlParts ==
  ASSUME NEW w \in Width, NEW v \in Operand(w), NEW f \in Flags,
         NEW n \in 1..w.bits,
         NEW o, o = Shift("shl", v, n, f, w),
         NEW P, P = 2^n, NEW M, M = Modulus(w)
  PROVE  \E h \in Int : /\ Divided(P * v, M, h, o.v) /\ o.v \in Operand(w)
                        /\ o.f \in Flags /\ o.f.c = Lsb(h)
  <1> DEFINE Q == 2^(w.bits - n)
             h == v \div Q
             z == v % Q
  <1>1. /\ Factors(P, Q, M)
        /\ o.v = Low(P * z, w) /\ o.f \in Flags /\ o.f.c = Lsb(h)
    BY ShlIs
  <1>2. /\ P \in Nat /\ P # 0 /\ Q \in Nat /\ Q # 0 /\ P * Q = M /\ M \in Nat /\ M # 0
        /\ v \in Int /\ v \in Below(M) /\ P \in Int /\ Q \in Int
    BY <1>1, ModulusIs DEF Factors, Operand, Below
  <1>3. Divided(v, Q, h, z)
    BY <1>2, DivisionIs
  <1> HIDE DEF Q, h, z
  <1>4. h \in Int /\ z \in 0..Q - 1 /\ z \in Int /\ v = Q * h + z
    BY <1>3 DEF Divided
  <1>5. P * v = M * h + P * z /\ P * z \in Int
    <2>1. P * (Q * h + z) = (P * Q) * h + P * z
      BY <1>2, <1>4
    <2>2. QED
      BY <1>2, <1>4, <2>1, Turned
  <1>6. P * z \in 0..M - 1
    <2>1. P * (Q - z) >= P /\ P * (Q - z) = P * Q - P * z
      BY <1>2, <1>4, FactorOne
    <2>2. P * z >= 0
      BY <1>2, <1>4
    <2>3. QED
      BY <1>2, <1>5, <2>1, <2>2
  <1>7. o.v = P * z /\ o.v \in Operand(w)
    BY <1>1, <1>5, <1>6, LowIs DEF Operand
  <1>8. Divided(P * v, M, h, o.v)
    BY <1>2, <1>4, <1>5, <1>6, <1>7 DEF Divided
  <1>9. QED
    BY <1>1, <1>4, <1>7, <1>8

LEMMA ShlMore ==
  ASSUME NEW w \in Width, NEW v \in Operand(w), NEW f \in Flags, NEW n \in Nat,
         n + 1 < 4 * w.byte,
         NEW o, o = Shift("shl", v, n, f, w), NEW g \in Flags, NEW j, One(j),
         NEW u, u = Shift("shl", o.v, j, g, w),
         NEW t, t = Shift("shl", v, n + 1, f, w)
  PROVE  u.v = t.v /\ u.f.c = t.f.c /\ u.v \in Operand(w) /\ u.f \in Flags
  <1> DEFINE M == Modulus(w)
  <1>1. /\ M \in Nat /\ M # 0 /\ M > 0 /\ w.bits \in Nat /\ w.bits >= 1 /\ v \in Int
        /\ 0 \in Operand(w)
    BY ModulusIs, WidthIs DEF Operand
  <1> HIDE DEF M
  <1>2. CASE n = 0
    <2>1. o.v = v /\ j = n + 1
      BY <1>2, NoShift DEF One
    <2>2. /\ u.f \in Flags /\ Doubled(w, v, 0, u.v, Num(u.f.c))
          /\ t.f \in Flags /\ Doubled(w, v, 0, t.v, Num(t.f.c))
      <3>1. One(n + 1)
        BY <1>2 DEF One
      <3>2. QED
        BY <2>1, <3>1, ShlOne
    <2>3. u.f.c \in BOOLEAN /\ t.f.c \in BOOLEAN
      BY <2>2 DEF Flags, Flag
    <2>4. QED
      BY <1>1, <2>2, <2>3, ModulusIs DEF Doubled, Num, Operand
  <1>3. ASSUME n # 0, n < w.bits
        PROVE  u.v = t.v /\ u.f.c = t.f.c /\ u.v \in Operand(w) /\ u.f \in Flags
    <2> DEFINE P == 2^n
               R == 2^(n + 1)
    <2>1. n \in 1..w.bits /\ n + 1 \in 1..w.bits /\ n \in 0..31
      BY <1>1, <1>3, WidthIs
    <2>2. R = 2 * P /\ P \in Nat
      <3>1. Power(n)
        BY <2>1, PowerIs
      <3>2. QED
        BY <3>1 DEF Power
    <2>3. PICK h \in Int : /\ Divided(P * v, M, h, o.v) /\ o.v \in Operand(w)
                           /\ o.f \in Flags /\ o.f.c = Lsb(h)
      BY <2>1, ShlParts DEF M
    <2>4. PICK k \in Int : /\ Divided(R * v, M, k, t.v) /\ t.v \in Operand(w)
                           /\ t.f \in Flags /\ t.f.c = Lsb(k)
      BY <2>1, ShlParts DEF M
    <2>5. u.f \in Flags /\ Doubled(w, o.v, 0, u.v, Num(u.f.c)) /\ u.f.c \in BOOLEAN
      <3>1. u.f \in Flags /\ Doubled(w, o.v, 0, u.v, Num(u.f.c))
        BY <2>3, ShlOne
      <3>2. QED
        BY <3>1 DEF Flags, Flag
    <2> HIDE DEF P, R
    <2>6. /\ u.v \in Operand(w) /\ 2 * o.v + 0 = u.v + Num(u.f.c) * M
          /\ u.v \in 0..M - 1 /\ u.v \in Int /\ o.v \in Int
      BY <1>1, <2>3, <2>5 DEF Doubled, Operand, M
    <2>7. P * v = M * h + o.v /\ P * v \in Int /\ R * v = 2 * (P * v) /\ M * h \in Int
      <3>1. P * v \in Int /\ M * h \in Int
        BY <1>1, <2>2, Turned
      <3>2. (2 * P) * v = 2 * (P * v)
        BY <1>1, <2>2
      <3>3. QED
        BY <2>2, <2>3, <3>1, <3>2 DEF Divided
    <2> DEFINE i == Num(u.f.c)
    <2>8. i \in {0, 1} /\ i \in Int /\ Lsb(2 * h + i) = u.f.c
      BY <2>5 DEF Num, Lsb
    <2>9. Divided(R * v, M, 2 * h + i, u.v)
      <3>0. 2 * o.v = u.v + i * M
        BY <2>6
      <3> HIDE DEF i
      <3>1. M * (2 * h + i) = 2 * (M * h) + i * M /\ i * M \in Int
        BY <1>1, <2>8
      <3>2. R * v = M * (2 * h + i) + u.v
        <4> DEFINE a == M * h
                   b == i * M
                   d == P * v
                   x == M * (2 * h + i)
                   y == R * v
        <4>1. /\ a \in Int /\ b \in Int /\ d \in Int /\ x = 2 * a + b
              /\ d = a + o.v /\ y = 2 * d /\ 2 * o.v = u.v + b
              /\ o.v \in Int /\ u.v \in Int
          BY <2>6, <2>7, <3>0, <3>1
        <4> HIDE DEF a, b, d, x, y
        <4>2. y = x + u.v
          BY <4>1
        <4>3. QED
          BY <4>2 DEF x, y
      <3>3. QED
        BY <1>1, <2>6, <2>8, <3>2 DEF Divided
    <2>10. k = 2 * h + i /\ t.v = u.v
      BY <2>4, <2>9, DivisionOnly
    <2>11. QED
      BY <2>4, <2>5, <2>6, <2>8, <2>10
  <1>4. ASSUME ~(n < w.bits)
        PROVE  u.v = t.v /\ u.f.c = t.f.c /\ u.v \in Operand(w) /\ u.f \in Flags
    <2>1. o.v = 0
      <3>1. CASE n = w.bits
        <4>1. n \in 1..w.bits /\ 2^n = M
          BY <1>1, <3>1 DEF Modulus, M
        <4>2. PICK h \in Int : Divided(M * v, M, h, o.v)
          BY <4>1, ShlParts DEF M
        <4> DEFINE z == 0
        <4>3. Divided(M * v, M, v, z)
          BY <1>1 DEF Divided
        <4> HIDE DEF z
        <4>4. o.v = z
          BY <4>2, <4>3, DivisionOnly
        <4>5. QED
          BY <4>4 DEF z
      <3>2. CASE n # w.bits
        <4>1. w.bits < n /\ n < 4 * w.byte
          BY <1>1, <1>4, <3>2, WidthIs
        <4>2. QED
          BY <4>1, ShlFar
      <3>3. QED
        BY <3>1, <3>2
    <2>2. t.v = 0 /\ t.f.c = FALSE
      <3>1. n + 1 \in Nat /\ w.bits < n + 1
        BY <1>1, <1>4
      <3>2. QED
        BY <3>1, ShlFar
    <2>3. u.f \in Flags /\ Doubled(w, o.v, 0, u.v, Num(u.f.c))
      BY <1>1, <2>1, ShlOne
    <2>4. u.f.c \in BOOLEAN
      BY <2>3 DEF Flags, Flag
    <2>5. u.v = 0 /\ u.f.c = FALSE
      <3>1. u.v \in Nat /\ 0 = u.v + Num(u.f.c) * M
        BY <1>1, <2>1, <2>3 DEF Doubled, Operand, M
      <3>2. QED
        BY <1>1, <2>4, <3>1 DEF Num
    <2>6. QED
      BY <1>1, <2>2, <2>3, <2>5
  <1>5. QED
    BY <1>2, <1>3, <1>4

LEMMA ShrMore ==
  ASSUME NEW w \in Width, NEW v \in Operand(w), NEW f \in Flags, NEW n \in Nat,
         n + 1 < 4 * w.byte,
         NEW o, o = Shift("shr", v, n, f, w), NEW g \in Flags, NEW j, One(j),
         NEW u, u = Shift("shr", o.v, j, g, w),
         NEW t, t = Shift("shr", v, n + 1, f, w)
  PROVE  u.v = t.v /\ u.f.c = t.f.c /\ u.v \in Operand(w) /\ u.f \in Flags
  <1> DEFINE M == Modulus(w)
             P == 2^n
             q == v \div P
  <1>1. M \in Nat /\ v \in Int /\ -M <= v /\ 0 <= v /\ v < M /\ n + 1 \in 1..4 * w.byte - 1
        /\ n \in 0..31 /\ n + 1 - 1 = n
    BY ModulusIs, WidthIs DEF Operand
  <1>2. P \in Nat /\ P # 0 /\ 2^(n + 1) = 2 * P
    <2>1. Power(n)
      BY <1>1, PowerIs
    <2>2. QED
      BY <2>1 DEF Power
  <1>3. t.v = Low(v \div (2 * P), w) /\ t.f.c = Lsb(q)
    <2>1. t.v = Low(v \div 2^(n + 1), w) /\ t.f.c = Lsb(v \div 2^(n + 1 - 1))
      BY <1>1, ShrIs
    <2>2. QED
      BY <1>1, <1>2, <2>1
  <1>4. /\ q \in Int /\ q \div 2 = v \div (2 * P) /\ q >= 0 /\ q < M
    <2> HIDE DEF M, P
    <2>1. QED
      BY <1>1, <1>2, DividedTwice
  <1>5. q \in Operand(w)
    <2> HIDE DEF q
    <2>1. QED
      BY <1>1, <1>4 DEF Operand
  <1>6. o.v = q
    <2>1. CASE n = 0
      <3>1. P = 1
        BY <2>1, PowersAre
      <3>2. v \div 1 = v
        BY <1>1
      <3>3. QED
        BY <2>1, <3>1, <3>2, NoShift
    <2>2. CASE n # 0
      <3>1. n \in 1..4 * w.byte - 1
        BY <1>1, <2>2, WidthIs
      <3>2. o.v = Low(q, w)
        BY <3>1, ShrIs
      <3> HIDE DEF q
      <3>3. Low(q, w) = q
        BY <1>4, <1>5, LowIs
      <3>4. QED
        BY <3>2, <3>3
    <2>3. QED
      BY <2>1, <2>2
  <1> HIDE DEF q, P
  <1>7. u.v = Low(q \div 2, w) /\ u.f \in Flags /\ u.f.c = Lsb(q)
    <2>1. /\ u.v = Low(q \div 2^j, w) /\ u.f \in Flags
          /\ u.f.c = Lsb(q \div 2^(j - 1))
      BY <1>5, <1>6, OneIs, ShrIs
    <2>2. 2^j = 2 /\ 2^(j - 1) = 1 /\ q \div 1 = q
      BY <1>4, OneIs
    <2>3. QED
      BY <2>1, <2>2
  <1>8. u.v \in Operand(w)
    <2>1. q \div 2 \in Int
      BY <1>4
    <2>2. QED
      BY <1>7, <2>1, LowIs
  <1>9. QED
    BY <1>3, <1>4, <1>7, <1>8

LEMMA SarMore ==
  ASSUME NEW w \in Width, NEW v \in Operand(w), NEW f \in Flags, NEW n \in Nat,
         n + 1 < 4 * w.byte,
         NEW o, o = Shift("sar", v, n, f, w), NEW g \in Flags, NEW j, One(j),
         NEW u, u = Shift("sar", o.v, j, g, w),
         NEW t, t = Shift("sar", v, n + 1, f, w)
  PROVE  u.v = t.v /\ u.f.c = t.f.c /\ u.v \in Operand(w) /\ u.f \in Flags
  <1> DEFINE H == Half(w)
             P == 2^n
             x == Signed(v, w)
             q == x \div P
  <1>1. H \in Nat /\ x \in Int /\ -H <= x /\ x < H /\ n + 1 \in 1..4 * w.byte - 1
        /\ n \in 0..31 /\ n + 1 - 1 = n
    BY ModulusIs, SignedIs, WidthIs
  <1>2. P \in Nat /\ P # 0 /\ 2^(n + 1) = 2 * P
    <2>1. Power(n)
      BY <1>1, PowerIs
    <2>2. QED
      BY <2>1 DEF Power
  <1>3. t.v = Low(x \div (2 * P), w) /\ t.f.c = Lsb(q)
    <2>1. t.v = Low(x \div 2^(n + 1), w) /\ t.f.c = Lsb(x \div 2^(n + 1 - 1))
      BY <1>1, SarIs
    <2>2. QED
      BY <1>1, <1>2, <2>1
  <1>4. /\ q \in Int /\ q \div 2 = x \div (2 * P) /\ -H <= q /\ q < H
    <2> HIDE DEF H, P, x
    <2>1. QED
      BY <1>1, <1>2, DividedTwice
  <1>5. o.v = Low(q, w) /\ o.v \in Operand(w) /\ Signed(o.v, w) = q
    <2>1. o.v = Low(q, w)
      <3>1. CASE n = 0
        <4>1. P = 1
          BY <3>1, PowersAre
        <4>2. x \div 1 = x
          BY <1>1
        <4>3. Low(x, w) = v
          BY LowSigned
        <4>4. QED
          BY <3>1, <4>1, <4>2, <4>3, NoShift
      <3>2. CASE n # 0
        <4>1. n \in 1..4 * w.byte - 1
          BY <1>1, <3>2, WidthIs
        <4>2. QED
          BY <4>1, SarIs
      <3>3. QED
        BY <3>1, <3>2
    <2> HIDE DEF q
    <2>2. q \in -H..H - 1
      BY <1>1, <1>4
    <2>3. QED
      BY <1>4, <2>1, <2>2, SignedLow, LowIs
  <1> HIDE DEF q, P, x
  <1>7. u.v = Low(q \div 2, w) /\ u.f \in Flags /\ u.f.c = Lsb(q)
    <2>1. /\ u.v = Low(q \div 2^j, w) /\ u.f \in Flags
          /\ u.f.c = Lsb(q \div 2^(j - 1))
      BY <1>5, OneIs, SarIs
    <2>2. 2^j = 2 /\ 2^(j - 1) = 1 /\ q \div 1 = q
      BY <1>4, OneIs
    <2>3. QED
      BY <2>1, <2>2
  <1>8. u.v \in Operand(w)
    <2>1. q \div 2 \in Int
      BY <1>4
    <2>2. QED
      BY <1>7, <2>1, LowIs
  <1>9. QED
    BY <1>3, <1>4, <1>7, <1>8

(* One more shift by one is a shift by one more.                           *)
LEMMA ShiftMore ==
  ASSUME NEW w \in Width, NEW v \in Operand(w), NEW f \in Flags, NEW n \in Nat,
         n + 1 < 4 * w.byte, NEW op \in Shifts,
         NEW o, o = Shift(op, v, n, f, w), NEW g \in Flags, g.c = o.f.c, NEW j, One(j),
         NEW u, u = Shift(op, o.v, j, g, w),
         NEW t, t = Shift(op, v, n + 1, f, w)
  PROVE  u.v = t.v /\ u.f.c = t.f.c /\ u.v \in Operand(w) /\ u.f \in Flags
  <1>1. CASE op = "rol"
    BY <1>1, RolMore
  <1>2. CASE op = "ror"
    BY <1>2, RorMore
  <1>3. CASE op = "rcl"
    BY <1>3, RclMore
  <1>4. CASE op = "rcr"
    BY <1>4, RcrMore
  <1>5. CASE op = "shl"
    BY <1>5, ShlMore
  <1>6. CASE op = "shr"
    BY <1>6, ShrMore
  <1>7. CASE op = "sar"
    BY <1>7, SarMore
  <1>8. QED
    BY <1>1, <1>2, <1>3, <1>4, <1>5, <1>6, <1>7 DEF Shifts

\* a program that repeats one shift by one, up to the size of C's type
Repeats ==
  LET i == prog.code[1]
  IN  /\ i.op \in Shifts /\ One(i.n) /\ \A k \in DOMAIN prog.code : prog.code[k] = i
      /\ Done < 4 * prog.w.byte

\* the machine it has come to
Stepped ==
  LET i == prog.code[1]
      once == Shift(i.op, start.r[i.d], Done, start.f, prog.w)
  IN  Repeats => m \in Machine(prog.w) /\ m.r[i.d] = once.v /\ m.f.c = once.f.c

(* What the programs and their machines are.                               *)
LEMMA StartIs ==
  ASSUME Position
  PROVE  /\ prog.w \in Width /\ prog.code \in Seq(Instruction) /\ prog.code # <<>>
         /\ prog.code[1] \in Instruction /\ Len(prog.code) \in Nat
         /\ start \in Machine(prog.w)
  <1>1. prog \in Programs /\ start \in Input(prog)
    BY DEF Position
  <1>2. /\ prog.w \in Width /\ prog.code \in Seq(Instruction) /\ prog.code # <<>>
        /\ start \in Machine(prog.w)
    BY <1>1, ProgramsAssumption
  <1>3. Len(prog.code) \in Nat /\ 1 \in 1..Len(prog.code)
    BY <1>2, EmptySeq, LenProperties
  <1>4. QED
    BY <1>2, <1>3, ElementOfSeq

LEMMA SteppedInit == Init => Position /\ Stepped
  <1> SUFFICES ASSUME Init PROVE Position /\ Stepped
    OBVIOUS
  <1>1. Position
    BY FollowedInit
  <1>2. left = prog.code /\ m = start
    BY DEF Init
  <1>3. Done = 0
    BY <1>1, <1>2, StartIs DEF Done
  <1>4. QED
    BY <1>1, <1>2, <1>3, StartIs, NoShift DEF Stepped

LEMMA SteppedStep == Position /\ Stepped /\ [Next]_vars => Stepped'
  <1> SUFFICES ASSUME Position, Stepped, [Next]_vars PROVE Stepped'
    OBVIOUS
  <1>1. CASE UNCHANGED vars
    BY <1>1 DEF vars, Stepped, Repeats, Done
  <1>2. CASE Next
    <2> DEFINE i == prog.code[1]
               w == prog.w
               n == Done
               v == start.r[i.d]
               j == i.n
               f == start.f
               o == Shift(i.op, v, n, f, w)
               u == Shift(i.op, o.v, j, m.f, w)
               t == Shift(i.op, v, n + 1, f, w)
    <2>1. /\ n \in 0..Len(prog.code) - 1 /\ Done' = n + 1
          /\ prog' = prog /\ start' = start /\ m' \in After(prog.code[n + 1], m, w)
      BY <1>2, PositionStep
    <2>2. /\ w \in Width /\ prog.code \in Seq(Instruction) /\ Len(prog.code) \in Nat
          /\ start \in Machine(w) /\ i \in Instruction
      BY StartIs
    <2>3. SUFFICES ASSUME Repeats'
                   PROVE  m' \in Machine(w) /\ m'.r[i.d] = t.v /\ m'.f.c = t.f.c
      BY <2>1 DEF Stepped
    <2>4. /\ i.op \in Shifts /\ One(j) /\ \A k \in DOMAIN prog.code : prog.code[k] = i
          /\ n + 1 < 4 * w.byte
      BY <2>1, <2>3 DEF Repeats
    <2>5. prog.code[n + 1] = i
      BY <2>1, <2>2, <2>4
    <2>6. Repeats
      <3>1. n < 4 * w.byte
        BY <2>1, <2>2, <2>4, WidthIs
      <3>2. QED
        BY <2>4, <3>1 DEF Repeats
    <2>7. m \in Machine(w) /\ m.r[i.d] = o.v /\ m.f.c = o.f.c
      BY <2>6 DEF Stepped
    <2>8. /\ v \in Operand(w) /\ f \in Flags /\ m.f \in Flags /\ i.d \in Register
           /\ n \in Nat
      BY <2>1, <2>2, <2>7 DEF Machine, Instruction, Operand, Flags
    <2> HIDE DEF i, w, n, v, j, f
    <2>9. u.v = t.v /\ u.f.c = t.f.c /\ u.v \in Operand(w) /\ u.f \in Flags
      BY <2>2, <2>4, <2>7, <2>8, ShiftMore
    <2>10. u = Shift(i.op, m.r[i.d], i.n, m.f, w)
      BY <2>7 DEF j
    <2> HIDE DEF u, t, o
    <2>11. m' \in Machine(w) /\ m'.f = u.f /\ m'.r[i.d] = u.v
      BY <2>1, <2>2, <2>4, <2>5, <2>7, <2>8, <2>9, <2>10, AfterShift
    <2>12. QED
      BY <2>9, <2>11
  <1>3. QED
    BY <1>1, <1>2

(* A shift or rotation by n is n of them by one, in its result and in CF,   *)
(* for every operation, width, operand and count that C's type holds,      *)
(* counts above the width of the operand and whole turns included          *)
(* (shift.h).                                                              *)
THEOREM ShiftsByOne == Spec => []ShiftIsSteps
  <1>1. Position /\ [Next]_vars => Position'
    <2>1. Position /\ UNCHANGED vars => Position'
      BY DEF Position, Done, vars
    <2>2. QED
      BY <2>1, PositionStep
  <1>2. Spec => [](Position /\ Stepped)
    BY <1>1, SteppedInit, SteppedStep, PTL DEF Spec
  <1>3. Stepped => ShiftIsSteps
    BY DEF Stepped, ShiftIsSteps, Repeats, Done, One
  <1>4. QED
    BY <1>2, <1>3, PTL

-----------------------------------------------------------------------------
(* Logic.                                                                  *)

\* what a logic operation makes of two bits
Joined(op, x, y) ==
  IF op = "and" THEN x * y ELSE IF op = "or" THEN x + y - x * y ELSE (x + y) % 2

LogicOf(op, d, s, f, w) ==
  IF op = "and" THEN And(d, s, f, w) ELSE IF op = "or" THEN Or(d, s, f, w) ELSE Xor(d, s, f, w)

LEMMA LogicIs ==
  ASSUME NEW w \in Width, NEW d \in Operand(w), NEW s \in Operand(w), NEW f,
         NEW op \in {"and", "or", "xor"}
  PROVE  LET o == LogicOf(op, d, s, f, w)
         IN  /\ o.v \in Operand(w) /\ o.f = SetLogic(f, o.v, w)
             /\ \A i \in Positions(w.bits) : Bit(o.v, i) = Joined(op, Bit(d, i), Bit(s, i))
  <1> DEFINE o == LogicOf(op, d, s, f, w)
             S == Positions(w.bits)
             F == [i \in S |-> Joined(op, Bit(d, i), Bit(s, i))]
  <1>1. w.bits \in 1..16 /\ Operand(w) = 0..2^w.bits - 1 /\ d \in Nat /\ s \in Nat
    BY WidthIs, ModulusIs DEF Operand, Modulus
  <1>0. S \subseteq 0..31
    <2>1. w.bits \in 1..16
      BY <1>1
    <2>2. QED
      BY <2>1 DEF Positions
  <1>2. Folded(o.v, Weights(F, S), S)
    <2>1. CASE op = "and"
      BY <1>1, <2>1, AndFolds DEF LogicOf, Joined
    <2>2. CASE op = "or"
      BY <1>1, <2>2, OrFolds DEF LogicOf, Joined
    <2>3. CASE op = "xor"
      BY <1>1, <2>3, XorFolds DEF LogicOf, Joined
    <2>4. QED
      BY <2>1, <2>2, <2>3
  <1>3. ASSUME NEW i \in S PROVE F[i] \in {0, 1}
    <2>1. i \in 0..31
      BY <1>0
    <2> DEFINE x == Bit(d, i)
               y == Bit(s, i)
    <2>2. x \in {0, 1} /\ y \in {0, 1}
      BY <1>1, <2>1, BitIs
    <2>3. F[i] = Joined(op, x, y)
      OBVIOUS
    <2> HIDE DEF x, y, F
    <2>4. QED
      BY <2>2, <2>3 DEF Joined
  <1>4. o.f = SetLogic(f, o.v, w)
    <2>1. CASE op = "and"
      BY <2>1 DEF LogicOf, And, Logic
    <2>2. CASE op = "or"
      BY <2>2 DEF LogicOf, Or, Logic
    <2>3. CASE op = "xor"
      BY <2>3 DEF LogicOf, Xor, Logic
    <2>4. QED
      BY <2>1, <2>2, <2>3
  <1> HIDE DEF o
  <1>5. o.v \in 0..2^w.bits - 1 /\ \A i \in S : Bit(o.v, i) = F[i]
    <2> HIDE DEF F
    <2>1. QED
      BY <1>1, <1>2, <1>3, SumBits
  <1>6. QED
    BY <1>1, <1>4, <1>5 DEF o

(* The flags of a logic operation.                                          *)
LEMMA LogicFlags ==
  ASSUME NEW w \in Width, NEW r \in Operand(w), NEW f \in Flags
  PROVE  LET g == SetLogic(f, r, w)
         IN  g \in Flags /\ ~g.c /\ ~g.o /\ g.a = f.a /\ g.z = (r = 0)
  <1>1. Low(r, w) = r
    BY LowIs, ModulusIs DEF Operand
  <1>2. QED
    BY <1>1 DEF SetLogic, SetSZP, Flags, Flag, Sign, EvenParity

(* The complement of a word has the other bits.                             *)
LEMMA NotIs ==
  ASSUME NEW w \in Width, NEW v \in Operand(w)
  PROVE  /\ Modulus(w) - 1 - v \in Operand(w)
         /\ \A i \in Positions(w.bits) : Bit(Modulus(w) - 1 - v, i) = 1 - Bit(v, i)
  <1>1. Modulus(w) \in Nat /\ v \in Nat /\ v <= Modulus(w) - 1 /\ w.bits \in 0..16
    BY WidthIs, ModulusIs DEF Operand
  <1>2. ASSUME NEW i \in Positions(w.bits)
        PROVE  Bit(Modulus(w) - 1 - v, i) = 1 - Bit(v, i)
    <2> DEFINE P == 2^i
               M == Modulus(w)
               q == v \div P
               r == v % P
    <2>0. i \in 0..31 /\ i \in 0..16 /\ i < w.bits
      BY <1>1 DEF Positions
    <2>1. P \in Nat /\ P # 0
      BY <2>0, WeightIs
    <2>2. Above(M, P)
      BY <1>1, <2>0, HigherIs DEF Modulus
    <2>3. Divided(v, P, q, r)
      <3>1. v \in Int
        BY <1>1
      <3>2. QED
        BY <2>1, <3>1, DivisionIs
    <2> HIDE DEF P, M, q, r
    <2>4. PICK K \in Nat : K # 0 /\ M = P * (2 * K)
      BY <2>2 DEF Above
    <2> DEFINE x == 2 * K - 1 - q
               y == P - 1 - r
               u == M - 1 - v
    <2>5. q \in Int /\ r \in 0..P - 1 /\ r \in Int /\ v = P * q + r
      BY <2>3 DEF Divided
    <2>6. P * x = P * (2 * K) - P - P * q
      BY <2>1, <2>4, <2>5
    <2>7. P * (2 * K) \in Int /\ P * q \in Int /\ x \in Int /\ y \in 0..P - 1
      BY <2>1, <2>4, <2>5
    <2>8. u = P * x + y
      <3> HIDE DEF x
      <3>1. QED
        BY <2>1, <2>4, <2>5, <2>6, <2>7
    <2>9. Divided(u, P, x, y)
      <3> HIDE DEF x, y, u
      <3>1. QED
        BY <2>1, <2>7, <2>8 DEF Divided
    <2>10. u \div P = x /\ v \div P = q
      <3> HIDE DEF x, y, u
      <3>1. QED
        BY <2>1, <2>3, <2>9, DivisionOnly
    <2>11. x % 2 = 1 - (q % 2)
      BY <2>4, <2>5
    <2>12. (u \div P) % 2 = 1 - ((v \div P) % 2)
      <3> HIDE DEF x, u
      <3>1. QED
        BY <2>10, <2>11
    <2>13. Bit(u, i) = 1 - Bit(v, i)
      <3> HIDE DEF u
      <3>1. QED
        BY <2>12 DEF Bit, P
    <2>14. QED
      BY <2>13 DEF M
  <1>3. QED
    BY <1>1, <1>2 DEF Operand

-----------------------------------------------------------------------------
(* Merging bits.                                                           *)

LEMMA EightSteps ==
  ASSUME Position, Followed, NEW c, Ended(c), Len(c) = 8
  PROVE  /\ prog.w \in Width /\ start \in Machine(prog.w)
         /\ \E x1 \in After(c[1], start, prog.w) : \E x2 \in After(c[2], x1, prog.w) :
            \E x3 \in After(c[3], x2, prog.w) : \E x4 \in After(c[4], x3, prog.w) :
            \E x5 \in After(c[5], x4, prog.w) : \E x6 \in After(c[6], x5, prog.w) :
            \E x7 \in After(c[7], x6, prog.w) : m \in After(c[8], x7, prog.w)
  <1>0. Len(c) <= 8
    OBVIOUS
  <1>1. /\ prog \in Programs /\ prog.w \in Width /\ prog.code = c
        /\ start \in Machine(prog.w) /\ m \in Run(Len(c), prog, start)
    BY <1>0, EndIs, Zenon
  <1> DEFINE Then(j, X) == UNION {After(c[j], x, prog.w) : x \in X}
             X1 == Then(1, {start})
             X2 == Then(2, X1)
             X3 == Then(3, X2)
             X4 == Then(4, X3)
             X5 == Then(5, X4)
             X6 == Then(6, X5)
             X7 == Then(7, X6)
  <1>2. Run(Len(c), prog, start) = Then(8, X7)
    BY <1>1 DEF Run
  <1> HIDE DEF X7
  <1>3. PICK x7 \in X7 : m \in After(c[8], x7, prog.w)
    BY <1>1, <1>2
  <1> USE DEF X7
  <1> HIDE DEF X6
  <1>4. PICK x6 \in X6 : x7 \in After(c[7], x6, prog.w)
    OBVIOUS
  <1> USE DEF X6
  <1> HIDE DEF X5
  <1>5. PICK x5 \in X5 : x6 \in After(c[6], x5, prog.w)
    OBVIOUS
  <1> USE DEF X5
  <1> HIDE DEF X4
  <1>6. PICK x4 \in X4 : x5 \in After(c[5], x4, prog.w)
    OBVIOUS
  <1> USE DEF X4
  <1> HIDE DEF X3
  <1>7. PICK x3 \in X3 : x4 \in After(c[4], x3, prog.w)
    OBVIOUS
  <1> USE DEF X3
  <1> HIDE DEF X2
  <1>8. PICK x2 \in X2 : x3 \in After(c[3], x2, prog.w)
    OBVIOUS
  <1> USE DEF X2
  <1> HIDE DEF X1
  <1>9. PICK x1 \in X1 : x2 \in After(c[2], x1, prog.w)
    OBVIOUS
  <1> USE DEF X1
  <1>10. x1 \in After(c[1], start, prog.w)
    OBVIOUS
  <1>11. QED
    BY <1>1, <1>3, <1>4, <1>5, <1>6, <1>7, <1>8, <1>9, <1>10, Zenon

(* The machine after a logic instruction.                                   *)
LEMMA ComputeLogic ==
  ASSUME NEW i, NEW d, NEW s, NEW f, NEW w
  PROVE  /\ i.op \in {"and", "or", "xor"} => Compute(i, d, s, f, w) = LogicOf(i.op, d, s, f, w)
         /\ i.op = "test" => Compute(i, d, s, f, w) = Test(d, s, f, w)
         /\ i.op = "not" => Compute(i, d, s, f, w) = Not(d, f, w)
  BY DEF Compute, Shifts, LogicOf

LEMMA AfterLogic ==
  ASSUME NEW w \in Width, NEW x \in Machine(w), NEW i, i.d \in Register, i.s \in Register,
         i.op \in {"and", "or", "xor"}, NEW y \in After(i, x, w)
  PROVE  /\ y \in Machine(w) /\ y.f.a = x.f.a
         /\ \A g \in Register \ {i.d} : y.r[g] = x.r[g]
         /\ \A j \in Positions(w.bits) :
              Bit(y.r[i.d], j) = Joined(i.op, Bit(x.r[i.d], j), Bit(x.r[i.s], j))
  <1> DEFINE d == x.r[i.d]
             s == x.r[i.s]
             o == LogicOf(i.op, d, s, x.f, w)
  <1>1. d \in Operand(w) /\ s \in Operand(w) /\ x.f \in Flags
    BY MachineIs
  <1>2. Source(i, x, w) = s
    BY DEF Source, None, Register
  <1>3. y = Written(i, x, o)
    BY <1>2, ComputeLogic DEF After, TwoOperand, OneOperand, Shifts
  <1>4. /\ o.v \in Operand(w) /\ o.f = SetLogic(x.f, o.v, w)
        /\ \A j \in Positions(w.bits) : Bit(o.v, j) = Joined(i.op, Bit(d, j), Bit(s, j))
    <2> HIDE DEF d, s
    <2>1. QED
      BY <1>1, LogicIs
  <1> HIDE DEF o
  <1>5. o.f \in Flags /\ o.f.a = x.f.a
    BY <1>1, <1>4, LogicFlags
  <1>6. /\ y \in Machine(w) /\ y.f = o.f /\ y.r[i.d] = o.v
        /\ \A g \in Register \ {i.d} : y.r[g] = x.r[g]
    BY <1>3, <1>4, <1>5, WrittenIs
  <1>7. QED
    BY <1>4, <1>5, <1>6

LEMMA AfterNot ==
  ASSUME NEW w \in Width, NEW x \in Machine(w), NEW i, i.d \in Register,
         i.op = "not", NEW y \in After(i, x, w)
  PROVE  /\ y \in Machine(w) /\ y.f = x.f
         /\ \A g \in Register \ {i.d} : y.r[g] = x.r[g]
         /\ y.r[i.d] = Modulus(w) - 1 - x.r[i.d]
  <1> DEFINE d == x.r[i.d]
             o == Not(d, x.f, w)
  <1>1. d \in Operand(w) /\ x.f \in Flags
    BY MachineIs
  <1>2. y = Written(i, x, o)
    BY ComputeLogic DEF After, TwoOperand, OneOperand, Shifts
  <1>3. o.v = Modulus(w) - 1 - d /\ o.f = x.f
    BY DEF Not
  <1>4. o.v \in Operand(w)
    BY <1>1, <1>3, NotIs
  <1> HIDE DEF o, d
  <1>5. /\ y \in Machine(w) /\ y.f = o.f /\ y.r[i.d] = o.v
        /\ \A g \in Register \ {i.d} : y.r[g] = x.r[g]
    BY <1>1, <1>2, <1>3, <1>4, WrittenIs
  <1>6. QED
    BY <1>3, <1>5 DEF d

LEMMA AfterTest ==
  ASSUME NEW w \in Width, NEW x \in Machine(w), NEW i, i.d \in Register, i.s = i.d,
         i.op = "test", NEW y \in After(i, x, w)
  PROVE  /\ y \in Machine(w) /\ \A g \in Register : y.r[g] = x.r[g]
         /\ ~y.f.c /\ ~y.f.o /\ y.f.z = (x.r[i.d] = 0) /\ y.f.a = x.f.a
  <1> DEFINE d == x.r[i.d]
             o == Test(d, d, x.f, w)
             a == LogicOf("and", d, d, x.f, w)
  <1>1. d \in Operand(w) /\ x.f \in Flags /\ d \in Nat /\ w.bits \in 1..16 /\ d < 2^w.bits
    BY MachineIs, ModulusIs, WidthIs DEF Operand, Modulus
  <1>2. Source(i, x, w) = d
    BY DEF Source, None, Register
  <1>3. y = Written(i, x, o)
    BY <1>2, ComputeLogic DEF After, TwoOperand, OneOperand, Shifts
  <1> HIDE DEF d
  <1>4. /\ a.v \in Operand(w) /\ a.f = SetLogic(x.f, a.v, w)
        /\ \A j \in Positions(w.bits) : Bit(a.v, j) = Joined("and", Bit(d, j), Bit(d, j))
    BY <1>1, LogicIs
  <1>5. o.v = d /\ o.f = a.f
    BY DEF Test, And, Logic, LogicOf
  <1> HIDE DEF o, a
  <1>6. a.v = d
    <2>1. ASSUME NEW j \in 0..w.bits - 1 PROVE Bit(a.v, j) = Bit(d, j)
      <3>1. j \in 0..31
        BY <1>1
      <3>2. Bit(d, j) \in {0, 1}
        BY <1>1, <3>1, BitIs
      <3>3. Bit(a.v, j) = Joined("and", Bit(d, j), Bit(d, j))
        BY <1>4 DEF Positions
      <3>4. QED
        BY <3>2, <3>3 DEF Joined
    <2>2. a.v \in Nat /\ a.v < 2^w.bits
      BY <1>4, ModulusIs DEF Operand, Modulus
    <2>3. QED
      BY <1>1, <2>1, <2>2, BitsEqual
  <1>7. o.f \in Flags /\ ~o.f.c /\ ~o.f.o /\ o.f.a = x.f.a /\ o.f.z = (d = 0)
    BY <1>1, <1>4, <1>5, <1>6, LogicFlags
  <1>8. /\ y \in Machine(w) /\ y.f = o.f /\ y.r[i.d] = o.v
        /\ \A g \in Register \ {i.d} : y.r[g] = x.r[g]
    BY <1>1, <1>3, <1>5, <1>7, WrittenIs
  <1>9. QED
    BY <1>5, <1>7, <1>8 DEF d

\* the instructions of the program, register by register
LEMMA Joins ==
  ASSUME NEW w \in Width, NEW x \in Machine(w), NEW g \in Register, NEW h \in Register,
         NEW op \in {"and", "or", "xor"}, NEW y \in After(I(op, g, h), x, w)
  PROVE  /\ y \in Machine(w) /\ y.f.a = x.f.a
         /\ \A k \in Register \ {g} : y.r[k] = x.r[k]
         /\ \A j \in Positions(w.bits) :
              Bit(y.r[g], j) = Joined(op, Bit(x.r[g], j), Bit(x.r[h], j))
  <1> DEFINE i == I(op, g, h)
  <1>1. i.op = op /\ i.d = g /\ i.s = h
    BY DEF I
  <1> HIDE DEF i
  <1>2. y \in After(i, x, w)
    BY DEF i
  <1>3. QED
    BY <1>1, <1>2, AfterLogic

(* Two words with the same bits, and exchanged bits.                        *)
LEMMA SameWord ==
  ASSUME NEW w \in Width, NEW x \in Operand(w), NEW y \in Operand(w),
         \A i \in Positions(w.bits) : Bit(x, i) = Bit(y, i)
  PROVE  x = y
  <1>1. x \in Nat /\ y \in Nat /\ x < 2^w.bits /\ y < 2^w.bits /\ w.bits \in 1..16
    BY WidthIs, ModulusIs DEF Operand, Modulus
  <1>2. \A i \in 0..w.bits - 1 : Bit(x, i) = Bit(y, i)
    BY DEF Positions
  <1>3. QED
    BY <1>1, <1>2, BitsEqual

LEMMA WordBit ==
  ASSUME NEW w \in Width, NEW v \in Operand(w), NEW i \in Positions(w.bits)
  PROVE  Bit(v, i) \in {0, 1}
  <1>1. v \in Nat
    BY ModulusIs DEF Operand
  <1>2. i \in 0..31
    BY WidthIs DEF Positions
  <1>3. QED
    BY <1>1, <1>2, BitIs

LEMMA MergeAtEnd == Position /\ Followed => MergesBits
  <1> SUFFICES ASSUME Position, Followed, Ended(Merge)
               PROVE  /\ \A i \in 0..prog.w.bits - 1 :
                           Bit(m.r.A, i) = IF Bit(start.r.B, i) = 1
                                           THEN Bit(start.r.A, i) ELSE Bit(start.r.D, i)
                      /\ m.r.B = start.r.C /\ m.r.C = Modulus(prog.w) - 1 - start.r.B
                      /\ ~m.f.c /\ ~m.f.o /\ m.f.z = (m.r.A = 0) /\ m.f.a = start.f.a
    BY DEF MergesBits
  <1> DEFINE w == prog.w
             x0 == start
  <1>1. /\ Len(Merge) = 8
        /\ Merge[1] = I("xor", "B", "C") /\ Merge[2] = I("xor", "C", "B")
        /\ Merge[3] = I("xor", "B", "C") /\ Merge[4] = I("and", "A", "C")
        /\ Merge[5] = N("not", "C", 0) /\ Merge[6] = I("and", "D", "C")
        /\ Merge[7] = I("or", "A", "D") /\ Merge[8] = I("test", "A", "A")
    BY DEF Merge
  <1>2. /\ w \in Width /\ start \in Machine(w)
        /\ \E x1 \in After(Merge[1], start, w) : \E x2 \in After(Merge[2], x1, w) :
           \E x3 \in After(Merge[3], x2, w) : \E x4 \in After(Merge[4], x3, w) :
           \E x5 \in After(Merge[5], x4, w) : \E x6 \in After(Merge[6], x5, w) :
           \E x7 \in After(Merge[7], x6, w) : m \in After(Merge[8], x7, w)
    BY <1>1, EightSteps, Zenon
  <1> HIDE DEF w, x0
  <1>3. PICK x1 \in After(I("xor", "B", "C"), start, w) :
        \E x2 \in After(I("xor", "C", "B"), x1, w) :
        \E x3 \in After(I("xor", "B", "C"), x2, w) : \E x4 \in After(I("and", "A", "C"), x3, w) :
        \E x5 \in After(N("not", "C", 0), x4, w) : \E x6 \in After(I("and", "D", "C"), x5, w) :
        \E x7 \in After(I("or", "A", "D"), x6, w) : m \in After(I("test", "A", "A"), x7, w)
    BY <1>1, <1>2, Zenon
  <1>4. PICK x2 \in After(I("xor", "C", "B"), x1, w) :
        \E x3 \in After(I("xor", "B", "C"), x2, w) : \E x4 \in After(I("and", "A", "C"), x3, w) :
        \E x5 \in After(N("not", "C", 0), x4, w) : \E x6 \in After(I("and", "D", "C"), x5, w) :
        \E x7 \in After(I("or", "A", "D"), x6, w) : m \in After(I("test", "A", "A"), x7, w)
    BY <1>3, Zenon
  <1>5. PICK x3 \in After(I("xor", "B", "C"), x2, w) :
        \E x4 \in After(I("and", "A", "C"), x3, w) :
        \E x5 \in After(N("not", "C", 0), x4, w) : \E x6 \in After(I("and", "D", "C"), x5, w) :
        \E x7 \in After(I("or", "A", "D"), x6, w) : m \in After(I("test", "A", "A"), x7, w)
    BY <1>4, Zenon
  <1>6. PICK x4 \in After(I("and", "A", "C"), x3, w) :
        \E x5 \in After(N("not", "C", 0), x4, w) : \E x6 \in After(I("and", "D", "C"), x5, w) :
        \E x7 \in After(I("or", "A", "D"), x6, w) : m \in After(I("test", "A", "A"), x7, w)
    BY <1>5, Zenon
  <1>7. PICK x5 \in After(N("not", "C", 0), x4, w) : \E x6 \in After(I("and", "D", "C"), x5, w) :
        \E x7 \in After(I("or", "A", "D"), x6, w) : m \in After(I("test", "A", "A"), x7, w)
    BY <1>6, Zenon
  <1>8. PICK x6 \in After(I("and", "D", "C"), x5, w) :
        \E x7 \in After(I("or", "A", "D"), x6, w) : m \in After(I("test", "A", "A"), x7, w)
    BY <1>7, Zenon
  <1>9. PICK x7 \in After(I("or", "A", "D"), x6, w) : m \in After(I("test", "A", "A"), x7, w)
    BY <1>8, Zenon
  <1>10. /\ x1 \in Machine(w) /\ x1.f.a = start.f.a
         /\ x1.r.A = start.r.A /\ x1.r.C = start.r.C /\ x1.r.D = start.r.D
         /\ \A j \in Positions(w.bits) :
              Bit(x1.r.B, j) = (Bit(start.r.B, j) + Bit(start.r.C, j)) % 2
    <2>1. "B" \in Register /\ "C" \in Register /\ "xor" \in {"and", "or", "xor"}
      BY DEF Register
    <2>2. /\ x1 \in Machine(w) /\ x1.f.a = start.f.a
          /\ \A k \in Register \ {"B"} : x1.r[k] = start.r[k]
          /\ \A j \in Positions(w.bits) :
               Bit(x1.r["B"], j) = Joined("xor", Bit(start.r["B"], j), Bit(start.r["C"], j))
      BY <1>2, <1>3, <2>1, Joins
    <2>3. QED
      BY <2>2 DEF Register, Joined
  <1>11. /\ x2 \in Machine(w) /\ x2.f.a = x1.f.a
         /\ x2.r.A = x1.r.A /\ x2.r.B = x1.r.B /\ x2.r.D = x1.r.D
         /\ \A j \in Positions(w.bits) :
              Bit(x2.r.C, j) = (Bit(x1.r.C, j) + Bit(x1.r.B, j)) % 2
    <2>1. "C" \in Register /\ "B" \in Register /\ "xor" \in {"and", "or", "xor"}
      BY DEF Register
    <2>2. /\ x2 \in Machine(w) /\ x2.f.a = x1.f.a
          /\ \A k \in Register \ {"C"} : x2.r[k] = x1.r[k]
          /\ \A j \in Positions(w.bits) :
               Bit(x2.r["C"], j) = Joined("xor", Bit(x1.r["C"], j), Bit(x1.r["B"], j))
      BY <1>2, <1>4, <1>10, <2>1, Joins
    <2>3. QED
      BY <2>2 DEF Register, Joined
  <1>12. /\ x3 \in Machine(w) /\ x3.f.a = x2.f.a
         /\ x3.r.A = x2.r.A /\ x3.r.C = x2.r.C /\ x3.r.D = x2.r.D
         /\ \A j \in Positions(w.bits) :
              Bit(x3.r.B, j) = (Bit(x2.r.B, j) + Bit(x2.r.C, j)) % 2
    <2>1. "B" \in Register /\ "C" \in Register /\ "xor" \in {"and", "or", "xor"}
      BY DEF Register
    <2>2. /\ x3 \in Machine(w) /\ x3.f.a = x2.f.a
          /\ \A k \in Register \ {"B"} : x3.r[k] = x2.r[k]
          /\ \A j \in Positions(w.bits) :
               Bit(x3.r["B"], j) = Joined("xor", Bit(x2.r["B"], j), Bit(x2.r["C"], j))
      BY <1>2, <1>5, <1>11, <2>1, Joins
    <2>3. QED
      BY <2>2 DEF Register, Joined
  <1>13. /\ x4 \in Machine(w) /\ x4.f.a = x3.f.a
         /\ x4.r.B = x3.r.B /\ x4.r.C = x3.r.C /\ x4.r.D = x3.r.D
         /\ \A j \in Positions(w.bits) : Bit(x4.r.A, j) = Bit(x3.r.A, j) * Bit(x3.r.C, j)
    <2>1. "A" \in Register /\ "C" \in Register /\ "and" \in {"and", "or", "xor"}
      BY DEF Register
    <2>2. /\ x4 \in Machine(w) /\ x4.f.a = x3.f.a
          /\ \A k \in Register \ {"A"} : x4.r[k] = x3.r[k]
          /\ \A j \in Positions(w.bits) :
               Bit(x4.r["A"], j) = Joined("and", Bit(x3.r["A"], j), Bit(x3.r["C"], j))
      BY <1>2, <1>6, <1>12, <2>1, Joins
    <2>3. QED
      BY <2>2 DEF Register, Joined
  <1>14. /\ x5 \in Machine(w) /\ x5.f = x4.f
         /\ x5.r.A = x4.r.A /\ x5.r.B = x4.r.B /\ x5.r.D = x4.r.D
         /\ x5.r.C = Modulus(w) - 1 - x4.r.C
    <2>1. N("not", "C", 0).op = "not" /\ N("not", "C", 0).d = "C" /\ "C" \in Register
      BY DEF N, Register
    <2>2. /\ x5 \in Machine(w) /\ x5.f = x4.f
          /\ \A g \in Register \ {"C"} : x5.r[g] = x4.r[g]
          /\ x5.r["C"] = Modulus(w) - 1 - x4.r["C"]
      BY <1>2, <1>7, <1>13, <2>1, AfterNot
    <2>3. QED
      BY <2>2 DEF Register
  <1>15. /\ x6 \in Machine(w) /\ x6.f.a = x5.f.a
         /\ x6.r.A = x5.r.A /\ x6.r.B = x5.r.B /\ x6.r.C = x5.r.C
         /\ \A j \in Positions(w.bits) : Bit(x6.r.D, j) = Bit(x5.r.D, j) * Bit(x5.r.C, j)
    <2>1. "D" \in Register /\ "C" \in Register /\ "and" \in {"and", "or", "xor"}
      BY DEF Register
    <2>2. /\ x6 \in Machine(w) /\ x6.f.a = x5.f.a
          /\ \A k \in Register \ {"D"} : x6.r[k] = x5.r[k]
          /\ \A j \in Positions(w.bits) :
               Bit(x6.r["D"], j) = Joined("and", Bit(x5.r["D"], j), Bit(x5.r["C"], j))
      <3>1. x5 \in Machine(w) /\ w \in Width
        BY <1>2, <1>14
      <3>2. x6 \in After(I("and", "D", "C"), x5, w)
        OBVIOUS
      <3>3. QED
        BY <2>1, <3>1, <3>2, Joins
    <2>3. QED
      BY <2>2 DEF Register, Joined
  <1>16. /\ x7 \in Machine(w) /\ x7.f.a = x6.f.a
         /\ x7.r.B = x6.r.B /\ x7.r.C = x6.r.C /\ x7.r.D = x6.r.D
         /\ \A j \in Positions(w.bits) :
              Bit(x7.r.A, j) = Bit(x6.r.A, j) + Bit(x6.r.D, j) - Bit(x6.r.A, j) * Bit(x6.r.D, j)
    <2>1. "A" \in Register /\ "D" \in Register /\ "or" \in {"and", "or", "xor"}
      BY DEF Register
    <2>2. /\ x7 \in Machine(w) /\ x7.f.a = x6.f.a
          /\ \A k \in Register \ {"A"} : x7.r[k] = x6.r[k]
          /\ \A j \in Positions(w.bits) :
               Bit(x7.r["A"], j) = Joined("or", Bit(x6.r["A"], j), Bit(x6.r["D"], j))
      BY <1>2, <1>9, <1>15, <2>1, Joins
    <2>3. QED
      BY <2>2 DEF Register, Joined
  <1>17. /\ m.r.A = x7.r.A /\ m.r.B = x7.r.B /\ m.r.C = x7.r.C
         /\ ~m.f.c /\ ~m.f.o /\ m.f.z = (x7.r.A = 0) /\ m.f.a = x7.f.a
    <2>1. LET i == I("test", "A", "A")
          IN  i.op = "test" /\ i.d = "A" /\ i.s = "A" /\ "A" \in Register
      BY DEF I, Register
    <2>2. /\ \A g \in Register : m.r[g] = x7.r[g]
          /\ ~m.f.c /\ ~m.f.o /\ m.f.z = (x7.r["A"] = 0) /\ m.f.a = x7.f.a
      BY <1>2, <1>9, <1>16, <2>1, AfterTest
    <2>3. QED
      BY <2>2 DEF Register
  <1> DEFINE a == start.r.A
             b == start.r.B
             c == start.r.C
             d == start.r.D
  <1>18. a \in Operand(w) /\ b \in Operand(w) /\ c \in Operand(w) /\ d \in Operand(w)
    BY <1>2, MachineIs
  <1>19. x2.r.C = b
    <2>1. ASSUME NEW j \in Positions(w.bits) PROVE Bit(x2.r.C, j) = Bit(b, j)
      <3> DEFINE p == Bit(b, j)
                 q == Bit(c, j)
                 u == Bit(x1.r.B, j)
      <3>1. p \in {0, 1} /\ q \in {0, 1}
        BY <1>2, <1>18, WordBit
      <3>2. u = (p + q) % 2 /\ Bit(x2.r.C, j) = (q + u) % 2
        BY <1>10, <1>11
      <3> HIDE DEF p, q, u
      <3>3. (q + u) % 2 = p
        BY <3>1, <3>2
      <3>4. QED
        BY <3>2, <3>3 DEF p
    <2>2. x2.r.C \in Operand(w)
      BY <1>2, <1>11, MachineIs
    <2> HIDE DEF b
    <2>3. QED
      BY <1>2, <1>18, <2>1, <2>2, SameWord
  <1>20. x3.r.B = c
    <2>1. ASSUME NEW j \in Positions(w.bits) PROVE Bit(x3.r.B, j) = Bit(c, j)
      <3> DEFINE p == Bit(b, j)
                 q == Bit(c, j)
                 u == Bit(x1.r.B, j)
      <3>1. p \in {0, 1} /\ q \in {0, 1}
        BY <1>2, <1>18, WordBit
      <3>2. u = (p + q) % 2 /\ Bit(x3.r.B, j) = (u + p) % 2
        BY <1>10, <1>11, <1>12, <1>19
      <3> HIDE DEF p, q, u
      <3>3. (u + p) % 2 = q
        BY <3>1, <3>2
      <3>4. QED
        BY <3>2, <3>3 DEF q
    <2>2. x3.r.B \in Operand(w)
      BY <1>2, <1>12, MachineIs
    <2> HIDE DEF c
    <2>3. QED
      BY <1>2, <1>18, <2>1, <2>2, SameWord
  <1>21. ASSUME NEW j \in Positions(w.bits)
         PROVE  Bit(m.r.A, j) = IF Bit(b, j) = 1 THEN Bit(a, j) ELSE Bit(d, j)
    <2> DEFINE p == Bit(b, j)
               q == Bit(a, j)
               u == Bit(d, j)
               n == Modulus(w) - 1 - b
    <2>1. p \in {0, 1} /\ q \in {0, 1} /\ u \in {0, 1}
      BY <1>2, <1>18, WordBit
    <2>2. Bit(n, j) = 1 - p
      <3> HIDE DEF b
      <3>1. QED
        BY <1>2, <1>18, NotIs
    <2>3. x5.r.C = n /\ x3.r.A = a /\ x3.r.C = b /\ x5.r.D = d
      BY <1>10, <1>11, <1>12, <1>13, <1>14, <1>19
    <2> HIDE DEF a, b, d, n
    <2>4. Bit(x6.r.A, j) = q * p
      BY <1>13, <1>14, <1>15, <2>3
    <2>5. Bit(x6.r.D, j) = u * (1 - p)
      BY <1>15, <2>2, <2>3
    <2>6. Bit(m.r.A, j) = q * p + u * (1 - p) - (q * p) * (u * (1 - p))
      BY <1>16, <1>17, <2>4, <2>5
    <2> HIDE DEF p, q, u
    <2>7. Bit(m.r.A, j) = IF p = 1 THEN q ELSE u
      BY <2>1, <2>6
    <2>8. QED
      BY <2>7 DEF p, q, u
  <1>22. m.r.B = c /\ m.r.C = Modulus(w) - 1 - b
    BY <1>12, <1>13, <1>14, <1>15, <1>16, <1>17, <1>19, <1>20
  <1>23. m.f.z = (m.r.A = 0) /\ m.f.a = start.f.a
    BY <1>10, <1>11, <1>12, <1>13, <1>14, <1>15, <1>16, <1>17
  <1>24. QED
    BY <1>17, <1>21, <1>22, <1>23 DEF Positions, w

(* The bits merged are those chosen (MergesBits), and those exchanged are  *)
(* not lost (logic.h), for every operand.                                  *)
THEOREM BitsMerged == Spec => []MergesBits
  <1>1. Init => Position /\ Followed
    BY FollowedInit
  <1>2. Position /\ Followed /\ [Next]_vars => Position' /\ Followed'
    BY FollowedStep
  <1>3. Position /\ Followed => MergesBits
    BY MergeAtEnd
  <1>4. QED
    BY <1>1, <1>2, <1>3, PTL DEF Spec

=============================================================================
