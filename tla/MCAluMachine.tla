---------------------------- MODULE MCAluMachine ----------------------------
(* The programs and their inputs. A scaled byte has 4 bits and a scaled word *)
(* 8, so that every operand can be tried; digits need bytes of 8 bits.       *)
EXTENDS AluMachine

P(w, codes) == {[w |-> w, code |-> c] : c \in codes}
Times(n, i) == [k \in 1..n |-> i]

Sums == P(Small, {WideAdd, WideSub, WideNeg, Merge})
Compares == P(Small, {<<I("cmp", "A", "B")>>})
              \cup P(Wide, {<<I("cmp", "A", "B")>>, <<N("cmp", "A", 5)>>,
                           <<N("cmp", "A", 13)>>})
Undone == {MulDiv, ImulIdiv}
Divisions == {<<I("div", "A", "B")>>, <<I("idiv", "A", "B")>>}
OneByOne == {Times(15, N(op, "A", 1)) : op \in Shifts}
Pairs == {DoubleWords, HalfWords, SignedHalf}
Turned == {RotateBack(n) : n \in 0..20} \cup {CarryBack(n) : n \in 0..20}
Decimals == {DecimalAdd, DecimalSub}
Digits == {<<I("add", "A", "B"), N("aaa", "A", 0)>>,
           <<I("sub", "A", "B"), N("aas", "A", 0)>>,
           <<I("mul", "A", "B"), N("aam", "A", 10)>>,
           <<N("aad", "A", 10), I("div", "A", "B")>>}

MCPrograms ==
    UNION {Sums, Compares, P(Small, Undone \cup Divisions),
           P(Wide, Undone \cup Divisions),
           P(Small, OneByOne \cup Pairs \cup Turned), P(Byte, Decimals \cup Digits)}

Inputs(A, B, C, D, S, CF, AF) ==
    { [r |-> [A |-> a, B |-> b, C |-> c, D |-> d, S |-> s],
       f |-> [f \in Flag |-> IF f \in {"c", "o"} THEN cf ELSE f = "a" /\ af],
       out |-> "ok"] : a \in A, b \in B, c \in C, d \in D, s \in S,
                       cf \in CF, af \in AF }

Sample == {0, 1, 2, 7, 8, 15, 16, 17, 100, 127, 128, 129, 240, 254, 255}

MCInput(p) ==
    CASE p.code \in {WideAdd, WideSub} ->
           Inputs(0..15, 0..15, {0, 1, 7, 8, 15}, {0, 6, 7, 8, 15}, {0, 15},
                  {FALSE}, {FALSE})
      [] p.code \in {WideNeg} \cup Pairs ->
           Inputs(0..15, {0}, {0}, 0..15, {0}, BOOLEAN, {FALSE})
      [] p.code[1].op = "cmp" ->
           Inputs(0..Modulus(p.w) - 1,
                  IF p.code[1].s = None THEN {0} ELSE 0..Modulus(p.w) - 1,
                  {0}, {0}, {0}, {FALSE}, {FALSE})
      [] p.code \in Undone ->
           Inputs(0..Modulus(p.w) - 1, IF p.w = Small THEN 0..15 ELSE Sample,
                  {0}, {3}, {0}, {FALSE}, {FALSE})
      [] p.code \in Divisions ->
           LET v == IF p.w = Small THEN 0..15 ELSE Sample
           IN  Inputs(v, v, {0}, v, {0}, {FALSE}, {FALSE})
      [] p.code \in OneByOne \cup Turned ->
           Inputs(0..15, {0}, {0}, {0}, {0}, BOOLEAN, {FALSE})
      [] p.code = Merge ->
           Inputs(0..15, 0..15, {9}, 0..15, {0}, {TRUE}, {TRUE})
      [] p.code \in Decimals ->
           Inputs(PackedByte, PackedByte, {9, 80}, {0, 153}, {0}, {FALSE}, {FALSE})
      [] p.code \in Digits ->
           Inputs(0..9, 0..9, {0}, 0..9, {0}, {FALSE}, {FALSE})
=============================================================================
