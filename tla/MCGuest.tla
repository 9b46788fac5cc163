------------------------------ MODULE MCGuest -------------------------------
(* The programs and the machines they start from.                           *)
EXTENDS Guest, TLC

Code == 16384      \* CS at the start: programs are assembled at 4000:0000

Words(v) == <<Wrap16(v) % 256, Wrap16(v) \div 256>>

Clear == [x \in DOMAIN FlagBit |-> FALSE]
SetF(S) == [x \in DOMAIN FlagBit |-> x \in S]

\* bytes at an address
At(a, bytes) == [x \in a..a + Len(bytes) - 1 |-> bytes[x - a + 1]]

Machine(reg, sreg, mem, f) ==
  [reg |-> reg, sreg |-> sreg, ip |-> 0, f |-> f, mem |-> mem, io |-> [p \in {67} |-> 54],
   pit_lobyte_pending |-> 0, seg_override_en |-> 0, seg_override |-> ES,
   rep_override_en |-> 0, rep_mode |-> "repnz", stop |-> "no"]

Regs(ax, cx, dx, bx, sp, bp, si, di) ==
  [r \in 0..7 |-> CASE r = AX -> ax [] r = CX -> cx [] r = DX -> dx [] r = BX -> bx
                    [] r = SP -> sp [] r = BP -> bp [] r = SI -> si [] r = DI -> di]
Segs(es, ss, ds) ==
  [r \in 0..3 |-> CASE r = ES -> es [] r = CS -> Code [] r = SS -> ss [] r = DS -> ds]

Loaded(p) == At(16 * Code, p.code)

-----------------------------------------------------------------------------
(* every opcode, with every operand where it has one *)
One(op, arg) == [name |-> "one", max |-> 1, code |-> <<op, arg, 2, 0, 3, 0>>]

Ones ==
  {One(op, arg) : op \in Encoded \cap HasModrm, arg \in {a \in 0..255 : a % 8 \in {0, 3, 6}}}
    \cup {One(op, arg) : op \in Encoded \ HasModrm, arg \in {0, 1, 2, 5, 33, 127, 128, 255}}

Prefixed(n, mode) == [n EXCEPT !.seg_override_en = 2, !.rep_override_en = 2, !.rep_mode = mode]

OneInput(p) ==
  LET Alone(cx, f) == Machine(Regs(3, cx, 0, 4, 512, 5, 6, 7), Segs(256, 512, 768), Loaded(p), f)
  IN  {Alone(cx, f) : cx \in {0, 1}, f \in {Clear, SetF({"c", "z", "s", "o", "p"})}}
        \cup {Prefixed(Alone(1, SetF({"i", "t"})), mode) : mode \in {"repz", "repnz"}}

-----------------------------------------------------------------------------
(* LEA CX, operand; a store of DX or DL to the same operand after prefixes *)
PrefixByte == <<\h26, \h2E, \h36, \h3E>>
DispBytes(mod, rm, disp) ==
  CASE mod = 1 -> <<disp % 256>>
    [] mod = 2 \/ (mod = 0 /\ rm = 6) -> Words(disp)
    [] OTHER -> <<>>

Operand(mod, rm, disp, segs, word) ==
  LET ModRm(reg) == <<64 * mod + 8 * reg + rm>> \o DispBytes(mod, rm, disp)
  IN  [name |-> "operand", max |-> 5, mod |-> mod, rm |-> rm, disp |-> disp, segs |-> segs,
       word |-> word,
       code |-> <<\h8D>> \o ModRm(CX)
                  \o [k \in 1..Len(segs) |-> PrefixByte[segs[k] + 1]]
                  \o <<IF word THEN \h89 ELSE \h88>> \o ModRm(DX) \o <<\hF4>>]

Operands ==
  LET segs == {<<>>, <<DS, ES>>} \cup {<<s>> : s \in 0..3}
  IN  {Operand(0, rm, 0, g, w) : rm \in (0..7) \ {6}, g \in segs, w \in BOOLEAN}
        \cup {Operand(0, 6, disp, g, w) : disp \in {800, 65000}, g \in segs, w \in BOOLEAN}
        \cup {Operand(1, rm, disp, g, w) :
                rm \in 0..7, disp \in {-128, -1, 127}, g \in segs, w \in BOOLEAN}
        \cup {Operand(2, rm, disp, g, w) :
                rm \in 0..7, disp \in {200, 40000}, g \in segs, w \in BOOLEAN}

OperandInput(p) ==
  {Machine(Regs(1, 2, 4660, bx, 100, bp, 61731, 300), Segs(4096, 8192, 12288), Loaded(p), Clear) :
     bx \in {4096, 65535}, bp \in {8192, 40000}}

-----------------------------------------------------------------------------
(* A call of A at 20 and, from there, of B at 40, each of a kind. The targets
   are also in SI and DI, in two far pointers in DS and in vectors 33 and 34. *)
CallKinds == {"near", "reg", "mem", "far", "int", "args", "far args"}
Takes == {"args", "far args"}

CallBytes(kind, pos, target, level) ==
  LET cell == Words(16 * level)
  IN  CASE kind = "near"     -> <<\hE8>> \o Words(target - pos - 3)
        [] kind = "reg"      -> <<\hFF, \hD5 + level>>
        [] kind = "mem"      -> <<\hFF, \h16>> \o cell
        [] kind = "far"      -> <<\hFF, \h1E>> \o cell
        [] kind = "int"      -> <<\hCD, 32 + level>>
        [] kind = "args"     -> <<\h50, \hE8>> \o Words(target - pos - 4)
        [] kind = "far args" -> <<\h50, \hFF, \h1E>> \o cell

RetBytes(kind) ==
  CASE kind = "far" -> <<\hCB>> [] kind = "int" -> <<\hCF>>
    [] kind = "args" -> <<\hC2, 2, 0>> [] kind = "far args" -> <<\hCA, 2, 0>>
    [] OTHER -> <<\hC3>>

\* PUSH BP, MOV BP,SP, MOV DX,[BP+4 or 6]
Enter(kind) == CASE kind = "args"     -> <<\h55, \h89, \hE5, \h8B, \h56, 4>>
                 [] kind = "far args" -> <<\h55, \h89, \hE5, \h8B, \h56, 6>>
                 [] OTHER             -> <<>>
Leave(kind) == IF kind \in Takes THEN <<\h5D>> ELSE <<>>

CallTree(outer, inner) ==
  LET main == CallBytes(outer, 0, 32, 1) \o <<\hF4>>
      head == Enter(outer) \o <<\h53, \hBB, \h55, \h55>>       \* PUSH BX, MOV BX,5555
      a == head \o CallBytes(inner, 32 + Len(head), 64, 2) \o <<\h5B>> \o Leave(outer)
             \o RetBytes(outer)
      b == Enter(inner) \o <<\h41, \hF9, \hFB, \hFD>>          \* INC CX, STC, STI, STD
             \o Leave(inner) \o RetBytes(inner)
      pad(code, n) == code \o [k \in 1..n - Len(code) |-> \hF4]
  IN  [name |-> "calls", max |-> 40, back |-> Len(main),
       takes |-> {outer, inner} \cap Takes # {}, interrupts |-> "int" \in {outer, inner},
       code |-> pad(main, 32) \o pad(a, 32) \o b]

Calls == {CallTree(outer, inner) : outer, inner \in CallKinds}

CallInput(p) ==
  LET pointer(t) == Words(t) \o Words(Code)
      mem == Loaded(p) @@ At(32768 + 16, pointer(32)) @@ At(32768 + 32, pointer(64))
               @@ At(132, pointer(32) \o pointer(64))
  IN  {Machine(Regs(4660, 7, 8, 9, sp, 11, 32, 64), Segs(256, 8192, 2048),
               mem @@ At(131072 + sp, <<7, 7, 7, 7>>), f) :
         sp \in {256, 4, 1}, f \in {Clear, SetF({"i", "t", "z", "a"}), SetF(DOMAIN FlagBit)}}

-----------------------------------------------------------------------------
(* Blocks: REP MOVS and STOS with their prefixes in either order, and a loop *)
Block(op, size, from, code) ==
  {[name |-> "move", max |-> 20, op |-> op, size |-> size, from |-> from, n |-> n,
    code |-> code \o <<\hF4>>] : n \in (IF op = "map" THEN 1..3 ELSE 0..3)}

Blocks ==
  UNION {Block("stos", size, DS, <<\hF3, \hA9 + size>>) : size \in 1..2}
    \cup UNION {Block("movs", size, DS, <<\hF3, \hA3 + size>>) : size \in 1..2}
    \cup UNION {Block("movs", size, from, <<\hF3, PrefixByte[from + 1], \hA3 + size>>) :
                  size \in 1..2, from \in {ES, SS}}
    \cup UNION {Block("movs", size, from, <<PrefixByte[from + 1], \hF3, \hA3 + size>>) :
                  size \in 1..2, from \in {ES, SS}}
    \cup UNION {Block("map", 1, from, <<PrefixByte[from + 1], \hAC, \hFE, \hC0, \hAA, \hE2, \hF9>>) :
                  from \in {ES, DS}}

\* where a copy onto itself is right: downwards going up, upwards going down
Shifts0(f) == IF f.d THEN 0..3 ELSE -3..0

BlockInput(p) ==
  LET area(seg) == At(16 * seg + 80, [k \in 1..40 |-> (k * 5 + seg) % 256])
      mem == Loaded(p) @@ area(4096) @@ area(4197) @@ area(4298)
  IN  UNION {{Machine(Regs(513, p.n, 3, 4, 5, 6, 100, 100 + shift), Segs(4096, 4298, 4197), mem, f) :
                shift \in Shifts0(f)} : f \in {Clear, SetF({"d", "z"})}}

\* a block written to the disk, and read back elsewhere
DiskTrip == [name |-> "disk", max |-> 5, back |-> 200,
             code |-> <<\h0F, 3, \hBB, 200, 0, \h0F, 2, \hF4>>]

DiskInput(p) ==
  {Machine(Regs(n, 1, drive, 100, 5, sector, 7, 8), Segs(4096, 4298, 4197),
           Loaded(p) @@ At(65536 + 100, <<11, 12, 13, 14>>), Clear) :
     n \in {1, 3}, drive \in {0, 1}, sector \in {2, 3}}

-----------------------------------------------------------------------------
(* Searches *)
Item0(v, size) == IF size = 2 THEN Word(v, 3 - v) ELSE v
Scan(op, size, while, items, against, code) ==
  [name |-> "scan", max |-> 30, op |-> op, size |-> size, while |-> while, n |-> Len(items),
   items |-> items, against |-> [k \in DOMAIN against |-> Item0(against[k], size)], code |-> code]

Lists == UNION {[1..n -> 1..2] : n \in 0..4}
Ones0(s) == [k \in DOMAIN s |-> 1]

Scans ==
  {Scan("scas", size, while, s, Ones0(s),
        <<IF while THEN \hF3 ELSE \hF2, \hAD + size, \hF4>>) :
     size \in 1..2, while \in BOOLEAN, s \in Lists}
    \cup {Scan("cmps", size, while, [k \in 1..4 |-> 1 + ((k \div 2) % 2)], t,
               <<IF while THEN \hF3 ELSE \hF2, \hA5 + size, \hF4>>) :
            size \in 1..2, while \in BOOLEAN, t \in [1..4 -> 1..2]}
    \cup {Scan("loop", 1, while, s, Ones0(s),      \* JCXZ, LEA SI,[SI+1], CMP [SI-1],AL, LOOPcc
               <<\hE3, 8, \h8D, \h74, 1, \h38, \h44, \hFF, IF while THEN \hE1 ELSE \hE0, \hF8, \hF4>>) :
            while \in BOOLEAN, s \in Lists}

ScanInput(p) ==
  LET Place(seg, s, down) ==
        [a \in {16 * seg + 100 + k : k \in -10..10} |->
           LET off == a - 16 * seg - 100
               k == IF down THEN (0 - (off - (off % p.size))) \div p.size ELSE off \div p.size
           IN  IF k \in 0..Len(s) - 1
                 THEN IF off % p.size = 0 THEN Item0(s[k + 1], p.size) % 256
                                          ELSE Item0(s[k + 1], p.size) \div 256
                 ELSE 0]
      raw == [k \in DOMAIN p.against |-> p.against[k] % 256]
      other == IF p.op = "loop" THEN p.items ELSE raw
  IN  {Machine(Regs(Item0(1, p.size), p.n, 3, 4, 5, 6, 100, 100), Segs(4096, 4298, 4197),
               Loaded(p) @@ Place(4096, IF p.op = "loop" THEN <<>> ELSE p.items, f.d)
                         @@ Place(4197, other, f.d), f) :
         f \in {Clear, SetF({"z", "c"})} \cup (IF p.op = "loop" THEN {} ELSE {SetF({"d"})})}

-----------------------------------------------------------------------------
FarCall == [name |-> "call far", max |-> 1, code |-> <<\h9A, 0, 3, 0, 32>>]

MCPrograms == Ones \cup Operands \cup Calls \cup Blocks \cup {DiskTrip} \cup Scans
FarCallPrograms == {FarCall} \cup Calls

MCInput(p) ==
  CASE p.name \in {"one", "call far"} -> OneInput(p)
    [] p.name = "operand" -> OperandInput(p)
    [] p.name = "calls" -> CallInput(p)
    [] p.name = "move" -> BlockInput(p)
    [] p.name = "disk" -> DiskInput(p)
    [] p.name = "scan" -> ScanInput(p)

MCDisks == [drive \in {0} |-> [o \in 1022..1030 |-> o % 256]]
MCTime == [s |-> 1, min |-> 2, h |-> 3, ms |-> 456]
=============================================================================
