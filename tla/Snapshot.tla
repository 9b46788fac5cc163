------------------------------ MODULE Snapshot ------------------------------
(* Saving a machine to a file and starting from it: snapshot.c, and the two  *)
(* functions of main.c around it. A buffer is a sequence of bytes, and a     *)
(* byte names what was written there, so that a byte read back as part of    *)
(* something else is recognised. The process may die, and a file may be cut  *)
(* short or lose a byte, at any point.                                       *)
EXTENDS Integers, Sequences

CONSTANTS
    MemSize,     \* EMU86_MEM_SIZE
    IoPorts,     \* EMU86_IO_PORTS
    Writes,      \* the sets of groups a step of the guest may write
    WrongSize,   \* what a damaged size may be read as
    MaxSteps     \* bound on the steps of the guest, in all sessions together

\* one wrong byte in it leaves the size, and the sum taken of it, below 2^32
ASSUME SizesAssumption ==
    /\ MemSize \in Nat \ {0} /\ IoPorts \in Nat \ {0}
    /\ WrongSize \subseteq Nat

VARIABLES
    pc,       \* where the process is
    st,       \* Emu86State: for each group of fields, the step that wrote it
    tables,   \* the step that wrote the memory the decode tables come from
    steps,    \* steps the guest has made
    file,     \* the snapshot file, NoFile when there is none
    rc,       \* what emu86_snapshot_restore returned
    image,    \* history: the state last saved
    damage    \* history: "none", "cut", or the part in which a byte was lost

vars == <<pc, st, tables, steps, file, rc, image, damage>>

-----------------------------------------------------------------------------
(* The format: the order of the writes in emu86_snapshot_save, that of the   *)
(* reads in emu86_snapshot_restore, and data_size, which adds up the sizes   *)
(* on its own.                                                               *)

WriteOrder == <<
    <<"magic", 4>>, <<"version", 4>>, <<"size", 4>>,
    <<"cpu", 28>>, <<"control", 4>>, <<"prefix", 4>>, <<"mem", MemSize>>,
    <<"io", IoPorts>>, <<"disk", 36>>, <<"pit", 16>>, <<"keyboard", 18>>,
    <<"video", 5>>, <<"audio", 3>>, <<"graphics", 4>>, <<"timing", 9>> >>

ReadOrder == <<
    <<"magic", 4>>, <<"version", 4>>, <<"size", 4>>,
    <<"cpu", 28>>, <<"control", 4>>, <<"prefix", 4>>, <<"mem", MemSize>>,
    <<"io", IoPorts>>, <<"disk", 36>>, <<"pit", 16>>, <<"keyboard", 18>>,
    <<"video", 5>>, <<"audio", 3>>, <<"graphics", 4>>, <<"timing", 9>> >>

DataSize == (8 * 2 + 4 * 2 + 2 + 2) + 4 + 4 + MemSize + IoPorts
                + 3 * 12 + 3 * 5 + 1 + (16 + 2) + (1 + 2 + 2) + (1 + 2)
                + (2 + 2) + (8 + 1)

HeaderSize == 12
CrcSize == 4

Header == {"magic", "version", "size"}
Group == {WriteOrder[i][1] : i \in DOMAIN WriteOrder} \ Header
Fresh == [g \in Group |-> 0]

\* the n bytes of the field or group g with value v
Bytes(g, n, v) == [k \in 1..n |-> <<g, k, v>>]
\* what such bytes are read as; -1 when they are not all of one value of g
Value(g, bytes) ==
    IF bytes = Bytes(g, Len(bytes), bytes[1][3]) THEN bytes[1][3] ELSE -1

\* a checksum that tells any two buffers apart
Crc(s) == Bytes("crc", CrcSize, s)

\* where the pointer is before each access of an order, and after the last
Pointer(order) ==
    LET at[i \in 1..Len(order) + 1] ==
            IF i = 1 THEN 0 ELSE at[i - 1] + order[i - 1][2]
    IN  [i \in 1..Len(order) + 1 |-> at[i]]

WriteAt == Pointer(WriteOrder)
ReadAt == Pointer(ReadOrder)

\* what is written under a name for the state s
Content(s, name) ==
    CASE name \in {"magic", "version"} -> 0
      [] name = "size" -> DataSize
      [] OTHER -> s[name]

\* all that is written before the checksum: each byte by the access that finds
\* the pointer before it and leaves it behind
Written(s) ==
    [k \in 1..WriteAt[Len(WriteOrder) + 1] |->
        LET i == CHOOSE j \in DOMAIN WriteOrder : k \in WriteAt[j] + 1..WriteAt[j + 1]
            o == WriteOrder[i]
        IN  Bytes(o[1], o[2], Content(s, o[1]))[k - WriteAt[i]]]

Save(s) == Written(s) \o Crc(Written(s))

\* what is read under a name
Read(buf, name) ==
    LET i == CHOOSE j \in DOMAIN ReadOrder : ReadOrder[j][1] = name
    IN  Value(name, SubSeq(buf, ReadAt[i] + 1, ReadAt[i] + ReadOrder[i][2]))

Fields(buf) == [g \in Group |-> Read(buf, g)]

Refuse(code, s) == [rc |-> code, st |-> s]

\* bug: the fields are read before the checksum is compared
RestoreEarly(buf, s) ==
    IF Len(buf) < HeaderSize + DataSize + CrcSize THEN {Refuse(-4, s)}
    ELSE IF SubSeq(buf, Len(buf) - 3, Len(buf)) # Crc(SubSeq(buf, 1, Len(buf) - 4))
    THEN {Refuse(-3, Fields(buf))} ELSE {[rc |-> 0, st |-> Fields(buf)]}

\* the length is checked against the size read, then the checksum
Checked(buf, s, ds) ==
    LET total == HeaderSize + ds + CrcSize
    IN  IF Len(buf) < total THEN Refuse(-4, s)
        ELSE IF SubSeq(buf, total - 3, total) # Crc(SubSeq(buf, 1, total - CrcSize))
        THEN Refuse(-3, s)
        ELSE [rc |-> 0, st |-> Fields(buf)]

\* The results of a restore into the state s: the checks come first, in this
\* order, and s is written only after the last of them.
Restore(buf, s) ==
    LET size == Read(buf, "size")
    IN  IF Len(buf) < HeaderSize + CrcSize THEN {Refuse(-4, s)}
        ELSE IF Read(buf, "magic") # 0 THEN {Refuse(-1, s)}
        ELSE IF Read(buf, "version") # 0 THEN {Refuse(-2, s)}
        ELSE {Checked(buf, s, ds) : ds \in IF size = -1 THEN WrongSize ELSE {size}}

-----------------------------------------------------------------------------
(* The process: main.c *)

NoFile == <<"none">>

Init ==
    /\ pc = "off" /\ st = Fresh /\ tables = 0 /\ steps = 0
    /\ file = NoFile /\ rc = 0 /\ image = Fresh /\ damage = "none"

\* without --snapshot-in
Boot ==
    /\ pc = "off"
    /\ pc' = "run"
    /\ UNCHANGED <<st, tables, steps, file, rc, image, damage>>

\* bug: the tables of the boot are kept
LoadOldTables ==
    /\ pc = "off" /\ file # NoFile
    /\ \E o \in Restore(file, st) :
          /\ rc' = o.rc /\ st' = o.st
          /\ pc' = IF o.rc = 0 THEN "loaded" ELSE "refused"
    /\ UNCHANGED <<tables, steps, file, image, damage>>

\* with it; a state that could not be restored is not run
Load ==
    /\ pc = "off" /\ file # NoFile
    /\ \E o \in Restore(file, st) :
          /\ rc' = o.rc /\ st' = o.st
          /\ IF o.rc = 0 THEN pc' = "loaded" /\ tables' = o.st.mem
                         ELSE pc' = "refused" /\ UNCHANGED tables
    /\ UNCHANGED <<steps, file, image, damage>>

\* the guest executes; inst_count is written by every instruction
Step ==
    /\ pc \in {"loaded", "run"} /\ steps < MaxSteps
    /\ pc' = "run"
    /\ steps' = steps + 1
    /\ \E G \in Writes :
          st' = [g \in Group |-> IF g \in G \cup {"timing"} THEN steps' ELSE st[g]]
    /\ UNCHANGED <<tables, file, rc, image, damage>>

\* the main loop ends; save_snapshot opens the file, which empties it
OpenOut ==
    /\ pc \in {"loaded", "run"}
    /\ pc' = "opened"
    /\ file' = <<>> /\ image' = st /\ damage' = "cut"
    /\ UNCHANGED <<st, tables, steps, rc>>

\* The process ends, and its memory is gone.
Gone == pc' = "off" /\ st' = Fresh /\ tables' = 0 /\ rc' = 0

\* fwrite and fclose: all of the buffer, or what the disk has room for, which
\* nobody looks at
WriteOut ==
    /\ pc = "opened"
    /\ Gone
    /\ LET buf == Save(st)
       IN  \E n \in 0..Len(buf) :
              /\ file' = SubSeq(buf, 1, n)
              /\ damage' = IF n = Len(buf) THEN "none" ELSE "cut"
    /\ UNCHANGED <<steps, image>>

\* the process is killed, or has nothing to do after a refusal
Die ==
    /\ pc # "off"
    /\ Gone
    /\ UNCHANGED <<steps, file, image, damage>>

\* a byte of the file is lost where the file is kept, or on the way
LoseByte ==
    /\ pc = "off" /\ damage = "none" /\ file # NoFile
    /\ \E k \in DOMAIN file :
          /\ file' = [file EXCEPT ![k] = <<"lost", 0, 0>>]
          /\ damage' = IF file[k][1] \in Header THEN file[k][1] ELSE "data"
    /\ UNCHANGED <<pc, st, tables, steps, rc, image>>

Next == Boot \/ Load \/ Step \/ OpenOut \/ WriteOut \/ Die \/ LoseByte

Spec == Init /\ [][Next]_vars

-----------------------------------------------------------------------------
\* A machine that starts from a file is the machine that was saved, in every
\* group of fields and whatever happened to it before it was saved, with the
\* tables of its own memory; files cut short or damaged do not start.
OnlyWholeSaves ==
    pc = "loaded" => st = image /\ tables = image.mem /\ damage = "none"

\* A refusal changes nothing and its code says what is wrong, as snapshot.h
\* lists the codes; an intact file is not refused.
RefusalTells ==
    pc = "refused" =>
        /\ st = Fresh
        /\ CASE damage = "cut"     -> rc = -4
             [] damage = "magic"   -> rc = -1
             [] damage = "version" -> rc = -2
             [] damage = "size"    -> rc \in {-3, -4}
             [] damage = "data"    -> rc = -3
             [] damage = "none"    -> FALSE
=============================================================================
