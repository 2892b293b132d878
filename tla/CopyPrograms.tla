---------------------------- MODULE CopyPrograms ----------------------------
(***************************************************************************)
(* Three programs that copy a file in blocks, while the file may grow:     *)
(*                                                                         *)
(*   cpsys.c   read and write, three bytes at a time                       *)
(*   stdcpy.c  fgets and fputs with a buffer of three bytes                *)
(*   Rximg.c   fread and fwrite through a shared segment, always a whole   *)
(*             block of 1024 bytes                                         *)
(*                                                                         *)
(* Abstractions.  A byte is 0 (NUL), 10 (newline) or 1 (any other).  Only  *)
(* one program runs at a time.  Reads do not fail; writes do, when the     *)
(* disk is full, and what is lost on the way from stdio's buffer to the    *)
(* file is lost here when it is put into the buffer.                       *)
(***************************************************************************)
EXTENDS Naturals, SequencesExt

CONSTANTS
    BUF_SIZE,       \* 3
    Block, Cleared, \* 1024, and the 5 bytes that Rximg.c clears
    MaxSource       \* bound: bytes of the source

ASSUME CopyAssumption ==
    /\ BUF_SIZE \in Nat \ {0, 1} /\ Block \in Nat \ {0} /\ Cleared \in 0 .. Block
    /\ MaxSource \in Nat

VARIABLES
    copier,         \* "none", "cpsys", "stdcpy", "Rximg"
    cpAt,           \* "open", "read", "end", "failed", "crash"
    source, copy,   \* the files
    there,          \* whether the source can be opened
    writable,       \* whether the target can be opened
    full,           \* whether a write came short (history)
    offset,         \* bytes read
    segment         \* the shared segment

copyVars == <<copier, cpAt, source, copy, there, writable, full, offset, segment>>

OldCopy == <<10>>

CopyInit ==
    /\ copier = "none" /\ cpAt = "open" /\ source = <<>> /\ copy = OldCopy
    /\ there = TRUE /\ writable = TRUE /\ full = FALSE /\ offset = 0
    /\ segment = [i \in 1 .. Block |-> 0]

-----------------------------------------------------------------------------

(* Another program appends to the source.                                   *)
Grow ==
    /\ Len(source) < MaxSource
    /\ \E b \in {0, 1, 10} : source' = Append(source, b)
    /\ UNCHANGED <<copier, cpAt, copy, there, writable, full, offset, segment>>

(* shmget or shmat fails: Rximg.c says so and exits before it opens a file. *)
ShmFails ==
    /\ copier = "none" /\ copier' = "Rximg" /\ cpAt' = "failed"
    /\ UNCHANGED <<source, copy, there, writable, full, offset, segment>>

(* Both files are opened, the target is emptied.  stdcpy and Rximg do not   *)
(* look at a null FILE before they use it.                                  *)
Open ==
    /\ copier = "none"
    /\ copier' \in {"cpsys", "stdcpy", "Rximg"}
    /\ there' \in BOOLEAN /\ writable' \in BOOLEAN
    /\ copy' = IF writable' THEN <<>> ELSE copy
    /\ cpAt' = CASE there' -> "read"
                 [] ~there' /\ copier' = "cpsys" -> "end"
                 [] OTHER -> "crash"
    /\ UNCHANGED <<source, full, offset, segment>>

Rest == SubSeq(source, offset + 1, Len(source))

Take(n) == SubSeq(Rest, 1, IF n < Len(Rest) THEN n ELSE Len(Rest))

(* A definition whose name ends in Variant is a wrong form of the one it    *)
(* precedes: the properties are checked to tell the two apart.              *)

(* What write(fd2,buf,len) is given.                                        *)
WrittenVariant(buf) == buf \o [i \in 1 .. BUF_SIZE - Len(buf) |-> 1]

Written(buf) == buf

(* write, fputs and fwrite put all of buf into the file; on a full disk a   *)
(* part of it, or nothing, which no program looks at.  write does nothing   *)
(* when fd2 is -1.                                                          *)
Put(buf) ==
    IF writable
    THEN \E n \in 0 .. Len(buf) :
            copy' = copy \o SubSeq(buf, 1, n) /\ full' = (full \/ n < Len(buf))
    ELSE UNCHANGED <<copy, full>>

CpSys ==
    /\ copier = "cpsys" /\ cpAt = "read"
    /\ LET buf == Take(BUF_SIZE)
       IN  IF buf = <<>>
           THEN cpAt' = "end" /\ UNCHANGED <<copy, full, offset>>
           ELSE /\ Put(Written(buf))
                /\ offset' = offset + Len(buf)
                /\ UNCHANGED cpAt
    /\ UNCHANGED <<copier, source, there, writable, segment>>

(* What fgets takes: up to a newline, and at most BUF_SIZE - 1 bytes.       *)
FgetsTakes ==
    LET ends == {n \in 1 .. Len(Take(BUF_SIZE - 1)) : Rest[n] = 10}
    IN  IF ends = {} THEN Take(BUF_SIZE - 1)
        ELSE Take(CHOOSE n \in ends : \A m \in ends : n <= m)

(* What fputs writes of it: nothing from a NUL on.                          *)
FputsWrites(buf) ==
    LET nuls == {n \in DOMAIN buf : buf[n] = 0}
    IN  IF nuls = {} THEN buf
        ELSE SubSeq(buf, 1, (CHOOSE n \in nuls : \A m \in nuls : n <= m) - 1)

StdCpy ==
    /\ copier = "stdcpy" /\ cpAt = "read"
    /\ IF Rest = <<>>
       THEN cpAt' = (IF writable THEN "end" ELSE "crash") /\ UNCHANGED <<copy, full, offset>>
       ELSE /\ Put(FputsWrites(FgetsTakes))
            /\ offset' = offset + Len(FgetsTakes)
            /\ cpAt' = IF writable THEN "read" ELSE "crash"
    /\ UNCHANGED <<copier, source, there, writable, segment>>

(* fread into the segment, fwrite of the whole block whatever was read, and *)
(* a few bytes cleared; feof is true after the read that came short.        *)
Rximg ==
    /\ copier = "Rximg" /\ cpAt = "read"
    /\ LET got == Take(Block)
           block == [i \in 1 .. Block |-> IF i <= Len(got) THEN got[i] ELSE segment[i]]
       IN  /\ Put(block)
           /\ offset' = offset + Len(got)
           /\ segment' = [i \in 1 .. Block |-> IF i <= Cleared THEN 0 ELSE block[i]]
           /\ cpAt' = CASE ~writable -> "crash"
                        [] writable /\ Len(got) < Block -> "end"
                        [] writable /\ Len(got) >= Block -> "read"
    /\ UNCHANGED <<copier, source, there, writable>>

CopyNext == Grow \/ ShmFails \/ Open \/ CpSys \/ StdCpy \/ Rximg

-----------------------------------------------------------------------------

(* What a copy is worth when its program has ended, though no program looks *)
(* at what its writes return.  cpsys.c: what the source held when its end   *)
(* was met, or less when a write came short, and the program ends the same  *)
(* either way.  stdcpy.c: the same for a file without NULs, and never more. *)
(* Rximg.c: it starts with the source and is filled up to a whole block,    *)
(* one more than needed when the source ends with a block; less when a      *)
(* write came short; and the old copy, when there is no segment.  When the  *)
(* source cannot be opened the old copy is lost; when the target cannot,    *)
(* cpsys.c ends as if all was well.                                         *)
CopyIsTheSource ==
    LET taken == SubSeq(source, 1, offset)
        filled == Block * (Len(taken) \div Block + 1)
    IN  /\ cpAt = "failed" => copy = OldCopy
        /\ cpAt = "end" /\ writable /\ ~there => copy = <<>>
        /\ cpAt = "end" /\ ~writable => copy = OldCopy /\ copier = "cpsys"
        /\ cpAt = "end" /\ writable /\ there =>
              CASE copier = "cpsys" -> IF full THEN Len(copy) < Len(taken) ELSE copy = taken
                [] copier = "stdcpy" -> /\ Len(copy) <= Len(taken)
                                        /\ full => Len(copy) < Len(taken)
                                        /\ ~full /\ 0 \notin ToSet(taken) => copy = taken
                [] copier = "Rximg" -> IF full THEN Len(copy) < filled
                                       ELSE Len(copy) = filled /\ IsPrefix(taken, copy)

=============================================================================
