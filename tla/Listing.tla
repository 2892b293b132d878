------------------------------ MODULE Listing ------------------------------
(***************************************************************************)
(* The directory listings, while other programs remove files.  myls.c      *)
(* reads the entries one by one and, in the long form, prints of each what *)
(* lstat says and the permission string that access_perm makes; scandir.c  *)
(* and Blackbox/myls.c print the names sorted; opendir.c makes two         *)
(* directories and prints the names as they come.                          *)
(*                                                                         *)
(* Abstractions.  Of what lstat says, the mode is kept, as the number with *)
(* the twelve permission bits, and the type.  Entries are numbered in the  *)
(* order in which readdir gives them.  The directory is there and is one.  *)
(***************************************************************************)
EXTENDS Naturals, Sequences

CONSTANTS
    NEntries,       \* bound: entries in the directory
    Alphabetical,   \* the place of each entry in the order of their names
    Modes,          \* the modes of files
    DirMode         \* the mode of the directory itself

ASSUME ListingAssumption ==
    /\ NEntries \in Nat
    /\ Alphabetical \in [1 .. NEntries -> Nat]
    /\ \A e, f \in 1 .. NEntries : Alphabetical[e] = Alphabetical[f] => e = f
    /\ Modes \subseteq 0 .. 2^16 - 1 /\ Modes # {} /\ DirMode \in 0 .. 2^16 - 1

Entries == 1 .. NEntries

VARIABLES
    flag,       \* 0: no argument, 1: -al, 2: a directory, 3: both;
                \* 4: the programs with scandir, 5: opendir.c
    lsAt,       \* "stat", "opendir", "loop", "inner", "all", "end"
    entryMode,  \* the mode of each file
    present,    \* the entries whose files exist
    unread,     \* the entries that are still to be given
    statbuf,    \* the mode lstat stored last
    shown       \* the lines: <<entry, permission string>>, or <<entry>>

lsVars == <<flag, lsAt, entryMode, present, unread, statbuf, shown>>

LsInit ==
    /\ flag = 0 /\ lsAt = "stat" /\ present = Entries
    /\ entryMode = [e \in Entries |-> DirMode]
    /\ unread = {} /\ statbuf = 0 /\ shown = <<>>

-----------------------------------------------------------------------------
(* access_perm: the type, nine letters, and then the three special bits     *)
(* over the letters.                                                        *)

Bit(mode, i) == (mode \div 2^i) % 2 = 1

Type(mode) == mode \div 2^12

(* The types there are: S_IFIFO, S_IFCHR, S_IFDIR, S_IFBLK, S_IFREG,        *)
(* S_IFLNK and S_IFSOCK.                                                    *)
ASSUME TypeAssumption == \A m \in Modes \cup {DirMode} : Type(m) \in {1, 2, 4, 6, 8, 10, 12}

TypeChar(mode) ==
    CASE Type(mode) = 4 -> "d" [] Type(mode) = 2 -> "c" [] Type(mode) = 6 -> "b"
      [] Type(mode) = 1 -> "p" [] Type(mode) = 10 -> "l" [] OTHER -> "-"

(* statEx.c's name for the type: it knows the sockets, too.                 *)
FileType(mode) ==
    CASE Type(mode) = 6 -> "block device" [] Type(mode) = 2 -> "character device"
      [] Type(mode) = 4 -> "directory" [] Type(mode) = 1 -> "FIFO/pipe"
      [] Type(mode) = 10 -> "symlink" [] Type(mode) = 8 -> "regular file"
      [] Type(mode) = 12 -> "socket" [] OTHER -> "unknown?"

PermChar == <<"r", "w", "x">>

(* (mode << i) & 0x100 for the i-th letter.  A definition whose name ends   *)
(* in Variant is a wrong form of the one it precedes: the properties are    *)
(* checked to tell the two apart.                                           *)
LetterVariant(mode, i) == IF Bit(mode, i) THEN PermChar[(i % 3) + 1] ELSE "-"

Letter(mode, i) == IF Bit(mode, 8 - i) THEN PermChar[(i % 3) + 1] ELSE "-"

AccessPerm(mode) ==
    [c \in 1 .. 10 |->
        CASE c = 1 -> TypeChar(mode)
          [] c = 4 /\ Bit(mode, 11) -> "s"
          [] c = 7 /\ Bit(mode, 10) -> "s"
          [] c = 10 /\ Bit(mode, 9) -> "t"
          [] OTHER -> Letter(mode, c - 2)]

-----------------------------------------------------------------------------

(* readdir gives the entries in its order, scandir by name.                 *)
Place(e) == IF flag = 4 THEN Alphabetical[e] ELSE e

IsNext(e) == e \in unread /\ \A f \in unread : Place(e) <= Place(f)

(* The arguments, and stat of the directory to be listed, with any files in *)
(* it.                                                                      *)
Stat ==
    /\ lsAt = "stat"
    /\ entryMode' \in [Entries -> Modes]
    /\ flag' \in 0 .. 3
    /\ statbuf' = DirMode
    /\ lsAt' = "opendir"
    /\ UNCHANGED <<present, unread, shown>>

OpenDir ==
    /\ lsAt = "opendir"
    /\ unread' = present
    /\ lsAt' = "loop"
    /\ UNCHANGED <<flag, entryMode, present, statbuf, shown>>

(* One entry of the long form.  The result of lstat is ignored: when the    *)
(* file is gone statbuf is still that of the entry before.                  *)
Statbuf(e) == IF e \in present THEN entryMode[e] ELSE statbuf

ShowLong ==
    /\ lsAt = "loop" /\ flag \in {1, 3}
    /\ \E e \in Entries :
          /\ IsNext(e) /\ unread' = unread \ {e}
          /\ statbuf' = Statbuf(e)
          /\ shown' = Append(shown, <<e, AccessPerm(statbuf')>>)
    /\ UNCHANGED <<flag, lsAt, entryMode, present>>

(* The short form: the entry the outer loop has read is not printed, an     *)
(* inner loop prints the rest.                                              *)
SkipFirst ==
    /\ lsAt = "loop" /\ flag \in {0, 2}
    /\ \E e \in Entries : IsNext(e) /\ unread' = unread \ {e}
    /\ lsAt' = "inner"
    /\ UNCHANGED <<flag, entryMode, present, statbuf, shown>>

ShowNext ==
    \E e \in Entries :
        IsNext(e) /\ unread' = unread \ {e} /\ shown' = Append(shown, <<e>>)

ShowShort ==
    /\ lsAt = "inner"
    /\ ShowNext
    /\ UNCHANGED <<flag, lsAt, entryMode, present, statbuf>>

(* scandir: the names of the moment.                                        *)
ScanDir ==
    /\ lsAt = "stat"
    /\ flag' = 4
    /\ unread' = present
    /\ lsAt' = "all"
    /\ UNCHANGED <<entryMode, present, statbuf, shown>>

(* makeA and makeB are the last two entries; mkdir of one that is there     *)
(* changes nothing.                                                         *)
Made == {e \in Entries : e > NEntries - 2}

OpenHere ==
    /\ lsAt = "stat"
    /\ flag' = 5
    /\ present' = present \cup Made
    /\ entryMode' = [e \in Entries |-> IF e \in Made \ present THEN DirMode ELSE entryMode[e]]
    /\ unread' = present'
    /\ lsAt' = "all"
    /\ UNCHANGED <<statbuf, shown>>

ShowAll ==
    /\ lsAt = "all"
    /\ ShowNext
    /\ UNCHANGED <<flag, lsAt, entryMode, present, statbuf>>

NoMore ==
    /\ lsAt \in {"loop", "inner", "all"} /\ unread = {}
    /\ lsAt' = IF lsAt = "inner" THEN "loop" ELSE "end"
    /\ UNCHANGED <<flag, entryMode, present, unread, statbuf, shown>>

(* Another program removes a file; readdir may have it in its buffer.       *)
Unlink ==
    /\ lsAt # "end"
    /\ \E e \in present : present' = present \ {e}
    /\ UNCHANGED <<flag, lsAt, entryMode, unread, statbuf, shown>>

LsNext ==
    \/ Stat \/ OpenDir \/ ShowLong \/ SkipFirst \/ ShowShort
    \/ ScanDir \/ OpenHere \/ ShowAll \/ NoMore \/ Unlink

-----------------------------------------------------------------------------

(* What the nine letters of a string say, without the special bits.         *)
SaysAllowed(perm, i) == perm[10 - i] # "-"

(* The string in the long form is the entry's own unless its file was       *)
(* removed while the listing ran: then it is that of a file before it, or   *)
(* of the directory.  The string is read right, bit by bit, except that a   *)
(* special bit hides whether its x is set.  In the short form exactly the   *)
(* first entry is missing; the programs with scandir and opendir.c miss     *)
(* none, and the former are in order whatever is removed meanwhile.  myls.c *)
(* and statEx.c differ about no type but the socket's.                      *)
ListingIsRight ==
    /\ \A n \in DOMAIN shown : flag \in {1, 3} =>
          LET e == shown[n][1]
              perm == shown[n][2]
              own(mode) ==
                  /\ perm[1] = TypeChar(mode)
                  /\ \A i \in 0 .. 8 :
                        SaysAllowed(perm, i) <=>
                            Bit(mode, i) \/ (i % 3 = 0 /\ Bit(mode, 9 + i \div 3))
          IN  \/ own(entryMode[e])
              \/ e \notin present /\ \E m \in {DirMode} \cup {entryMode[f] : f \in 1 .. e - 1} : own(m)
    /\ lsAt = "end" /\ flag \in {1, 3} => present \subseteq {shown[n][1] : n \in DOMAIN shown}
    /\ lsAt = "end" /\ flag \in {0, 2} /\ present = Entries /\ NEntries > 0 =>
          [n \in DOMAIN shown |-> shown[n][1]] = [n \in 1 .. NEntries - 1 |-> n + 1]
    /\ lsAt = "end" /\ flag \in {4, 5} => present \subseteq {shown[n][1] : n \in DOMAIN shown}
    /\ flag = 4 => \A n \in 1 .. Len(shown) - 1 :
          Alphabetical[shown[n][1]] < Alphabetical[shown[n + 1][1]]
    /\ \A e \in Entries, f \in Entries :
          LET m == entryMode[e]
              k == entryMode[f]
          IN  /\ FileType(m) = FileType(k) => TypeChar(m) = TypeChar(k)
              /\ TypeChar(m) = TypeChar(k) =>
                    FileType(m) = FileType(k) \/ "socket" \in {FileType(m), FileType(k)}

=============================================================================
