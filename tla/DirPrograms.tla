---------------------------- MODULE DirPrograms ----------------------------
(***************************************************************************)
(* Three programs that make the recorder's directories, each of which may  *)
(* be launched more than once at a time:                                   *)
(*                                                                         *)
(*   makehome.c   every level of a fixed path, with a slash at its end     *)
(*   blackbox2.c  every level of the working directory, and the hour's     *)
(*                directory in it                                          *)
(*   blackbox.c   the hour's directory in the working directory            *)
(*                                                                         *)
(* Abstractions.  A path is the sequence of its names, shorter than the    *)
(* programs' buffers; the name of an hour is its number.  Nothing is       *)
(* denied: mkdir fails because the path exists or its parent does not.     *)
(***************************************************************************)
EXTENDS Naturals, SequencesExt

CONSTANTS
    MakerLaunches,  \* bound: launches of the programs
    MaxHour,        \* bound: the last hour
    HomePath,       \* the path in makehome.c
    Cwd             \* the working directory of the two others

ASSUME DirAssumption ==
    /\ MakerLaunches \in Nat \ {0} /\ MaxHour \in Nat
    /\ HomePath \in Seq(ToSet(HomePath)) /\ HomePath # <<>>
    /\ Cwd \in Seq(ToSet(Cwd)) /\ Cwd # <<>>

Makers == 1 .. MakerLaunches

VARIABLES
    tree,       \* the directories
    hour,       \* of the clock
    maker,      \* of each launch: "none" or its program
    mkAt,       \* "off", "loop", "leaf", "0", "-1", "crash": the last three are how it ended
    target,     \* the path it makes
    level,      \* how many of its names the next mkdir takes
    swept       \* history: whether anything was removed

dirVars == <<tree, hour, maker, mkAt, target, level, swept>>

DirInit ==
    /\ tree = {SubSeq(Cwd, 1, n) : n \in 1 .. Len(Cwd)} /\ hour = 0
    /\ maker = [p \in Makers |-> "none"] /\ mkAt = [p \in Makers |-> "off"]
    /\ target = [p \in Makers |-> <<>>] /\ level = [p \in Makers |-> 1]
    /\ swept = FALSE

-----------------------------------------------------------------------------

CanMake(d) == d \notin tree /\ (Len(d) = 1 \/ SubSeq(d, 1, Len(d) - 1) \in tree)

TreeAfter(d) == IF CanMake(d) THEN tree \cup {d} ELSE tree

(* getcwd fails when the directory is gone, and leaves the path empty: the  *)
(* hour's directory would be made in the root.                              *)
HourPath == IF Cwd \in tree THEN Append(Cwd, ToString(hour)) ELSE <<ToString(hour)>>

MakerStart(p) ==
    /\ mkAt[p] = "off" /\ (p > 1 => mkAt[p - 1] # "off")
    /\ \/ /\ maker' = [maker EXCEPT ![p] = "makehome"]
          /\ target' = [target EXCEPT ![p] = HomePath]
          /\ mkAt' = [mkAt EXCEPT ![p] = "loop"]
       \/ /\ maker' = [maker EXCEPT ![p] = "blackbox2"]
          /\ target' = [target EXCEPT ![p] = HourPath]
          /\ mkAt' = [mkAt EXCEPT ![p] = IF Len(HourPath) = 1 THEN "leaf" ELSE "loop"]
       \/ /\ maker' = [maker EXCEPT ![p] = "blackbox"]
          /\ target' = [target EXCEPT ![p] = Append(Cwd, ToString(hour))]
          /\ mkAt' = [mkAt EXCEPT ![p] = "leaf"]
    /\ UNCHANGED <<tree, hour, level, swept>>

Prefix(p) == SubSeq(target[p], 1, level[p])

(* The loop over the slashes of MakeDirectory.  It ends at the last slash,  *)
(* which in main's path is behind the last name.  A definition whose name   *)
(* ends in Variant is a wrong form of the one it precedes: the properties   *)
(* are checked to tell the two apart.                                       *)
MakeDirectoryLevel(p) ==
    /\ mkAt[p] = "loop" /\ maker[p] = "makehome"
    /\ tree' = TreeAfter(Prefix(p))
    /\ level' = [level EXCEPT ![p] = @ + 1]
    /\ mkAt' = [mkAt EXCEPT ![p] = IF level[p] = Len(target[p]) THEN "0" ELSE "loop"]
    /\ UNCHANGED <<hour, maker, target, swept>>

(* The loop of mkdirs: a level that exists is no error.                     *)
MkdirsLevel(p) ==
    /\ mkAt[p] = "loop" /\ maker[p] = "blackbox2"
    /\ tree' = TreeAfter(Prefix(p))
    /\ level' = [level EXCEPT ![p] = @ + 1]
    /\ mkAt' = [mkAt EXCEPT ![p] = CASE Prefix(p) \notin tree' -> "-1"
                                     [] Prefix(p) \in tree' /\ level[p] = Len(target[p]) - 1 -> "leaf"
                                     [] OTHER -> "loop"]
    /\ UNCHANGED <<hour, maker, target, swept>>

(* Its last mkdir: a directory that exists is an error.                     *)
LeafResultVariant(d) == IF d \in tree' THEN "0" ELSE "-1"

LeafResult(d) == IF CanMake(d) THEN "0" ELSE "-1"

MkdirsLeaf(p) ==
    /\ mkAt[p] = "leaf" /\ maker[p] = "blackbox2"
    /\ tree' = TreeAfter(target[p])
    /\ mkAt' = [mkAt EXCEPT ![p] = LeafResult(target[p])]
    /\ UNCHANGED <<hour, maker, target, level, swept>>

(* blackbox.c: a directory that exists is none.  The message of any other   *)
(* error lacks an argument.                                                 *)
BlackboxLeaf(p) ==
    /\ mkAt[p] = "leaf" /\ maker[p] = "blackbox"
    /\ tree' = TreeAfter(target[p])
    /\ \E r \in (IF target[p] \in tree' THEN {"0"} ELSE {"-1", "crash"}) :
          mkAt' = [mkAt EXCEPT ![p] = r]
    /\ UNCHANGED <<hour, maker, target, level, swept>>

(* The clock, and the recorder's rm -rf in between.                         *)
HourPasses ==
    /\ hour < MaxHour /\ hour' = hour + 1
    /\ UNCHANGED <<tree, maker, mkAt, target, level, swept>>

Sweep ==
    /\ \E d \in tree : tree' = {e \in tree : ~IsPrefix(d, e)}
    /\ swept' = TRUE
    /\ UNCHANGED <<hour, maker, mkAt, target, level>>

DirNext ==
    \/ \E p \in Makers : \/ MakerStart(p) \/ MakeDirectoryLevel(p) \/ MkdirsLevel(p)
                         \/ MkdirsLeaf(p) \/ BlackboxLeaf(p)
    \/ HourPasses \/ Sweep

-----------------------------------------------------------------------------

(* Launches that make the same path race level by level.  As long as        *)
(* nothing is removed each of them ends with its path in place, whatever it *)
(* returns, none of them crashes, and blackbox2.c says that it made a       *)
(* directory to one launch at most: the others are told it is an error.     *)
MakersAgree ==
    ~swept => \A p \in Makers :
        /\ mkAt[p] # "crash"
        /\ mkAt[p] \in {"0", "-1"} => target[p] \in tree
        /\ mkAt[p] = "-1" => maker[p] = "blackbox2"
        /\ \A q \in Makers \ {p} :
              maker[p] = "blackbox2" /\ maker[q] = "blackbox2" /\ target[p] = target[q]
              => ~(mkAt[p] = "0" /\ mkAt[q] = "0")

=============================================================================
