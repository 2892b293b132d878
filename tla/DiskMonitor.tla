---------------------------- MODULE DiskMonitor ----------------------------
(***************************************************************************)
(* The programs that watch the free space of the root file system, from    *)
(* which the recorder's thread_delete was made.  Once a second they read   *)
(* /proc/mounts to its end with dfget, keep the figures of the root in two *)
(* ints and judge them:                                                    *)
(*                                                                         *)
(*   checkdisk.cpp      below 60% it moves to the base directory and       *)
(*                      deletes the oldest directory there                 *)
(*   checkdiskback.cpp  below 20% it deletes, in the base directory, what  *)
(*                      is the oldest directory where it was launched      *)
(*   checkdisk.c        compares a fraction with 80 and, a semicolon being *)
(*                      behind the if, deletes always                      *)
(*   statfs.c, statfs2.c, statfss.c                                        *)
(*                      only print, the last one through unsigned ints     *)
(*   deleteOld          (deleteOld.c, deleteOld.cpp) deletes the oldest    *)
(*                      directory where it is launched, once               *)
(*                                                                         *)
(* Abstractions.  A line of /proc/mounts is a record of what dfget asks    *)
(* about it.  stdio takes in the lines a few at a time, and what statfs()  *)
(* says of a directory is that of the moment it is called in.  The         *)
(* listing's rows are taken to be in line: Recorder treats those that are  *)
(* not.                                                                    *)
(***************************************************************************)
EXTENDS Integers, SequencesExt

CONSTANTS
    IntHalf,    \* 2^31: an int is one of -IntHalf .. IntHalf - 1
    Kib,        \* 1024
    Dirs,       \* the directories file systems are mounted on
    Tables,     \* what /proc/mounts may hold, sequences of lines
    Usages,     \* what statfs() may say of the directories
    Garbage,    \* what an int that was never written may hold
    Names,      \* the names of directories
    Homes,      \* what may be where a program is launched
    StackRows   \* rows of the listing that fit checkdisk.cpp's frame

Root == "/"

Lines == [dir : Dirs, block : BOOLEAN]

Figures == [blocks : Nat, avail : Nat, bsize : Nat]

(* What rm is given in place of a name: the path alone, when the listing    *)
(* has no row, or a name that nothing has.                                  *)
Whole == "whole"

Stray == "stray"

ASSUME DiskMonitorAssumption ==
    /\ IntHalf \in Nat \ {0} /\ Kib \in Nat \ {0} /\ StackRows \in Nat
    /\ Root \in Dirs
    /\ \A t \in Tables : t \in Seq(Lines)
    /\ \A u \in Usages : u \in [Dirs -> Figures] /\ \A d \in Dirs : u[d].avail <= u[d].blocks
    /\ {Whole, Stray} \cap Names = {} /\ \A h \in Homes : h \in Seq(Names)

NoFigures == [blocks |-> 0, avail |-> 0, bsize |-> 0]

VARIABLES
    program, pc,
    table,              \* /proc/mounts
    usage,              \* what statfs() says
    position,           \* the lines of the table that stdio has taken in
    unread,             \* those among them that fgets has not returned
    available, total_v,
    seen,               \* history: statfs() at the last line of the root
    printed,            \* the figures printed in a pass, until it is disturbed
    disturbed,          \* history: whether anything changed during the pass
    cwd,                \* "base" or "home"
    base, dirs, home,   \* the base directory, those in it, those at home
    cut, overrun,       \* what was cut out of the listing; too long a listing
    doomed,             \* the directories rm has found and not yet removed
    listed, mute        \* history: dirs when ls ran; whether ls printed nothing

streamVars == <<position, unread, disturbed>>
figureVars == <<available, total_v, seen, printed>>
rmVars == <<cut, overrun, doomed, listed, mute>>
storeVars == <<base, dirs, home>>
vars == <<program, pc, table, usage, streamVars, figureVars, cwd, storeVars, rmVars>>

Printers == {"statfs.c", "statfs2.c", "statfss.c"}

Monitors == {"checkdisk.cpp", "checkdiskback.cpp", "checkdisk.c"} \cup Printers

Ints == -IntHalf .. IntHalf - 1

RmIdle ==
    cut = Whole /\ overrun = FALSE /\ doomed = {} /\ listed = <<>> /\ mute = FALSE

(* The printers have no such ints.                                          *)
Unwritten == IF program \in Printers THEN {0} ELSE Garbage

Init ==
    /\ program \in Monitors \cup {"deleteOld"}
    /\ pc = IF program = "deleteOld" THEN "delete" ELSE "open"
    /\ table \in Tables /\ usage \in Usages
    /\ position = 0 /\ unread = <<>> /\ disturbed = FALSE
    /\ available \in Unwritten /\ total_v \in Unwritten
    /\ seen = NoFigures
    /\ printed = <<>>
    /\ cwd \in {"base", "home"}
    /\ base = TRUE /\ dirs = <<>>
    /\ home \in Homes
    /\ RmIdle

-----------------------------------------------------------------------------
(* A long stored into an int.                                               *)
ToInt(n) ==
    LET m == n % (2 * IntHalf)
    IN  IF m \in Ints THEN m ELSE m - 2 * IntHalf

(* f_blocks * (f_bsize/1024): the division comes first.                     *)
InKib(n, figures) == n * (figures.bsize \div Kib)

(* The lines dfget returns at; it skips the others.                         *)
Returns(line) == line.dir = Root \/ line.block

(* The strcmp in main.  A definition whose name ends in Variant is a wrong   *)
(* form of the one it precedes: the properties are checked to tell the two  *)
(* apart.                                                                   *)
OfRootVariant(line) == TRUE

OfRoot(line) == line.dir = Root

RewoundVariant == position

Rewound == 0

DfOpen ==
    /\ pc = "open"
    /\ pc' \in {"get", "end"}
    /\ UNCHANGED <<program, table, usage, streamVars, figureVars, cwd, storeVars, rmVars>>

(* fgets has no line left: stdio takes in a few more, or all.               *)
TakeIn ==
    /\ pc = "get" /\ unread = <<>>
    /\ \E n \in position + 1 .. Len(table) :
          unread' = SubSeq(table, position + 1, n) /\ position' = n
    /\ UNCHANGED <<program, pc, table, usage, disturbed, figureVars, cwd, storeVars, rmVars>>

Fgets(line) ==
    /\ pc = "get" /\ unread # <<>> /\ line = Head(unread)
    /\ unread' = Tail(unread)
    /\ UNCHANGED <<program, pc, table, usage, position, disturbed, cwd, storeVars, rmVars>>

Skip ==
    /\ \E line \in Lines : Fgets(line) /\ ~Returns(line)
    /\ UNCHANGED figureVars

(* dfget returns at a line, with what statfs() says now.                    *)
Returned(line) ==
    /\ Fgets(line) /\ Returns(line)
    /\ seen' = IF line.dir = Root THEN usage[Root] ELSE seen

(* main keeps the figures if the line is the root's.                        *)
Keeps(who) ==
    /\ program = who
    /\ \E line \in ToSet(unread) :
          /\ Returned(line)
          /\ IF OfRoot(line)
             THEN /\ available' = ToInt(InKib(usage[line.dir].avail, usage[line.dir]))
                  /\ total_v' = ToInt(InKib(usage[line.dir].blocks, usage[line.dir]))
             ELSE UNCHANGED <<available, total_v>>
    /\ UNCHANGED printed

DfGet == Keeps("checkdisk.cpp")

DfGetBack == Keeps("checkdiskback.cpp")

DfGetC == Keeps("checkdisk.c")

(* Or it prints those of any line, as longs, statfs2.c with their ratio, or *)
(* through the unsigned ints of print_avail.                                *)
UnsignedVariant(n) == ToInt(n)

Unsigned(n) == n % (2 * IntHalf)

Figure(n) == IF program = "statfss.c" THEN Unsigned(n) ELSE n

PrintsLine(who) ==
    /\ program = who
    /\ \E line \in ToSet(unread) :
          /\ Returned(line)
          /\ LET u == usage[line.dir]
             IN  printed' = IF disturbed THEN printed
                            ELSE Append(printed, <<Figure(InKib(u.blocks, u)), Figure(InKib(u.avail, u))>>)
    /\ UNCHANGED <<available, total_v>>

Statfs == PrintsLine("statfs.c")

Statfs2 == PrintsLine("statfs2.c")

Statfss == PrintsLine("statfss.c")

(* dfget is at the end of the table: rewind, and the pass is over.          *)
DfEnd ==
    /\ pc = "get" /\ unread = <<>> /\ position = Len(table)
    /\ position' = Rewound /\ disturbed' = FALSE
    /\ pc' = "judge"
    /\ UNCHANGED <<program, table, usage, unread, figureVars, cwd, storeVars, rmVars>>

(* 100 * available / total_v < percent, with the doubles of C: a division   *)
(* by zero is an infinity of available's sign, and 0/0 is below nothing.    *)
Below(percent) ==
    \/ total_v > 0 /\ 100 * available < percent * total_v
    \/ total_v < 0 /\ 100 * available > percent * total_v
    \/ total_v = 0 /\ available < 0

CheckDisk == program = "checkdisk.cpp" /\ Below(60)

CheckDiskBack == program = "checkdiskback.cpp" /\ Below(20)

CheckDiskC == program = "checkdisk.c"

Deletes == CheckDisk \/ CheckDiskBack \/ CheckDiskC

Judge ==
    /\ pc = "judge"
    /\ pc' = IF Deletes THEN "delete" ELSE "sleep"
    /\ printed' = <<>>
    /\ UNCHANGED <<program, table, usage, streamVars, available, total_v, seen, cwd, storeVars, rmVars>>

Wake ==
    /\ pc = "sleep"
    /\ pc' = "get"
    /\ UNCHANGED <<program, table, usage, streamVars, figureVars, cwd, storeVars, rmVars>>

-----------------------------------------------------------------------------
(* Deleting                                                                 *)

(* ls -d */ -ltr where the program stands, which may also print nothing of  *)
(* what there is: it could not be started, or Ctrl-C reached it.            *)
Rows(place) == IF place = "base" THEN dirs ELSE home

FirstRow(rows) == Head(rows)

(* The programs put the base directory in front of the name, but deleteOld. *)
Place == IF program = "deleteOld" THEN cwd ELSE "base"

Listing(place, rows) ==
    /\ cwd' = place
    /\ rows \in {Rows(place), <<>>}
    /\ listed' = dirs /\ mute' = (rows # Rows(place))
    /\ UNCHANGED <<program, table, usage, streamVars, figureVars, storeVars, doomed>>

(* checkdisk.cpp: the name is zeroed before the cut.  fread runs over the   *)
(* 200 bytes of the buffer, which the stack protector finds at the return.  *)
MovedVariant == cwd

Moved == IF base THEN "base" ELSE cwd

DeleteFromBase ==
    /\ pc = "delete" /\ program = "checkdisk.cpp"
    /\ \E rows \in {Rows(Moved), <<>>} :
          /\ Listing(Moved, rows)
          /\ cut' = IF rows = <<>> THEN Whole ELSE FirstRow(rows)
          /\ overrun' = (Len(rows) > StackRows)
    /\ pc' = "system"

(* checkdiskback.cpp: without chdir, and the bytes behind the ten that are  *)
(* copied were never written: the name may go on with them.                 *)
DeleteFromHere ==
    /\ pc = "delete" /\ program = "checkdiskback.cpp"
    /\ \E rows \in {Rows(cwd), <<>>} :
          /\ Listing(cwd, rows)
          /\ cut' \in IF rows = <<>> THEN {Whole} ELSE {FirstRow(rows), Stray}
    /\ overrun' = FALSE
    /\ pc' = "system"

(* checkdisk.c: sprintf writes into the format, a string literal.           *)
DeleteIntoLiteral ==
    /\ pc = "delete" /\ program = "checkdisk.c"
    /\ pc' = "crash"
    /\ UNCHANGED <<program, table, usage, streamVars, figureVars, cwd, storeVars, rmVars>>

(* deleteOld: no path in front of the name, seventeen bytes and more into   *)
(* s1[16]; an empty listing leaves rm without an operand.                   *)
DeleteHere ==
    /\ pc = "delete" /\ program = "deleteOld"
    /\ \E rows \in {Rows(cwd), <<>>} :
          /\ Listing(cwd, rows)
          /\ cut' \in IF rows = <<>> THEN {Stray} ELSE {FirstRow(rows), Stray}
    /\ overrun' = FALSE
    /\ pc' \in {"system", "crash"}

(* popen fails.                                                             *)
DeleteFails ==
    /\ pc = "delete" /\ program # "checkdisk.c"
    /\ cwd' = IF program = "checkdisk.cpp" THEN Moved ELSE cwd
    /\ pc' = IF program = "deleteOld" THEN "end" ELSE "sleep"
    /\ UNCHANGED <<program, table, usage, streamVars, figureVars, storeVars, rmVars>>

(* system(): rm -rf looks for what it was given, removes the directories    *)
(* one after the other and then, given the path alone, the base directory,  *)
(* unless the recorder has made another directory by then.  A killed rm     *)
(* leaves the rest.                                                         *)
RmStart ==
    /\ pc = "system"
    /\ doomed' = IF cut = Whole THEN ToSet(dirs) ELSE ToSet(Rows(Place)) \cap {cut}
    /\ pc' = "rm"
    /\ UNCHANGED <<program, table, usage, streamVars, figureVars, cwd, storeVars, cut, overrun, listed, mute>>

RmDirectory ==
    /\ pc = "rm"
    /\ \E i \in DOMAIN Rows(Place) :
          /\ Rows(Place)[i] \in doomed
          /\ doomed' = doomed \ {Rows(Place)[i]}
          /\ IF Place = "base" THEN dirs' = RemoveAt(dirs, i) /\ UNCHANGED home
                               ELSE home' = RemoveAt(home, i) /\ UNCHANGED dirs
    /\ UNCHANGED <<program, pc, table, usage, streamVars, figureVars, cwd, base, cut, overrun, listed, mute>>

RmReturns ==
    /\ pc' = IF overrun THEN "crash" ELSE IF program = "deleteOld" THEN "end" ELSE "sleep"
    /\ cut' = Whole /\ overrun' = FALSE /\ doomed' = {} /\ listed' = <<>> /\ mute' = FALSE
    /\ UNCHANGED <<program, table, usage, streamVars, figureVars, cwd, dirs, home>>

RmEnds ==
    /\ pc = "rm" /\ doomed = {}
    /\ base' = (base /\ ~(cut = Whole /\ dirs = <<>>))
    /\ RmReturns

RmKilled ==
    /\ pc \in {"system", "rm"}
    /\ RmReturns
    /\ UNCHANGED base

-----------------------------------------------------------------------------
(* The environment: file systems are mounted and unmounted, fill and empty, *)
(* and the recorder makes a directory.                                      *)

(* Where a reader goes on in a table that has changed under it is the       *)
(* kernel's affair; a pass that has not begun begins at the start.          *)
Remount ==
    /\ table' \in Tables \ {table}
    /\ position' \in IF position = 0 THEN {0} ELSE 0 .. Len(table')
    /\ disturbed' = (disturbed \/ position # 0)
    /\ printed' = IF position = 0 THEN printed ELSE <<>>
    /\ UNCHANGED <<program, pc, usage, unread, available, total_v, seen, cwd, storeVars, rmVars>>

Use ==
    /\ usage' \in Usages \ {usage}
    /\ disturbed' = (disturbed \/ position # 0)
    /\ printed' = IF position = 0 THEN printed ELSE <<>>
    /\ UNCHANGED <<program, pc, table, position, unread, available, total_v, seen, cwd, storeVars, rmVars>>

Record ==
    /\ base
    /\ \E n \in Names \ ToSet(dirs) : dirs' = Append(dirs, n)
    /\ UNCHANGED <<program, pc, table, usage, streamVars, figureVars, cwd, base, home, rmVars>>

Reading ==
    \/ DfOpen \/ TakeIn \/ Skip \/ DfGet \/ DfGetBack \/ DfGetC \/ Statfs \/ Statfs2 \/ Statfss
    \/ DfEnd \/ Judge \/ Wake

DeleteOld ==
    \/ DeleteFromBase \/ DeleteFromHere \/ DeleteIntoLiteral \/ DeleteHere \/ DeleteFails
    \/ RmStart \/ RmDirectory \/ RmEnds \/ RmKilled

Next == Reading \/ DeleteOld \/ Remount \/ Use \/ Record

Spec == Init /\ [][Next]_vars

(* The process is scheduled and its sleep ends; nothing is assumed of the   *)
(* file systems and of the recorder.                                        *)
FairSpec == Spec /\ WF_vars(Reading \/ DeleteOld)

-----------------------------------------------------------------------------

(* Figures fit the code: the blocks are whole KiB and the size in KiB is an *)
(* int.                                                                     *)
Fits(figures) ==
    /\ figures.bsize >= Kib /\ figures.bsize % Kib = 0
    /\ InKib(figures.blocks, figures) \in Ints

Short(percent) == 100 * seen.avail < percent * seen.blocks

(* Where the root's figures fit, space is judged short if and only if it    *)
(* was short at the last look at the root, whatever else is mounted, in     *)
(* which order, and whatever is mounted, unmounted, filled and emptied      *)
(* while a pass goes on.                                                    *)
JudgesTheRoot ==
    [][pc = "judge" /\ pc' # pc /\ seen # NoFigures /\ Fits(seen)
          => /\ program = "checkdisk.cpp" => (pc' = "delete" <=> Short(60))
             /\ program = "checkdiskback.cpp" => (pc' = "delete" <=> Short(20))]_vars

(* A directory goes that was the first of the base directory's listing, and *)
(* all of them and the base directory go only if that listing had no row,   *)
(* whatever was recorded since.  The exceptions: ls printed nothing, and    *)
(* checkdiskback.cpp does not stand there.  And the programs with a path in *)
(* front of the name touch nothing outside, wherever they are launched.     *)
DeletesTheFirst ==
    [][/\ \/ mute \/ (program = "checkdiskback.cpp" /\ cwd = "home")
          \/ /\ \A n \in ToSet(dirs) \ ToSet(dirs') : listed = <<>> \/ n = Head(listed)
             /\ base /\ ~base' => listed = <<>>
       /\ home' # home => program = "deleteOld"]_vars

(* statfs.c:87 and :67, statfss.c:103: a pass during which nothing changes  *)
(* prints the file systems of the table, each once and in order, with what  *)
(* statfs() says of them - for statfss.c where that fits an unsigned int -, *)
(* however stdio takes in the table and whatever happened in earlier        *)
(* passes.                                                                  *)
PrintedRight(who, pair, figures) ==
    LET exact == <<InKib(figures.blocks, figures), InKib(figures.avail, figures)>>
    IN  pair = exact \/ (who = "statfss.c" /\ exact[1] >= 2 * IntHalf)

PrintedUpTo(who, pairs, t, u, k) ==
    \E at \in [1 .. Len(pairs) -> 1 .. k] :
        /\ \A i, j \in 1 .. Len(pairs) : i < j => at[i] < at[j]
        /\ \A n \in 1 .. k : Returns(t[n]) => \E i \in 1 .. Len(pairs) : at[i] = n
        /\ \A i \in 1 .. Len(pairs) :
              Returns(t[at[i]]) /\ PrintedRight(who, pairs[i], u[t[at[i]].dir])

PrintsEachPass ==
    [][pc = "get" /\ pc' = "judge" /\ program \in Printers /\ ~disturbed
          => PrintedUpTo(program, printed, table, usage, Len(table))]_vars

(* A change of the file systems is noticed: when a table with a root and    *)
(* what statfs() says stay, the figures become those of the root for good,  *)
(* as long as the program runs.                                             *)
FollowsTable ==
    \A t \in {x \in Tables : \E i \in DOMAIN x : x[i].dir = Root}, u \in Usages :
        /\ program \in {"checkdisk.cpp", "checkdiskback.cpp"}
        /\ <>[](table = t /\ usage = u)
        => <>[](\/ pc \in {"end", "crash"}
                \/ /\ available = ToInt(InKib(u[Root].avail, u[Root]))
                   /\ total_v = ToInt(InKib(u[Root].blocks, u[Root])))

=============================================================================
