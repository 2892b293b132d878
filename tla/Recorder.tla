------------------------------ MODULE Recorder ------------------------------
(***************************************************************************)
(* The dashcam recorder blackbox/webcam_savesave.cpp: one process with     *)
(* three threads over one directory, the base directory.                   *)
(*                                                                         *)
(*   main           creates the base directory and the two other threads,  *)
(*                  installs the SIGINT handler and waits in pthread_join. *)
(*   thread_save    makes one directory per hour and one video file per    *)
(*                  minute in it, and writes the camera's frames.          *)
(*   thread_delete  reads the free space once a second and, below 30%,     *)
(*                  lists the directories oldest first, cuts the first     *)
(*                  name out of the listing and runs rm -rf on it.         *)
(*                                                                         *)
(* The process may be interrupted by SIGINT, lose power at any step and be *)
(* launched again on the same disk.                                        *)
(*                                                                         *)
(* Abstractions.  Time is a count of seconds.  A video file is identified  *)
(* by the second it was opened in, from which the code derives both its    *)
(* directory and its name.  A frame occupies one unit of disk space.  The  *)
(* rest of the disk is used by others, by an amount that may be different  *)
(* at every look.                                                          *)
(***************************************************************************)
EXTENDS Naturals, FiniteSets, SequencesExt

CONSTANTS
    SecondsPerMinute,   \* 60
    MinutesPerHour,     \* 60: tm_min is compared modulo the hour
    MaxClock,           \* bound: the last second of a behaviour
    MaxRuns,            \* bound: how often the program is launched
    MaxSignals,         \* bound: SIGINTs that reach the handler in one run
    HandlerSeconds,     \* 10: the sleep of sigHandler
    MinuteFrames,       \* the camera's rate: frames one file can hold
    Total,              \* size of the file system
    OtherUse,           \* amounts of it that are used by others
    WideAt,             \* files that make a directory's size column widen
    StackRows,          \* rows of the listing that fit deleteold's frame
    DirName(_),         \* the name of the directory of an hour
    CutName(_)          \* the part of a name that deleteold cuts out

SecondsPerHour == SecondsPerMinute * MinutesPerHour

Seconds == 0 .. MaxClock

HourOf(t) == t \div SecondsPerHour

(* tm_min *)
MinuteOf(t) == (t \div SecondsPerMinute) % MinutesPerHour

(* The directory of the file opened at t, and its name in it: the file name *)
(* holds hour, minute and second, the hour being in the directory's name    *)
(* too.                                                                     *)
DirOf(t) == DirName(HourOf(t))

PathOfVariant(t) == <<DirOf(t), t % SecondsPerMinute>>

PathOf(t) == <<DirOf(t), t % SecondsPerHour>>

Names == {DirOf(t) : t \in Seconds}

Cuts == {CutName(n) : n \in Names}

(* The cut of a listing that has no row, or whose first row starts late:    *)
(* rm -rf is given the base directory itself.                               *)
NoName == <<>>

Threads == {"main", "save", "delete"}

ASSUME ClockAssumption ==
    /\ SecondsPerMinute \in Nat \ {0}
    /\ MinutesPerHour \in Nat \ {0}
    /\ MaxClock \in Nat
    /\ MaxRuns \in Nat
    /\ MaxSignals \in Nat
    /\ HandlerSeconds \in Nat

ASSUME DiskAssumption ==
    /\ Total \in Nat \ {0}
    /\ OtherUse \subseteq 0 .. Total /\ OtherUse # {}
    /\ MinuteFrames \in Nat \ {0}
    /\ WideAt \in Nat
    /\ StackRows \in Nat

(* A directory name is never empty, and neither is what is cut out of it.   *)
ASSUME NameAssumption ==
    NoName \notin Names \cup Cuts

-----------------------------------------------------------------------------

VARIABLES
    clock,      \* time(NULL)
    runs,       \* launches so far
    mainpc,     \* main: "off" while the program does not run
    savepc,     \* thread_save: "off" before it exists
    delpc,      \* thread_delete: "off" before it exists
    handler,    \* the threads inside sigHandler
    exitAt,     \* the second in which the first of them calls exit(0)
    wake,       \* the second in which thread_delete's sleep(1) ends, or 0
    stamp,      \* thread_save's t: the second the names are made from
    writer,     \* the file VideoWriter has open, a set of at most one
    overrun,    \* whether the listing was too long for deleteold's frame
    rm,         \* the rm -rf child: "idle", "start", "walk"
    cut,        \* what was cut out of the listing and appended to the base path
    astray,     \* whether that is not of the first row, though there is one
    doomed,     \* the directories that rm still has to enter
    inside,     \* the directory it is in, or NoName
    victims,    \* the files it has read there and has not unlinked
    base,       \* whether the base directory exists
    dirs,       \* the hour directories, least recently modified first
    files,      \* the files that have a directory entry
    raw,        \* those among them without the index a release writes
    starved,    \* those among these whose release found the disk full
    footage     \* the frames on disk, as <<file, number>>

threadVars == <<mainpc, savepc, delpc, handler, exitAt>>
saveVars == <<stamp, writer>>
deleteVars == <<wake, overrun>>
rmVars == <<rm, cut, astray, doomed, inside, victims>>
diskVars == <<base, dirs, files, raw, starved, footage>>

vars == <<clock, runs, threadVars, saveVars, deleteVars, rmVars, diskVars>>

TypeOK ==
    /\ clock \in Seconds
    /\ runs \in 0 .. MaxRuns
    /\ mainpc \in {"off", "mkdirs", "save", "delete", "signal", "join"}
    /\ savepc \in {"off", "name", "open", "frame"}
    /\ delpc \in {"off", "dfopen", "df", "ls", "wait", "sleep"}
    /\ handler \in SUBSET Threads
    /\ exitAt \in 0 .. MaxClock + HandlerSeconds
    /\ wake \in Seconds
    /\ stamp \in Seconds
    /\ writer \in SUBSET Seconds
    /\ overrun \in BOOLEAN
    /\ rm \in {"idle", "start", "walk"}
    /\ cut \in Cuts \cup {NoName}
    /\ astray \in BOOLEAN
    /\ doomed \in SUBSET Names
    /\ inside \in Names \cup {NoName}
    /\ victims \in SUBSET Seconds
    /\ base \in BOOLEAN
    /\ dirs \in Seq(Names) /\ IsInjective(dirs)
    /\ files \in SUBSET Seconds
    /\ raw \in SUBSET Seconds
    /\ starved \in SUBSET Seconds
    /\ footage \in SUBSET (Seconds \X (1 .. MinuteFrames))

Init ==
    /\ clock = 0 /\ runs = 0
    /\ mainpc = "off" /\ savepc = "off" /\ delpc = "off"
    /\ handler = {} /\ exitAt = 0 /\ wake = 0
    /\ stamp = 0 /\ writer = {}
    /\ overrun = FALSE
    /\ rm = "idle" /\ cut = NoName /\ astray = FALSE
    /\ doomed = {} /\ inside = NoName /\ victims = {}
    /\ base = FALSE /\ dirs = <<>>
    /\ files = {} /\ raw = {} /\ starved = {} /\ footage = {}

-----------------------------------------------------------------------------
(* The disk.  A definition whose name ends in Variant, Whole or Short is a  *)
(* wrong form of the one it precedes: the properties are checked to tell    *)
(* the two apart.                                                           *)

FramesOf(f) == {x \in footage : x[1] = f}

FilesIn(d) == {f \in files : DirOf(f) = d}

(* The amounts others can be using while the frames are stored.             *)
OtherNow == {o \in OtherUse : o + Cardinality(footage) <= Total}

Available(o) == Total - o - Cardinality(footage)

(* The readings with AvailPer < 30.00 *)
LowReadings == {a \in 0 .. Total : 100 * a < 30 * Total}

LowVariant(o) == Available(o) \in 0 .. Total

Low(o) == Available(o) \in LowReadings

(* ls aligns its rows: one directory whose size takes a fifth digit moves   *)
(* every name one byte to the right.                                        *)
RowsShifted == \E d \in ToSet(dirs) : Cardinality(FilesIn(d)) >= WideAt

(* The first row of ls -ltr, and the bytes of it that deleteold cuts out.   *)
FirstRowVariant == dirs[Len(dirs)]

FirstRow == Head(dirs)

RowNameWhole == FirstRow

RowNameShort == SubSeq(FirstRow, 1, Len(FirstRow) - 1)

RowName == CutName(FirstRow)

(* mkdir makes one level only.                                              *)
ParentThereVariant == TRUE

ParentThere == base

(* What the release at the head of VideoWriter::open leaves on the disk: an *)
(* index in the file that was open, if there is room for it, and none of    *)
(* the frames of a file that was unlinked while it was open.                *)
StillRawVariant(o) == raw

StillRaw(o) == IF Available(o) > 0 THEN raw \ writer ELSE raw

StillStarved(o) ==
    IF Available(o) > 0 THEN starved \ writer ELSE starved \cup (raw \cap writer)

Released == {x \in footage : x[1] \in files}

(* The process ends: its threads go, the file it had open is closed without *)
(* a release, and frames that were only kept by the open file are freed.    *)
ProcessEnds ==
    /\ mainpc' = "off" /\ savepc' = "off" /\ delpc' = "off"
    /\ handler' = {} /\ exitAt' = 0
    /\ stamp' = 0 /\ writer' = {}
    /\ wake' = 0 /\ overrun' = FALSE
    /\ footage' = Released
    /\ UNCHANGED <<clock, runs, base, dirs, files, raw, starved>>

Live(th) == mainpc # "off" /\ th \notin handler

-----------------------------------------------------------------------------
(* main                                                                     *)

(* The program is launched, not while the rm of an earlier run is at work.  *)
Launch ==
    /\ mainpc = "off" /\ rm = "idle" /\ runs < MaxRuns
    /\ mainpc' = "mkdirs"
    /\ runs' = runs + 1
    /\ UNCHANGED <<clock, savepc, delpc, handler, exitAt, saveVars, deleteVars, rmVars, diskVars>>

MakeDirectory ==
    /\ Live("main") /\ mainpc = "mkdirs"
    /\ base' = TRUE
    /\ mainpc' = "save"
    /\ UNCHANGED <<clock, runs, savepc, delpc, handler, exitAt, saveVars, deleteVars, rmVars,
                   dirs, files, raw, starved, footage>>

CreateSave ==
    /\ Live("main") /\ mainpc = "save"
    /\ savepc' = "name"
    /\ mainpc' = "delete"
    /\ UNCHANGED <<clock, runs, delpc, handler, exitAt, saveVars, deleteVars, rmVars, diskVars>>

CreateDelete ==
    /\ Live("main") /\ mainpc = "delete"
    /\ delpc' = "dfopen"
    /\ mainpc' = "signal"
    /\ UNCHANGED <<clock, runs, savepc, handler, exitAt, saveVars, deleteVars, rmVars, diskVars>>

(* signal(SIGINT, sigHandler); from here on main waits in pthread_join for  *)
(* threads that never return.                                               *)
InstallHandler ==
    /\ Live("main") /\ mainpc = "signal"
    /\ mainpc' = "join"
    /\ UNCHANGED <<clock, runs, savepc, delpc, handler, exitAt, saveVars, deleteVars, rmVars,
                   diskVars>>

-----------------------------------------------------------------------------
(* thread_save                                                              *)

(* time, localtime, sprintf and mkdir.  Its result is ignored: nothing is   *)
(* made when the directory exists, when there is no base directory any more *)
(* or no space.                                                             *)
NameDirectory ==
    /\ Live("save") /\ savepc = "name"
    /\ stamp' = clock
    /\ \/ /\ ParentThere /\ DirOf(clock) \notin ToSet(dirs)
          /\ \E o \in OtherNow : Available(o) > 0
          /\ dirs' = Append(dirs, DirOf(clock))
       \/ /\ \/ ~ParentThere
             \/ DirOf(clock) \in ToSet(dirs)
             \/ \E o \in OtherNow : Available(o) = 0
          /\ UNCHANGED dirs
    /\ savepc' = "open"
    /\ UNCHANGED <<clock, runs, mainpc, delpc, handler, exitAt, writer, deleteVars, rmVars,
                   base, files, raw, starved, footage>>

(* The file is created, or emptied when the path exists.                    *)
OpenFile ==
    /\ Live("save") /\ savepc = "open"
    /\ DirOf(stamp) \in ToSet(dirs)
    /\ LET old == {f \in files : PathOf(f) = PathOf(stamp)}
       IN  /\ files' = (files \ old) \cup {stamp}
           /\ \E o \in OtherNow :
                 /\ raw' = (StillRaw(o) \ old) \cup {stamp}
                 /\ starved' = StillStarved(o) \ old
           /\ footage' = {x \in Released : x[1] \notin old}
           /\ dirs' = IF old = {} THEN Append(RemoveFirst(dirs, DirOf(stamp)), DirOf(stamp))
                                 ELSE dirs
    /\ writer' = {stamp}
    /\ savepc' = "frame"
    /\ UNCHANGED <<clock, runs, mainpc, delpc, handler, exitAt, stamp, deleteVars, rmVars, base>>

(* The directory is not there, or the codec or the disk refuses: a message, *)
(* and on with a closed writer.                                             *)
OpenFails ==
    /\ Live("save") /\ savepc = "open"
    /\ \E o \in OtherNow : raw' = StillRaw(o) /\ starved' = StillStarved(o)
    /\ footage' = Released
    /\ writer' = {}
    /\ savepc' = "frame"
    /\ UNCHANGED <<clock, runs, mainpc, delpc, handler, exitAt, stamp, deleteVars, rmVars,
                   base, dirs, files>>

(* read, write, and the comparison of the minute, which comes after the     *)
(* write.  A write to a closed writer or to a full disk is lost silently.   *)
(* MinuteFrames bounds the frames of a minute, the one that finds the       *)
(* minute over included.                                                    *)
GrabFrame ==
    /\ Live("save") /\ savepc = "frame"
    /\ LET over == MinuteOf(clock) # MinuteOf(stamp)
           n == Cardinality(UNION {FramesOf(f) : f \in writer})
       IN  /\ IF over THEN n < MinuteFrames ELSE n + 1 < MinuteFrames
           /\ \E o \in OtherNow :
                 footage' = footage \cup
                              {<<f, n + 1>> : f \in {g \in writer : Available(o) > 0}}
           /\ savepc' = IF over THEN "name" ELSE "frame"
    /\ UNCHANGED <<clock, runs, mainpc, delpc, handler, exitAt, saveVars, deleteVars, rmVars,
                   base, dirs, files, raw, starved>>

EmptyFrame ==
    /\ Live("save") /\ savepc = "frame"
    /\ savepc' = "name"
    /\ UNCHANGED <<clock, runs, mainpc, delpc, handler, exitAt, saveVars, deleteVars, rmVars,
                   diskVars>>

-----------------------------------------------------------------------------
(* thread_delete                                                            *)

DfOpen ==
    /\ Live("delete") /\ delpc = "dfopen"
    /\ delpc' = "df"
    /\ UNCHANGED <<clock, runs, mainpc, savepc, handler, exitAt, saveVars, deleteVars, rmVars,
                   diskVars>>

(* fopen fails: perror, and then dfget is given the null pointer.           *)
DfOpenFails ==
    /\ Live("delete") /\ delpc = "dfopen"
    /\ ProcessEnds
    /\ UNCHANGED rmVars

(* sleep(1); the last second of a behaviour has no next one.                *)
Sleep ==
    /\ wake' = IF clock < MaxClock THEN clock + 1 ELSE MaxClock
    /\ delpc' = "sleep"

Df ==
    /\ Live("delete") /\ delpc = "df"
    /\ \E o \in OtherNow :
          \/ Low(o) /\ delpc' = "ls" /\ UNCHANGED wake
          \/ ~Low(o) /\ Sleep
    /\ UNCHANGED <<clock, runs, mainpc, savepc, handler, exitAt, saveVars, overrun, rmVars,
                   diskVars>>

(* popen("ls -d */ -ltr"), the cut and system("rm -rf ...").  A listing of  *)
(* more than StackRows rows overruns the function's frame.                  *)
List ==
    /\ Live("delete") /\ delpc = "ls"
    /\ cut' = IF dirs = <<>> \/ RowsShifted THEN NoName ELSE RowName
    /\ astray' = RowsShifted
    /\ overrun' = (Len(dirs) > StackRows)
    /\ rm' = "start"
    /\ delpc' = "wait"
    /\ UNCHANGED <<clock, runs, mainpc, savepc, handler, exitAt, saveVars, wake,
                   doomed, inside, victims, diskVars>>

(* The pipe ends without a byte: Ctrl-C reached ls too, or the shell could  *)
(* not start it.  chars_read only decides whether the listing is printed.   *)
ListNothing ==
    /\ Live("delete") /\ delpc = "ls"
    /\ cut' = NoName
    /\ astray' = (dirs # <<>>)
    /\ overrun' = FALSE
    /\ rm' = "start"
    /\ delpc' = "wait"
    /\ UNCHANGED <<clock, runs, mainpc, savepc, handler, exitAt, saveVars, wake,
                   doomed, inside, victims, diskVars>>

ListFails ==
    /\ Live("delete") /\ delpc = "ls"
    /\ Sleep
    /\ UNCHANGED <<clock, runs, mainpc, savepc, handler, exitAt, saveVars, overrun, rmVars,
                   diskVars>>

(* deleteold returns from system().  The stack protector finds the overrun. *)
Return ==
    /\ Live("delete") /\ delpc = "wait" /\ rm = "idle"
    /\ \/ /\ overrun
          /\ ProcessEnds
       \/ /\ ~overrun
          /\ Sleep
          /\ UNCHANGED <<clock, runs, mainpc, savepc, handler, exitAt, saveVars, overrun,
                         diskVars>>
    /\ UNCHANGED rmVars

Wake ==
    /\ Live("delete") /\ delpc = "sleep"
    /\ clock >= wake
    /\ wake' = 0
    /\ delpc' = "df"
    /\ UNCHANGED <<clock, runs, mainpc, savepc, handler, exitAt, saveVars, overrun, rmVars,
                   diskVars>>

-----------------------------------------------------------------------------
(* rm -rf, a process of its own.  It reads what it was given, enters the    *)
(* directories one after the other, unlinks the files it has read there one *)
(* by one and removes the directory if it is empty then; at last it removes *)
(* the base directory, if that is what it was given.                        *)

RmIdle ==
    /\ rm' = "idle" /\ cut' = NoName /\ astray' = FALSE
    /\ doomed' = {} /\ inside' = NoName /\ victims' = {}

RmStart ==
    /\ rm = "start"
    /\ doomed' = IF cut = NoName THEN ToSet(dirs) ELSE ToSet(dirs) \cap {cut}
    /\ rm' = "walk"
    /\ UNCHANGED <<clock, runs, threadVars, saveVars, deleteVars, cut, astray, inside, victims,
                   diskVars>>

RmEnter ==
    /\ rm = "walk" /\ inside = NoName
    /\ \E d \in doomed :
          /\ doomed' = doomed \ {d}
          /\ inside' = d
          /\ victims' = FilesIn(d)
    /\ UNCHANGED <<clock, runs, threadVars, saveVars, deleteVars, rm, cut, astray, diskVars>>

(* What is unlinked is a path, whichever file that is by now.               *)
RmUnlink ==
    /\ rm = "walk"
    /\ \E f \in victims :
          /\ victims' = victims \ {f}
          /\ files' = {g \in files : PathOf(g) # PathOf(f)}
    /\ raw' = raw \cap files' /\ starved' = starved \cap files'
    /\ footage' = {x \in footage : x[1] \in files' \cup writer}
    /\ UNCHANGED <<clock, runs, threadVars, saveVars, deleteVars, rm, cut, astray, doomed, inside,
                   base, dirs>>

RmDirectory ==
    /\ rm = "walk" /\ inside # NoName /\ victims = {}
    /\ dirs' = IF FilesIn(inside) = {} THEN RemoveFirst(dirs, inside) ELSE dirs
    /\ inside' = NoName
    /\ UNCHANGED <<clock, runs, threadVars, saveVars, deleteVars, rm, cut, astray, doomed, victims,
                   base, files, raw, starved, footage>>

RmEnds ==
    /\ rm = "walk" /\ inside = NoName /\ doomed = {}
    /\ base' = (base /\ ~(cut = NoName /\ dirs = <<>>))
    /\ RmIdle
    /\ UNCHANGED <<clock, runs, threadVars, saveVars, deleteVars, dirs, files, raw, starved, footage>>

(* Ctrl-C reaches rm, which does not ignore it, or rm could not be started. *)
RmKilled ==
    /\ rm # "idle"
    /\ RmIdle
    /\ UNCHANGED <<clock, runs, threadVars, saveVars, deleteVars, diskVars>>

-----------------------------------------------------------------------------
(* The environment                                                          *)

Tick ==
    /\ clock < MaxClock
    /\ clock' = clock + 1
    /\ UNCHANGED <<runs, threadVars, saveVars, deleteVars, rmVars, diskVars>>

(* SIGINT before the handler is installed ends the process.                 *)
InterruptEarly ==
    /\ mainpc \in {"mkdirs", "save", "delete", "signal"}
    /\ delpc # "wait"
    /\ ProcessEnds
    /\ UNCHANGED rmVars

(* The kernel gives SIGINT to main if main does not block it, that is, is   *)
(* not in the handler, and else to any other thread.  system() makes the    *)
(* process ignore it while rm runs.  A thread in the handler sleeps there   *)
(* and then ends the process.                                               *)
Interrupt ==
    /\ mainpc = "join" /\ delpc # "wait" /\ Cardinality(handler) < MaxSignals
    /\ \E th \in Threads \ handler :
          /\ th # "main" => "main" \in handler
          /\ handler' = handler \cup {th}
    /\ exitAt' = IF handler = {} THEN clock + HandlerSeconds ELSE exitAt
    /\ UNCHANGED <<clock, runs, mainpc, savepc, delpc, saveVars, deleteVars, rmVars, diskVars>>

(* exit(0) in sigHandler.  The rm child is not killed by it.                *)
Exit ==
    /\ handler # {} /\ clock >= exitAt
    /\ ProcessEnds
    /\ UNCHANGED rmVars

(* The power is cut, for every process.                                     *)
PowerLoss ==
    /\ mainpc # "off"
    /\ ProcessEnds
    /\ RmIdle

-----------------------------------------------------------------------------

Main == MakeDirectory \/ CreateSave \/ CreateDelete \/ InstallHandler

Save == NameDirectory \/ OpenFile \/ OpenFails \/ GrabFrame \/ EmptyFrame

Delete == DfOpen \/ DfOpenFails \/ Df \/ List \/ ListNothing \/ ListFails \/ Return \/ Wake

Rm == RmStart \/ RmEnter \/ RmUnlink \/ RmDirectory \/ RmEnds \/ RmKilled

Environment == Launch \/ Tick \/ InterruptEarly \/ Interrupt \/ Exit \/ PowerLoss

Next == Main \/ Save \/ Delete \/ Rm \/ Environment

Spec == Init /\ [][Next]_vars

-----------------------------------------------------------------------------
(* Safety                                                                   *)

(* The disk is roomy for files when others never use so much of it that a   *)
(* single minute's file makes it low.                                       *)
RoomForFile ==
    \A o \in OtherUse : 100 * (Total - o - MinuteFrames) >= 30 * Total

(* The inductive invariant behind BaseLostOnlyAstray, of which StoreOK     *)
(* relates the directory entries to each other, FootageOK the frames to     *)
(* the files, WriterOK says that one file is open, and                     *)
(* ListingOK what thread_delete has seen to what is still there.            *)
StoreOK ==
    /\ ~base => dirs = <<>>
    /\ \A f \in files : DirOf(f) \in ToSet(dirs)
    /\ starved \subseteq raw /\ raw \subseteq files

FootageOK == \A x \in footage : x[1] \in files \cup writer

WriterOK == \A f, g \in writer : f = g

ListingOK ==
    /\ delpc = "ls" => dirs # <<>>
    /\ cut = NoName /\ rm # "idle" => astray
    /\ mainpc \in {"off", "mkdirs", "save", "delete"} => delpc = "off"
    /\ rm # "idle" => delpc = "wait" \/ mainpc = "off"
    /\ doomed \subseteq ToSet(dirs) /\ inside \in (ToSet(dirs) \cup {NoName}) \ doomed
    /\ \A f \in victims : DirOf(f) = inside
    /\ rm # "walk" => doomed = {} /\ inside = NoName

Inductive == TypeOK /\ StoreOK /\ FootageOK /\ WriterOK /\ ListingOK

(* rm -rf is given the base directory itself, with every recording, only    *)
(* when the listing was misread, its rows being shifted or ls having        *)
(* printed nothing of the directories there are: on a disk that is roomy    *)
(* for files deleteold never meets an empty store, because low space means  *)
(* stored frames outside the open file, these are in listed directories,    *)
(* and no other thread removes a directory between df and ls.               *)
BaseLostOnlyAstray == [][base /\ ~base' => astray]_vars

(* What HourNames finds of the names: they differ from hour to hour, and    *)
(* what is cut out of one is never the name of a later hour.                *)
NamesInOrder ==
    \A s, t \in Seconds :
        /\ DirOf(s) = DirOf(t) => HourOf(s) = HourOf(t)
        /\ CutName(DirOf(s)) = DirOf(t) => HourOf(t) <= HourOf(s)

(* An rm that was given a directory never deletes a recording while one of  *)
(* an earlier hour is there, however far it comes: the listing is by        *)
(* modification time, and only thread_save touches a directory.             *)
OldestFirst ==
    [][cut # NoName =>
          \A f \in files \ files', g \in files' : HourOf(f) <= HourOf(g)]_vars

(* A run leaves at most one file without an index, the one that was open    *)
(* when it ended, however it ended, besides those it closed on a full disk. *)
TornFilesBound == Cardinality(raw \ starved) <= runs

(* Opening a file overwrites no recording but one of the very same second:  *)
(* the frames of a recording only go when rm unlinks it, or when            *)
(* thread_save, sent back by an empty frame, opens the path of that second  *)
(* again.                                                                   *)
NoOverwrite ==
    [][\A x \in footage : x[1] \in files /\ x \notin footage'
          => \/ rm = "walk" /\ DirOf(x[1]) = inside
             \/ savepc = "open" /\ x[1] = stamp]_vars

(* The store, as the abstract specification sees it.                        *)
Store == INSTANCE Retention
            WITH kept <- files, misaligned <- astray, Recordings <- Seconds

(* Threads, launches, crashes and rm together do no more to the recordings  *)
(* than the abstract store allows: the newest is added, what goes is of the *)
(* oldest hour, and something else only after a listing was misread.        *)
ImplementsRetention == Store!Spec

(* Once the base directory is gone nothing in the two threads makes it      *)
(* again: no file gets a directory entry until the program is launched      *)
(* again.                                                                   *)
NoRecoveryInRun ==
    [][~base => files' = {} /\ (base' => mainpc = "mkdirs")]_vars

(* The disk is roomy for hours when a single hour's files never make it     *)
(* low.                                                                     *)
RoomForHour ==
    \A o \in OtherUse : 100 * (Total - o - SecondsPerHour * MinuteFrames) >= 30 * Total

(* On a disk that is roomy for hours rm does not unlink the file that is    *)
(* being written, unless it was given the whole base directory.             *)
CurrentFileKept ==
    [][\A f \in writer \cap files : f \in files' \/ writer' # writer \/ astray]_vars

(* A directory whose name is longer than the cut blocks deletion for good   *)
(* once it is the oldest and its hour is over: as long as no listing is     *)
(* misread every later rm is given a name that does not exist, whatever     *)
(* threads, signals, power losses and launches do.                          *)
Blocked ==
    /\ dirs # <<>>
    /\ CutName(Head(dirs)) \notin ToSet(dirs)
    /\ DirOf(clock) # Head(dirs)
    /\ savepc = "open" => DirOf(stamp) # Head(dirs)
    /\ rm # "idle" => cut \notin ToSet(dirs) \cup {NoName}
    /\ doomed = {} /\ inside = NoName

BlockedForGood ==
    [][Blocked => (Blocked' /\ Head(dirs') = Head(dirs)) \/ astray']_vars

-----------------------------------------------------------------------------
(* Liveness                                                                 *)

(* The scheduler runs every thread that can run, time passes, the sleeping  *)
(* handler wakes up, popen does not fail for ever, and neither is rm killed *)
(* for ever: one that is killed with nothing left to do has ended.          *)
Fairness ==
    /\ WF_vars(MakeDirectory \/ CreateSave \/ CreateDelete \/ InstallHandler)
    /\ WF_vars(NameDirectory) /\ WF_vars(OpenFile \/ OpenFails)
    /\ WF_vars(DfOpen \/ DfOpenFails) /\ WF_vars(Df) /\ SF_vars(List)
    /\ WF_vars(Return) /\ WF_vars(Wake)
    /\ WF_vars(RmStart \/ RmEnter \/ RmUnlink \/ RmDirectory \/ RmEnds)
    /\ <>[][RmKilled => RmEnds]_vars
    /\ WF_vars(Exit) /\ WF_vars(Tick)

FairSpec == Spec /\ Fairness

(* Whatever the others use, space is low.                                   *)
LowForAll == \A o \in OtherUse : Low(o)

(* Low space does not last: thread_delete frees enough of it or the process *)
(* ends.                                                                    *)
SpaceReclaimed == LowForAll /\ delpc # "off" ~> ~LowForAll \/ delpc = "off"

=============================================================================
