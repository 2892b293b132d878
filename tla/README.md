# TLA+ models of the dashcam recorder and its companion programs

The repository is a student team's dashcam: a recorder in C++ that has run on a
Jetson board (`blackbox/`), the exercises that led to it (`project/`, of which
`etc/` and `testdir/` hold byte-identical copies), object detectors in Python and
model-training notebooks. Everything below speaks of paths under `src/`.

The recorder, `blackbox/webcam_savesave.cpp`, is the program that matters: it
records for ever, deletes what is oldest, and its only test is to leave it
running. It comes first here. The models are state machines in plain TLA+; TLC
checks them on small instances and TLAPS checks the theorems.

## 1. Inventory

| Component | State | Operations | Interacts with | Hard behaviour | What makes it correct |
|---|---|---|---|---|---|
| **Recorder** `webcam_savesave.cpp` | base directory, hour directories, video files, open writer, three threads, `rm` child | `main`, `MakeDirectory`, `thread_save`, `thread_delete`, `deleteold`, `sigHandler` | threads share the tree and the working directory; `popen`, `system`, signals | `rm -rf` against a running writer, a listing cut at fixed bytes or empty, SIGINT, power loss, relaunch, full disk | only the oldest is deleted, never everything; nothing is overwritten; at most one file per run is broken but for a full disk; space is reclaimed |
| **Early recorder** `webcam_save.cpp` | the same | the same threads, another `main` | the same | SIGINT without a handler | as above, and `rm` never outlives it |
| **Names** lines 163-164 and 311-315 | none | `sprintf`, the ten-byte cut | written by `thread_save`, read back by `deleteold` | digits without padding, a name longer than the cut | a name is unique while it is kept; the cut gives the name back |
| **Free-space monitors** `checkdisk.cpp`, `checkdiskback.cpp`, `checkdisk.c`, `deleteOld*`, `statfs*.c` | position in `/proc/mounts`, `available`, `total_v`, working directory | `dfopen`, `dfget`, `deleteold` | `dfget` became the recorder's | `int` widths, division before multiplication, no root line, mounts and sizes that change during a pass, a recorder that makes directories between `ls` and `rm` | the percentage is that of the root file system; what goes was the first of the listing |
| **Shared-memory transfer** `Blackbox/client.c`, `server.c` | segment with `check` and `data`, the server's file | fill and post, copy and acknowledge, create, remove | one flag polled by both | start order, overlapping launches, kills, sizes that differ, a short last block | blocks arrive in order, whole, once; nobody waits for ever |
| **Shared-memory integers** `shmTx.c`, `shmRx.c` | a segment | write all, read all, remove | none: not synchronised | any interleaving, removal under another's feet | what was printed is not printed again |
| **User-level threads** `system/scheduler.c`, `main.c` | task list, running task, saved stacks | `thread_init`, `thread_create`, `thread_switch`, `scheduler`, `thread_kill`, `task_*` | any client | a task's first switch, the end of a task, a list lost by `=` for `==` | stacks stay with their tasks; every task gets its turn |
| **Chat server** `system/chat_server.c` | `clnt_socks`, `clnt_cnt`, `clnt_sock` | accept loop, `handle_clnt` (its end is missing in the source) | one thread per client | the thread reads a variable the next accept overwrites; a thread that is not created | one thread for each client |
| **Stream programs** `echo_stdserv.c`, `peek_*.c`, `select.c` | a buffer, a FILE, a set of descriptors | read, write, peek, select | a peer, a console | end of file, closed peers, a byte-swapped port | each line is echoed once; loops end with their input |
| **Urgent data** `oob_send.c`, `oob_recv.c` | stream, urgent byte, buffer | send, recv, the SIGURG handler | TCP | the handler anywhere in `main`, an urgent byte before the last one is read | nothing twice, nothing ordinary lost |
| **Processes** `pip2.c`, `thread1.c`, `tread2.c`, `forkEx*.c`, `test.c` | pipes, buffers of stdout | fork, join, wait | two processes or threads | order, kills, a buffer copied by fork, a fork that fails | each side sees of the other what it waits for |
| **Shell** `system/shell.c` | line, tokens, child | read, tokenize, built-ins, fork and wait | child processes | end of input, 128 tokens | a line runs once; the shell ends with its input |
| **Copies of a file** `cpsys.c`, `stdcpy.c`, `Rximg.c` | two files, a buffer | read a block, write it | a program that appends to the source | short blocks, NULs, failed opens, a full disk | the copy is the source |
| **Directory makers** `makehome.c`, `blackbox.c`, `etc/blackbox2.c` | the directory tree | mkdir level by level | each other, the recorder's `rm` | races, a directory that exists | the path is there at the end |
| **Listings** `myls.c` (two), `scandir.c`, `opendir.c`, `statEx.c` | what `readdir` has still to give, `statbuf` | readdir, lstat, `access_perm` | programs that remove files | a stale `statbuf` | every row is its entry's |
| **Object detectors** `object_detector*.py` | boxes and counters in `self` | `detect_objects`, `object_boxdraw`, `count_inbox`, UI loop | a network, windows | what is kept from frame to frame | the count is that of the frame |
| **Viewers** the camera, video and picture programs | capture, window, settings | read, show, key, callbacks | the user | a closed window, a callback that releases the capture, no frame | what was closed stays closed, what was opened is released |
| **Training** `mykeras/train2.py`, `train.py` | arrays of fixed sizes | gather batch by batch, fit, save | a generator that starts again | sizes that do not fit, broadcast of a single row | every row is an image |

`PROJECT.json` lists every component with its status and every hazard with its
line. What is left out is listed in section 6.

## 2. Modules

| Module | What it is |
|---|---|
| `Recorder` | the recorder: threads, disk, `rm`, signals, power loss, relaunch; its properties |
| `Retention` | what the store promises, without threads: the abstract specification |
| `HourName` | the directory name of an hour and `deleteold`'s cut, on sequences of digits |
| `HourNames` | a walk through all hours of a year, and what holds of their names |
| `MCRecorder` | `Recorder` with real names from `HourName`, for TLC |
| `RecorderEarly`, `MCRecorderEarly` | the recorder before it had a signal handler |
| `DiskMonitor`, `MCDiskMonitor` | the programs that read `/proc/mounts`; its tables of mounts |
| `ShmExchange` | `client.c` and `server.c` over their segment |
| `GreenThreads` | `scheduler.c` under any client |
| `StreamPrograms`, `ChatServer`, `MCNetwork` | the network programs; the two in one run |
| `ShmIntegers`, `Shell`, `CopyPrograms`, `DirPrograms`, `Listing`, `ObjectCounter`, `UrgentData`, `Processes`, `Viewers`, `TrainScripts`, `MCPrograms` | the programs that stand alone; all in one run |
| `RecorderProofs`, `RecorderOrderProofs`, `HourNameProofs`, `HourNamesProofs`, `GreenThreadsProofs`, `ShmExchangeProofs`, `DiskMonitorProofs`, `ProgramsProofs` | the theorems, and the inductive invariants behind them; `ProgramsProofs` has a section for each of the twelve smaller components |

### 2.1 Recorder

The code's three threads are three program counters; a value of a counter is the
place where the thread stands next.

| Code | Actions |
|---|---|
| `main` 104-131 | `Launch`, `MakeDirectory` (208-234), `CreateSave` (114), `CreateDelete` (115), `InstallHandler` (117); then it waits in `pthread_join` |
| `thread_save` 134-203 | `NameDirectory` (time, name, `mkdir`), `OpenFile` / `OpenFails` (167-175), `GrabFrame` (read, write, comparison of the minute), `EmptyFrame` |
| `thread_delete` 242-281 | `DfOpen` / `DfOpenFails`, `Df` (259-273), `Wake`; `Sleep` is part of the actions that end in `sleep(1)` |
| `deleteold` 285-332 | `List` (listing, cut, `system`), `ListNothing` (the pipe ends without a byte), `ListFails` (`popen` gives NULL), `Return` |
| the `rm -rf` process | `RmStart` (looks up what it was given), `RmEnter` (reads a directory), `RmUnlink` (one file), `RmDirectory`, `RmEnds`, `RmKilled` |
| `sigHandler` 337-348 | `Interrupt`, `Exit`; `InterruptEarly` is SIGINT before line 117 |
| the world | `Tick`, `PowerLoss` |

Decisions that matter:

* **`List` is one step.** The `ls` child reads the directory once, and the cut is of
  what it read. `rm`, a process of its own, looks only later (`RmStart`), so that
  `thread_save` may make directories and files in between, and it walks: it enters
  one directory after the other, reads it, and unlinks file after file. A
  power loss or a Ctrl-C between any two of these steps leaves the rest.
* **`ls` may print nothing.** Ctrl-C reaches the whole foreground group and so `ls` and
  its shell, or the shell cannot fork. `fread` then gives 0 bytes, which only keeps
  the listing from being printed (line 303); the cut is empty, and `rm -rf` is given the
  base directory whatever is in it. `astray` says that what `rm` was given is not of the first row
  though there is one: after `ListNothing` or a shifted row.
* **Files are seconds.** A file is named after the second it was opened in, so
  the second identifies it; `PathOf` is the path the code prints. `dirs` is the
  sequence `ls -tr` prints: `mkdir` and the creation of a file move a directory
  to its young end, the overwriting of a file does not.
* **The row.** `deleteold` copies ten bytes from byte 47 of the first row. With
  the listing format of the target board (Korean locale, seven-byte user and
  group, sizes of four digits) byte 47 is the first of the name. A directory
  whose own size needs a fifth digit, which an ext4 directory reaches after about
  341 of these files, as when the camera returns only empty frames and the file is opened
  anew every second, moves every name right by one byte; the cut then starts with a
  space and the command becomes `rm -rf base/ name`. `RowsShifted` says when.
  A locale in which the row is always laid out otherwise is outside the model.
* **The frame of `deleteold`.** `fread` asks for `BUFSIZ` bytes into 200. In the
  shipped ARM binary the locals behind the buffer take what comes up to 1200
  bytes, about twenty rows, and more reaches the stack protector's guard:
  the process aborts when `deleteold` returns, after `rm` has run. `StackRows`
  is that number of rows.
* **SIGINT.** While `system()` waits, the process ignores it. The kernel gives
  it to `main` unless `main` is in the handler. A thread in the handler stops
  what it was doing; the others go on for the ten seconds until `exit(0)`.
  `rm` is a process of its own and survives the exit; a Ctrl-C ends it (`RmKilled`).
* **Frames.** A frame takes one unit of the disk. An unlinked file keeps its
  frames until the writer releases it. A file that was not released has no
  index (`raw`); a power loss keeps what was written. The release that `open` makes
  of the file before writes its index only where the disk has room; a file that
  was closed on a full disk is `starved`. `open` fails when the directory is missing, or
  when disk or codec refuse.
* **`OtherUse`** is what the rest of the system uses of the disk, chosen again
  at every look.

* **A launch waits for an `rm` an earlier run has left.** The later recorder can
  end while its `rm` is at work (`exit(0)` ten seconds after the signal), and a
  launch within the seconds `rm` still needs is not in the model: `Launch` asks
  for `rm = "idle"`. For the early recorder this is no restriction:
  `EarlyNoOrphan` proves that no `rm` outlives it.

Not in the model: `mkdir` of the parents failing, losses of the page cache,
several listings at once, a change of the clock, another user of the tree.

`RecorderEarly` is the same threads under `webcam_save.cpp`'s `main`: no
handler, so that SIGINT ends the process, unless `system()` has it ignored. Its
actions are those of `Recorder`, because the functions are the same word for
word; its next-state relation is its own.

`Retention` knows a set of recordings and whether the listing is out of line. It
may add a newest recording, drop one of the oldest hour, and, out of line,
drop any. `Store` in `Recorder` is `Retention` with `kept` being
`files`, those with a directory entry: a file that `rm` unlinks while it is
open is gone for whoever looks for it.

### 2.2 HourName and HourNames

A name is a sequence of digits, with the underscore as the number 10.
`Decimal` is a recursive function, as `%d` prints. `HourName` also has the calendar: the
dates of a year and their numbers in it. `HourNames` walks through the
hours of one year; its two invariants tell what `Recorder` may assume of names.

### 2.3 ShmExchange

Each program is a program counter with the segment it is attached to; a copy of a
block is two half copies, so that overlaps show. `segs` keeps every segment ever
made, because a process stays attached to one whose key was removed. With `Short` the
last block of the client's file is shorter than 1024 bytes: `fread` then leaves the bytes behind it as
they were, which `rests` (in memory) and `outRests` (in the server's file) keep apart from the two
halves. `shmget` with a size above the segment's fails. Both programs may be killed anywhere and
launched again.

### 2.4 DiskMonitor

stdio takes in a few lines of `/proc/mounts` at a time (`TakeIn`), and `fgets` gives them
one by one: `Skip` for those `dfget` passes over, and for those it returns at one
action for each program (`DfGet`, `DfGetBack`, `DfGetC` keep the root's figures in
ints, `Statfs`, `Statfs2`, `Statfss` print), with what `statfs()` says at that
moment. `DfEnd` is the end of the table and the rewind, `Judge` the three conditions (the
third is followed by a semicolon and deletes always).
`Remount` replaces the table and `Use` what `statfs()` says, at any step; `disturbed` says that
one of them did so since the pass began, and where the reader goes on in a changed table is free.

Each `deleteold` has one action for the listing and the cut, which may find nothing to print, and
`rm` has its own: `RmStart`, `RmDirectory`, `RmEnds`, `RmKilled`. `Record` is the recorder's
`mkdir`, which may come between any two of them. Figures are natural
numbers and what is stored is reduced to the width of the int (`ToInt`,
`Unsigned`), of which `IntHalf` is half the range: 2^31 in the code. `Garbage` is what ints hold that were never written. The cut of a
listing row is left to `Recorder`.

### 2.5 GreenThreads

Tasks are numbered by creation; `saved` says whose stack a saved stack pointer leads to,
`active` which code has the processor. `thread_init` creates task 1 for
`parent_task` and makes it the running one without entering it, so that the
first switch saves the stack of `main` over the prepared one. `parent_task`, which would
install the SIGUSR1 handler and fork the timer, has no action in the model, and the
theorem `ParentTaskUnreachable` says that it needs none. A task's end is one action with
`scheduler`'s deletion, since nothing can come in between. The client is any
sequence of creations, switches and ends of tasks; the repository's `main.c` is one of them.

### 2.6 The network programs

`StreamPrograms` has one variable `at` for the place where its program stands
and one peer, which calls, sends lines, and closes one or both directions.
Lines are numbered over all clients, so that a line that is echoed to the wrong
client is seen. The end-of-file flag is set as stdio sets it: after a read that
met the end, which a last line without newline does. `ListenPeek` may listen at another port than
the one given, because `htonl` leaves 0 in the two bytes of `sin_port`.

`ChatServer` keeps `main`'s `clnt_sock`, the registered clients, the calls whose
thread could be created (`pthread_create`'s result is ignored) and what each thread read from its argument. It stops at `MAX_CLNT` registered clients: the store
behind the array is undefined behaviour whose outcome depends on the build. The
file ends in the thread's loop.

### 2.7 The programs that stand alone

Each has its own module, variables and property; `MCPrograms` puts them into
one run, a behaviour being one of theirs. Where a program races something, that
is in the module: readers and writers of the integers with kills, several
directory makers at once, files removed during a listing, a source that grows
during its copy, writes that come short, SIGURG at any point, a kill of either process, a user who closes the window.

* `CopyPrograms`: bytes are NUL, newline or other, which is what `fgets`,
  `fputs`, `read` and `fread` tell apart. A write may put any part of what it is given into the
  file (`Put`): the disk is full, and no program looks.
* `Listing`: modes are numbers, and `AccessPerm` computes the ten characters
  from the bits as `access_perm` does. Entries are numbered in the order `readdir` gives them, and
  `Alphabetical` is each one's place by name, which is all that `alphasort` needs.
* `UrgentData`: the stream is a sequence of bytes numbered as they are sent, and `mark` is the last
  urgent one. When the next urgent byte comes and bytes before the mark are still unread, the byte at the
  mark stays in the stream, fetched or not (`WithUrgent`), and `main` reads it as a common one; when `main` has just
  come to the mark it is skipped, or stays if it had not arrived (`Overtaken`). `recv` does not read across the mark.
* `ObjectCounter`: a frame is its sequence of detections, each in the zone or
  not; the network may find any. The four programs differ in their loading,
  loop and clean-up, which are actions of their own.
* `Viewers`: eighteen programs with one loop; a record for each says what it
  tests and how its clean-up ends (three misspell a function). `cannyDetection.py`'s keys and the
  callbacks of `0211.py` and `event_press.py` are actions.
* `TrainScripts`: `Fits` is numpy's rule for an assignment to a slice.
* `Processes`: what is printed goes through the buffer of stdout unless it is a
  terminal; `fork` copies the buffer. `CreateFails` and `NoChild` are a failed `pthread_create`, which
  `main` reports, and a failed `fork`, whose -1 is taken for a parent's. The property speaks of how often a line was shown or
  is held (`Times`, `HowOften`).

## 3. Runs

| Run | Instance | Shows |
|---|---|---|
| `recorder_room` | one launch, 5 seconds in minutes of one second and hours of two, one SIGINT, roomy for files | `Inductive`, `BaseLostOnlyAstray`, `OldestFirst`, `NoOverwrite`, `ImplementsRetention` |
| `recorder_long` | two launches, 5 seconds, second directory with an eleven-byte name | `BlockedForGood` |
| `recorder_restart` | two launches, 4 seconds, two SIGINTs, disk nearly full | `TornFilesBound`, `NoRecoveryInRun` |
| `recorder_live` | one launch, 5 seconds, fair threads, short names, roomy for hours | `CurrentFileKept`, `SpaceReclaimed` |
| `hour_names` | all 8760 hours of 2019 | `NamesFarApart`, `CutIsAnEarlierHour` |
| `shm_exchange` | two blocks, the last one short, two launches of each program, four blocks written | `Inductive`, `TornBound`, `LostBound`, `ClientFirstLocksOut`, `NeverStuck` |
| `recorder_early` | two launches of the early recorder, 5 seconds | `NoOrphan` |
| `disk_monitor` | three tables, one without a root; a roomy, a short and a too large root; ints of five bits, two directories, one or none where the program is launched | `JudgesTheRoot`, `DeletesTheFirst`, `PrintsEachPass`, `FollowsTable` |
| `green_threads` | six tasks | `Owners`, `ParentNeverStarts`, `OneRound`, `FirstEndIsLast` |
| `network_programs` | two clients with two lines each; five accepts, four places | `ShownIsSent`, `LetsGo`, `LostOnlyToLater` |
| `single_programs` | see the bounds below | `PrintedOnce`, `EndOfInputIsNoEnd`, `CopyIsTheSource`, `MakersAgree`, `ListingIsRight`, `CountsThisFrame`, `NothingTwice`, `TwoSides`, `RowsAreImages`, `ClosedStaysClosed` |
| `shm_flag_comment` | one launch of each | a comment of `server.c` that is refuted |

What the properties say:

* `Inductive` is type correctness with four links between parts of the state:
  entries lie in listed directories, frames belong to entries or to the open
  file, one file is open, and what `thread_delete` saw is still true.
* `BaseLostOnlyAstray`: `deleteold` never meets an empty store. An empty
  listing makes the command `rm -rf base`. The store is not empty then, as low space
  means frames outside the open file, those lie in directories, and nothing
  removes a directory between `df` and `ls`. What is left, and does happen, is a listing that is
  misread: a shifted row, or an `ls` that printed nothing of what is there.
  Without `RoomForFile` the property is false: a single large file unlinked while
  it is open can make space low with nothing to list.
* `OldestFirst`: an `rm` that was given a directory unlinks no recording while one of an
  earlier hour is there, however far it comes before it is killed or the power is cut.
* `NoOverwrite`: opening truncates only the recording of the very same second.
* `CurrentFileKept`: `rm` leaves the open file alone, if hours fit on the disk and no listing is misread.
* `BlockedForGood`: a directory whose name is longer than the cut is never
  deleted once it is the oldest and its hour is over, and neither is anything
  behind it, until a listing is misread. A relaunch does not help. It is the reason why the liveness property is
  stated for short names only: with the names of `recorder_long` it is false.
* `TornFilesBound`: at most one file without index for each launch, besides those closed on a
  full disk (`starved`), of which there may be any number.
* `NoRecoveryInRun`: nothing recreates the base directory but a launch.
* `SpaceReclaimed`: low space is followed by room or by the end of the process.
* `NamesFarApart`, `CutIsAnEarlierHour`: see the modules.
* `ImplementsRetention`: all of the above about what is kept, as one refinement.
* `Inductive` (with `InOrder`), `TornBound`, `LostBound`: the file the server writes never goes
  back; only the client's store before its loop can tear or lose a block, one
  for each launch. The short block at the end of the client's file is apart: the bytes
  behind it are always those of an earlier block.
* `ClientFirstLocksOut`: 1024 bytes are asked for by the client, 1028 by the
  server; the client's segment lasts, and no server ever attaches to it.
* `NeverStuck`: the two loops do not wait for each other.
* `NoOrphan`: the early recorder's `rm` never outlives it. The later recorder has no such property.
* `JudgesTheRoot`: where the root's blocks are whole KiB and its size is an int,
  the verdict is right of what `statfs()` last said of the root, whatever else is mounted and whatever
  changes meanwhile; one of the roots is too large, and of that it says nothing. `FollowsTable`: a new table is noticed, thanks to the rewind.
  `PrintsEachPass`: a pass during which nothing changes prints the table, each file system once and
  in order, however stdio reads it and whatever earlier passes met; of a pass that is disturbed nothing is claimed.
* `DeletesTheFirst`: what goes was the first row of the listing, and everything, with the base directory,
  only after a listing without a row, which may take along what the recorder has made since.
  `checkdisk.cpp`'s `chdir` is what makes the listing that of the base directory; `checkdiskback.cpp` has none
  and is excepted when launched elsewhere. The other exception is an `ls` that prints nothing.
* `Owners`, `OneRound`, `ParentNeverStarts`, `FirstEndIsLast`: the library switches
  rightly between tasks that never end, without preemption; the end of any
  task is the end of the process.
* `ShownIsSent`, `LetsGo`: what the echo server echoes and when the loops end,
  with their exceptions: the last line twice, another client's line, a poll for
  ever when the peer ends without a byte.
* `LostOnlyToLater`: what is left of one thread per client; a client whose thread could not be
  created is served by none.
* The properties of the other programs say likewise what holds exactly, with
  the exceptions the code has; each is stated in words in its module.

**The finding.** `server.c:61` says "check가 0이면 공유메모리에 도착한 데이터가
없다는 의미" (check 0 means that no data has arrived). Lines 67-70 take data when
`check` is 0, and `client.c:44` stores 0 when it has put data there.

**Bounds.** The smallest instances in which the hazards occur: two or three hours
so that there is an oldest directory and a current one, two minutes in an hour so
that a directory has two files, two frames in a minute so that a file can be
partly written. `MaxClock`, `MaxRuns`, `MaxSignals`, `MinuteFrames`, `MaxOut`,
`MaxClients`, `MaxServers` are the bounds; none of them occurs in a property
except as a capacity. Runs stop at `MaxClock`, hence `CHECK_DEADLOCK FALSE`, as in
all runs of programs that end. `LostBound` and its companions were also checked with three blocks.
In `disk_monitor` five bits and a KiB of two bytes make room for a size that
overflows, a block below a KiB and sizes that fit, with one more device in front or behind.
In `green_threads` four tasks would do for every place of a task in the list.
In `single_programs`: three launches on a segment of two integers (a writer and two readers, or two and one); lines
of up to three words for three tokens; a source of five bytes and blocks of three, so
that it ends in a block, with one or between; three directory makers over two hours
and a path that shares a part with the working directory; three entries with four modes,
each special bit once; three frames with up to three detections; arrays of five rows for batches of three
and up to seven images, so that there are fewer, as many and more of them. The four pieces of
`UrgentData` are those of the program.

**Fairness.** In `Recorder` every thread runs (the kernel schedules it), time
passes, `rm` goes on and is not killed for ever (with something left to do), a handler's sleep ends. `List` is strongly fair: `popen` may
fail now and then, but not for ever. No fairness is assumed of the camera, of
signals, of crashes or of launches. In `ShmExchange` each program's loop is
weakly fair; launches and kills are not. In `DiskMonitor` the program is weakly
fair, mounts and recorder are not. In `MCNetwork` the programs are weakly fair, the peers are
not: they may stop sending, and never close.

## 4. Proofs

`RecorderProofs`, for every value of the constants:

* `TypeCorrect`: `Spec => []TypeOK`. One lemma per group of actions. The two
  places that are not immediate are the directory listing, which stays a sequence
  without repetition (the lemmas at the beginning of the module), and the count of frames in a file, which
  stays below `MinuteFrames` (finite-set theorems).
* `StoreConsistent`: `RoomForFile => (Spec => []Inductive)`. `TypeOK` with the
  links is inductive; no part is inductive alone. The step that needs
  `RoomForFile` is `Df`: with low space there are more than `MinuteFrames`
  frames, the open file holds at most that many, so some frame lies in another
  file (`WriterOK`, `FootageOK`), which lies in a listed directory (`StoreOK`):
  the lemma `LowMeansListed`. `ListingOK` carries that to `List`.
* `BaseSafe`: `RoomForFile => (Spec => BaseLostOnlyAstray)`, from the above.
* `NoRecovery`: `Spec => NoRecoveryInRun`, on every disk. It rests on `TypeOK` and
  `StoreOK` alone, which are inductive without the rest (`StoreStep`): when the base
  directory is gone nothing is listed, so no file can be created.
* `TornFiles`: `Spec => []TornFilesBound`, on every disk. The bound is not inductive;
  `TornOK` is, with `WriterOK`: a run under way has, besides its open file and the starved ones, only the
  files earlier runs left, so that its end adds one at most (`OneOpen`).

`RecorderOrderProofs`, for names that keep the hours in order (`NamesInOrder`, see below):

* `OrderKeptForever`: the listing is sorted by hour (`ListedByHour`), the file being
  written is the newest (`NewestLast`), and what `rm` was given is the oldest there
  is (`CutIsOldest`). The three are inductive together: that the current hour is last
  comes from the clock and `NewestLast`, and it is what keeps the listing sorted when
  `thread_save` touches a directory.
* `DeletesOldest` (`OldestFirst`): a file that `rm` unlinks is one of the directory it is in (`WalkOK`), which
  is the oldest; `CutIsOldest` holds until `rm` is over, so that it does for every single unlink.
* `NothingOverwritten` (`NoOverwrite`): a file that is opened again is the newest, so of the same second.
* `StoreRefined` (`RoomForFile` too): `ImplementsRetention`, one lemma for each kind of step:
  what opens a file adds a newest recording or stutters, what unlinks drops one of the oldest hour
  or, after a misread listing, any; all others stutter.
* `DeletionBlocked` (`BlockedForGood`): no step lets the name `rm` was given into the listing,
  none but a misread listing takes the blocked directory from its front.
* `CurrentKept` (`CurrentFileKept`), on a disk that is roomy for hours (`RoomForHour`): `CurrentSafe` is
  inductive with the above. The step is `Df`: low space means more frames than one
  hour can hold, so the frames there are lie in two hours, and the oldest directory
  is not the current hour's. From `df` to `ls` and on to `rm` the oldest only gets older.
* `EarlyTornFiles` and `EarlyStoreRefined`, inherited because the functions are the same, and
  `EarlyNoOrphan`, from `NoHandler`: without a handler `main` is never past installing
  it, and SIGINT leaves a process alone that waits in `system`.

`HourNameProofs`, for all numbers: `SameName` (names are equal only if year, hour and the digits of the date are),
`DatesFarApart` (two dates of a year with the same digits are at least 294 days apart) and `CutOfName` (what the ten
bytes leave). The installed provers cannot use the induction theorems of the library; the
lemmas that need induction (`DecimalEquation`, that the recursive equation has a solution;
`DecimalType`; `DecimalInjective`) therefore take the least number for which they would fail (`LeastNumber`,
from the well-foundedness of `<` on the naturals). Digits that coincide are compared by the lengths of month and
day (`SameDigits`): only 1/1d and 11/d, or 1/2d and 12/d, are mistaken for each other, and the days before
November and December are counted month by month (`DaysBefore`). `HourNamesProofs` concludes `SpecNamesFarApart` and
`SpecCutIsAnEarlierHour` for every year of four digits; all that is inductive there is that the hour
is one of the calendar's (`SpecCalendarOK`).

`CalendarNames` in `RecorderOrderProofs` closes the gap between names and recorder: if the hours of a behaviour are hours of the
calendar in their order, of a year no two more than 293 days apart, and names and cuts are those of `HourName`,
then `NamesInOrder` holds.

`GreenThreadsProofs`: `IInv` adds to the four properties that the running task is
in the list (`RunningInList`) and how long a task can have waited by its
distance from the running one (`Distance`); `OneRound` follows from that and is not
inductive alone. Because the first deletion ends the process, the list is
`1 .. created` as long as it runs, so that `TaskNext` goes round
(`NextOfUpto`). The theorems are `StacksOwned`, `ParentTaskUnreachable`, `RoundRobin`,
`NoTaskEndsAlone`.

`ShmExchangeProofs`: `ExchangeConsistent`, `FileInOrder` and `LockedOut`. `InOrder` is a chain: `next`
never goes back, what is in memory is at most `next` (`BlocksBehind`), what was
copied is at most what is in memory (`CopiedBehind`), and `fread` at the end of the file
leaves memory as it is. `RestOK` adds that the rest of a block is of the block, unless that is the short one
(`EndOfFile`). It needs two lemmas for an `EXCEPT` inside a
sequence of records (`StoreCheck`, `StoreHalf`).

The last section of the module has `FewTorn` and `FewLost`. Both bounds count, so each invariant has a credit: a
launch owes one store of 1 before its loop (`cpc = "set"`).

* `TornCredit`: that store may expose the copy under way (`Exposed`), and an exposed
  copy may become one torn block. The sum of blocks torn, copies exposed and
  stores to come is at most the number of launches. That nothing else exposes a copy is
  `FlagKeepsWhole`: fills happen while the flag is 1, and what is in memory while it is 0 is whole.
* `LossCredit`: the posted blocks that the file lacks, the stores to come and a client that may
  fill before the server has acknowledged (`Overtaking`) are together at most the number of launches, and one
  more while a block the file lacks is about to be read (`Expected`). It is stated while a server is in its
  loop; `ServerEnds` carries the bound over the end of the server. It rests on
  `MemoryIs` (what the segment holds is behind the client's next block) and
  `NotPassed` (what is in memory is as late as all of the file, or in it).

`DiskMonitorProofs`: `MonitorHolds` (`[]MonitorOK`). `StreamOK`: the lines stdio holds are those before its
place in the table, unless the pass was disturbed. `FiguresOK`: the ints hold what `statfs()` last said of the
root. `PrintingOK`: what was printed since the pass began is what was fetched of the table. From it follow
`PrintsTheTable` (`PrintsEachPass`) and `JudgesRight` (`JudgesTheRoot`), for any tables, any figures and any
width of the int; there the argument is arithmetic: a size that fits is stored as it is, and the
size of a block in KiB, a factor of both figures, cancels out of the comparison. `FirstGoes` (`DeletesTheFirst`)
rests on `DeletingOK`: between `ls` and the end of `rm` directories are only added behind those that were listed, so
that what `rm` still has before it is the first of them, or all there were when the listing had no row.

`ProgramsProofs`: the twelve smaller components, each under the specification of
its own module without fairness (`ChatSpec`, `IntSpec` and so on: the initial states and `[][Next]_vars`).

| Theorem | Property | What is inductive |
|---|---|---|
| `ChatHandsOver` | `LostOnlyToLater` | what a thread has read is not older than its client, and the thread of the call accepted last, if there is one, has read its own as long as `main` waits in `accept` |
| `StreamsShown` | `ShownIsSent` | what was echoed followed by what is unread is what was sent, until the flag of the end is set (`EchoOK`) |
| `IntegersPrintedOnce` | `PrintedOnce` | a segment that lost the key never gets it again (`SegmentsOK`), and a reader that ended well left a later one another segment |
| `InputEndIsNoEnd` | `EndOfInputIsNoEnd` | what tokenizing leaves of a line is its first word |
| `CopiesRight` | `CopyIsTheSource` | the copy is what was taken of the source, and shorter once a write came short (`Copied`); `Rximg.c` has taken whole blocks |
| `LaunchesAgree` | `MakersAgree` | what lies above the next directory of a path exists while nothing was removed |
| `CountsRight` | `CountsThisFrame` | what `self` holds before each method is called |
| `RowsAreRight` | `RowsAreImages` | with images enough, rows and images run in step; with fewer, all batches but one are whole |
| `BothSides` | `TwoSides` | `ProcOK`: a side that was never created does nothing (`Alone`); the child of `pip2.c` is not answered before the parent has printed; each round is on the screen or in the buffer (`RoundsCounted`); each copy of `test.c`'s buffer holds the line until its process ends |
| `ListingRight` | `ListingIsRight` | `LsOK`: what is present is still to be read or was shown (`NothingMissed`); in the short form the first entry alone can be missing; sorted lines come before what is unread; each permission string is that of a mode `lstat` stored for this entry or for one before it, and what each of its ten characters tells of the mode is a lemma (`StringSays`) |
| `OobRight` | `NothingTwice` | `OobOK`: what `main` has put, holds and may still receive is increasing (`HeldInOrder`), the byte at the mark is none of it, and the handler has told nothing beyond it (`KeptApart`), and together they are all that was sent unless the handler broke `main` (`NoneMissing`) |
| `WindowsStayClosed` | `ClosedStaysClosed` | a program that waits for a key has its window open; a figure that closed its window has released its capture |

**What the proofs changed in the models.** Three `CASE`s had guards that overlap, where
TLA+ leaves open which arm is meant and TLC takes the first: `Rximg`,
`MkdirsLevel` and `OpenSource` now say which. With batches of one image,
which the code does not have (it has 20), numpy would repeat a single row for any slice and
`RowsAreImages` would be false: `TrainAssumption` excludes it. `DirAssumption` and
`ShellAssumption` now say what they meant of paths and lines (sequences) and of `MAX_TOKENS`
(more than one: `shell.c` has 128). `TypeAssumption` in `Listing` says which types of files
there are.

**Assumptions.** Those on the constants are the named `ASSUME`s of the modules: bounds
are numbers, a name is not empty, and the few above. Three facts about the instance are hypotheses
of the theorems that need them.

* `RoomForFile`, of `StoreConsistent`, `BaseSafe` and `StoreRefined`: with nothing but one
  file on the disk space is not low. The instances of `recorder_room`, `recorder_long` and `recorder_live`
  satisfy it; `recorder_restart` runs on a fuller disk.
* `RoomForHour`, of `CurrentKept`: the same of one hour. `recorder_live` satisfies it. On a disk of
  any usual size an hour of video is a small part.
* `NamesInOrder`, of the theorems of `RecorderOrderProofs` about the later recorder and of `EarlyStoreRefined`:
  different hours have different names, and a name that is cut to ten
  bytes is never the name of a later hour. TLC evaluates it for every instance of
  `MCRecorder` (`InstanceNames`), and `CalendarNames` proves it for the names the code gives. Digits without
  padding give some hours of a year the same name, at least
  294 days apart: the hypothesis speaks of recordings that are kept for less.

The theorems of `RecorderProofs` assume nothing of names: they may even coincide.

**Only model-checked.** What needs fairness: `SpaceReclaimed`, `NeverStuck`, `FollowsTable`, `LetsGo`. The
prover has no rules for liveness under fairness.

## 5. Plan

Every component that is modelled has its properties checked, and all their safety properties
are proved. What is left:

1. A launch of the later recorder while an `rm` of an earlier run is at work: two `rm`s
   at once, and with them `CutIsOldest` for each.
2. `clnt_socks` beyond its 256 places, once the end of `chat_server.c` is known.

## 6. Not modelled

* **Copies.** `etc/` and `testdir/` hold byte-identical copies of `project/` and `cpyTest/`, in
  part twice. More than half of the repository's lines are such copies: they are
  not mapped, since the mapped file stands for them. Of 11269 lines of C and C++ some
  4350 are distinct, and the models map some 2360 of them: a fifth of all lines, and half of those that
  say something new. So are `Webcam_Rotate.py` (the
  same as `wtest.py`), `blackbox/deleteOld.cpp` and `system/blackbox.c`, which differ in format only.
* **What does not compile or run:** `webcam_save2.cpp`, `Tximg.c`, `Tximg.cpp`, `check_disk.c`,
  `makehome.cpp`, and the rest of `chat_server.c`, which was cut off.
* **Exercises of a few calls in a row** that print what the system says, keep
  nothing and meet nobody: `setenv*.c`, `mydir*.c`, `conaddr.c`, `terminal.c`,
  `schedule.c`, `add.c`, `mypro/test.c` and the `ctypes` scripts.
* **One program beside another of the same key.** `Rximg.c`, `client.c` and `server.c` all use the
  shared-memory key 5678. `Rximg.c` uses its segment as a buffer of its own; that it would write into a transfer
  under way is not modelled.
* **A launch of the recorder beside an `rm`** that an earlier run left (2.1).
* **Library work:** the inference of the detectors, what the viewers compute of
  a picture, the plots, the networks of the training scripts, `train3.py` (one
  library call and two saved files), the notebooks.
* **Data, models and binaries.** The ARM binary of the recorder was read for the
  layout of `deleteold`'s frame only.
