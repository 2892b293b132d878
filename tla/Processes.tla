------------------------------ MODULE Processes ------------------------------
(***************************************************************************)
(* Programs of two processes or threads:                                   *)
(*                                                                         *)
(*   pip2.c     parent and child with a pipe each way                      *)
(*   thread1.c  main sleeps ten seconds, the thread runs for five          *)
(*   tread2.c   main joins the thread                                      *)
(*   forkEx.c   the parent does not wait for the child; forkEx1.c does     *)
(*   test.c     the child changes a variable, the buffer of stdout is      *)
(*              not empty at the fork                                      *)
(*                                                                         *)
(* "main" is the parent or the main thread, "other" the child or the       *)
(* thread.  A sleep takes any time: nothing keeps a process from being     *)
(* late.  What is printed counts as shown when it is written out.          *)
(***************************************************************************)
EXTENDS Naturals, SequencesExt

CONSTANT Rounds     \* thread_param, 5

ASSUME RoundsAssumption == Rounds \in Nat

VARIABLES
    exercise,   \* the program
    tty,        \* whether stdout is a terminal, so that lines are written at once
    exAt,       \* of "main" and "other": "none", "run", "wait", "sleep", "end", "killed", "failed"
    pipe,       \* of "main" and "other": whether its message is in its pipe
    ran,        \* "running thread", so far
    held,       \* of "main" and "other": the lines in its buffer of stdout
    screen      \* the lines written out

procVars == <<exercise, tty, exAt, pipe, ran, held, screen>>

Sides == {"main", "other"}

Threads == exercise \in {"thread1", "tread2"}

ProcInit ==
    /\ exercise \in {"pip2", "thread1", "tread2", "forkEx", "forkEx1", "test"}
    /\ tty \in BOOLEAN
    /\ exAt = [s \in Sides |-> IF s = "main" THEN "run" ELSE "none"]
    /\ pipe = [s \in Sides |-> FALSE] /\ ran = 0
    /\ held = [s \in Sides |-> <<>>] /\ screen = <<>>

-----------------------------------------------------------------------------

(* printf and puts; the threads of a process have one buffer.               *)
Buffer(s) == IF Threads THEN "main" ELSE s

Show(s, lines) ==
    IF tty THEN screen' = screen \o lines /\ UNCHANGED held
    ELSE held' = [held EXCEPT ![Buffer(s)] = @ \o lines] /\ UNCHANGED screen

(* Show and exit: all that is held is written out.                         *)
ShowLast(s, lines) ==
    /\ screen' = screen \o held[Buffer(s)] \o lines
    /\ held' = [held EXCEPT ![Buffer(s)] = <<>>]

End(s) == exAt' = [exAt EXCEPT ![s] = "end"]

(* The process ends with all its threads.                                   *)
EndProcess == exAt' = [s \in Sides |-> "end"]

Before == IF exercise = "test" THEN <<"before fork">> ELSE <<>>

(* fork gives the child a copy of the buffer; pthread_create copies nothing. *)
Start ==
    /\ exAt["main"] = "run" /\ exAt["other"] = "none"
    /\ exAt' = [s \in Sides |-> IF s = "main" THEN "wait" ELSE "run"]
    /\ IF tty THEN screen' = Before /\ UNCHANGED held
       ELSE held' = [s \in Sides |-> Before] /\ UNCHANGED screen
    /\ UNCHANGED <<exercise, tty, pipe, ran>>

(* pthread_create fails: main says so and ends.                             *)
CreateFails ==
    /\ Threads /\ exAt["main"] = "run" /\ exAt["other"] = "none"
    /\ exAt' = [s \in Sides |-> IF s = "main" THEN "end" ELSE "failed"]
    /\ ShowLast("main", <<"pthread_create() error">>)
    /\ UNCHANGED <<exercise, tty, pipe, ran>>

(* fork fails: nobody looks for the -1, main goes on as a parent.           *)
NoChild ==
    /\ ~Threads /\ exAt["main"] = "run" /\ exAt["other"] = "none"
    /\ exAt' = [s \in Sides |-> IF s = "main" THEN "wait" ELSE "failed"]
    /\ Show("main", Before)
    /\ UNCHANGED <<exercise, tty, pipe, ran>>

(* pip2.c.  Both ends of both pipes stay open in both processes: a read     *)
(* does not come back because the other side has ended.                     *)
ChildWrites ==
    /\ exercise = "pip2" /\ exAt["other"] = "run"
    /\ pipe' = [pipe EXCEPT !["other"] = TRUE]
    /\ exAt' = [exAt EXCEPT !["other"] = "wait"]
    /\ UNCHANGED <<exercise, tty, ran, held, screen>>

ParentReads ==
    /\ exercise = "pip2" /\ exAt["main"] = "wait" /\ pipe["other"]
    /\ pipe' = [pipe EXCEPT !["other"] = FALSE]
    /\ exAt' = [exAt EXCEPT !["main"] = "run"]
    /\ Show("main", <<"who are you?">>)
    /\ UNCHANGED <<exercise, tty, ran>>

ParentAnswers ==
    /\ exercise = "pip2" /\ exAt["main"] = "run" /\ exAt["other"] # "none"
    /\ pipe' = [pipe EXCEPT !["main"] = TRUE]
    /\ exAt' = [exAt EXCEPT !["main"] = "sleep"]
    /\ UNCHANGED <<exercise, tty, ran, held, screen>>

ParentLeaves ==
    /\ exercise = "pip2" /\ exAt["main"] = "sleep"
    /\ End("main") /\ ShowLast("main", <<>>)
    /\ UNCHANGED <<exercise, tty, pipe, ran>>

ChildReads ==
    /\ exercise = "pip2" /\ exAt["other"] = "wait" /\ pipe["main"]
    /\ pipe' = [pipe EXCEPT !["main"] = FALSE]
    /\ End("other") /\ ShowLast("other", <<"Thank you">>)
    /\ UNCHANGED <<exercise, tty, ran>>

(* thread_main of the two thread programs.                                  *)
ThreadRuns ==
    /\ Threads /\ exAt["other"] = "run" /\ ran < Rounds
    /\ ran' = ran + 1
    /\ Show("other", <<"running thread">>)
    /\ UNCHANGED <<exercise, tty, exAt, pipe>>

ThreadReturns ==
    /\ Threads /\ exAt["other"] = "run" /\ ran = Rounds
    /\ End("other")
    /\ UNCHANGED <<exercise, tty, pipe, ran, held, screen>>

SleepOver ==
    /\ exercise = "thread1" /\ exAt["main"] = "wait"
    /\ EndProcess /\ ShowLast("main", <<"end of main">>)
    /\ UNCHANGED <<exercise, tty, pipe, ran>>

(* The message of the thread, which main prints.                            *)
ThreadMessage == "Hello, I'm thread~"

(* pthread_join waits.  A definition whose name ends in Variant is a wrong   *)
(* form of the one it precedes: the properties are checked to tell the two  *)
(* apart.                                                                   *)
MayJoinVariant == TRUE

MayJoin == exAt["other"] = "end"

Join ==
    /\ exercise = "tread2" /\ exAt["main"] = "wait" /\ MayJoin
    /\ EndProcess /\ ShowLast("main", <<ThreadMessage>>)
    /\ UNCHANGED <<exercise, tty, pipe, ran>>

(* forkEx.c, and forkEx1.c, which waits for its child; wait fails at once   *)
(* when there is none.                                                      *)
ForkExChild ==
    /\ exercise \in {"forkEx", "forkEx1"} /\ exAt["other"] = "run"
    /\ exAt' = [exAt EXCEPT !["other"] = "sleep"] /\ Show("other", <<"I am">>)
    /\ UNCHANGED <<exercise, tty, pipe, ran>>

ForkExDone ==
    /\ exercise \in {"forkEx", "forkEx1"} /\ exAt["other"] = "sleep"
    /\ End("other") /\ ShowLast("other", <<"Done">>)
    /\ UNCHANGED <<exercise, tty, pipe, ran>>

ForkExParent ==
    /\ exercise \in {"forkEx", "forkEx1"} /\ exAt["main"] = "wait"
    /\ exAt' = [exAt EXCEPT !["main"] = "sleep"] /\ Show("main", <<"parent">>)
    /\ UNCHANGED <<exercise, tty, pipe, ran>>

ForkExReturns ==
    /\ exAt["main"] = "sleep"
    /\ exercise = "forkEx" \/ (exercise = "forkEx1" /\ exAt["other"] \in {"end", "killed", "failed"})
    /\ End("main") /\ ShowLast("main", <<>>)
    /\ UNCHANGED <<exercise, tty, pipe, ran>>

(* test.c: each prints glob as it is in its own memory.                     *)
TestEnds(s) ==
    /\ exercise = "test" /\ exAt[s] = (IF s = "main" THEN "wait" ELSE "run")
    /\ End(s) /\ ShowLast(s, <<IF s = "main" THEN "glob=6" ELSE "glob=7">>)
    /\ UNCHANGED <<exercise, tty, pipe, ran>>

(* A process is killed; what it holds is lost.  Threads die together.       *)
Killed(s) ==
    /\ exAt[s] \in {"run", "wait", "sleep"} /\ exAt["other"] # "none"
    /\ exAt' = IF Threads THEN [t \in Sides |-> "killed"] ELSE [exAt EXCEPT ![s] = "killed"]
    /\ UNCHANGED <<exercise, tty, pipe, ran, held, screen>>

ProcNext ==
    \/ Start \/ CreateFails \/ NoChild
    \/ ChildWrites \/ ParentReads \/ ParentAnswers \/ ParentLeaves \/ ChildReads
    \/ ThreadRuns \/ ThreadReturns \/ SleepOver \/ Join
    \/ ForkExChild \/ ForkExDone \/ ForkExParent \/ ForkExReturns
    \/ \E s \in Sides : TestEnds(s) \/ Killed(s)

-----------------------------------------------------------------------------

HowOften(line, lines) == Cardinality({n \in DOMAIN lines : lines[n] = line})

Times(line) == HowOften(line, screen)

(* What the two sides see of each other.  pip2.c:19: a child whose parent   *)
(* was killed before it answered never gets over its read, and neither does *)
(* a parent whose fork failed.  tread2.c has run all its rounds when it     *)
(* prints the thread's message; thread1.c may end before.  forkEx1.c's      *)
(* parent ends after its child, if there is one.  What the child of test.c  *)
(* does to glob the parent does not see, but "before fork" is shown by      *)
(* both, unless stdout is a terminal.                                       *)
TwoSides ==
    /\ exercise = "pip2" /\ exAt["main"] = "killed" /\ tty /\ Times("who are you?") = 0
          => exAt["other"] # "end"
    /\ exercise = "pip2" /\ exAt["other"] = "failed" => exAt["main"] \in {"wait", "killed"}
    /\ Times(ThreadMessage) > 0 => Times("running thread") = Rounds
    /\ exercise = "forkEx1" /\ exAt["main"] = "end" => exAt["other"] \in {"end", "killed", "failed"}
    /\ exercise = "test" /\ exAt["main"] = "end" /\ exAt["other"] \in {"end", "failed"} =>
          LET both == exAt["other"] = "end"
          IN  /\ Times("before fork") = (IF tty \/ ~both THEN 1 ELSE 2)
              /\ Times("glob=6") = 1 /\ Times("glob=7") = (IF both THEN 1 ELSE 0)

=============================================================================
