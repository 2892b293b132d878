---------------------------- MODULE GreenThreads ----------------------------
(***************************************************************************)
(* The user-level threads of project/system/scheduler.c.  Tasks are in a   *)
(* list; the running one saves its stack pointer in thread_switch, the     *)
(* next one of the list goes on from its own.  thread_create prepares a    *)
(* stack that starts the task's function and, when that returns,           *)
(* thread_kill.                                                            *)
(*                                                                         *)
(* Tasks are numbered as they are created.  Task 1 is the one that         *)
(* thread_init creates for parent_task, which would install thread_switch  *)
(* as the handler of a timer signal.  0 is the code of main.  The library  *)
(* is driven by any client: main.c in the repository calls thread_init and *)
(* thread_create and returns, as thread_wait does not wait; others switch. *)
(*                                                                         *)
(* parent_task has no action, and no signal arrives: ParentNeverStarts     *)
(* says that it is never entered.                                          *)
(***************************************************************************)
EXTENDS Naturals, SequencesExt

CONSTANT MaxTasks       \* bound: calls of thread_create

ASSUME MaxTasksAssumption == MaxTasks \in Nat \ {0}

Tasks == 1 .. MaxTasks

VARIABLES
    created,    \* calls of thread_create so far
    list,       \* the tasks that root_task leads to
    running,    \* running_task, 0 for NULL
    status,     \* of each task
    saved,      \* what its stack pointer leads to: {} is the prepared stack,
                \* {c} the stack on which the code c called thread_switch
    active,     \* the code that has the processor
    process,    \* "on", "exit" or "crash"
    started,    \* history: the tasks whose function was entered
    waited      \* history: switches since a task last had the processor

vars == <<created, list, running, status, saved, active, process, started, waited>>

TypeOK ==
    /\ created \in 0 .. MaxTasks
    /\ list \in Seq(Tasks)
    /\ running \in 0 .. MaxTasks
    /\ status \in [Tasks -> {"NONE", "READY", "RUN", "KILL"}]
    /\ saved \in [Tasks -> SUBSET (0 .. MaxTasks)]
    /\ active \in 0 .. MaxTasks
    /\ process \in {"on", "exit", "crash"}
    /\ started \in SUBSET Tasks
    /\ waited \in [Tasks -> Nat]

Init ==
    /\ created = 0 /\ list = <<>> /\ running = 0
    /\ status = [t \in Tasks |-> "NONE"]
    /\ saved = [t \in Tasks |-> {}]
    /\ active = 0 /\ process = "on" /\ started = {}
    /\ waited = [t \in Tasks |-> 0]

-----------------------------------------------------------------------------
(* The list.  A definition whose name ends in Variant is a wrong form of    *)
(* the one it precedes: the properties are checked to tell the two apart.   *)

(* task_insert: only the first task becomes the running one.                *)
RunningAfterInsertVariant(t) == t

RunningAfterInsert(t) == IF list = <<>> THEN t ELSE running

(* task_next                                                                *)
TaskNextVariant(t) == Head(list)

TaskNext(t) ==
    IF t = Last(list) THEN Head(list)
    ELSE CHOOSE u \in ToSet(list) :
            \E i \in 1 .. Len(list) - 1 : list[i] = t /\ list[i + 1] = u

(* task_delete: root_task=taskinfo is an assignment, so that the branch for *)
(* the first task is taken for every task, and the list is lost.            *)
ListAfterDeleteVariant(t) ==
    IF t = Head(list) THEN <<>> ELSE SelectSeq(list, LAMBDA u : u # t)

ListAfterDelete(t) == <<>>

(* running_task->sp=spsave                                                  *)
SavedVariant == saved

Saved == [saved EXCEPT ![running] = {active}]

(* The status of the task that gives the processor up.                      *)
StatusAfterSwitch == [status EXCEPT ![running] = "RUN"]

-----------------------------------------------------------------------------

ThreadCreate ==
    /\ process = "on" /\ created < MaxTasks
    /\ LET t == created + 1
       IN  /\ created' = t
           /\ status' = [status EXCEPT ![t] = "READY"]
           /\ running' = RunningAfterInsert(t)
           /\ list' = Append(list, t)
           /\ waited' = [waited EXCEPT ![t] = 0]
    /\ UNCHANGED <<saved, active, process, started>>

(* The task that is running now has the processor: it starts its function   *)
(* on the prepared stack, or goes on behind its thread_switch.              *)
Resume ==
    /\ active' = IF saved'[running'] = {} THEN running'
                 ELSE CHOOSE c \in 0 .. MaxTasks : c \in saved'[running']
    /\ started' = IF saved'[running'] = {} THEN started \cup {running'} ELSE started
    /\ waited' = [t \in Tasks |-> IF t \in ToSet(list) \ {running'} THEN waited[t] + 1 ELSE 0]
    /\ process' = process

ThreadSwitch ==
    /\ process = "on" /\ running # 0
    /\ saved' = Saved
    /\ status' = StatusAfterSwitch
    /\ running' = TaskNext(running)
    /\ Resume
    /\ UNCHANGED <<created, list>>

(* A task's function returns into thread_kill, which switches; scheduler    *)
(* deletes the task and calls itself, and then reads the status of the      *)
(* running task, which is NULL when the list is lost.                       *)
ThreadKill ==
    /\ process = "on" /\ active # 0
    /\ saved' = Saved
    /\ status' = [status EXCEPT ![running] = "KILL"]
    /\ list' = ListAfterDelete(running)
    /\ IF list' = <<>>
       THEN /\ running' = 0 /\ process' = "crash"
            /\ UNCHANGED <<active, started, waited>>
       ELSE running' = TaskNext(running) /\ Resume
    /\ UNCHANGED created

(* main returns, and the process ends with all its tasks.                   *)
MainReturns ==
    /\ process = "on" /\ active = 0 /\ created > 0
    /\ process' = "exit"
    /\ UNCHANGED <<created, list, running, status, saved, active, started, waited>>

Next == ThreadCreate \/ ThreadSwitch \/ ThreadKill \/ MainReturns

Spec == Init /\ [][Next]_vars

-----------------------------------------------------------------------------

(* The code a task's stack belongs to: main took the place of task 1, which *)
(* thread_init made the running one.                                        *)
CodeOf(t) == IF t = 1 THEN 0 ELSE t

(* Every stack is kept for the task it belongs to, and the running task is  *)
(* the one whose code has the processor: no switch resumes another task's   *)
(* stack, or one stack twice.                                               *)
Owners ==
    /\ process = "on" /\ created > 0 => active = CodeOf(running)
    /\ \A t \in Tasks : saved[t] \in {{}, {CodeOf(t)}}
    /\ running # 1 /\ running # 0 => saved[1] # {}

(* parent_task is never entered, whatever the client calls and in which     *)
(* order: the first thread_switch saves the caller's stack over the one     *)
(* prepared for it.  So the handler of SIGUSR1 is never installed, the      *)
(* timer never forked, and no task is ever preempted.                       *)
ParentNeverStarts == 1 \notin started

(* No task waits longer for the processor than one round of the list.       *)
OneRound == process = "on" => \A t \in ToSet(list) : waited[t] < Len(list)

(* The first task that ends takes the process with it: as long as the       *)
(* process runs, no task has ended and every created task is in the list.   *)
FirstEndIsLast ==
    process = "on" => /\ \A t \in Tasks : status[t] # "KILL"
                      /\ list = [t \in 1 .. created |-> t]

=============================================================================
