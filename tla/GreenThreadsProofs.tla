------------------------- MODULE GreenThreadsProofs -------------------------
(***************************************************************************)
(* The invariants of GreenThreads for every number of tasks.  Nothing in   *)
(* the list is ever deleted without the process ending, so that the list   *)
(* is 1 .. created; task_next therefore goes round it, main's stack is     *)
(* saved for task 1 the first time anything switches, and the stack that   *)
(* was prepared for parent_task is never used.                             *)
(***************************************************************************)
EXTENDS GreenThreads, TLAPS

(* The list as long as the process runs.                                    *)
Upto(n) == [t \in 1 .. n |-> t]

(* The running task is one of the list; without a task, main runs.          *)
RunningInList ==
    process = "on" => IF created = 0 THEN running = 0 /\ active = 0 ELSE running \in 1 .. created

(* How long a task has waited, by its distance from the running one.        *)
Distance ==
    process = "on" => \A t \in 1 .. created :
        waited[t] <= IF t <= running THEN running - t ELSE created - t + running

IInv == TypeOK /\ RunningInList /\ Owners /\ ParentNeverStarts /\ Distance /\ FirstEndIsLast

-----------------------------------------------------------------------------

(* task_next goes round the list.                                           *)
LEMMA NextOfUpto ==
    ASSUME NEW n \in Nat \ {0}, list = Upto(n), NEW t \in 1 .. n
    PROVE  TaskNext(t) = IF t = n THEN 1 ELSE t + 1
<1>1. Len(list) = n /\ Last(list) = n /\ Head(list) = 1
  BY DEF Upto, Last
<1>2. CASE t = n
  BY <1>1, <1>2 DEF TaskNext
<1>3. CASE t # n
  <2>1. t + 1 \in ToSet(list)
    BY <1>1, <1>3 DEF Upto, ToSet
  <2>2. \A u : (\E i \in 1 .. Len(list) - 1 : list[i] = t /\ list[i + 1] = u) <=> u = t + 1
    BY <1>1, <1>3 DEF Upto
  <2> QED BY <2>1, <2>2, <1>1, <1>3 DEF TaskNext
<1> QED BY <1>2, <1>3

LEMMA UptoProperties ==
    ASSUME NEW n \in Nat
    PROVE  /\ Len(Upto(n)) = n /\ Append(Upto(n), n + 1) = Upto(n + 1)
           /\ ToSet(Upto(n)) = 1 .. n
           /\ Upto(n) = <<>> <=> n = 0
           /\ \A S : 1 .. n \subseteq S => Upto(n) \in Seq(S)
BY DEF Upto, ToSet

-----------------------------------------------------------------------------

LEMMA InitIInv == Init => IInv
<1> SUFFICES ASSUME Init PROVE IInv
  OBVIOUS
<1>1. list = Upto(0)
  BY UptoProperties DEF Init
<1> QED
  BY <1>1, MaxTasksAssumption
     DEF Init, IInv, TypeOK, RunningInList, Owners, ParentNeverStarts, Distance, FirstEndIsLast, Upto, Tasks

LEMMA CreateStep ==
    ASSUME IInv, ThreadCreate
    PROVE  IInv'
<1> USE DEF Tasks
<1>1. created \in Nat /\ created' = created + 1 /\ created' \in 1 .. MaxTasks /\ list = Upto(created)
  BY MaxTasksAssumption DEF IInv, TypeOK, ThreadCreate, FirstEndIsLast, Upto
<1>2. list' = Upto(created')
  BY <1>1, UptoProperties DEF ThreadCreate
<1>3. running' = IF created = 0 THEN 1 ELSE running
  <2>1. list = <<>> <=> created = 0
    BY <1>1, UptoProperties
  <2> QED BY <1>1, <2>1 DEF ThreadCreate, RunningAfterInsert
<1>4. TypeOK'
  <2>1. list' \in Seq(Tasks)
    <3>1. 1 .. created' \subseteq Tasks
      BY <1>1, MaxTasksAssumption
    <3>2. created' \in Nat
      BY <1>1
    <3>3. Upto(created') \in Seq(Tasks)
      BY <3>1, <3>2, UptoProperties
    <3> QED BY <1>2, <3>3
  <2>2. running' \in 0 .. MaxTasks
    BY <1>1, <1>3 DEF IInv, TypeOK
  <2> QED BY <1>1, <2>1, <2>2 DEF IInv, TypeOK, ThreadCreate
<1>5. RunningInList'
  BY <1>1, <1>3 DEF IInv, TypeOK, RunningInList, ThreadCreate
<1>6. Owners'
  <2>1. process = "on" /\ process' = "on" /\ active' = active /\ saved' = saved
    BY DEF ThreadCreate
  <2>2. active' = CodeOf(running')
    BY <1>1, <1>3, <2>1 DEF IInv, TypeOK, RunningInList, Owners, CodeOf
  <2>3. running' # 1 /\ running' # 0 => saved'[1] # {}
    BY <1>1, <1>3, <2>1 DEF IInv, Owners
  <2> QED BY <2>1, <2>2, <2>3 DEF IInv, Owners
<1>7. Distance'
  <2>1. process = "on" /\ waited' = [waited EXCEPT ![created'] = 0]
    BY <1>1 DEF ThreadCreate
  <2>2. running \in Nat /\ running' \in Nat /\ (created # 0 => running' = running /\ running <= created)
    BY <1>1, <1>3, <2>1, MaxTasksAssumption DEF IInv, TypeOK, RunningInList
  <2>3. SUFFICES ASSUME NEW t \in 1 .. created'
                 PROVE  waited'[t] <= IF t <= running' THEN running' - t ELSE created' - t + running'
    BY DEF Distance
  <2>4. CASE t = created'
    BY <1>1, <1>3, <2>1, <2>2, <2>4 DEF IInv, TypeOK
  <2>5. CASE t # created'
    <3>1. t \in 1 .. created /\ created # 0 /\ running' = running /\ t \in Tasks
      <4>1. t \in 1 .. created /\ t \in Tasks
        BY <1>1, <2>5, MaxTasksAssumption
      <4> QED BY <4>1, <1>1, <2>2
    <3>2. waited'[t] = waited[t] /\ waited[t] \in Nat
      BY <2>1, <2>5, <3>1 DEF IInv, TypeOK
    <3> QED BY <1>1, <2>1, <2>2, <3>1, <3>2 DEF IInv, Distance
  <2> QED BY <2>4, <2>5
<1>8. ParentNeverStarts' /\ FirstEndIsLast'
  BY <1>1, <1>2 DEF IInv, TypeOK, ParentNeverStarts, FirstEndIsLast, ThreadCreate, Upto
<1> QED BY <1>4, <1>5, <1>6, <1>7, <1>8 DEF IInv

LEMMA SwitchStep ==
    ASSUME IInv, ThreadSwitch
    PROVE  IInv'
<1> USE DEF Tasks
<1>1. /\ created \in Nat \ {0} /\ created <= MaxTasks /\ running \in 1 .. created
      /\ list = Upto(created) /\ ToSet(list) = 1 .. created
  <2>1. created \in 0 .. MaxTasks /\ list = Upto(created)
    BY DEF IInv, TypeOK, ThreadSwitch, FirstEndIsLast, Upto
  <2>2. created # 0 /\ running \in 1 .. created
    BY DEF IInv, RunningInList, ThreadSwitch
  <2>3. created \in Nat \ {0} /\ created <= MaxTasks
    BY <2>1, <2>2, MaxTasksAssumption
  <2>4. ToSet(list) = 1 .. created
    BY <2>1, <2>3, UptoProperties
  <2> QED BY <2>1, <2>2, <2>3, <2>4
<1>2. running' = IF running = created THEN 1 ELSE running + 1
  BY <1>1, NextOfUpto DEF ThreadSwitch
<1>3. running' \in 1 .. created /\ running' \in Tasks
  BY <1>1, <1>2, MaxTasksAssumption
<1>4. active = CodeOf(running) /\ active \in 0 .. MaxTasks /\ running \in Tasks
  BY <1>1, MaxTasksAssumption DEF IInv, TypeOK, Owners, ThreadSwitch
<1>5. saved' = [saved EXCEPT ![running] = {CodeOf(running)}]
  BY <1>4 DEF ThreadSwitch, Saved
<1>6. \A t \in Tasks : saved'[t] \in {{}, {CodeOf(t)}} /\ CodeOf(t) \in 0 .. MaxTasks
  <2>1. saved \in [Tasks -> SUBSET (0 .. MaxTasks)] /\ \A t \in Tasks : saved[t] \in {{}, {CodeOf(t)}}
    BY DEF IInv, TypeOK, Owners
  <2>2. \A t \in Tasks : CodeOf(t) \in 0 .. MaxTasks
    BY MaxTasksAssumption DEF CodeOf
  <2> QED BY <2>1, <2>2, <1>4, <1>5
<1>7. saved'[1] # {}
  <2>1. saved \in [Tasks -> SUBSET (0 .. MaxTasks)] /\ 1 \in Tasks
    BY MaxTasksAssumption DEF IInv, TypeOK
  <2>2. running # 1 => saved[1] # {}
    BY <1>1 DEF IInv, Owners
  <2> QED BY <2>1, <2>2, <1>4, <1>5
<1>8. active' = CodeOf(running') /\ started' \subseteq started \cup (Tasks \ {1})
  <2>1. CASE saved'[running'] = {}
    BY <2>1, <1>3, <1>7 DEF ThreadSwitch, Resume, CodeOf
  <2>2. CASE saved'[running'] # {}
    <3>1. saved'[running'] = {CodeOf(running')} /\ CodeOf(running') \in 0 .. MaxTasks
      BY <2>2, <1>3, <1>6
    <3>2. active' = CodeOf(running') /\ started' = started
      BY <2>2, <3>1 DEF ThreadSwitch, Resume
    <3> QED BY <3>2
  <2> QED BY <2>1, <2>2
<1>9. TypeOK'
  <2>1. saved' \in [Tasks -> SUBSET (0 .. MaxTasks)]
    BY <1>4, <1>5, <1>6 DEF IInv, TypeOK
  <2>2. waited' \in [Tasks -> Nat]
    BY DEF IInv, TypeOK, ThreadSwitch, Resume
  <2>3. started' \in SUBSET Tasks /\ active' \in 0 .. MaxTasks
    BY <1>8, <1>6, <1>3 DEF IInv, TypeOK
  <2>4. status' \in [Tasks -> {"NONE", "READY", "RUN", "KILL"}]
    BY <1>4 DEF IInv, TypeOK, ThreadSwitch, StatusAfterSwitch
  <2> QED BY <2>1, <2>2, <2>3, <2>4, <1>3 DEF IInv, TypeOK, ThreadSwitch, Resume
<1>10. RunningInList'
  BY <1>1, <1>3 DEF RunningInList, ThreadSwitch
<1>11. Owners'
  BY <1>6, <1>7, <1>8 DEF Owners, CodeOf
<1>12. ParentNeverStarts'
  BY <1>8 DEF IInv, ParentNeverStarts
<1>13. Distance'
  <2>1. waited' = [t \in Tasks |-> IF t \in (1 .. created) \ {running'} THEN waited[t] + 1 ELSE 0]
    BY <1>1 DEF ThreadSwitch, Resume
  <2>2. created' = created /\ process = "on" /\ \A t \in 1 .. created : t \in Tasks /\ waited[t] \in Nat
    BY <1>1, MaxTasksAssumption DEF IInv, TypeOK, ThreadSwitch
  <2>3. SUFFICES ASSUME NEW t \in 1 .. created
                 PROVE  waited'[t] <= IF t <= running' THEN running' - t ELSE created - t + running'
    BY <2>2 DEF Distance
  <2>4. waited[t] <= IF t <= running THEN running - t ELSE created - t + running
    BY <2>2 DEF IInv, Distance
  <2>5. waited'[t] = IF t = running' THEN 0 ELSE waited[t] + 1
    BY <2>1, <2>2
  <2> QED BY <1>1, <1>2, <1>3, <2>2, <2>4, <2>5
<1>14. FirstEndIsLast'
  BY <1>4 DEF IInv, TypeOK, FirstEndIsLast, ThreadSwitch, StatusAfterSwitch, Resume
<1> QED BY <1>9, <1>10, <1>11, <1>12, <1>13, <1>14 DEF IInv

(* A task that ends leaves no list, and the process with it.                *)
LEMMA KillStep ==
    ASSUME IInv, ThreadKill
    PROVE  IInv'
<1> USE DEF Tasks
<1>1. process' = "crash" /\ running' = 0 /\ list' = <<>> /\ UNCHANGED <<created, active, started, waited>>
  BY DEF ThreadKill, ListAfterDelete
<1>2. created \in Nat \ {0} /\ running \in 1 .. created /\ running \in Tasks /\ created <= MaxTasks
  <2>1. created # 0
    BY DEF IInv, RunningInList, ThreadKill
  <2> QED BY <2>1, MaxTasksAssumption DEF IInv, TypeOK, RunningInList, ThreadKill
<1>3. active = CodeOf(running) /\ active \in 0 .. MaxTasks
  BY <1>2 DEF IInv, TypeOK, Owners, ThreadKill
<1>4. saved' = [saved EXCEPT ![running] = {CodeOf(running)}]
  BY <1>3 DEF ThreadKill, Saved
<1>5. TypeOK'
  <2>1. saved' \in [Tasks -> SUBSET (0 .. MaxTasks)]
    <3>1. CodeOf(running) \in 0 .. MaxTasks
      BY <1>3
    <3> QED BY <1>4, <3>1 DEF IInv, TypeOK
  <2>2. status' \in [Tasks -> {"NONE", "READY", "RUN", "KILL"}]
    BY DEF IInv, TypeOK, ThreadKill
  <2>3. list' \in Seq(Tasks) /\ running' \in 0 .. MaxTasks
    BY <1>1, MaxTasksAssumption
  <2> QED BY <1>1, <2>1, <2>2, <2>3 DEF IInv, TypeOK
<1>6. Owners'
  BY <1>1, <1>2, <1>4 DEF IInv, TypeOK, Owners
<1> QED BY <1>1, <1>5, <1>6 DEF IInv, RunningInList, ParentNeverStarts, Distance, FirstEndIsLast

LEMMA ReturnStep ==
    ASSUME IInv, MainReturns
    PROVE  IInv'
BY DEF IInv, MainReturns, TypeOK, RunningInList, Owners, ParentNeverStarts, Distance, FirstEndIsLast, CodeOf

LEMMA StutterStep ==
    ASSUME IInv, UNCHANGED vars
    PROVE  IInv'
BY DEF IInv, vars, TypeOK, RunningInList, Owners, ParentNeverStarts, Distance, FirstEndIsLast, CodeOf

LEMMA Inductive == Spec => []IInv
<1>1. IInv /\ [Next]_vars => IInv'
  BY CreateStep, SwitchStep, KillStep, ReturnStep, StutterStep DEF Next
<1> QED BY <1>1, InitIInv, PTL DEF Spec

-----------------------------------------------------------------------------

(* scheduler.c: no switch resumes another task's stack, or one stack twice, *)
(* for any number of tasks.                                                 *)
THEOREM StacksOwned == Spec => []Owners
<1>1. IInv => Owners
  BY DEF IInv
<1> QED BY <1>1, Inductive, PTL

(* parent_task (scheduler.c:148), and with it the preemption by SIGUSR1, is *)
(* never entered by any client.                                             *)
THEOREM ParentTaskUnreachable == Spec => []ParentNeverStarts
<1>1. IInv => ParentNeverStarts
  BY DEF IInv
<1> QED BY <1>1, Inductive, PTL

(* task_next serves every task within one round of the list.                *)
THEOREM RoundRobin == Spec => []OneRound
<1>1. IInv => OneRound
  <2> SUFFICES ASSUME IInv, process = "on", NEW t \in ToSet(list)
               PROVE  waited[t] < Len(list)
    BY DEF OneRound
  <2>1. created \in Nat /\ list = Upto(created)
    BY DEF IInv, TypeOK, FirstEndIsLast, Upto
  <2>2. Len(list) = created /\ t \in 1 .. created
    BY <2>1, UptoProperties
  <2> QED BY <2>1, <2>2, MaxTasksAssumption DEF IInv, TypeOK, RunningInList, Distance, Tasks
<1> QED BY <1>1, Inductive, PTL

(* task_delete's assignment: no task ends while the process runs.           *)
THEOREM NoTaskEndsAlone == Spec => []FirstEndIsLast
<1>1. IInv => FirstEndIsLast
  BY DEF IInv
<1> QED BY <1>1, Inductive, PTL

=============================================================================
