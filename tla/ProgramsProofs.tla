--------------------------- MODULE ProgramsProofs ---------------------------
(***************************************************************************)
(* Theorems about the stand-alone programs, each with the specification of *)
(* its module alone, for every value of the constants: the numbers of      *)
(* clients, threads, launches, frames and lines, and the sizes of buffers. *)
(***************************************************************************)
EXTENDS StreamPrograms, ChatServer, ShmIntegers, Shell, CopyPrograms, DirPrograms, ObjectCounter,
        TrainScripts, Viewers, Processes, Listing, UrgentData,
        SequenceTheorems, FiniteSetTheorems, WellFoundedInduction, TLAPS

ChatSpec == ChatInit /\ [][ChatNext]_chatVars

-----------------------------------------------------------------------------
(* chat_server.c                                                            *)

(* At most one thread per call of accept, and what a thread has read is     *)
(* not older than the client it was created for; while main waits in        *)
(* accept, the youngest thread can only have read the client it is for.     *)
ChatOK ==
    /\ calls \in Nat /\ clnt_sock \in {-1, calls} /\ (mainAt = "bind" => calls = 0)
    /\ serves \in Seq(SUBSET Int) /\ threads \subseteq 1 .. Len(serves)
    /\ mainAt \in {"bind", "failed", "accept"} => Len(serves) = calls
    /\ mainAt \in {"register", "create"} => Len(serves) = calls - 1
    /\ mainAt \in {"bind", "failed", "accept", "register", "create"}
    /\ \A t \in 1 .. Len(serves) : serves[t] = {} \/ \E d \in {-1} \cup t .. calls : serves[t] = {d}
    /\ mainAt = "accept" /\ Len(serves) > 0 => serves[Len(serves)] \in {{}, {clnt_sock}}

LEMMA ChatOKInit == ChatInit => ChatOK
BY DEF ChatInit, ChatOK

LEMMA ChatOKStep == ChatOK /\ [ChatNext]_chatVars => ChatOK'
<1> SUFFICES ASSUME ChatOK, [ChatNext]_chatVars PROVE ChatOK'
  OBVIOUS
<1>1. CASE ChatListen
  BY <1>1 DEF ChatOK, ChatListen
<1>2. CASE ChatAccept
  BY <1>2 DEF ChatOK, ChatAccept
<1>3. CASE Register
  BY <1>3 DEF ChatOK, Register
<1>4. CASE CreateThread
  <2>1. /\ serves' \in Seq(SUBSET Int) /\ Len(serves') = Len(serves) + 1 /\ Len(serves) \in Nat
        /\ \A t \in 1 .. Len(serves) : serves'[t] = serves[t]
        /\ serves'[Len(serves) + 1] = {}
    BY <1>4 DEF ChatOK, CreateThread
  <2>2. \A t \in 1 .. Len(serves') :
           serves'[t] = {} \/ \E d \in {-1} \cup t .. calls : serves'[t] = {d}
    BY <2>1 DEF ChatOK
  <2>3. threads' \subseteq 1 .. Len(serves')
    BY <1>4, <2>1 DEF ChatOK, CreateThread
  <2> QED BY <1>4, <2>1, <2>2, <2>3 DEF ChatOK, CreateThread
<1>5. ASSUME NEW t \in threads, ThreadStarts(t) PROVE ChatOK'
  <2>1. /\ serves' = [serves EXCEPT ![t] = {clnt_sock}] /\ t \in 1 .. Len(serves)
        /\ UNCHANGED <<mainAt, calls, clnt_sock, clnt_socks, threads>>
    BY <1>5 DEF ThreadStarts, Arg, ChatOK
  <2>2. Len(serves) \in Nat /\ Len(serves) <= calls /\ {clnt_sock} \in SUBSET Int /\ calls \in Nat
    BY DEF ChatOK
  <2>3. /\ serves' \in Seq(SUBSET Int) /\ Len(serves') = Len(serves)
        /\ \A u \in 1 .. Len(serves) : serves'[u] = IF u = t THEN {clnt_sock} ELSE serves[u]
    BY <2>1, <2>2 DEF ChatOK
  <2>4. clnt_sock \in {-1} \cup t .. calls
    BY <2>1, <2>2 DEF ChatOK
  <2>5. \A u \in 1 .. Len(serves') :
           serves'[u] = {} \/ \E d \in {-1} \cup u .. calls : serves'[u] = {d}
    BY <2>3, <2>4 DEF ChatOK
  <2>6. mainAt = "accept" /\ Len(serves) > 0 => serves'[Len(serves)] \in {{}, {clnt_sock}}
    BY <2>2, <2>3 DEF ChatOK
  <2> QED BY <2>1, <2>3, <2>5, <2>6 DEF ChatOK
<1>6. CASE UNCHANGED chatVars
  BY <1>6 DEF ChatOK, chatVars
<1> QED BY <1>1, <1>2, <1>3, <1>4, <1>5, <1>6 DEF ChatNext

(* No thread serves a client that was accepted before its own, and when the *)
(* thread of the last client could be created and all have started that     *)
(* client has one: chat_server.c hands every thread the address of main's   *)
(* clnt_sock.                                                               *)
THEOREM ChatHandsOver == ChatSpec => []LostOnlyToLater
<1>1. ChatOK => LostOnlyToLater
  <2> SUFFICES ASSUME ChatOK PROVE LostOnlyToLater
    OBVIOUS
  <2>1. threads \subseteq 1 .. Len(serves) /\ Len(serves) \in Nat
    BY DEF ChatOK
  <2>2. ASSUME NEW t \in threads, Started(t) PROVE serves[t] \subseteq {-1} \cup t .. calls
    <3>1. PICK d \in {-1} \cup t .. calls : serves[t] = {d}
      BY <2>1, <2>2 DEF ChatOK, Started
    <3> QED BY <3>1
  <2>3. ASSUME mainAt = "accept", calls \in threads, \A t \in threads : Started(t)
        PROVE  ServedBy(clnt_sock) # {}
    <3>1. Len(serves) > 0 /\ Len(serves) = calls
      BY <2>1, <2>3 DEF ChatOK
    <3>2. serves[calls] = {clnt_sock}
      BY <2>3, <3>1 DEF ChatOK, Started
    <3> QED BY <2>3, <3>2 DEF ServedBy
  <2> QED BY <2>2, <2>3 DEF LostOnlyToLater
<1> QED BY ChatOKInit, ChatOKStep, <1>1, PTL DEF ChatSpec

-----------------------------------------------------------------------------
(* shmTx.c and shmRx.c                                                      *)

IntSpec == IntInit /\ [][IntNext]_intVars

IntTypeOK ==
    /\ key \in {0} \cup Launches
    /\ mem \in [Launches -> [1 .. SHMSIZE -> {0} \cup Launches]]
    /\ role \in [Launches -> {"none", "tx", "rx"}]
    /\ intAt \in [Launches -> {"off", "shmget", "shmat", "loop", "shmdt", "rmid", "ended", "failed"}]
    /\ shmid \in [Launches -> {0} \cup Launches]
    /\ index \in [Launches -> Nat]
    /\ printed \in [Launches -> SUBSET Launches]
    /\ before \in [Launches -> SUBSET Launches]
    /\ \A p \in Launches : /\ intAt[p] \in {"off", "shmget"} => shmid[p] = 0
                           /\ intAt[p] \in {"shmat", "loop", "shmdt", "rmid", "ended"} => shmid[p] # 0
                           /\ intAt[p] \in {"off", "shmget", "shmat", "loop"} => index[p] \in 1 .. SHMSIZE

(* A segment that has or had the key was made by a launch that is past its  *)
(* shmget, and so never gets the key again; what is in a segment, and what  *)
(* was printed from it, was stored by launches that were attached to it.    *)
SegmentsOK ==
    /\ key # 0 => intAt[key] \notin {"off", "shmget"}
    /\ \A p \in Launches :
          /\ shmid[p] # 0 => intAt[shmid[p]] \notin {"off", "shmget"}
          /\ role[p] = "rx" /\ intAt[p] = "ended" => key # shmid[p]
    /\ \A s \in Launches, c \in 1 .. SHMSIZE : mem[s][c] # 0 => shmid[mem[s][c]] = s
    /\ \A p \in Launches : \A w \in printed[p] : shmid[w] = shmid[p] /\ shmid[p] # 0

(* A reader that had ended well left a later one another segment.           *)
LaterSegment ==
    \A p \in Launches : \A q \in before[p] :
        role[q] = "rx" /\ intAt[q] = "ended" /\ shmid[p] # shmid[q]

IntOK == IntTypeOK /\ SegmentsOK /\ LaterSegment

LEMMA IntOKInit == IntInit => IntOK
BY IntAssumption DEF IntInit, IntOK, IntTypeOK, SegmentsOK, LaterSegment, Launches

LEMMA IntLaunchKeeps ==
    ASSUME IntOK, NEW p \in Launches, IntLaunch(p)
    PROVE  IntOK'
BY DEF IntOK, IntTypeOK, SegmentsOK, LaterSegment, IntLaunch

LEMMA ShmgetKeeps ==
    ASSUME IntOK, NEW p \in Launches, Shmget(p)
    PROVE  IntOK'
<1> USE DEF Shmget
<1>1. 0 \notin Launches
  BY DEF Launches
<1>2. key' \in Launches /\ shmid[p] = 0 /\ intAt[p] = "shmget"
  BY DEF IntOK, IntTypeOK
<1>3. /\ shmid' = [shmid EXCEPT ![p] = key'] /\ intAt' = [intAt EXCEPT ![p] = "shmat"]
      /\ shmid \in [Launches -> {0} \cup Launches]
      /\ intAt \in [Launches -> {"off", "shmget", "shmat", "loop", "shmdt", "rmid", "ended", "failed"}]
  BY DEF IntOK, IntTypeOK
<1>4. IntTypeOK'
  BY <1>1, <1>2 DEF IntOK, IntTypeOK
<1>5. key' # 0 /\ intAt'[key'] \notin {"off", "shmget"}
  BY <1>1, <1>2, <1>3 DEF IntOK, SegmentsOK
<1>6. \A q \in Launches : shmid'[q] # 0 => intAt'[shmid'[q]] \notin {"off", "shmget"}
  <2> SUFFICES ASSUME NEW q \in Launches, shmid'[q] # 0
               PROVE  intAt'[shmid'[q]] \notin {"off", "shmget"}
    OBVIOUS
  <2>1. CASE q = p
    BY <1>3, <1>5, <2>1
  <2>2. CASE q # p
    <3>1. shmid'[q] = shmid[q] /\ shmid[q] \in Launches
      BY <1>3, <2>2
    <3>2. intAt[shmid[q]] \notin {"off", "shmget"}
      BY <3>1, <1>1 DEF IntOK, SegmentsOK
    <3> QED BY <1>3, <3>1, <3>2
  <2> QED BY <2>1, <2>2
<1>7. \A q \in Launches : role[q] = "rx" /\ intAt'[q] = "ended" => key' # shmid[q] /\ q # p
  <2> SUFFICES ASSUME NEW q \in Launches, role[q] = "rx", intAt'[q] = "ended"
               PROVE  key' # shmid[q] /\ q # p
    OBVIOUS
  <2>1. q # p /\ intAt[q] = "ended"
    BY <1>3
  <2>2. key # shmid[q] /\ shmid[q] # 0 /\ shmid[q] # p
    BY <1>1, <1>2, <2>1 DEF IntOK, SegmentsOK, IntTypeOK
  <2> QED BY <2>1, <2>2
<1>8. \A s \in Launches, c \in 1 .. SHMSIZE : mem'[s][c] # 0 => shmid'[mem'[s][c]] = s
  BY <1>1, <1>2, <1>3 DEF IntOK, SegmentsOK, IntTypeOK
<1>9. \A q \in Launches : \A w \in printed'[q] : shmid'[w] = shmid'[q] /\ shmid'[q] # 0
  BY <1>1, <1>2, <1>3 DEF IntOK, SegmentsOK, IntTypeOK
<1>10. SegmentsOK'
  BY <1>3, <1>5, <1>6, <1>7, <1>8, <1>9 DEF SegmentsOK
<1>11. LaterSegment'
  <2> SUFFICES ASSUME NEW r \in Launches, NEW q \in before[r]
               PROVE  role[q] = "rx" /\ intAt'[q] = "ended" /\ shmid'[r] # shmid'[q]
    BY DEF LaterSegment
  <2>1. q \in Launches /\ role[q] = "rx" /\ intAt[q] = "ended" /\ shmid[r] # shmid[q] /\ q # p
    BY <1>2 DEF IntOK, IntTypeOK, LaterSegment
  <2>2. intAt'[q] = "ended" /\ shmid'[q] = shmid[q] /\ key' # shmid[q]
    BY <1>3, <1>7, <2>1
  <2> QED BY <1>3, <2>1, <2>2
<1> QED BY <1>4, <1>10, <1>11 DEF IntOK

(* The steps that store and print a cell.                                   *)
LEMMA CellsKeep ==
    ASSUME IntOK, NEW p \in Launches, Store1(p) \/ Print1(p)
    PROVE  IntOK'
<1>1. /\ intAt[p] = "loop" /\ shmid[p] \in Launches /\ index[p] \in 1 .. SHMSIZE
      /\ SHMSIZE \in Nat \ {0} /\ 0 \notin Launches
  BY IntAssumption DEF IntOK, IntTypeOK, Store1, Print1, Launches
<1>2. intAt'[p] \in {"loop", "shmdt"}
  BY DEF Store1, Print1, Advance, IntOK, IntTypeOK
<1>3. \A q \in Launches : intAt'[q] # intAt[q] => q = p
  BY DEF Store1, Print1, Advance, IntOK, IntTypeOK
<1>4. /\ index' \in [Launches -> Nat]
      /\ \A q \in Launches : intAt'[q] \in {"off", "shmget", "shmat", "loop"} => index'[q] \in 1 .. SHMSIZE
  <2>1. index' = [index EXCEPT ![p] = @ + 1] /\ index \in [Launches -> Nat]
    BY DEF Store1, Print1, Advance, IntOK, IntTypeOK
  <2>2. intAt'[p] = IF index[p] = SHMSIZE THEN "shmdt" ELSE "loop"
    BY DEF Store1, Print1, Advance, IntOK, IntTypeOK
  <2> QED BY <1>1, <1>3, <2>1, <2>2 DEF IntOK, IntTypeOK
<1>5. /\ intAt' \in [Launches -> {"off", "shmget", "shmat", "loop", "shmdt", "rmid", "ended", "failed"}]
      /\ UNCHANGED <<key, role, shmid, before>>
  BY DEF Store1, Print1, Advance, IntOK, IntTypeOK
<1>6. CASE Store1(p)
  <2>1. /\ mem' \in [Launches -> [1 .. SHMSIZE -> {0} \cup Launches]]
        /\ \A s \in Launches, c \in 1 .. SHMSIZE :
              mem'[s][c] = mem[s][c] \/ (s = shmid[p] /\ mem'[s][c] = p)
    BY <1>1, <1>6 DEF Store1, IntOK, IntTypeOK
  <2>2. IntTypeOK'
    BY <1>1, <1>2, <1>3, <1>4, <1>5, <1>6, <2>1 DEF IntOK, IntTypeOK, Store1
  <2>3. SegmentsOK'
    BY <1>1, <1>2, <1>3, <1>5, <1>6, <2>1 DEF IntOK, IntTypeOK, SegmentsOK, Store1
  <2>4. LaterSegment'
    BY <1>1, <1>3, <1>5 DEF IntOK, IntTypeOK, LaterSegment
  <2> QED BY <2>2, <2>3, <2>4 DEF IntOK
<1>7. CASE Print1(p)
  <2> DEFINE w == mem[shmid[p]][index[p]]
  <2>1. w \in {0} \cup Launches /\ (w # 0 => shmid[w] = shmid[p])
    BY <1>1 DEF IntOK, IntTypeOK, SegmentsOK
  <2>2. printed' = [printed EXCEPT ![p] = @ \cup ({w} \ {0})] /\ mem' = mem
    BY <1>7 DEF Print1
  <2> HIDE DEF w
  <2>3. IntTypeOK'
    BY <1>1, <1>2, <1>3, <1>4, <1>5, <2>1, <2>2 DEF IntOK, IntTypeOK
  <2>4. \A q \in Launches : \A v \in printed'[q] : v \in printed[q] \/ (q = p /\ v = w /\ w # 0)
    BY <2>2 DEF IntOK, IntTypeOK
  <2>5. SegmentsOK'
    BY <1>1, <1>2, <1>3, <1>5, <2>1, <2>2, <2>4 DEF IntOK, IntTypeOK, SegmentsOK
  <2>6. LaterSegment'
    BY <1>1, <1>3, <1>5 DEF IntOK, IntTypeOK, LaterSegment
  <2> QED BY <2>3, <2>5, <2>6 DEF IntOK
<1> QED BY <1>6, <1>7

(* The other steps move one launch on, and may take the key away.           *)
LEMMA OtherStepsKeep ==
    ASSUME IntOK, NEW p \in Launches, Shmat(p) \/ Shmdt(p) \/ Rmid(p) \/ IntKilled(p)
    PROVE  IntOK'
<1> USE DEF Shmat, Shmdt, Rmid, IntKilled
<1>1. /\ UNCHANGED <<mem, role, shmid, index, printed, before>>
      /\ key' \in {key, 0} /\ 0 \notin Launches
  BY DEF KeyAfterRmid, Launches
<1>2. \E place \in {"loop", "rmid", "ended", "failed"} :
         /\ intAt' = [intAt EXCEPT ![p] = place]
         /\ intAt[p] \notin {"off", "ended"}
         /\ place # "failed" => intAt[p] # "shmget"
         /\ place = "loop" => intAt[p] = "shmat"
         /\ place = "ended" /\ role[p] = "rx" => key' # shmid[p]
  <2>1. CASE Shmat(p)
    BY <2>1
  <2>2. CASE Shmdt(p)
    BY <2>2
  <2>3. CASE Rmid(p)
    <3>1. shmid[p] # 0
      BY <2>3 DEF IntOK, IntTypeOK
    <3> QED BY <2>3, <3>1 DEF KeyAfterRmid
  <2>4. CASE IntKilled(p)
    BY <2>4
  <2> QED BY <2>1, <2>2, <2>3, <2>4
<1>3. PICK place \in {"loop", "rmid", "ended", "failed"} :
         /\ intAt' = [intAt EXCEPT ![p] = place]
         /\ intAt[p] \notin {"off", "ended"}
         /\ place # "failed" => intAt[p] # "shmget"
         /\ place = "loop" => intAt[p] = "shmat"
         /\ place = "ended" /\ role[p] = "rx" => key' # shmid[p]
  BY <1>2
<1> USE DEF IntOK, IntTypeOK
<1>7. /\ intAt' \in [Launches -> {"off", "shmget", "shmat", "loop", "shmdt", "rmid", "ended", "failed"}]
      /\ intAt'[p] = place /\ \A q \in Launches \ {p} : intAt'[q] = intAt[q]
  BY <1>3
<1>4. IntTypeOK'
  BY <1>1, <1>3, <1>7
<1>5. SegmentsOK'
  BY <1>1, <1>3, <1>7 DEF SegmentsOK
<1>6. LaterSegment'
  BY <1>1, <1>3, <1>7 DEF LaterSegment
<1> QED BY <1>4, <1>5, <1>6

(* What a reader that ended well has printed is not printed by a reader     *)
(* launched later, for any number of launches and integers.                 *)
THEOREM IntegersPrintedOnce == IntSpec => []PrintedOnce
<1>1. IntOK /\ [IntNext]_intVars => IntOK'
  <2> SUFFICES ASSUME IntOK, [IntNext]_intVars PROVE IntOK'
    OBVIOUS
  <2>1. CASE IntNext
    BY <2>1, IntLaunchKeeps, ShmgetKeeps, CellsKeep, OtherStepsKeep DEF IntNext
  <2>2. CASE UNCHANGED intVars
    BY <2>2 DEF IntOK, IntTypeOK, SegmentsOK, LaterSegment, intVars
  <2> QED BY <2>1, <2>2
<1>2. IntOK => PrintedOnce
  BY DEF IntOK, IntTypeOK, SegmentsOK, LaterSegment, PrintedOnce
<1> QED BY IntOKInit, <1>1, <1>2, PTL DEF IntSpec

-----------------------------------------------------------------------------
(* shell.c                                                                  *)

ShellSpec == ShellInit /\ [][ShellNext]_shellVars

FirstWord(l) == IF l = <<>> THEN <<>> ELSE <<Head(l)>>

(* A line that was read is run as it was typed, and what is left of it in   *)
(* main's buffer is its first word: all that a later run of the buffer, at  *)
(* the end of the input, can find there.                                    *)
ShellOK ==
    /\ line \in Seq(Words) /\ typed \in Seq(Words) /\ lines \in Nat
    /\ lines = 0 => typed = <<>> /\ line \in {<<>>, <<"junk">>}
    /\ lines > 0 /\ ~eof0 /\ shAt = "run" => line = typed
    /\ lines > 0 /\ (eof0 \/ shAt # "run") => line = FirstWord(typed)
    /\ shAt = "run" => lines > 0 \/ eof0
    /\ shAt \in {"fgets", "wait"} /\ smashed => Len(typed) >= MAX_TOKENS
    /\ EndOfInputIsNoEnd

LEMMA ShellOKInit == ShellInit => ShellOK
BY DEF ShellInit, ShellOK, EndOfInputIsNoEnd

LEMMA OneElement ==
    ASSUME NEW S, NEW w \in S
    PROVE  <<w>> \in Seq(S) /\ Len(<<w>>) = 1 /\ Head(<<w>>) = w
OBVIOUS

LEMMA FirstWordOf ==
    ASSUME NEW l \in Seq(Words)
    PROVE  /\ FirstWord(l) \in Seq(Words) /\ Len(FirstWord(l)) < MAX_TOKENS
           /\ FirstWord(FirstWord(l)) = FirstWord(l)
           /\ l # <<>> => FirstWord(l) # <<>> /\ Head(FirstWord(l)) = Head(l)
<1>1. MAX_TOKENS \in Nat /\ MAX_TOKENS > 1
  BY ShellAssumption
<1>2. CASE l = <<>>
  BY <1>1, <1>2 DEF FirstWord
<1>3. CASE l # <<>>
  <2>1. Head(l) \in Words /\ FirstWord(l) = <<Head(l)>>
    BY <1>3 DEF FirstWord
  <2>2. ASSUME NEW w \in Words
        PROVE  /\ <<w>> \in Seq(Words) /\ Len(<<w>>) = 1 /\ <<w>> # <<>> /\ Head(<<w>>) = w
               /\ FirstWord(<<w>>) = <<w>>
    <3>1. <<w>> \in Seq(Words) /\ Len(<<w>>) = 1 /\ Head(<<w>>) = w
      BY OneElement
    <3>2. <<w>> # <<>>
      BY <3>1
    <3> QED BY <3>1, <3>2 DEF FirstWord
  <2>3. /\ FirstWord(l) \in Seq(Words) /\ Len(FirstWord(l)) = 1 /\ FirstWord(l) # <<>>
        /\ Head(FirstWord(l)) = Head(l) /\ FirstWord(FirstWord(l)) = FirstWord(l)
    BY <2>1, <2>2
  <2> QED BY <1>1, <2>3
<1> QED BY <1>2, <1>3

(* A run of the buffer: it tokenizes it, which leaves the first word.       *)
LEMMA RunKeeps ==
    ASSUME ShellOK, shAt = "run", Tokenize, UNCHANGED <<eof0, lines, typed>>,
           shAt' \in {"fgets", "wait", "over"},
           shAt' = "fgets" => child' = "none",
           shAt' = "over" => noFork' \/ Command \in {"exit", "quit", "help", "?"}
    PROVE  ShellOK'
<1>1. line' = FirstWord(line) /\ (smashed' => Len(line) >= MAX_TOKENS)
  BY DEF Tokenize, LineLeft, FirstWord
<1>2. lines > 0 => line \in {typed, FirstWord(typed)}
  BY DEF ShellOK
<1>3. line \in Seq(Words) /\ typed \in Seq(Words) /\ MAX_TOKENS \in Nat \ {0, 1}
  BY ShellAssumption DEF ShellOK
<1>4. lines > 0 => line' = FirstWord(typed)
  BY <1>1, <1>2, <1>3, FirstWordOf
<1>5. line' \in Seq(Words)
  BY <1>1, <1>3, FirstWordOf
<1>6. smashed' => Len(typed) >= MAX_TOKENS
  <2>1. CASE lines > 0
    BY <1>1, <1>2, <1>3, <2>1, FirstWordOf
  <2>2. CASE ~(lines > 0)
    <3>1. line \in {<<>>, <<"junk">>}
      BY <2>2 DEF ShellOK
    <3>2. Len(line) < MAX_TOKENS
      <4>1. CASE line = <<>>
        BY <1>3, <4>1
      <4>2. CASE line = <<"junk">>
        BY <1>3, <4>2
      <4> QED BY <3>1, <4>1, <4>2
    <3> QED BY <1>1, <1>3, <3>2
  <2> QED BY <2>1, <2>2
<1>7. Command \in {"exit", "quit", "help", "?"}
        => typed # <<>> /\ Head(typed) \in {"exit", "quit", "help", "?"}
  <2> SUFFICES ASSUME Command \in {"exit", "quit", "help", "?"}
               PROVE  typed # <<>> /\ Head(typed) = Command
    OBVIOUS
  <2>1. line # <<>> /\ Command = Head(line)
    BY DEF Command
  <2>2. lines > 0
    BY <2>1 DEF ShellOK
  <2>3. typed # <<>>
    BY <1>2, <2>1, <2>2 DEF FirstWord
  <2> QED BY <1>2, <1>3, <2>1, <2>2, <2>3, FirstWordOf
<1>8. lines = 0 => typed = <<>> /\ line' \in {<<>>, <<"junk">>}
  BY <1>1 DEF ShellOK, FirstWord
<1>9. EndOfInputIsNoEnd'
  BY <1>4, <1>7 DEF EndOfInputIsNoEnd
<1> QED BY <1>4, <1>5, <1>6, <1>8, <1>9 DEF ShellOK

LEMMA ShellOKStep == ShellOK /\ [ShellNext]_shellVars => ShellOK'
<1> SUFFICES ASSUME ShellOK, [ShellNext]_shellVars PROVE ShellOK'
  OBVIOUS
<1>1. CASE FgetsLine
  <2>1. line' \in Seq(Words) /\ typed' = line' /\ lines' = lines + 1
    BY <1>1, ShellAssumption DEF FgetsLine
  <2> QED BY <1>1, <2>1 DEF FgetsLine, ShellOK, EndOfInputIsNoEnd
<1>2. CASE FgetsNothing
  <2>1. line' \in Seq(Words)
    <3>1. line' \in {<<>>, <<"junk">>} \/ line' = line
      BY <1>2 DEF FgetsNothing
    <3>2. <<>> \in Seq(Words) /\ <<"junk">> \in Seq(Words)
      <4>1. "junk" \in Words
        BY DEF Words
      <4>2. <<>> \in Seq(Words)
        OBVIOUS
      <4> QED BY <4>1, <4>2, OneElement
    <3> QED BY <3>1, <3>2 DEF ShellOK
  <2> QED BY <1>2, <2>1 DEF FgetsNothing, ShellOK, EndOfInputIsNoEnd, FirstWord
<1>3. CASE RunNothing \/ CmdCd \/ CmdExit \/ CmdHelp \/ Fork \/ ForkFails
  BY <1>3, RunKeeps
     DEF RunNothing, CmdCd, CmdExit, CmdHelp, Fork, ForkFails, ShellOK, EndOfInputIsNoEnd
<1>4. CASE Exec \/ ChildEnds
  BY <1>4 DEF Exec, ChildEnds, ShellOK, EndOfInputIsNoEnd
<1>5. CASE Wait
  BY <1>5 DEF Wait, ShellOK, EndOfInputIsNoEnd
<1>6. CASE StackSmashed
  BY <1>6 DEF StackSmashed, ShellOK, EndOfInputIsNoEnd
<1>7. CASE UNCHANGED shellVars
  BY <1>7 DEF shellVars, ShellOK, EndOfInputIsNoEnd
<1> QED BY <1>1, <1>2, <1>3, <1>4, <1>5, <1>6, <1>7 DEF ShellNext

(* The end of the input does not end the shell, which runs the first word   *)
(* of the last line again: shell.c ignores what fgets returns.              *)
THEOREM InputEndIsNoEnd == ShellSpec => []EndOfInputIsNoEnd
<1>1. ShellOK => EndOfInputIsNoEnd
  BY DEF ShellOK
<1> QED BY ShellOKInit, ShellOKStep, <1>1, PTL DEF ShellSpec

-----------------------------------------------------------------------------
(* object_detector.py, _edit, _count and _ui                                *)

ObSpec == ObInit /\ [][ObNext]_obVars

(* What self holds when the next method is called.  In "count" all of it is *)
(* this frame's; "ui" still has the count of the last frame that had        *)
(* detections when this one has none.                                       *)
ObOK ==
    /\ frame \in Seq(BOOLEAN) /\ lastSeen \in Nat /\ frames \in Nat
    /\ counter \in {"none", "count", "ui", "first", "edit"}
    /\ writer \in {"none", "open", "released"}
    /\ obAt \in {"load", "video", "read", "detect", "draw", "inbox", "key", "over", "finish", "raised"}
    /\ obAt \in {"load", "video"} => frames = 0 /\ writer = "none"
    /\ obAt = "load" => obCount = -1 /\ lastSeen = 0
    /\ ended => obAt = "raised"
    /\ counter = "first" => writer = "none" /\ obAt # "finish"
    /\ writer = "released" => obAt = "finish"
    /\ obAt \in {"draw", "inbox"} => counter \in {"count", "ui"}
    /\ counter = "ui" => obCount = lastSeen - 1
    /\ obAt \in {"draw", "inbox"} /\ Len(frame) # 0 => lastSeen = Len(frame)
    /\ obAt \in {"draw", "inbox"} =>
          /\ boxes = Len(frame)
          /\ counter = "count" => obCount = IF Len(frame) = 0 THEN 0 ELSE Len(frame) - 1
    /\ obAt = "inbox" => dots = IF Len(frame) = 1 THEN 0 ELSE Len(frame)
    /\ CountsThisFrame

LEMMA ObOKInit == ObInit => ObOK
BY DEF ObInit, ObOK, CountsThisFrame

LEMMA NoBoxes == frame \in Seq(BOOLEAN) => (frame = <<>> <=> Len(frame) = 0) /\ Len(frame) \in Nat
OBVIOUS

LEMMA DetectKeeps ==
    ASSUME ObOK, DetectObjects \/ DetectObjectsUi
    PROVE  ObOK'
<1>1. Len(frame) \in Nat /\ (frame = <<>> <=> Len(frame) = 0)
  BY NoBoxes DEF ObOK
<1>2. /\ UNCHANGED <<counter, writer, frames, frame, ended>> /\ obAt = "detect" /\ obAt' = "draw"
      /\ boxes' = Len(frame) /\ lastSeen' = IF Len(frame) = 0 THEN lastSeen ELSE Len(frame)
  BY <1>1 DEF DetectObjects, DetectObjectsUi, Detected
<1>3. CASE DetectObjects
  <2>1. counter = "count" /\ obCount' = IF Len(frame) = 0 THEN 0 ELSE Len(frame) - 1
    BY <1>1, <1>3 DEF DetectObjects, ObCount
  <2> QED BY <1>1, <1>2, <2>1 DEF ObOK, CountsThisFrame
<1>4. CASE DetectObjectsUi
  <2>1. counter = "ui" /\ obCount' = IF Len(frame) = 0 THEN obCount ELSE Len(frame) - 1
    BY <1>1, <1>4 DEF DetectObjectsUi
  <2> QED BY <1>1, <1>2, <2>1 DEF ObOK, CountsThisFrame
<1> QED BY <1>3, <1>4

LEMMA BoxdrawKeeps ==
    ASSUME ObOK, ObjectBoxdraw
    PROVE  ObOK'
<1>1. Len(frame) \in Nat /\ (frame = <<>> <=> Len(frame) = 0)
  BY NoBoxes DEF ObOK
<1>2. /\ obAt = "draw" /\ counter \in {"count", "ui"} /\ boxes = Len(frame) /\ lastSeen \in Nat
      /\ UNCHANGED <<counter, writer, frames, frame, boxes, obCount, dotCount, ended, lastSeen>>
      /\ ~ended /\ writer # "released"
  BY DEF ObjectBoxdraw, ObOK
<1>3. Len(frame) # 0 => obCount = Len(frame) - 1
  BY <1>2 DEF ObOK
<1>4. counter = "count" /\ Len(frame) = 0 => obCount = 0
  BY <1>2 DEF ObOK
<1>5. CASE obCount = -1 \/ (obCount # 0 /\ boxes <= obCount)
  <2>1. obAt' = "raised"
    BY <1>5 DEF ObjectBoxdraw
  <2>2. Len(frame) = 0 /\ counter = "ui" /\ lastSeen # 1
    BY <1>1, <1>2, <1>3, <1>4, <1>5 DEF ObOK
  <2> QED BY <1>1, <1>2, <2>1, <2>2 DEF ObOK, CountsThisFrame
<1>6. CASE ~(obCount = -1 \/ (obCount # 0 /\ boxes <= obCount))
  <2>1. obAt' = "inbox" /\ dots' = IF obCount = 0 THEN 0 ELSE obCount + 1
    BY <1>6 DEF ObjectBoxdraw
  <2>2. Len(frame) = 0 => obCount = 0
    BY <1>2, <1>4, <1>6 DEF ObOK
  <2>3. dots' = IF Len(frame) = 1 THEN 0 ELSE Len(frame)
    <3>1. CASE Len(frame) = 0
      BY <2>1, <2>2, <3>1
    <3>2. CASE Len(frame) # 0
      BY <1>1, <1>3, <2>1, <3>2
    <3> QED BY <3>1, <3>2
  <2> QED BY <1>2, <2>1, <2>3 DEF ObOK, CountsThisFrame
<1> QED BY <1>5, <1>6

LEMMA InboxKeeps ==
    ASSUME ObOK, CountInbox
    PROVE  ObOK'
<1>1. Len(frame) \in Nat /\ DOMAIN frame = 1 .. Len(frame) /\ frame' = frame
  BY DEF ObOK, CountInbox
<1>2. dotCount' = Cardinality({i \in 1 .. dots : frame[i]})
  BY DEF CountInbox
<1>3. dots = IF Len(frame) = 1 THEN 0 ELSE Len(frame)
  BY DEF ObOK, CountInbox
<1>4. dotCount' = IF Len(frame) = 1 THEN 0 ELSE Cardinality({i \in DOMAIN frame : frame[i]})
  <2>1. CASE Len(frame) = 1
    <3>1. {i \in 1 .. dots : frame[i]} = {}
      BY <1>3, <2>1
    <3> QED BY <1>2, <2>1, <3>1, FS_EmptySet
  <2>2. CASE Len(frame) # 1
    BY <1>1, <1>2, <1>3, <2>2
  <2> QED BY <2>1, <2>2
<1> QED BY <1>1, <1>4 DEF ObOK, CountInbox, CountsThisFrame

LEMMA ObOKStep == MaxFrames \in Nat /\ ObOK /\ [ObNext]_obVars => ObOK'
<1> SUFFICES ASSUME MaxFrames \in Nat, ObOK, [ObNext]_obVars PROVE ObOK'
  OBVIOUS
<1>1. CASE LoadCount \/ LoadUi \/ LoadFirst \/ LoadEdit
  BY <1>1 DEF LoadCount, LoadUi, LoadFirst, LoadEdit, Loads, ObOK, CountsThisFrame
<1>2. CASE OpenCount \/ OpenUi \/ OpenFirst \/ OpenEdit
  BY <1>2 DEF OpenCount, OpenUi, OpenFirst, OpenEdit, Opens, ObOK, CountsThisFrame
<1>3. CASE ReadFrame
  BY <1>3 DEF ReadFrame, RunInference, ObOK, CountsThisFrame
<1>4. CASE ReadNone
  BY <1>4 DEF ReadNone, ObOK, CountsThisFrame
<1>5. CASE DetectObjects \/ DetectObjectsUi
  BY <1>5, DetectKeeps
<1>6. CASE DetectObjectsFirst \/ DetectObjectsEdit
  BY <1>6 DEF DetectObjectsFirst, DetectObjectsEdit, DetectOne, ObOK, CountsThisFrame
<1>7. CASE ObjectBoxdraw
  BY <1>7, BoxdrawKeeps
<1>8. CASE CountInbox
  BY <1>8, InboxKeeps
<1>9. CASE Key \/ KeyFirst \/ KeyEdit
  BY <1>9 DEF Key, KeyFirst, KeyEdit, Keys, ObOK, CountsThisFrame
<1>10. CASE CleanUp \/ CleanUpFirst
  BY <1>10 DEF CleanUp, CleanUpFirst, ObOK, CountsThisFrame
<1>11. CASE UNCHANGED obVars
  BY <1>11 DEF obVars, ObOK, CountsThisFrame
<1> QED
  BY <1>1, <1>2, <1>3, <1>4, <1>5, <1>6, <1>7, <1>8, <1>9, <1>10, <1>11 DEF ObNext

(* What the detectors count is what is in this frame, whatever the frames   *)
(* before it left in self, for any number of frames and of detections.      *)
THEOREM CountsRight == ObSpec => []CountsThisFrame
<1>1. ObOK => CountsThisFrame
  BY DEF ObOK
<1>2. MaxFrames \in Nat
  BY CounterAssumption
<1> QED BY ObOKInit, ObOKStep, <1>1, <1>2, PTL DEF ObSpec

-----------------------------------------------------------------------------
(* echo_stdserv.c, peek_recv.c and select.c                                 *)

StreamSpec == StreamInit /\ [][StreamNext]_streamVars

StreamTypeOK ==
    /\ sent \in Seq(Int) /\ inbox \in Seq(Int) /\ out \in Seq(Int)
    /\ message \in Int /\ heard \in Int /\ client \in Nat

PlaceOK ==
    /\ bare \in BOOLEAN /\ eof \in BOOLEAN /\ prog \in {"echo", "peek", "select"}
    /\ at \in {"feof", "fgets", "fputs", "close"} => prog = "echo"
    /\ at \in {"peek", "recv"} => prog = "peek"
    /\ at \in {"top", "select", "read"} => prog = "select"

(* What the echo server's client has or is about to get.                    *)
Echoed == IF at = "fputs" THEN Append(out, message) ELSE out

(* Until the flag is set the server has echoed what it has read, and there  *)
(* is more to read if the last line has no newline; when it is set, all     *)
(* lines were echoed, and the last one again if it had a newline.           *)
EchoOK ==
    prog = "echo" =>
        /\ message = heard
        /\ at = "fgets" => ~eof
        /\ at = "close" => eof
        /\ at \in {"feof", "fgets", "fputs", "close"} /\ peer \in {"open", "half"} =>
              IF eof THEN Echoed = IF bare THEN sent ELSE Append(sent, heard)
                     ELSE Echoed \o inbox = sent /\ (bare => inbox # <<>>)

PeekOK ==
    prog = "peek" =>
        /\ at = "recv" => inbox # <<>> /\ Head(inbox) = message
        /\ at = "end" => out # <<>> /\ Head(out) = message

PortOK ==
    /\ prog = "echo" /\ at \notin {"bind", "failed"} => port = "named"
    /\ prog = "peek" /\ at = "accept" => port \in {"named", "other"}
    /\ refused => prog = "peek" /\ port = "other" /\ at # "bind"
    /\ bare => peer # "open"
    /\ eof => peer # "open"

StreamOK == StreamTypeOK /\ PlaceOK /\ EchoOK /\ PeekOK /\ PortOK

LEMMA StreamOKInit == StreamInit => StreamOK
<1> SUFFICES ASSUME StreamInit PROVE StreamOK
  OBVIOUS
<1>1. at \in {"accept", "bind"} /\ prog \in {"echo", "peek", "select"}
  BY DEF StreamInit
<1>2. StreamTypeOK /\ PlaceOK
  <2>1. sent \in Seq(Int) /\ inbox \in Seq(Int) /\ out \in Seq(Int)
    BY EmptySeq DEF StreamInit
  <2>2. message \in Int /\ heard \in Int /\ client \in Nat
    BY DEF StreamInit
  <2>3. bare \in BOOLEAN /\ eof \in BOOLEAN
    BY DEF StreamInit
  <2>4. PlaceOK
    BY <1>1, <2>3 DEF PlaceOK
  <2> QED BY <2>1, <2>2, <2>4 DEF StreamTypeOK
<1>3. EchoOK /\ PeekOK
  BY <1>1 DEF StreamInit, EchoOK, PeekOK
<1>4. PortOK
  BY DEF StreamInit, PortOK
<1> QED BY <1>2, <1>3, <1>4 DEF StreamOK

(* Moving the first element of one sequence to the end of another.          *)
LEMMA MoveHead ==
    ASSUME NEW s \in Seq(Int), NEW t \in Seq(Int), t # <<>>
    PROVE  /\ s \o t = Append(s, Head(t)) \o Tail(t)
           /\ Head(t) \in Int /\ Tail(t) \in Seq(Int)
OBVIOUS

LEMMA TailEmpty ==
    ASSUME NEW t \in Seq(Int), t # <<>>
    PROVE  Tail(t) = <<>> <=> Len(t) = 1
<1>1. Tail(t) \in Seq(Int) /\ Len(Tail(t)) = Len(t) - 1 /\ Len(t) \in Nat
  OBVIOUS
<1>2. Tail(t) = <<>> <=> Len(Tail(t)) = 0
  BY <1>1, EmptySeq
<1> QED BY <1>1, <1>2

LEMMA AppendBehind ==
    ASSUME NEW s \in Seq(Int), NEW t \in Seq(Int), NEW x \in Int
    PROVE  /\ s \o Append(t, x) = Append(s \o t, x)
           /\ Append(t, x) \in Seq(Int) /\ Append(t, x) # <<>>
           /\ t # <<>> => Head(Append(t, x)) = Head(t)
OBVIOUS

LEMMA SendKeeps == ASSUME StreamOK, Send PROVE StreamOK'
<1> DEFINE x == (client - 1) * MaxSent + Len(sent) + 1
<1>1. x \in Int
  <2>1. client - 1 \in Int /\ MaxSent \in Int /\ Len(sent) \in Int
    BY StreamAssumption DEF StreamOK, StreamTypeOK, PlaceOK
  <2>2. (client - 1) * MaxSent \in Int
    BY <2>1
  <2> QED BY <2>1, <2>2
<1>2. /\ sent' = Append(sent, x) /\ inbox' = Append(inbox, x)
      /\ peer = "open" /\ (peer' # "open" \/ UNCHANGED <<peer, bare>>)
      /\ UNCHANGED <<prog, at, sockVars, client, message, eof, reset, out, temps, heard>>
      /\ bare' \in BOOLEAN
  BY DEF Send, StreamOK, StreamTypeOK, PlaceOK
<1> HIDE DEF x
<1>3. /\ Append(sent, x) \in Seq(Int) /\ Append(inbox, x) \in Seq(Int) /\ Append(inbox, x) # <<>>
      /\ inbox # <<>> => Head(Append(inbox, x)) = Head(inbox)
  BY <1>1, AppendBehind DEF StreamOK, StreamTypeOK, PlaceOK
<1>4. peer = "open" /\ ~eof /\ ~bare
  BY DEF Send, StreamOK, PortOK
<1>5. EchoOK'
  <2>1. Echoed \in Seq(Int) /\ Echoed' = Echoed
    BY <1>2 DEF Echoed, StreamOK, StreamTypeOK, PlaceOK
  <2>2. Echoed \o inbox' = Append(Echoed \o inbox, x)
    BY <1>1, <1>2, <2>1, AppendBehind DEF StreamOK, StreamTypeOK, PlaceOK
  <2> QED BY <1>2, <1>3, <1>4, <2>1, <2>2 DEF StreamOK, EchoOK
<1>6. PeekOK'
  BY <1>2, <1>3 DEF StreamOK, PeekOK
<1>7. PortOK'
  BY <1>2, <1>4 DEF StreamOK, PortOK, Send, sockVars
<1> QED BY <1>2, <1>3, <1>5, <1>6, <1>7 DEF StreamOK, StreamTypeOK, PlaceOK

LEMMA FgetsKeeps == ASSUME StreamOK, Fgets PROVE StreamOK'
<1>1. /\ at = "fgets" /\ at' = "fputs" /\ inbox # <<>>
      /\ message' = Head(inbox) /\ heard' = Head(inbox) /\ inbox' = Tail(inbox)
      /\ eof' = (bare /\ Len(inbox) = 1)
      /\ UNCHANGED <<prog, sockVars, client, peer, bare, sent, reset, out, temps>>
  BY DEF Fgets, peerVars
<1>2. inbox \in Seq(Int) /\ out \in Seq(Int) /\ Len(inbox) \in Nat /\ ~eof
  BY <1>1 DEF StreamOK, StreamTypeOK, PlaceOK, EchoOK
<1>3. /\ out \o inbox = Append(out, Head(inbox)) \o Tail(inbox)
      /\ Head(inbox) \in Int /\ Tail(inbox) \in Seq(Int)
  BY <1>1, <1>2, MoveHead
<1>4. Echoed' = Append(out, Head(inbox)) /\ Echoed = out
  BY <1>1 DEF Echoed
<1>5. EchoOK'
  <2> SUFFICES ASSUME peer \in {"open", "half"}
               PROVE  IF eof' THEN Echoed' = IF bare THEN sent ELSE Append(sent, heard')
                              ELSE Echoed' \o inbox' = sent /\ (bare => inbox' # <<>>)
    BY <1>1 DEF EchoOK
  <2>1. Echoed' \o inbox' = sent
    <3>1. Echoed \o inbox = sent
      BY <1>1, <1>2 DEF StreamOK, EchoOK, PlaceOK
    <3> QED BY <1>1, <1>3, <1>4, <3>1
  <2>2. CASE bare /\ Len(inbox) = 1
    <3>1. Tail(inbox) = <<>> /\ Append(out, Head(inbox)) \in Seq(Int)
      BY <1>1, <1>2, <1>3, <2>2, TailEmpty
    <3>2. Append(out, Head(inbox)) \o <<>> = Append(out, Head(inbox))
      BY <3>1
    <3> QED BY <1>1, <1>4, <2>1, <2>2, <3>1, <3>2
  <2>3. CASE ~(bare /\ Len(inbox) = 1)
    <3>1. bare => Tail(inbox) # <<>>
      BY <1>1, <1>2, <2>3, TailEmpty
    <3> QED BY <1>1, <2>1, <2>3, <3>1
  <2> QED BY <2>2, <2>3
<1>6. PortOK'
  BY <1>1 DEF StreamOK, PortOK, sockVars
<1> QED BY <1>1, <1>2, <1>3, <1>5, <1>6 DEF StreamOK, StreamTypeOK, PlaceOK, PeekOK, sockVars

LEMMA FgetsEofKeeps == ASSUME StreamOK, FgetsEof PROVE StreamOK'
<1>1. /\ at = "fgets" /\ at' = "fputs" /\ inbox = <<>> /\ eof' = TRUE /\ peer # "open"
      /\ UNCHANGED <<prog, sockVars, client, peer, bare, sent, inbox, message, reset, out, temps, heard>>
  BY DEF FgetsEof, peerVars, EofFlag, AfterEof
<1>2. Echoed = out /\ Echoed' = Append(out, message) /\ message = heard /\ ~eof /\ out \o <<>> = out
  BY <1>1 DEF Echoed, StreamOK, StreamTypeOK, PlaceOK, EchoOK
<1>3. EchoOK'
  BY <1>1, <1>2 DEF StreamOK, EchoOK
<1> QED BY <1>1, <1>3 DEF StreamOK, StreamTypeOK, PlaceOK, PeekOK, PortOK, sockVars

LEMMA FputsKeeps == ASSUME StreamOK, Fputs PROVE StreamOK'
<1>1. /\ at = "fputs" /\ at' \in {"feof", "killed"} /\ (peer # "closed" => at' = "feof")
      /\ IF peer # "closed" THEN out' = Append(out, message) ELSE out' = out
      /\ UNCHANGED <<prog, sockVars, client, peer, bare, sent, inbox, message, eof, temps, heard>>
  BY DEF Fputs, peerVars
<1>2. StreamTypeOK' /\ PlaceOK'
  <2>1. StreamTypeOK'
    BY <1>1, AppendBehind DEF StreamOK, StreamTypeOK
  <2>2. PlaceOK'
    BY <1>1 DEF StreamOK, PlaceOK
  <2> QED BY <2>1, <2>2
<1>3. peer # "closed" => Echoed' = Echoed
  BY <1>1 DEF Echoed
<1>4. EchoOK'
  BY <1>1, <1>3 DEF StreamOK, EchoOK
<1> QED BY <1>1, <1>2, <1>4 DEF StreamOK, StreamTypeOK, PlaceOK, PeekOK, PortOK, sockVars

LEMMA AcceptKeeps == ASSUME StreamOK, Accept PROVE StreamOK'
<1>1. /\ inbox' = <<>> /\ sent' = <<>> /\ out' = <<>> /\ eof' = FALSE /\ bare' = FALSE /\ client' = client + 1
      /\ at' = CASE prog = "echo" -> "feof" [] prog = "peek" -> "peek" [] OTHER -> "top"
      /\ prog' = prog /\ message' = message /\ heard' = heard /\ port' = port /\ refused' = refused
      /\ at = "accept"
  BY DEF Accept, sockVars
<1>2. at' = IF prog = "echo" THEN "feof" ELSE IF prog = "peek" THEN "peek" ELSE "top"
  BY <1>1
<1>3. prog \in {"echo", "peek", "select"}
  BY DEF StreamOK, StreamTypeOK, PlaceOK
<1>4. StreamTypeOK' /\ PlaceOK'
  <2>1. StreamTypeOK'
    BY <1>1, EmptySeq DEF StreamOK, StreamTypeOK
  <2>2. PlaceOK'
    BY <1>1, <1>2, <1>3 DEF PlaceOK
  <2> QED BY <2>1, <2>2
<1>5. EchoOK'
  <2>1. prog = "echo" => Echoed' = <<>>
    BY <1>1, <1>2 DEF Echoed
  <2>2. <<>> \o <<>> = <<>>
    OBVIOUS
  <2> QED BY <1>1, <1>2, <2>1, <2>2 DEF StreamOK, EchoOK
<1>6. PeekOK' /\ PortOK'
  BY <1>1, <1>2, <1>3 DEF StreamOK, PeekOK, PortOK
<1> QED BY <1>4, <1>5, <1>6 DEF StreamOK

LEMMA PeekKeeps == ASSUME StreamOK, Peek \/ Recv PROVE StreamOK'
<1>1. prog = "peek" /\ prog' = prog /\ at' \in {"recv", "end"} /\ at \in {"peek", "recv"}
  BY DEF StreamOK, StreamTypeOK, PlaceOK, Peek, Recv
<1>2. StreamTypeOK' /\ PlaceOK'
  <2>1. /\ message' = message \/ (inbox # <<>> /\ message' = Head(inbox))
        /\ heard' = heard \/ (inbox # <<>> /\ heard' = inbox[Len(inbox)])
        /\ inbox' \in {inbox, <<>>} /\ out' \in {inbox, out}
        /\ UNCHANGED <<bare, eof, sent, client>>
    BY DEF Peek, Recv, peerVars, Last
  <2>2. inbox # <<>> => Head(inbox) \in Int /\ inbox[Len(inbox)] \in Int
    <3>1. inbox \in Seq(Int)
      BY DEF StreamOK, StreamTypeOK
    <3>2. inbox # <<>> => Len(inbox) \in 1 .. Len(inbox)
      BY <3>1, EmptySeq
    <3> QED BY <3>1, <3>2, MoveHead
  <2>3. StreamTypeOK'
    BY <2>1, <2>2, EmptySeq DEF StreamOK, StreamTypeOK
  <2>4. PlaceOK'
    BY <1>1, <2>1 DEF StreamOK, PlaceOK
  <2> QED BY <2>3, <2>4
<1>3. PeekOK'
  BY <1>1 DEF StreamOK, PeekOK, Peek, Recv
<1>4. EchoOK' /\ PortOK'
  BY <1>1 DEF StreamOK, EchoOK, PortOK, Peek, Recv, peerVars, sockVars
<1> QED BY <1>2, <1>3, <1>4 DEF StreamOK

LEMMA SelectKeeps == ASSUME StreamOK, SelectTop \/ Timeout \/ Ready \/ Read PROVE StreamOK'
<1>1. /\ prog = "select" /\ prog' = prog /\ at' \in {"top", "select", "read"}
      /\ UNCHANGED <<sockVars, client, peer, bare, sent, eof>>
  BY DEF StreamOK, StreamTypeOK, PlaceOK, SelectTop, Timeout, Ready, Read, peerVars
<1>2. /\ inbox' \in Seq(Int) /\ out' \in Seq(Int) /\ message' \in Int /\ heard' \in Int
  <2>1. CASE Read /\ inbox # <<>>
    <3>1. /\ message' = Head(inbox) /\ heard' = Head(inbox)
          /\ out' = Append(out, Head(inbox)) /\ inbox' = Tail(inbox)
      BY <2>1 DEF Read
    <3>2. inbox \in Seq(Int) /\ out \in Seq(Int)
      BY DEF StreamOK, StreamTypeOK
    <3> QED BY <2>1, <3>1, <3>2, MoveHead, AppendBehind
  <2>2. CASE ~(Read /\ inbox # <<>>)
    BY <2>2 DEF SelectTop, Timeout, Ready, Read, StreamOK, StreamTypeOK
  <2> QED BY <2>1, <2>2
<1>3. StreamTypeOK' /\ PlaceOK'
  BY <1>1, <1>2 DEF StreamOK, StreamTypeOK, PlaceOK
<1>4. EchoOK' /\ PeekOK' /\ PortOK'
  BY <1>1 DEF StreamOK, EchoOK, PeekOK, PortOK, sockVars
<1> QED BY <1>3, <1>4 DEF StreamOK

(* The steps that move nothing from the peer to what is shown.              *)
LEMMA ControlKeeps ==
    ASSUME StreamOK,
           Finish \/ (\E n \in {"named", "other"} : Call(n)) \/ ListenEcho \/ ListenPeek \/ Feof \/ Fclose
    PROVE  StreamOK'
<1> USE DEF Finish, Call, ListenEcho, ListenPeek, Listens, Feof, Fclose, sockVars, peerVars
<1>1. UNCHANGED <<prog, client, inbox, message, eof, heard>>
  OBVIOUS
<1>2. \/ UNCHANGED <<sent, out, bare>> /\ (at' = at \/ at \in {"feof", "bind"})
      \/ at' \in {"end", "accept"} /\ peer' = "none" /\ sent' = <<>> /\ out' = <<>> /\ bare' = FALSE
  OBVIOUS
<1>3. StreamTypeOK' /\ PlaceOK'
  <2>1. StreamTypeOK'
    BY <1>1, <1>2, EmptySeq DEF StreamOK, StreamTypeOK
  <2>2. PlaceOK'
    BY DEF StreamOK, PlaceOK
  <2> QED BY <2>1, <2>2
<1>4. EchoOK' /\ PeekOK' /\ PortOK'
  <2>1. CASE Finish
    <3>1. /\ UNCHANGED <<prog, at, port, refused, bare, sent, inbox, message, eof, out, heard>>
          /\ peer = "open" /\ peer' # "open"
      BY <2>1
    <3>2. Echoed' = Echoed
      BY <3>1 DEF Echoed
    <3> QED BY <3>1, <3>2 DEF StreamOK, EchoOK, PeekOK, PortOK
  <2>2. CASE \E n \in {"named", "other"} : Call(n)
    <3>1. PICK n \in {"named", "other"} : Call(n)
      BY <2>2
    <3>2. /\ UNCHANGED <<prog, at, port, bare, eof, message, heard>> /\ at = "accept" /\ prog # "select"
          /\ peer' # "open" /\ (refused' => refused \/ (n = "named" /\ port # n))
      BY <3>1
    <3> QED BY <3>2 DEF StreamOK, PlaceOK, EchoOK, PeekOK, PortOK
  <2>3. CASE ListenEcho \/ ListenPeek
    <3>1. /\ UNCHANGED <<prog, refused, peer, bare, eof, message, heard>> /\ at = "bind"
          /\ at' \in {"accept", "failed"}
          /\ at' = "accept" /\ prog = "echo" => port' = "named"
          /\ at' = "accept" /\ prog = "peek" => port' \in {"named", "other"}
      BY <2>3
    <3> QED BY <3>1 DEF StreamOK, EchoOK, PeekOK, PortOK
  <2>4. CASE Feof
    <3>1. /\ UNCHANGED <<prog, port, refused, peer, bare, sent, inbox, message, eof, out, heard>>
          /\ at = "feof" /\ at' = IF eof THEN "close" ELSE "fgets"
      BY <2>4
    <3>2. Echoed' = Echoed /\ prog = "echo"
      BY <3>1 DEF Echoed, StreamOK, PlaceOK
    <3> QED BY <3>1, <3>2 DEF StreamOK, EchoOK, PeekOK, PortOK
  <2>5. CASE Fclose
    <3>1. /\ UNCHANGED <<prog, port, refused, message, heard>> /\ peer' = "none" /\ prog = "echo"
          /\ at' \in {"end", "accept"} /\ at = "close" /\ bare' = FALSE
      BY <2>5 DEF StreamOK, PlaceOK
    <3> QED BY <3>1 DEF StreamOK, EchoOK, PeekOK, PortOK
  <2> QED BY <2>1, <2>2, <2>3, <2>4, <2>5
<1> QED BY <1>3, <1>4 DEF StreamOK

LEMMA StreamOKStep == StreamOK /\ [StreamNext]_streamVars => StreamOK'
<1> SUFFICES ASSUME StreamOK, [StreamNext]_streamVars PROVE StreamOK'
  OBVIOUS
<1>1. CASE UNCHANGED streamVars
  BY <1>1 DEF streamVars, peerVars, sockVars, StreamOK, StreamTypeOK, PlaceOK, EchoOK, Echoed, PeekOK, PortOK
<1> QED
  BY <1>1, SendKeeps, FgetsKeeps, FgetsEofKeeps, FputsKeeps, AcceptKeeps, PeekKeeps, SelectKeeps, ControlKeeps
     DEF StreamNext, Peer, Server, Poller

(* A client that keeps reading gets its lines back, the last one again when *)
(* it had a newline; what was peeked begins what is received; and only      *)
(* peek_recv.c's own port refuses who calls the one that was given.         *)
THEOREM StreamsShown == StreamSpec => []ShownIsSent
<1>1. StreamOK => ShownIsSent
  BY DEF StreamOK, EchoOK, PeekOK, PortOK, Echoed, ShownIsSent
<1> QED BY StreamOKInit, StreamOKStep, <1>1, PTL DEF StreamSpec

-----------------------------------------------------------------------------
(* cpsys.c, stdcpy.c and Rximg.c                                            *)

CopySpec == CopyInit /\ [][CopyNext]_copyVars

Bytes == {0, 1, 10}

Taken == SubSeq(source, 1, offset)

CopyTypeOK ==
    /\ source \in Seq(Bytes) /\ copy \in Seq(Bytes)
    /\ offset \in 0 .. Len(source)
    /\ segment \in [1 .. Block -> Bytes]

(* While a program reads, cpsys.c's copy and Rximg.c's are what it has      *)
(* taken, and Rximg.c has taken whole blocks; stdcpy.c's is that without    *)
(* what stood behind a NUL.  After a short write each is shorter.           *)
Copied ==
    CASE copier = "cpsys" -> IF full THEN Len(copy) < Len(Taken) ELSE copy = Taken
      [] copier = "stdcpy" -> /\ Len(copy) <= Len(Taken)
                              /\ full => Len(copy) < Len(Taken)
                              /\ ~full /\ 0 \notin ToSet(Taken) => copy = Taken
      [] copier = "Rximg" -> /\ IF full THEN Len(copy) < Len(Taken) ELSE copy = Taken
                             /\ \E m \in Nat : offset = Block * m
      [] OTHER -> TRUE

CopyStateOK ==
    /\ copier \in {"none", "cpsys", "stdcpy", "Rximg"}
    /\ there \in BOOLEAN /\ writable \in BOOLEAN /\ full \in BOOLEAN
    /\ cpAt = "failed" => copy = OldCopy
    /\ copier = "none" => ~full
    /\ copier = "none" => cpAt = "open" /\ offset = 0 /\ copy = OldCopy
    /\ ~writable => copy = OldCopy
    /\ copier # "none" /\ ~there /\ cpAt # "failed" => cpAt \in {"end", "crash"} /\ (writable => copy = <<>>)
    /\ copier # "none" /\ ~there /\ cpAt = "end" => copier = "cpsys"
    /\ cpAt = "end" /\ ~writable => copier = "cpsys"
    /\ cpAt = "read" /\ writable /\ there => Copied

CopyOK == CopyTypeOK /\ CopyStateOK /\ CopyIsTheSource

LEMMA TakenIs ==
    ASSUME CopyTypeOK
    PROVE  /\ Taken \in Seq(Bytes) /\ Len(Taken) = offset
           /\ \A i \in 1 .. offset : Taken[i] = source[i]
<1>1. source \in Seq(Bytes) /\ offset \in 0 .. Len(source) /\ Len(source) \in Nat
  BY DEF CopyTypeOK
<1>2. \A i \in 1 .. offset : source[i] \in Bytes
  BY <1>1
<1>3. 1 \in Int /\ offset \in Int
  BY <1>1
<1> HIDE DEF Bytes
<1>4. /\ SubSeq(source, 1, offset) \in Seq(Bytes)
      /\ Len(SubSeq(source, 1, offset)) = IF 1 <= offset THEN offset - 1 + 1 ELSE 0
      /\ \A i \in 1 .. offset - 1 + 1 : SubSeq(source, 1, offset)[i] = source[1 + i - 1]
  BY <1>2, <1>3, SubSeqProperties
<1> QED BY <1>1, <1>4 DEF Taken

(* What a read of at most n bytes gets is the next part of the source.      *)
LEMMA TakeExtends ==
    ASSUME CopyTypeOK, NEW n \in Nat
    PROVE  /\ Take(n) \in Seq(Bytes)
           /\ Len(Take(n)) = IF n < Len(source) - offset THEN n ELSE Len(source) - offset
           /\ \A i \in 1 .. Len(Take(n)) : Take(n)[i] = source[offset + i]
           /\ Taken \o Take(n) = SubSeq(source, 1, offset + Len(Take(n)))
<1>1. source \in Seq(Bytes) /\ offset \in 0 .. Len(source) /\ Len(source) \in Nat
  BY DEF CopyTypeOK
<1> DEFINE l == IF n < Len(source) - offset THEN n ELSE Len(source) - offset
<1> HIDE DEF Bytes
<1>2. /\ Rest \in Seq(Bytes) /\ Len(Rest) = Len(source) - offset
      /\ \A i \in 1 .. Len(source) - offset : Rest[i] = source[offset + i]
  <2>1. /\ offset + 1 \in Int /\ Len(source) \in Int
        /\ \A i \in offset + 1 .. Len(source) : source[i] \in Bytes
    BY <1>1
  <2>2. /\ SubSeq(source, offset + 1, Len(source)) \in Seq(Bytes)
        /\ Len(SubSeq(source, offset + 1, Len(source)))
              = IF offset + 1 <= Len(source) THEN Len(source) - (offset + 1) + 1 ELSE 0
        /\ \A i \in 1 .. Len(source) - (offset + 1) + 1 :
              SubSeq(source, offset + 1, Len(source))[i] = source[(offset + 1) + i - 1]
    BY <2>1, SubSeqProperties
  <2>3. \A i \in 1 .. Len(source) - offset :
           i \in 1 .. Len(source) - (offset + 1) + 1 /\ (offset + 1) + i - 1 = offset + i
    BY <1>1
  <2> QED BY <1>1, <2>2, <2>3 DEF Rest
<1>3. Take(n) = SubSeq(Rest, 1, l) /\ l \in Nat /\ l <= Len(source) - offset
  BY <1>1, <1>2 DEF Take
<1> HIDE DEF l
<1>4. /\ Take(n) \in Seq(Bytes) /\ Len(Take(n)) = l
      /\ \A i \in 1 .. l : Take(n)[i] = Rest[i]
  <2>1. 1 \in Int /\ l \in Int /\ \A i \in 1 .. l : Rest[i] \in Bytes
    BY <1>1, <1>2, <1>3
  <2>2. /\ SubSeq(Rest, 1, l) \in Seq(Bytes)
        /\ Len(SubSeq(Rest, 1, l)) = IF 1 <= l THEN l - 1 + 1 ELSE 0
        /\ \A i \in 1 .. l - 1 + 1 : SubSeq(Rest, 1, l)[i] = Rest[1 + i - 1]
    BY <2>1, SubSeqProperties
  <2> QED BY <1>3, <2>2
<1>5. ASSUME NEW i \in 1 .. l PROVE Take(n)[i] = source[offset + i]
  <2>1. i \in 1 .. Len(source) - offset
    BY <1>1, <1>3
  <2> QED BY <1>2, <1>4, <2>1
<1>6. Taken \o Take(n) = SubSeq(source, 1, offset + l)
  <2>1. /\ Taken \in Seq(Bytes) /\ Len(Taken) = offset
        /\ \A i \in 1 .. offset : Taken[i] = source[i]
    BY TakenIs
  <2>2. /\ Taken \o Take(n) \in Seq(Bytes) /\ Len(Taken \o Take(n)) = offset + l
        /\ \A i \in 1 .. offset + l :
              (Taken \o Take(n))[i] = IF i <= offset THEN Taken[i] ELSE Take(n)[i - offset]
    BY <1>4, <2>1, ConcatProperties
  <2>3. \A i \in 1 .. offset + l : (Taken \o Take(n))[i] = source[i]
    <3> SUFFICES ASSUME NEW i \in 1 .. offset + l PROVE (Taken \o Take(n))[i] = source[i]
      OBVIOUS
    <3>1. CASE i <= offset
      BY <1>1, <1>3, <2>1, <2>2, <3>1
    <3>2. CASE i > offset
      <4>1. i - offset \in 1 .. l /\ offset + (i - offset) = i
        BY <1>1, <1>3, <3>2
      <4>2. Take(n)[i - offset] = source[i]
        BY <1>5, <4>1
      <4>3. (Taken \o Take(n))[i] = Take(n)[i - offset]
        BY <1>1, <1>3, <2>2, <3>2
      <4> QED BY <4>2, <4>3
    <3>3. i <= offset \/ i > offset
      BY <1>1, <1>3
    <3> QED BY <3>1, <3>2, <3>3
  <2>4. 1 \in Int /\ offset + l \in Int /\ \A i \in 1 .. offset + l : source[i] \in Bytes
    BY <1>1, <1>3
  <2>5. /\ SubSeq(source, 1, offset + l) \in Seq(Bytes)
        /\ Len(SubSeq(source, 1, offset + l)) = IF 1 <= offset + l THEN (offset + l) - 1 + 1 ELSE 0
        /\ \A i \in 1 .. (offset + l) - 1 + 1 : SubSeq(source, 1, offset + l)[i] = source[1 + i - 1]
    BY <2>4, SubSeqProperties
  <2>6. Len(SubSeq(source, 1, offset + l)) = offset + l
    BY <1>1, <1>3, <2>5
  <2>7. \A i \in 1 .. offset + l : SubSeq(source, 1, offset + l)[i] = source[i]
    BY <1>1, <1>3, <2>5
  <2> QED BY <2>2, <2>3, <2>5, <2>6, <2>7, SeqEqual
<1> QED BY <1>3, <1>4, <1>5, <1>6 DEF l

(* A source that grows behind what was taken.                               *)
LEMMA GrowKeepsTaken ==
    ASSUME CopyTypeOK, Grow
    PROVE  Taken' = Taken /\ CopyTypeOK'
<1> DEFINE n == offset
<1>1. PICK b \in Bytes : source' = Append(source, b)
  BY DEF Grow, Bytes
<1>2. source \in Seq(Bytes) /\ n \in 0 .. Len(source) /\ Len(source) \in Nat /\ offset' = n
  BY DEF CopyTypeOK, Grow
<1> HIDE DEF Bytes, n
<1>3. /\ source' \in Seq(Bytes) /\ Len(source') = Len(source) + 1
      /\ \A i \in 1 .. Len(source) : source'[i] = source[i]
  BY <1>1, <1>2, AppendProperties
<1>4. CopyTypeOK'
  BY <1>2, <1>3 DEF CopyTypeOK, Grow
<1>5. /\ Taken \in Seq(Bytes) /\ Len(Taken) = n
      /\ \A i \in 1 .. n : Taken[i] = source[i]
  BY TakenIs DEF n
<1>6. 1 \in Int /\ n \in Int /\ \A i \in 1 .. n : source'[i] \in Bytes
  BY <1>2, <1>3
<1>7. /\ SubSeq(source', 1, n) \in Seq(Bytes)
      /\ Len(SubSeq(source', 1, n)) = IF 1 <= n THEN n - 1 + 1 ELSE 0
      /\ \A i \in 1 .. n - 1 + 1 : SubSeq(source', 1, n)[i] = source'[1 + i - 1]
  BY <1>6, SubSeqProperties
<1>8. \A i \in 1 .. n : SubSeq(source', 1, n)[i] = source[i]
  BY <1>2, <1>3, <1>7
<1>9. Len(SubSeq(source', 1, n)) = n
  BY <1>2, <1>7
<1>10. Taken' = Taken
  BY <1>2, <1>5, <1>7, <1>8, <1>9, SeqEqual DEF Taken
<1> QED BY <1>4, <1>10

(* After a read of at most n bytes what was taken has grown by it.          *)
LEMMA ReadExtends ==
    ASSUME CopyTypeOK, NEW n \in Nat, source' = source, offset' = offset + Len(Take(n))
    PROVE  /\ Taken' = Taken \o Take(n) /\ Take(n) \in Seq(Bytes) /\ Len(Take(n)) \in Nat
           /\ offset' \in 0 .. Len(source')
<1>1. /\ Take(n) \in Seq(Bytes)
      /\ Len(Take(n)) = IF n < Len(source) - offset THEN n ELSE Len(source) - offset
      /\ Taken \o Take(n) = SubSeq(source, 1, offset + Len(Take(n)))
  BY TakeExtends
<1>2. offset \in 0 .. Len(source) /\ Len(source) \in Nat
  BY DEF CopyTypeOK
<1>3. Taken' = Taken \o Take(n)
  BY <1>1 DEF Taken
<1> QED BY <1>1, <1>2, <1>3

LEMMA Least ==
    ASSUME NEW T, T \subseteq Nat, T # {}
    PROVE  \E x \in T : \A y \in T : x <= y
<1> DEFINE R == OpToRel(<, Nat)
<1>1. IsWellFoundedOn(R, Nat)
  BY NatLessThanWellFounded
<1> HIDE DEF R
<1>2. PICK x \in T : \A y \in T : ~(<<y, x>> \in R)
  BY <1>1, WFMin
<1>3. \A y \in T : ~(y < x)
  BY <1>2 DEF R, OpToRel
<1> QED BY <1>3

(* fgets takes a part of what is left, and fputs writes all of a buffer in  *)
(* which there is no NUL.                                                   *)
LEMMA FgetsTakesPart ==
    ASSUME CopyTypeOK
    PROVE  \E n \in Nat : FgetsTakes = Take(n)
<1> DEFINE ends == {n \in 1 .. Len(Take(BUF_SIZE - 1)) : Rest[n] = 10}
           first == CHOOSE n \in ends : \A m \in ends : n <= m
<1>1. BUF_SIZE - 1 \in Nat
  BY CopyAssumption
<1>2. CASE ends = {}
  BY <1>1, <1>2 DEF FgetsTakes
<1>3. CASE ends # {}
  <2>1. ends \subseteq Nat
    OBVIOUS
  <2> HIDE DEF ends
  <2>2. first \in Nat
    BY <1>3, <2>1, Least
  <2>3. FgetsTakes = Take(first)
    BY <1>3 DEF FgetsTakes, ends
  <2> HIDE DEF first
  <2> QED BY <2>2, <2>3
<1> QED BY <1>2, <1>3

LEMMA FputsWritesPart ==
    ASSUME NEW buf \in Seq(Bytes)
    PROVE  /\ FputsWrites(buf) \in Seq(Bytes) /\ Len(FputsWrites(buf)) <= Len(buf)
           /\ 0 \notin ToSet(buf) => FputsWrites(buf) = buf
<1> DEFINE nuls == {n \in DOMAIN buf : buf[n] = 0}
           first == CHOOSE n \in nuls : \A m \in nuls : n <= m
<1> HIDE DEF Bytes
<1>1. DOMAIN buf = 1 .. Len(buf) /\ Len(buf) \in Nat
  OBVIOUS
<1>2. CASE nuls = {}
  <2>1. FputsWrites(buf) = buf
    BY <1>2 DEF FputsWrites
  <2> QED BY <1>1, <2>1
<1>3. CASE nuls # {}
  <2>1. nuls \subseteq Nat /\ nuls \subseteq 1 .. Len(buf)
    BY <1>1
  <2>2. 0 \in ToSet(buf)
    BY <1>3 DEF ToSet
  <2> HIDE DEF nuls
  <2>3. first \in nuls
    BY <1>3, <2>1, Least
  <2>4. FputsWrites(buf) = SubSeq(buf, 1, first - 1)
    BY <1>3 DEF FputsWrites, nuls
  <2>5. first \in 1 .. Len(buf)
    BY <2>1, <2>3
  <2> HIDE DEF first
  <2>6. 1 \in Int /\ first - 1 \in Int /\ \A i \in 1 .. first - 1 : buf[i] \in Bytes
    BY <1>1, <2>5
  <2>7. /\ SubSeq(buf, 1, first - 1) \in Seq(Bytes)
        /\ Len(SubSeq(buf, 1, first - 1)) = IF 1 <= first - 1 THEN first - 1 - 1 + 1 ELSE 0
    BY <2>6, SubSeqProperties
  <2> QED BY <1>1, <2>2, <2>4, <2>5, <2>7
<1> QED BY <1>2, <1>3

LEMMA ToSetOfConcat ==
    ASSUME NEW s \in Seq(Bytes), NEW t \in Seq(Bytes), NEW x \in Bytes, x \notin ToSet(s \o t)
    PROVE  x \notin ToSet(s) /\ x \notin ToSet(t)
<1> HIDE DEF Bytes
<1>1. ToSet(s) = Range(s) /\ ToSet(t) = Range(t) /\ ToSet(s \o t) = Range(s \o t)
  BY DEF ToSet, Range
<1> QED BY <1>1, RangeConcatenation

(* What a write that may come short does to a file that is open.            *)
LEMMA PutPuts ==
    ASSUME NEW buf \in Seq(Bytes), Put(buf), writable, copy \in Seq(Bytes), full \in BOOLEAN
    PROVE  \E part \in Seq(Bytes) :
              /\ copy' = copy \o part /\ copy' \in Seq(Bytes)
              /\ Len(part) <= Len(buf) /\ Len(copy') = Len(copy) + Len(part)
              /\ full' \in BOOLEAN
              /\ ~full' => ~full /\ part = buf
              /\ full' => full \/ Len(part) < Len(buf)
<1> HIDE DEF Bytes
<1>1. PICK n \in 0 .. Len(buf) :
         copy' = copy \o SubSeq(buf, 1, n) /\ full' = (full \/ n < Len(buf))
  BY DEF Put
<1> DEFINE part == SubSeq(buf, 1, n)
<1>2. Len(buf) \in Nat /\ Len(copy) \in Nat
  OBVIOUS
<1>3. 1 \in Int /\ n \in Int /\ \A i \in 1 .. n : buf[i] \in Bytes
  BY <1>2
<1>4. part \in Seq(Bytes) /\ Len(part) = IF 1 <= n THEN n - 1 + 1 ELSE 0
  BY <1>3, SubSeqProperties
<1>5. Len(part) = n
  BY <1>2, <1>4
<1>6. n = Len(buf) => part = buf
  BY SubSeqFull
<1> HIDE DEF part
<1>7. copy' = copy \o part
  BY <1>1 DEF part
<1>8. copy' \in Seq(Bytes) /\ Len(copy') = Len(copy) + Len(part)
  BY <1>4, <1>7, ConcatProperties
<1>9. full' \in BOOLEAN
  BY <1>1, Zenon
<1>10. ~full' => ~full /\ ~(n < Len(buf))
  BY <1>1, Zenon
<1>11. full' => full \/ n < Len(buf)
  BY <1>1, Zenon
<1>12. ~(n < Len(buf)) => n = Len(buf)
  BY <1>2
<1>13. ~full' => ~full /\ part = buf
  BY <1>6, <1>10, <1>12, Zenon
<1>14. full' => full \/ Len(part) < Len(buf)
  BY <1>5, <1>11, Zenon
<1>15. Len(part) <= Len(buf)
  BY <1>2, <1>5
<1> QED BY <1>4, <1>7, <1>8, <1>9, <1>13, <1>14, <1>15

LEMMA PutFails ==
    ASSUME NEW buf, Put(buf), ~writable
    PROVE  UNCHANGED <<copy, full>>
BY DEF Put

LEMMA CpSysKeeps == ASSUME CopyOK, CpSys PROVE CopyOK'
<1> DEFINE buf == Take(BUF_SIZE)
<1>1. /\ copier = "cpsys" /\ cpAt = "read" /\ UNCHANGED <<copier, source, there, writable, segment>>
      /\ \/ cpAt' = "end" /\ UNCHANGED <<copy, full, offset>>
         \/ Put(buf) /\ offset' = offset + Len(buf) /\ cpAt' = cpAt
  BY DEF CpSys, Written
<1>2. /\ there /\ BUF_SIZE \in Nat /\ CopyTypeOK /\ copy \in Seq(Bytes)
      /\ writable \in BOOLEAN /\ full \in BOOLEAN
  BY <1>1, CopyAssumption DEF CopyOK, CopyStateOK, CopyTypeOK
<1>3. /\ writable /\ full => Len(copy) < Len(Taken)
      /\ writable /\ ~full => copy = Taken
  BY <1>1, <1>2 DEF CopyOK, CopyStateOK, Copied
<1>4. CASE cpAt' = "end" /\ UNCHANGED <<copy, full, offset>>
  <2>1. Taken' = Taken
    BY <1>1, <1>4 DEF Taken
  <2>2. CopyTypeOK'
    BY <1>1, <1>2, <1>4 DEF CopyTypeOK
  <2>3. CopyStateOK'
    BY <1>1, <1>2, <1>4 DEF CopyOK, CopyStateOK
  <2>4. CopyIsTheSource'
    BY <1>1, <1>2, <1>3, <1>4, <2>1 DEF CopyOK, CopyStateOK, CopyIsTheSource, Taken
  <2> QED BY <2>2, <2>3, <2>4 DEF CopyOK
<1>5. CASE Put(buf) /\ offset' = offset + Len(buf) /\ cpAt' = cpAt
  <2>1. Taken' = Taken \o buf /\ buf \in Seq(Bytes) /\ offset' \in 0 .. Len(source')
    BY <1>1, <1>2, <1>5, ReadExtends
  <2> HIDE DEF buf
  <2>2. CASE ~writable
    <3>1. UNCHANGED <<copy, full>>
      BY <1>5, <2>2, PutFails
    <3>2. CopyTypeOK'
      BY <1>1, <1>2, <2>1, <3>1 DEF CopyTypeOK
    <3>3. CopyStateOK'
      BY <1>1, <1>2, <1>5, <2>2, <3>1 DEF CopyOK, CopyStateOK
    <3>4. CopyIsTheSource'
      BY <1>1, <1>5 DEF CopyIsTheSource
    <3> QED BY <3>2, <3>3, <3>4 DEF CopyOK
  <2>3. CASE writable
    <3>1. PICK part \in Seq(Bytes) :
             /\ copy' = copy \o part /\ copy' \in Seq(Bytes)
             /\ Len(part) <= Len(buf) /\ Len(copy') = Len(copy) + Len(part)
             /\ full' \in BOOLEAN
             /\ ~full' => ~full /\ part = buf
             /\ full' => full \/ Len(part) < Len(buf)
      BY <1>2, <1>5, <2>1, <2>3, PutPuts
    <3>2. Len(Taken') = Len(Taken) + Len(buf) /\ Len(Taken) \in Nat /\ Len(buf) \in Nat
      <4>1. Taken \in Seq(Bytes)
        BY <1>2, TakenIs
      <4> HIDE DEF Bytes
      <4> QED BY <2>1, <4>1, ConcatProperties
    <3>3. Len(copy) \in Nat /\ Len(part) \in Nat
      <4> HIDE DEF Bytes
      <4> QED BY <1>2, <3>1
    <3>4. Len(copy) <= Len(Taken)
      BY <1>2, <1>3, <2>3, <3>2
    <3>5. CASE full'
      <4>1. full \/ Len(part) < Len(buf)
        BY <3>1, <3>5
      <4>2. Len(copy) + Len(part) < Len(Taken) + Len(buf)
        BY <1>3, <2>3, <3>1, <3>2, <3>3, <3>4, <4>1
      <4>3. Len(copy') < Len(Taken')
        BY <3>1, <3>2, <4>2
      <4> QED BY <1>1, <1>2, <1>5, <2>1, <2>3, <3>1, <3>5, <4>3
             DEF CopyOK, CopyTypeOK, CopyStateOK, Copied, CopyIsTheSource
    <3>6. CASE ~full'
      <4>1. copy' = Taken'
        BY <1>3, <2>1, <2>3, <3>1, <3>6
      <4> QED BY <1>1, <1>2, <1>5, <2>1, <2>3, <3>1, <3>6, <4>1
             DEF CopyOK, CopyTypeOK, CopyStateOK, Copied, CopyIsTheSource
    <3> QED BY <3>5, <3>6
  <2> QED BY <1>2, <2>2, <2>3
<1> QED BY <1>1, <1>4, <1>5

LEMMA StdCpyKeeps == ASSUME CopyOK, StdCpy PROVE CopyOK'
<1>1. /\ copier = "stdcpy" /\ cpAt = "read" /\ UNCHANGED <<copier, source, there, writable, segment>>
      /\ \/ cpAt' = (IF writable THEN "end" ELSE "crash") /\ UNCHANGED <<copy, full, offset>>
         \/ /\ Put(FputsWrites(FgetsTakes))
            /\ offset' = offset + Len(FgetsTakes) /\ cpAt' = IF writable THEN "read" ELSE "crash"
  BY DEF StdCpy
<1>2. there /\ CopyTypeOK /\ copy \in Seq(Bytes) /\ writable \in BOOLEAN /\ full \in BOOLEAN
  BY <1>1 DEF CopyOK, CopyStateOK, CopyTypeOK
<1>3. writable => /\ Len(copy) <= Len(Taken) /\ (full => Len(copy) < Len(Taken))
                  /\ (~full /\ 0 \notin ToSet(Taken) => copy = Taken)
  BY <1>1, <1>2 DEF CopyOK, CopyStateOK, Copied
<1>4. CASE cpAt' = (IF writable THEN "end" ELSE "crash") /\ UNCHANGED <<copy, full, offset>>
  <2>1. Taken' = Taken
    BY <1>1, <1>4 DEF Taken
  <2>2. CopyTypeOK'
    BY <1>1, <1>2, <1>4 DEF CopyTypeOK
  <2>3. CopyStateOK'
    BY <1>1, <1>2, <1>4 DEF CopyOK, CopyStateOK
  <2>4. CopyIsTheSource'
    BY <1>1, <1>2, <1>3, <1>4, <2>1 DEF CopyIsTheSource, Taken
  <2> QED BY <2>2, <2>3, <2>4 DEF CopyOK
<1>5. CASE /\ Put(FputsWrites(FgetsTakes))
           /\ offset' = offset + Len(FgetsTakes) /\ cpAt' = IF writable THEN "read" ELSE "crash"
  <2>1. PICK n \in Nat : FgetsTakes = Take(n)
    BY <1>2, FgetsTakesPart
  <2> DEFINE buf == Take(n)
             put == FputsWrites(buf)
  <2>2. Taken' = Taken \o buf /\ buf \in Seq(Bytes) /\ offset' \in 0 .. Len(source') /\ Len(buf) \in Nat
    BY <1>1, <1>2, <1>5, <2>1, ReadExtends
  <2>3. put \in Seq(Bytes) /\ Len(put) <= Len(buf) /\ (0 \notin ToSet(buf) => put = buf)
    BY <2>2, FputsWritesPart
  <2>4. Put(put)
    BY <1>5, <2>1
  <2> HIDE DEF buf, put
  <2>5. CASE ~writable
    <3>1. UNCHANGED <<copy, full>>
      BY <2>4, <2>5, PutFails
    <3>2. CopyTypeOK'
      BY <1>1, <1>2, <2>2, <3>1 DEF CopyTypeOK
    <3>3. CopyStateOK'
      BY <1>1, <1>2, <1>5, <2>5, <3>1 DEF CopyOK, CopyStateOK
    <3>4. CopyIsTheSource'
      BY <1>1, <1>5, <2>5 DEF CopyIsTheSource
    <3> QED BY <3>2, <3>3, <3>4 DEF CopyOK
  <2>6. CASE writable
    <3>1. PICK part \in Seq(Bytes) :
             /\ copy' = copy \o part /\ copy' \in Seq(Bytes)
             /\ Len(part) <= Len(put) /\ Len(copy') = Len(copy) + Len(part)
             /\ full' \in BOOLEAN
             /\ ~full' => ~full /\ part = put
             /\ full' => full \/ Len(part) < Len(put)
      BY <1>2, <2>3, <2>4, <2>6, PutPuts
    <3>2. Taken \in Seq(Bytes) /\ Len(Taken) \in Nat
      BY <1>2, TakenIs DEF CopyTypeOK
    <3>3. Len(Taken') = Len(Taken) + Len(buf) /\ Len(copy) \in Nat /\ Len(part) \in Nat /\ Len(put) \in Nat
      <4> HIDE DEF Bytes
      <4> QED BY <1>2, <2>2, <2>3, <3>1, <3>2, ConcatProperties
    <3>4. Len(copy') <= Len(Taken')
      BY <1>3, <2>2, <2>3, <2>6, <3>1, <3>2, <3>3
    <3>5. full' => Len(copy') < Len(Taken')
      BY <1>3, <2>2, <2>3, <2>6, <3>1, <3>2, <3>3
    <3>6. ~full' /\ 0 \notin ToSet(Taken') => copy' = Taken'
      <4>1. 0 \in Bytes
        BY DEF Bytes
      <4> QED BY <1>3, <2>2, <2>3, <2>6, <3>1, <3>2, <4>1, ToSetOfConcat
    <3>7. CopyTypeOK'
      BY <1>1, <1>2, <2>2, <3>1 DEF CopyTypeOK
    <3>8. Copied'
      BY <1>1, <3>4, <3>5, <3>6 DEF Copied
    <3>9. CopyStateOK'
      BY <1>1, <1>2, <1>5, <2>6, <3>1, <3>8 DEF CopyOK, CopyStateOK
    <3>10. CopyIsTheSource'
      BY <1>1, <1>5, <2>6 DEF CopyIsTheSource
    <3> QED BY <3>7, <3>9, <3>10 DEF CopyOK
  <2> QED BY <1>2, <2>5, <2>6
<1> QED BY <1>1, <1>4, <1>5

(* How many whole blocks there are in so many blocks and a part of one.     *)
LEMMA WholeBlocks ==
    ASSUME NEW b \in Nat \ {0}, NEW m \in Nat, NEW r \in 0 .. b - 1
    PROVE  (b * m + r) \div b = m
OBVIOUS

LEMMA PrefixByElements ==
    ASSUME NEW s \in Seq(Bytes), NEW t \in Seq(Bytes), Len(s) <= Len(t),
           \A i \in 1 .. Len(s) : s[i] = t[i]
    PROVE  IsPrefix(s, t)
<1> HIDE DEF Bytes
<1>1. SubSeq(s, 1, Len(s)) = s
  BY SubSeqFull
<1>2. Len(s) \in Nat /\ Len(t) \in Nat
  OBVIOUS
<1>3. 1 \in Int /\ Len(s) \in Int /\ \A i \in 1 .. Len(s) : t[i] \in Bytes
  BY <1>2
<1>4. /\ SubSeq(t, 1, Len(s)) \in Seq(Bytes)
      /\ Len(SubSeq(t, 1, Len(s))) = IF 1 <= Len(s) THEN Len(s) - 1 + 1 ELSE 0
      /\ \A i \in 1 .. Len(s) - 1 + 1 : SubSeq(t, 1, Len(s))[i] = t[1 + i - 1]
  BY <1>3, SubSeqProperties
<1>5. Len(SubSeq(t, 1, Len(s))) = Len(s) /\ \A i \in 1 .. Len(s) : SubSeq(t, 1, Len(s))[i] = s[i]
  BY <1>2, <1>4
<1>6. SubSeq(t, 1, Len(s)) = s
  BY <1>4, <1>5, SeqEqual
<1> QED BY <1>1, <1>6 DEF IsPrefix

(* Rximg.c writes a whole block: what fread got, and behind it what the     *)
(* segment held.                                                            *)
LEMMA RximgKeeps == ASSUME CopyOK, Rximg PROVE CopyOK'
<1> DEFINE got == Take(Block)
           block == [i \in 1 .. Block |-> IF i <= Len(got) THEN got[i] ELSE segment[i]]
<1>1. /\ copier = "Rximg" /\ cpAt = "read" /\ UNCHANGED <<copier, source, there, writable>>
      /\ Put(block)
      /\ offset' = offset + Len(got)
      /\ segment' = [i \in 1 .. Block |-> IF i <= Cleared THEN 0 ELSE block[i]]
      /\ cpAt' = CASE ~writable -> "crash"
                   [] writable /\ Len(got) < Block -> "end"
                   [] writable /\ Len(got) >= Block -> "read"
  BY DEF Rximg
<1>2. /\ there /\ CopyTypeOK /\ copy \in Seq(Bytes) /\ writable \in BOOLEAN
      /\ full \in BOOLEAN /\ Block \in Nat \ {0} /\ Cleared \in 0 .. Block
  BY <1>1, CopyAssumption DEF CopyOK, CopyStateOK, CopyTypeOK
<1>3. writable => /\ full => Len(copy) < Len(Taken)
                  /\ ~full => copy = Taken
                  /\ \E m \in Nat : offset = Block * m
  BY <1>1, <1>2 DEF CopyOK, CopyStateOK, Copied
<1>13. Block \in Nat /\ CopyTypeOK /\ source' = source /\ offset' = offset + Len(Take(Block))
  BY <1>1, <1>2
<1>14. Taken' = Taken \o got /\ got \in Seq(Bytes) /\ Len(got) \in Nat /\ offset' \in 0 .. Len(source')
  BY <1>13, ReadExtends
<1>15. Len(got) <= Block
  <2>1. Len(got) = IF Block < Len(source) - offset THEN Block ELSE Len(source) - offset
    BY <1>13, TakeExtends
  <2>2. offset \in 0 .. Len(source) /\ Len(source) \in Nat
    BY <1>13 DEF CopyTypeOK
  <2> HIDE DEF got
  <2> QED BY <1>13, <2>1, <2>2
<1>4. /\ got \in Seq(Bytes) /\ Len(got) \in Nat /\ Len(got) <= Block
      /\ Taken' = Taken \o got /\ offset' \in 0 .. Len(source')
      /\ Taken \in Seq(Bytes) /\ Len(Taken) = offset
  BY <1>13, <1>14, <1>15, TakenIs
<1>16. cpAt' = IF ~writable THEN "crash" ELSE IF Len(got) < Block THEN "end" ELSE "read"
  <2>1. Len(got) < Block \/ Len(got) >= Block
    BY <1>2, <1>4
  <2> HIDE DEF got, block
  <2> QED BY <1>1, <1>2, <2>1
<1>5. segment \in [1 .. Block -> Bytes]
  BY <1>2 DEF CopyTypeOK
<1>6. \A i \in 1 .. Block : (IF i <= Len(got) THEN got[i] ELSE segment[i]) \in Bytes
  <2> HIDE DEF got, Bytes
  <2> QED BY <1>4, <1>5
<1>7. /\ block \in [1 .. Block -> Bytes]
      /\ \A i \in 1 .. Len(got) : i \in 1 .. Block /\ block[i] = got[i]
  <2> HIDE DEF got, Bytes
  <2> QED BY <1>2, <1>4, <1>6
<1> HIDE DEF got, block
<1>8. block \in Seq(Bytes) /\ Len(block) = Block /\ segment' \in [1 .. Block -> Bytes]
  <2>1. 0 \in Bytes
    BY DEF Bytes
  <2> HIDE DEF Bytes
  <2>2. block \in Seq(Bytes) /\ Len(block) = Block
    BY <1>2, <1>7
  <2>3. \A i \in 1 .. Block : (IF i <= Cleared THEN 0 ELSE block[i]) \in Bytes
    BY <1>7, <2>1
  <2>4. segment' \in [1 .. Block -> Bytes]
    BY <1>1, <2>3
  <2> QED BY <2>2, <2>4
<1>9. /\ Taken \o block \in Seq(Bytes) /\ Len(Taken \o block) = offset + Block
      /\ Taken' \in Seq(Bytes) /\ Len(Taken') = offset + Len(got)
      /\ \A i \in 1 .. offset + Block :
            (Taken \o block)[i] = IF i <= offset THEN Taken[i] ELSE block[i - offset]
      /\ \A i \in 1 .. offset + Len(got) :
            Taken'[i] = IF i <= offset THEN Taken[i] ELSE got[i - offset]
      /\ offset \in Nat
  <2>1. offset \in Nat
    BY <1>2 DEF CopyTypeOK
  <2> HIDE DEF Bytes
  <2> QED BY <1>2, <1>4, <1>8, <2>1, ConcatProperties
<1>17. Len(copy) \in Nat
  <2> HIDE DEF Bytes
  <2> QED BY <1>2
<1>11. CASE ~writable
  <2>1. cpAt' = "crash" /\ UNCHANGED <<copy, full>>
    BY <1>1, <1>11, <1>16, PutFails
  <2>2. CopyStateOK' /\ CopyIsTheSource'
    BY <1>1, <1>2, <1>11, <2>1 DEF CopyOK, CopyStateOK, CopyIsTheSource
  <2>3. CopyTypeOK'
    BY <1>1, <1>2, <1>4, <1>8, <2>1 DEF CopyTypeOK
  <2> QED BY <2>2, <2>3 DEF CopyOK
<1>12. CASE writable
  <2>1. PICK part \in Seq(Bytes) :
           /\ copy' = copy \o part /\ copy' \in Seq(Bytes)
           /\ Len(part) <= Len(block) /\ Len(copy') = Len(copy) + Len(part)
           /\ full' \in BOOLEAN
           /\ ~full' => ~full /\ part = block
           /\ full' => full \/ Len(part) < Len(block)
    BY <1>1, <1>2, <1>8, <1>12, PutPuts
  <2>2. PICK m \in Nat : offset = Block * m
    BY <1>3, <1>12
  <2>3. CopyTypeOK'
    BY <1>1, <1>2, <1>4, <1>8, <2>1 DEF CopyTypeOK
  <2>4. full' => Len(copy') < offset + Block
    <3> SUFFICES ASSUME full' PROVE Len(copy') < offset + Block
      OBVIOUS
    <3>1. Len(part) \in Nat
      <4> HIDE DEF Bytes
      <4> QED BY <2>1
    <3>2. Len(part) <= Block /\ Len(copy') = Len(copy) + Len(part) /\ Block \in Nat
      BY <1>2, <1>8, <2>1
    <3>3. CASE full
      <4>1. Len(copy) < offset
        BY <1>3, <1>4, <1>12, <3>3
      <4> QED BY <1>9, <1>17, <3>1, <3>2, <4>1
    <3>4. CASE ~full
      <4>1. Len(copy) = offset /\ Len(part) < Block
        BY <1>3, <1>4, <1>8, <1>12, <2>1, <3>4
      <4> QED BY <1>9, <3>1, <3>2, <4>1
    <3> QED BY <3>3, <3>4
  <2>5. ~full' => copy' = Taken \o block
    BY <1>3, <1>12, <2>1
  <2>6. ASSUME NEW i \in 1 .. offset + Len(got) PROVE Taken'[i] = (Taken \o block)[i]
    <3>1. CASE i <= offset
      BY <1>2, <1>4, <1>9, <3>1
    <3>2. CASE i > offset
      <4>1. i - offset \in 1 .. Len(got)
        BY <1>4, <1>9, <3>2
      <4>2. Taken'[i] = got[i - offset]
        BY <1>4, <1>9, <3>2
      <4>3. (Taken \o block)[i] = block[i - offset]
        BY <1>2, <1>4, <1>9, <3>2
      <4> QED BY <1>7, <4>1, <4>2, <4>3
    <3>3. i <= offset \/ i > offset
      BY <1>4, <1>9
    <3> QED BY <3>1, <3>2, <3>3
  <2>7. CASE Len(got) < Block
    <3>1. cpAt' = "end"
      BY <1>12, <1>16, <2>7
    <3>2. Len(Taken') = offset + Len(got)
      BY <1>9
    <3>3. offset + Block = Block * (m + 1)
      BY <1>2, <2>2
    <3>4. (offset + Len(got)) \div Block = m
      <4>1. Len(got) \in 0 .. Block - 1
        BY <1>2, <1>4, <2>7
      <4>2. (Block * m + Len(got)) \div Block = m
        BY <1>2, <2>2, <4>1, WholeBlocks
      <4> QED BY <2>2, <4>2
    <3>5. offset + Block = Block * (Len(Taken') \div Block + 1)
      BY <3>2, <3>3, <3>4
    <3>6. ~full' => /\ Len(copy') = Block * (Len(Taken') \div Block + 1)
                    /\ IsPrefix(Taken', copy')
      <4> SUFFICES ASSUME ~full'
                   PROVE  /\ Len(copy') = offset + Block
                          /\ IsPrefix(Taken', copy')
        BY <3>5
      <4>1. copy' = Taken \o block
        BY <2>5
      <4>2. /\ Taken' \in Seq(Bytes) /\ copy' \in Seq(Bytes) /\ Len(Taken') <= Len(copy')
            /\ \A i \in 1 .. Len(Taken') : Taken'[i] = copy'[i]
        BY <1>2, <1>4, <1>9, <2>6, <2>7, <3>2, <4>1
      <4> QED BY <1>9, <4>1, <4>2, PrefixByElements
    <3>7. CopyStateOK'
      BY <1>1, <1>2, <1>12, <2>1, <3>1 DEF CopyOK, CopyStateOK
    <3>8. full' => Len(copy') < Block * (Len(Taken') \div Block + 1)
      BY <2>4, <3>5
    <3>9. CopyIsTheSource'
      BY <1>1, <1>2, <1>12, <3>1, <3>6, <3>8 DEF CopyIsTheSource, Taken
    <3> QED BY <2>3, <3>7, <3>9 DEF CopyOK
  <2>8. CASE ~(Len(got) < Block)
    <3>1. cpAt' = "read" /\ Len(got) = Block
      BY <1>2, <1>4, <1>12, <1>16, <2>8
    <3>2. ~full' => copy' = Taken'
      <4> SUFFICES ASSUME ~full' PROVE copy' = Taken'
        OBVIOUS
      <4>1. /\ Taken' \in Seq(Bytes) /\ copy' \in Seq(Bytes) /\ Len(copy') = Len(Taken')
            /\ \A i \in 1 .. Len(Taken') : Taken'[i] = copy'[i]
        BY <1>4, <1>9, <2>5, <2>6, <3>1
      <4> HIDE DEF Bytes
      <4> QED BY <4>1, SeqEqual
    <3>3. offset' = Block * (m + 1)
      BY <1>1, <1>2, <2>2, <3>1
    <3>4. full' => Len(copy') < Len(Taken')
      BY <1>9, <2>4, <3>1
    <3>5. Copied'
      BY <1>1, <3>2, <3>3, <3>4 DEF Copied
    <3>6. CopyStateOK'
      BY <1>1, <1>2, <1>12, <2>1, <3>1, <3>5 DEF CopyOK, CopyStateOK
    <3>7. CopyIsTheSource'
      BY <3>1 DEF CopyIsTheSource
    <3> QED BY <2>3, <3>6, <3>7 DEF CopyOK
  <2> QED BY <2>7, <2>8
<1> QED BY <1>2, <1>11, <1>12

LEMMA GrowKeeps == ASSUME CopyOK, Grow PROVE CopyOK'
<1>1. Taken' = Taken /\ CopyTypeOK'
  BY GrowKeepsTaken DEF CopyOK
<1>2. UNCHANGED <<copier, cpAt, copy, there, writable, full, offset>>
  BY DEF Grow
<1>3. CopyStateOK'
  BY <1>1, <1>2 DEF CopyOK, CopyStateOK, Copied
<1>4. CopyIsTheSource'
  BY <1>1, <1>2 DEF CopyOK, CopyIsTheSource, Taken
<1> QED BY <1>1, <1>3, <1>4 DEF CopyOK

LEMMA OpenKeeps == ASSUME CopyOK, Open PROVE CopyOK'
<1>1. /\ copier = "none" /\ copier' \in {"cpsys", "stdcpy", "Rximg"}
      /\ there' \in BOOLEAN /\ writable' \in BOOLEAN
      /\ copy' = IF writable' THEN <<>> ELSE copy
      /\ cpAt' = CASE there' -> "read" [] ~there' /\ copier' = "cpsys" -> "end" [] OTHER -> "crash"
      /\ UNCHANGED <<source, full, offset, segment>>
  BY DEF Open
<1>2. /\ there' => cpAt' = "read"
      /\ ~there' => cpAt' = IF copier' = "cpsys" THEN "end" ELSE "crash"
  BY <1>1
<1>3. copy = OldCopy /\ ~full /\ offset = 0 /\ copy \in Seq(Bytes) /\ CopyTypeOK
  BY <1>1 DEF CopyOK, CopyStateOK, CopyTypeOK
<1>11. ~full' /\ full' \in BOOLEAN
  BY <1>1, <1>3 DEF CopyOK, CopyStateOK
<1>4. copy' \in Seq(Bytes)
  BY <1>1, <1>3, EmptySeq
<1>5. CopyTypeOK'
  BY <1>1, <1>3, <1>4 DEF CopyTypeOK
<1>6. Taken = <<>> /\ Taken' = Taken
  <2>1. Taken \in Seq(Bytes) /\ Len(Taken) = 0
    BY <1>3, TakenIs
  <2>2. Taken = <<>>
    <3> HIDE DEF Bytes
    <3> QED BY <2>1, EmptySeq
  <2> QED BY <1>1, <2>2 DEF Taken
<1>7. offset' = Block * 0
  BY <1>1, <1>3, CopyAssumption
<1>8. writable' => Copied'
  <2> SUFFICES ASSUME writable' PROVE Copied'
    OBVIOUS
  <2>1. copy' = Taken'
    BY <1>1, <1>6
  <2>2. Len(copy') <= Len(Taken')
    BY <1>6, <2>1
  <2> QED BY <1>1, <1>7, <1>11, <2>1, <2>2 DEF Copied
<1>9. CopyStateOK'
  BY <1>1, <1>2, <1>3, <1>8, <1>11 DEF CopyStateOK
<1>10. CopyIsTheSource'
  BY <1>1, <1>2, <1>3, <1>11 DEF CopyIsTheSource
<1> QED BY <1>5, <1>9, <1>10 DEF CopyOK

LEMMA ShmFailsKeeps == ASSUME CopyOK, ShmFails PROVE CopyOK'
<1>1. /\ copier = "none" /\ copier' = "Rximg" /\ cpAt' = "failed"
      /\ UNCHANGED <<source, copy, there, writable, full, offset, segment>>
  BY DEF ShmFails
<1>2. CopyTypeOK'
  BY <1>1 DEF CopyOK, CopyTypeOK
<1>3. CopyStateOK' /\ CopyIsTheSource'
  BY <1>1 DEF CopyOK, CopyStateOK, CopyIsTheSource
<1> QED BY <1>2, <1>3 DEF CopyOK

(* What a copy is worth when its program has ended, for every size of the   *)
(* buffers, every source, and every byte that is appended meanwhile.        *)
THEOREM CopiesRight == CopySpec => []CopyIsTheSource
<1>1. CopyInit => CopyOK
  <2> SUFFICES ASSUME CopyInit PROVE CopyOK
    OBVIOUS
  <2>1. source \in Seq(Bytes) /\ copy \in Seq(Bytes) /\ Len(source) = 0
    <3>1. 10 \in Bytes
      BY DEF Bytes
    <3> HIDE DEF Bytes
    <3> QED BY <3>1, EmptySeq, OneElement DEF CopyInit, OldCopy
  <2>2. CopyTypeOK
    BY <2>1, CopyAssumption DEF CopyInit, CopyTypeOK, Bytes
  <2>3. CopyStateOK /\ CopyIsTheSource
    BY DEF CopyInit, CopyStateOK, CopyIsTheSource
  <2> QED BY <2>2, <2>3 DEF CopyOK
<1>2. CopyOK /\ [CopyNext]_copyVars => CopyOK'
  <2> SUFFICES ASSUME CopyOK, [CopyNext]_copyVars PROVE CopyOK'
    OBVIOUS
  <2>1. CASE CopyNext
    BY <2>1, GrowKeeps, OpenKeeps, ShmFailsKeeps, CpSysKeeps, StdCpyKeeps, RximgKeeps DEF CopyNext
  <2>2. CASE UNCHANGED copyVars
    <3>1. Taken' = Taken
      BY <2>2 DEF Taken, copyVars
    <3> QED BY <2>2, <3>1 DEF copyVars, CopyOK, CopyTypeOK, CopyStateOK, Copied, CopyIsTheSource, Taken
  <2> QED BY <2>1, <2>2
<1>3. CopyOK => CopyIsTheSource
  BY DEF CopyOK
<1> QED BY <1>1, <1>2, <1>3, PTL DEF CopySpec

-----------------------------------------------------------------------------
(* The programs with a window                                               *)

ViewSpec == ViewInit /\ [][ViewNext]_viewerVars

(* While a program waits for a key its window is open.  In the loop, a      *)
(* closed one belongs to a program of many frames, and the figure's capture *)
(* is released with it.                                                     *)
ViewOK ==
    /\ vAt = "start" \/ viewer \in DOMAIN ViewerPrograms
    /\ vAt = "key" => window = "open"
    /\ vAt = "loop" /\ window = "closed" =>
          ~This.once /\ (viewer = "figure" => capture = "released")
    /\ window = "closed" => vAt \in {"loop", "clean", "raised"}

(* The clean-up ends the program.                                           *)
LEMMA LastEnds == \A v \in DOMAIN ViewerPrograms : ViewerPrograms[v].last \subseteq {"end", "raised"}
BY DEF ViewerPrograms, Program, WebcamCpp, WebcamF, WebcamRotate, WebcamPy, WTest, WTest2, Camera,
       Canny, VideoFile, VideoNet, UTube, Figure, ReadCpp, ImagePro, EventPress, Merge, ImRead, Crop

LEMMA ViewOKInit == ViewInit => ViewOK
BY DEF ViewInit, ViewOK

LEMMA ViewOKStep == ViewOK /\ [ViewNext]_viewerVars => ViewOK'
<1> SUFFICES ASSUME ViewOK, [ViewNext]_viewerVars PROVE ViewOK'
  OBVIOUS
<1>1. CASE OpenSource
  <2>1. window' \in {"open", "none"} /\ vAt' # "key" /\ viewer' \in DOMAIN ViewerPrograms
    BY <1>1 DEF OpenSource
  <2> QED BY <2>1 DEF ViewOK
<1>2. CASE NoSuchVideo
  BY <1>2 DEF ViewOK, NoSuchVideo, ViewerPrograms
<1>3. CASE FirstFrame
  BY <1>3 DEF ViewOK, FirstFrame
<1>4. CASE WindowGone
  BY <1>4 DEF ViewOK, WindowGone
<1>5. CASE ShowFrame
  BY <1>5 DEF ViewOK, ShowFrame
<1>6. CASE NoFrame
  BY <1>6 DEF ViewOK, NoFrame
<1>7. CASE KeepOn
  BY <1>7 DEF ViewOK, KeepOn
<1>8. CASE EndKey
  BY <1>8 DEF ViewOK, EndKey
<1>9. CASE CloseWindow
  <2>1. This' = This
    BY <1>9 DEF CloseWindow, This
  <2>2. /\ viewer # "figure" /\ viewer' = viewer
        /\ This.once => vAt' = "clean"
        /\ ~This.once => vAt' = "loop"
    BY <1>9 DEF CloseWindow
  <2>3. vAt' \in {"loop", "clean"} /\ viewer \in DOMAIN ViewerPrograms
    BY <1>9, <2>2 DEF CloseWindow, ViewOK
  <2> QED BY <2>1, <2>2, <2>3 DEF ViewOK
<1>10. CASE OnPress
  BY <1>10 DEF ViewOK, OnPress
<1>11. CASE CannyKey
  BY <1>11 DEF ViewOK, CannyKey
<1>12. CASE HandleClose \/ HandleKeyPress
  <2>1. /\ viewer = "figure" /\ viewer' = viewer /\ vAt' = "loop" /\ window' = "closed"
        /\ capture' = "released"
    BY <1>12 DEF HandleClose, HandleKeyPress, SourceAfterClose
  <2>2. ~This'.once /\ viewer' \in DOMAIN ViewerPrograms
    BY <2>1 DEF This, ViewerPrograms, Figure, Program
  <2> QED BY <2>1, <2>2 DEF ViewOK
<1>13. CASE ViewerCleanUp
  <2>1. window' = "none" /\ vAt' \in {"end", "raised"}
    BY <1>13, LastEnds DEF ViewOK, ViewerCleanUp, This
  <2>2. viewer' \in DOMAIN ViewerPrograms
    BY <1>13 DEF ViewOK, ViewerCleanUp
  <2> QED BY <2>1, <2>2 DEF ViewOK
<1>14. CASE UNCHANGED viewerVars
  BY <1>14 DEF viewerVars, ViewOK, This
<1> QED BY <1>1, <1>2, <1>3, <1>4, <1>5, <1>6, <1>7, <1>8, <1>9, <1>10, <1>11, <1>12, <1>13, <1>14
        DEF ViewNext

(* Closed windows stay closed in the programs that look, and a program that *)
(* comes to its end has given its capture back.                             *)
THEOREM WindowsStayClosed == ViewSpec => ClosedStaysClosed
<1>1. ViewOK /\ [ViewNext]_viewerVars =>
         [/\ vAt = "loop" /\ vAt' = "key" /\ window = "closed" =>
                ~This.once /\ viewer \notin {"canny", "figure"}
          /\ vAt' = "end" => capture' # "live"]_viewerVars
  <2> SUFFICES ASSUME ViewOK, ViewNext
               PROVE  /\ vAt = "loop" /\ vAt' = "key" /\ window = "closed" =>
                            ~This.once /\ viewer \notin {"canny", "figure"}
                      /\ vAt' = "end" => capture' # "live"
    OBVIOUS
  <2>1. ASSUME vAt = "loop", vAt' = "key", window = "closed"
        PROVE  ~This.once /\ viewer \notin {"canny", "figure"}
    <3>1. ShowFrame
      BY <2>1 DEF ViewNext, OpenSource, NoSuchVideo, FirstFrame, WindowGone, NoFrame, KeepOn,
                  EndKey, CloseWindow, OnPress, CannyKey, HandleClose, HandleKeyPress, ViewerCleanUp
    <3> QED BY <2>1, <3>1 DEF ViewOK, ShowFrame, SeesClosed
  <2>2. ASSUME vAt' = "end" PROVE capture' # "live"
    <3>1. CASE OpenSource
      BY <2>2, <3>1 DEF OpenSource
    <3>2. CASE ViewerCleanUp
      BY <3>2 DEF ViewerCleanUp
    <3> QED BY <2>2, <3>1, <3>2
            DEF ViewNext, NoSuchVideo, FirstFrame, WindowGone, ShowFrame, NoFrame, KeepOn,
                EndKey, CloseWindow, OnPress, CannyKey, HandleClose, HandleKeyPress
  <2> QED BY <2>1, <2>2
<1> QED BY <1>1, ViewOKInit, ViewOKStep, PTL DEF ViewSpec, ClosedStaysClosed

-----------------------------------------------------------------------------
(* makehome.c, blackbox2.c, blackbox.c                                      *)

DirSpec == DirInit /\ [][DirNext]_dirVars

PathNames == ToSet(HomePath) \cup ToSet(Cwd) \cup {ToString(h) : h \in Nat}

(* A launch at k of program m, for path t, next level l, with the           *)
(* directories tr: what is above the next directory exists.                 *)
LaunchOK(k, m, t, l, tr) ==
    /\ k = "off" => l = 1
    /\ k = "loop" => /\ m \in {"makehome", "blackbox2"} /\ l <= Len(t)
                     /\ l > 1 => SubSeq(t, 1, l - 1) \in tr
                     /\ m = "blackbox2" => l < Len(t)
    /\ k = "leaf" => m \in {"blackbox2", "blackbox"}
    /\ k \in {"loop", "leaf"} /\ m # "makehome" => Len(t) > 1 /\ SubSeq(t, 1, Len(t) - 1) \in tr
    /\ k \in {"0", "-1"} => t \in tr
    /\ k = "-1" => m = "blackbox2"
    /\ k # "crash"

DirTypeOK ==
    /\ hour \in Nat
    /\ mkAt \in [Makers -> {"off", "loop", "leaf", "0", "-1", "crash"}]
    /\ maker \in [Makers -> {"none", "makehome", "blackbox2", "blackbox"}]
    /\ target \in [Makers -> Seq(PathNames)] /\ level \in [Makers -> Nat \ {0}]

ToldOne ==
    \A p \in Makers : \A q \in Makers \ {p} :
        maker[p] = "blackbox2" /\ maker[q] = "blackbox2" /\ target[p] = target[q]
        => ~(mkAt[p] = "0" /\ mkAt[q] = "0")

DirOK ==
    /\ DirTypeOK
    /\ ~swept => /\ Cwd \in tree /\ ToldOne
                 /\ \A p \in Makers : LaunchOK(mkAt[p], maker[p], target[p], level[p], tree)

(* More directories do no harm.                                             *)
LEMMA MoreTree ==
    ASSUME NEW k, NEW m, NEW t, NEW l, NEW tr, NEW ts, tr \subseteq ts, LaunchOK(k, m, t, l, tr)
    PROVE  LaunchOK(k, m, t, l, ts)
BY DEF LaunchOK

LEMMA TreeGrows == \A d : tree \subseteq TreeAfter(d)
BY DEF TreeAfter

(* mkdir of a path whose parent exists leaves it in place.                  *)
LEMMA Mkdir ==
    ASSUME NEW d, Len(d) = 1 \/ SubSeq(d, 1, Len(d) - 1) \in tree
    PROVE  d \in TreeAfter(d)
BY DEF TreeAfter, CanMake

(* The first names of a path, and the parent of that.                       *)
LEMMA PathPrefix ==
    ASSUME NEW S, NEW t \in Seq(S), NEW l \in 1 .. Len(t)
    PROVE  /\ Len(SubSeq(t, 1, l)) = l
           /\ SubSeq(SubSeq(t, 1, l), 1, l - 1) = SubSeq(t, 1, l - 1)
<1>1. Len(t) \in Nat /\ 1 \in Int /\ l \in Int /\ l - 1 \in Int
      /\ \A i \in 1 .. l : t[i] \in S /\ \A j \in 1 .. l - 1 : t[j] \in S
  OBVIOUS
<1>2. /\ SubSeq(t, 1, l) \in Seq(S)
      /\ Len(SubSeq(t, 1, l)) = IF 1 <= l THEN l - 1 + 1 ELSE 0
      /\ \A i \in 1 .. l - 1 + 1 : SubSeq(t, 1, l)[i] = t[1 + i - 1]
  BY <1>1, SubSeqProperties
<1>3. Len(SubSeq(t, 1, l)) = l /\ \A i \in 1 .. l : SubSeq(t, 1, l)[i] = t[i]
  BY <1>1, <1>2
<1>4. /\ SubSeq(t, 1, l - 1) \in Seq(S)
      /\ Len(SubSeq(t, 1, l - 1)) = IF 1 <= l - 1 THEN l - 1 - 1 + 1 ELSE 0
      /\ \A i \in 1 .. l - 1 - 1 + 1 : SubSeq(t, 1, l - 1)[i] = t[1 + i - 1]
  BY <1>1, SubSeqProperties
<1> DEFINE u == SubSeq(t, 1, l)
<1>5. u \in Seq(S) /\ \A i \in 1 .. l - 1 : u[i] \in S
  BY <1>1, <1>2, <1>3
<1> HIDE DEF u
<1>6. /\ SubSeq(u, 1, l - 1) \in Seq(S)
      /\ Len(SubSeq(u, 1, l - 1)) = IF 1 <= l - 1 THEN l - 1 - 1 + 1 ELSE 0
      /\ \A i \in 1 .. l - 1 - 1 + 1 : SubSeq(u, 1, l - 1)[i] = u[1 + i - 1]
  BY <1>1, <1>5, SubSeqProperties
<1>7. \A i \in 1 .. l - 1 : SubSeq(u, 1, l - 1)[i] = t[i] /\ SubSeq(t, 1, l - 1)[i] = t[i]
  <2>1. \A i \in 1 .. l - 1 : u[i] = t[i]
    BY <1>1, <1>3 DEF u
  <2> QED BY <1>1, <1>4, <1>6, <2>1
<1>8. Len(SubSeq(u, 1, l - 1)) = l - 1 /\ Len(SubSeq(t, 1, l - 1)) = l - 1
  BY <1>1, <1>4, <1>6
<1>9. SubSeq(u, 1, l - 1) = SubSeq(t, 1, l - 1)
  BY <1>4, <1>6, <1>7, <1>8, SeqEqual
<1> QED BY <1>3, <1>9 DEF u

LEMMA PathParent ==
    ASSUME NEW S, NEW t \in Seq(S), NEW x \in S
    PROVE  /\ Append(t, x) \in Seq(S) /\ Len(Append(t, x)) = Len(t) + 1
           /\ SubSeq(Append(t, x), 1, Len(t)) = t
<1> DEFINE u == Append(t, x)
<1>1. /\ u \in Seq(S) /\ Len(u) = Len(t) + 1 /\ Len(t) \in Nat
      /\ \A i \in 1 .. Len(t) : u[i] = t[i] /\ u[i] \in S
  BY AppendProperties
<1> HIDE DEF u
<1>2. /\ SubSeq(u, 1, Len(t)) \in Seq(S)
      /\ Len(SubSeq(u, 1, Len(t))) = IF 1 <= Len(t) THEN Len(t) - 1 + 1 ELSE 0
      /\ \A i \in 1 .. Len(t) - 1 + 1 : SubSeq(u, 1, Len(t))[i] = u[1 + i - 1]
  <2>1. 1 \in Int /\ Len(t) \in Int /\ \A i \in 1 .. Len(t) : u[i] \in S
    BY <1>1
  <2> QED BY <2>1, SubSeqProperties
<1>3. Len(SubSeq(u, 1, Len(t))) = Len(t) /\ \A i \in 1 .. Len(t) : SubSeq(u, 1, Len(t))[i] = t[i]
  BY <1>1, <1>2
<1>4. SubSeq(u, 1, Len(t)) = t
  BY <1>2, <1>3, SeqEqual
<1> QED BY <1>1, <1>4 DEF u

LEMMA DirConstants ==
    /\ HomePath \in Seq(PathNames) /\ Len(HomePath) \in Nat \ {0}
    /\ Cwd \in Seq(PathNames) /\ Len(Cwd) \in Nat \ {0}
<1>1. ASSUME NEW s, NEW S, s \in Seq(S), S \subseteq PathNames, s # <<>>
      PROVE  s \in Seq(PathNames) /\ Len(s) \in Nat \ {0}
  <2>1. Len(s) \in Nat /\ s = [i \in 1 .. Len(s) |-> s[i]] /\ \A i \in 1 .. Len(s) : s[i] \in S
    BY <1>1
  <2>2. Len(s) # 0
    BY <1>1, EmptySeq
  <2>3. \A i \in 1 .. Len(s) : s[i] \in PathNames
    BY <1>1, <2>1
  <2> QED BY <2>1, <2>2, <2>3
<1> QED BY <1>1, DirAssumption DEF PathNames

LEMMA HourTargets ==
    ASSUME hour \in Nat
    PROVE  LET t == Append(Cwd, ToString(hour))
           IN  /\ t \in Seq(PathNames) /\ Len(t) > 1 /\ Len(t) \in Nat
               /\ SubSeq(t, 1, Len(t) - 1) = Cwd
               /\ HourPath \in Seq(PathNames)
<1> DEFINE x == ToString(hour)
           t == Append(Cwd, x)
<1>1. x \in PathNames
  BY DEF PathNames
<1> HIDE DEF x
<1>2. t \in Seq(PathNames) /\ Len(t) = Len(Cwd) + 1 /\ SubSeq(t, 1, Len(Cwd)) = Cwd
  BY <1>1, DirConstants, PathParent
<1>3. <<x>> \in Seq(PathNames)
  BY <1>1
<1> HIDE DEF t
<1>4. Len(t) > 1 /\ Len(t) \in Nat /\ Len(t) - 1 = Len(Cwd)
  BY <1>2, DirConstants
<1>5. SubSeq(t, 1, Len(t) - 1) = Cwd
  BY <1>2, <1>4
<1>6. HourPath = IF Cwd \in tree THEN t ELSE <<x>>
  BY DEF HourPath, t, x
<1>7. HourPath \in Seq(PathNames)
  BY <1>2, <1>3, <1>6
<1> QED BY <1>2, <1>4, <1>5, <1>7 DEF t, x

(* A step of one launch: it ends in a state that is right, it tells "0" of  *)
(* a path that was not there, and the directories only become more.         *)
LaunchStep(p, k, m, t, l) ==
    /\ swept' = swept /\ hour' = hour /\ tree \subseteq tree'
    /\ k \in {"off", "loop", "leaf", "0", "-1", "crash"}
    /\ m \in {"none", "makehome", "blackbox2", "blackbox"}
    /\ t \in Seq(PathNames) /\ l \in Nat \ {0}
    /\ mkAt' = [mkAt EXCEPT ![p] = k] /\ maker' = [maker EXCEPT ![p] = m]
    /\ target' = [target EXCEPT ![p] = t] /\ level' = [level EXCEPT ![p] = l]
    /\ ~swept => LaunchOK(k, m, t, l, tree')
    /\ ~swept /\ k = "0" /\ m = "blackbox2" => t \notin tree

LEMMA OneLaunch ==
    ASSUME DirOK, NEW p \in Makers, NEW k, NEW m, NEW t, NEW l, LaunchStep(p, k, m, t, l)
    PROVE  DirOK'
<1> USE DEF LaunchStep
<1>1. DirTypeOK
  BY DEF DirOK
<1>2. /\ mkAt'[p] = k /\ maker'[p] = m /\ target'[p] = t /\ level'[p] = l
      /\ \A q \in Makers \ {p} : /\ mkAt'[q] = mkAt[q] /\ maker'[q] = maker[q]
                                 /\ target'[q] = target[q] /\ level'[q] = level[q]
  BY <1>1 DEF DirTypeOK
<1>3. DirTypeOK'
  <2>1. target' \in [Makers -> Seq(PathNames)]
    BY <1>1 DEF DirTypeOK
  <2>2. level' \in [Makers -> Nat \ {0}]
    BY <1>1 DEF DirTypeOK
  <2>3. /\ mkAt' \in [Makers -> {"off", "loop", "leaf", "0", "-1", "crash"}]
        /\ maker' \in [Makers -> {"none", "makehome", "blackbox2", "blackbox"}]
    BY <1>1 DEF DirTypeOK
  <2> QED BY <1>1, <2>1, <2>2, <2>3 DEF DirTypeOK
<1>4. ASSUME ~swept PROVE (Cwd \in tree /\ ToldOne)' /\ \A q \in Makers : LaunchOK(mkAt[q], maker[q], target[q], level[q], tree)'
  <2>1. /\ Cwd \in tree /\ ToldOne
        /\ \A q \in Makers : LaunchOK(mkAt[q], maker[q], target[q], level[q], tree)
    BY <1>4 DEF DirOK
  <2>2. ASSUME NEW q \in Makers PROVE LaunchOK(mkAt'[q], maker'[q], target'[q], level'[q], tree')
    <3>1. CASE q = p
      BY <1>2, <1>4, <3>1
    <3>2. CASE q # p
      <4>1. LaunchOK(mkAt[q], maker[q], target[q], level[q], tree')
        BY <2>1, MoreTree
      <4> QED BY <1>2, <3>2, <4>1
    <3> QED BY <3>1, <3>2
  <2>3. \A q \in Makers : mkAt[q] = "0" => target[q] \in tree
    BY <2>1 DEF LaunchOK
  <2>4. ToldOne'
    BY <1>2, <1>4, <2>1, <2>3 DEF ToldOne
  <2>5. Cwd \in tree'
    BY <2>1
  <2> QED BY <2>2, <2>4, <2>5
<1> QED BY <1>3, <1>4 DEF DirOK

(* What a launch leaves as it was.                                          *)
LEMMA SameAgain ==
    ASSUME DirTypeOK, NEW p \in Makers
    PROVE  /\ maker = [maker EXCEPT ![p] = maker[p]] /\ target = [target EXCEPT ![p] = target[p]]
           /\ level = [level EXCEPT ![p] = level[p]]
           /\ maker[p] \in {"none", "makehome", "blackbox2", "blackbox"}
           /\ target[p] \in Seq(PathNames) /\ level[p] \in Nat \ {0}
BY DEF DirTypeOK

LEMMA MakerStartKeeps == ASSUME DirOK, NEW p \in Makers, MakerStart(p) PROVE DirOK'
<1>1. /\ DirTypeOK /\ hour \in Nat /\ swept' = swept /\ hour' = hour /\ tree' = tree
      /\ level' = level /\ mkAt[p] = "off"
  BY DEF DirOK, DirTypeOK, MakerStart
<1>2. level = [level EXCEPT ![p] = level[p]] /\ level[p] \in Nat \ {0}
  BY <1>1, SameAgain
<1>3. ~swept => level[p] = 1 /\ Cwd \in tree
  BY <1>1 DEF DirOK, LaunchOK
<1> DEFINE t == Append(Cwd, ToString(hour))
<1>4. /\ t \in Seq(PathNames) /\ Len(t) > 1 /\ Len(t) \in Nat /\ SubSeq(t, 1, Len(t) - 1) = Cwd
      /\ HourPath \in Seq(PathNames) /\ (Cwd \in tree => HourPath = t)
  BY <1>1, HourTargets DEF HourPath
<1> HIDE DEF t
<1>5. CASE /\ maker' = [maker EXCEPT ![p] = "makehome"]
           /\ target' = [target EXCEPT ![p] = HomePath]
           /\ mkAt' = [mkAt EXCEPT ![p] = "loop"]
  <2>1. ~swept => LaunchOK("loop", "makehome", HomePath, level[p], tree')
    BY <1>1, <1>3, DirConstants DEF LaunchOK
  <2>2. LaunchStep(p, "loop", "makehome", HomePath, level[p])
    BY <1>1, <1>2, <1>5, <2>1, DirConstants DEF LaunchStep
  <2> QED BY <2>2, OneLaunch
<1>6. CASE /\ maker' = [maker EXCEPT ![p] = "blackbox2"]
           /\ target' = [target EXCEPT ![p] = HourPath]
           /\ mkAt' = [mkAt EXCEPT ![p] = IF Len(HourPath) = 1 THEN "leaf" ELSE "loop"]
  <2> DEFINE k == IF Len(HourPath) = 1 THEN "leaf" ELSE "loop"
  <2>1. ~swept => k = "loop"
    BY <1>3, <1>4
  <2>2. k \in {"leaf", "loop"}
    OBVIOUS
  <2> HIDE DEF k
  <2>3. ASSUME ~swept PROVE LaunchOK(k, "blackbox2", HourPath, level[p], tree')
    <3>1. LaunchOK("loop", "blackbox2", t, level[p], tree')
      <4>1. /\ level[p] = 1 /\ Len(t) > 1 /\ tree' = tree
            /\ SubSeq(t, 1, Len(t) - 1) \in tree
        BY <1>1, <1>3, <1>4, <2>3
      <4> QED BY <4>1 DEF LaunchOK
    <3> QED BY <1>3, <1>4, <2>1, <2>3, <3>1
  <2>4. mkAt' = [mkAt EXCEPT ![p] = k] /\ k # "0"
    BY <1>6, <2>2 DEF k
  <2>5. k \in {"off", "loop", "leaf", "0", "-1", "crash"} /\ tree \subseteq tree'
    BY <1>1, <2>2
  <2>6. ~swept => LaunchOK(k, "blackbox2", HourPath, level[p], tree')
    BY <2>3
  <2>7. /\ maker' = [maker EXCEPT ![p] = "blackbox2"] /\ target' = [target EXCEPT ![p] = HourPath]
        /\ level' = [level EXCEPT ![p] = level[p]]
    BY <1>1, <1>2, <1>6
  <2>8. LaunchStep(p, k, "blackbox2", HourPath, level[p])
    BY <1>1, <1>2, <1>4, <2>4, <2>5, <2>6, <2>7 DEF LaunchStep
  <2> QED BY <2>8, OneLaunch
<1>7. CASE /\ maker' = [maker EXCEPT ![p] = "blackbox"]
           /\ target' = [target EXCEPT ![p] = t]
           /\ mkAt' = [mkAt EXCEPT ![p] = "leaf"]
  <2>1. ~swept => LaunchOK("leaf", "blackbox", t, level[p], tree')
    BY <1>1, <1>3, <1>4 DEF LaunchOK
  <2>2. LaunchStep(p, "leaf", "blackbox", t, level[p])
    BY <1>1, <1>2, <1>4, <1>7, <2>1 DEF LaunchStep
  <2> QED BY <2>2, OneLaunch
<1> QED BY <1>5, <1>6, <1>7 DEF MakerStart, t

(* The directory of a level of the loop is in place after its mkdir.        *)
LEMMA LevelMade ==
    ASSUME DirOK, NEW p \in Makers, mkAt[p] = "loop", tree' = TreeAfter(Prefix(p)), ~swept
    PROVE  /\ Prefix(p) \in tree' /\ tree \subseteq tree' /\ level[p] \in 1 .. Len(target[p])
           /\ (level[p] + 1) - 1 = level[p] /\ Len(target[p]) \in Nat
<1>1. LaunchOK("loop", maker[p], target[p], level[p], tree) /\ DirTypeOK
  BY DEF DirOK
<1>2. level[p] \in Nat \ {0} /\ target[p] \in Seq(PathNames) /\ level[p] <= Len(target[p])
  BY <1>1, SameAgain DEF LaunchOK
<1>3. level[p] \in 1 .. Len(target[p]) /\ Len(target[p]) \in Nat
  BY <1>2
<1>4. /\ Len(Prefix(p)) = level[p]
      /\ SubSeq(Prefix(p), 1, level[p] - 1) = SubSeq(target[p], 1, level[p] - 1)
  BY <1>2, <1>3, PathPrefix DEF Prefix
<1>5. level[p] = 1 \/ level[p] > 1
  BY <1>2
<1>6. level[p] > 1 => SubSeq(target[p], 1, level[p] - 1) \in tree
  BY <1>1 DEF LaunchOK
<1>7. Len(Prefix(p)) = 1 \/ SubSeq(Prefix(p), 1, Len(Prefix(p)) - 1) \in tree
  BY <1>4, <1>5, <1>6
<1>8. Prefix(p) \in tree' /\ tree \subseteq tree'
  BY <1>7, Mkdir, TreeGrows
<1> QED BY <1>2, <1>3, <1>8

LEMMA MakeDirectoryKeeps == ASSUME DirOK, NEW p \in Makers, MakeDirectoryLevel(p) PROVE DirOK'
<1> DEFINE k == IF level[p] = Len(target[p]) THEN "0" ELSE "loop"
<1>1. /\ mkAt[p] = "loop" /\ maker[p] = "makehome" /\ tree' = TreeAfter(Prefix(p))
      /\ level' = [level EXCEPT ![p] = level[p] + 1] /\ mkAt' = [mkAt EXCEPT ![p] = k]
      /\ swept' = swept /\ hour' = hour /\ maker' = maker /\ target' = target
      /\ DirTypeOK /\ tree \subseteq tree'
  BY TreeGrows DEF DirOK, DirTypeOK, MakeDirectoryLevel
<1>2. /\ maker = [maker EXCEPT ![p] = "makehome"] /\ target = [target EXCEPT ![p] = target[p]]
      /\ target[p] \in Seq(PathNames) /\ level[p] + 1 \in Nat \ {0}
  BY <1>1, SameAgain
<1>3. ASSUME ~swept PROVE LaunchOK(k, "makehome", target[p], level[p] + 1, tree')
  <2>1. /\ SubSeq(target[p], 1, level[p]) \in tree' /\ level[p] \in 1 .. Len(target[p])
        /\ (level[p] + 1) - 1 = level[p] /\ Len(target[p]) \in Nat
    BY <1>1, <1>3, LevelMade DEF Prefix
  <2>2. CASE level[p] = Len(target[p])
    <3>1. SubSeq(target[p], 1, Len(target[p])) = target[p]
      BY <1>2, SubSeqFull
    <3>2. k = "0" /\ target[p] \in tree'
      BY <2>1, <2>2, <3>1
    <3> HIDE DEF k
    <3> QED BY <3>2 DEF LaunchOK
  <2>3. CASE level[p] # Len(target[p])
    <3>1. k = "loop" /\ level[p] + 1 <= Len(target[p])
      BY <2>1, <2>3
    <3> HIDE DEF k
    <3> QED BY <2>1, <3>1 DEF LaunchOK
  <2> QED BY <2>2, <2>3
<1>4. k \in {"0", "loop"}
  OBVIOUS
<1> HIDE DEF k
<1>8. /\ k \in {"off", "loop", "leaf", "0", "-1", "crash"}
      /\ maker' = [maker EXCEPT ![p] = "makehome"] /\ target' = [target EXCEPT ![p] = target[p]]
      /\ level' = [level EXCEPT ![p] = level[p] + 1]
  BY <1>1, <1>2, <1>3, <1>4
<1>9. ~swept => LaunchOK(k, "makehome", target[p], level[p] + 1, tree')
  BY <1>3
<1>10. k = "0" => "makehome" # "blackbox2"
  OBVIOUS
<1>11. LaunchStep(p, k, "makehome", target[p], level[p] + 1)
  BY <1>1, <1>2, <1>3, <1>8, <1>9, <1>10 DEF LaunchStep
<1> QED BY <1>11, OneLaunch

LEMMA MkdirsLevelKeeps == ASSUME DirOK, NEW p \in Makers, MkdirsLevel(p) PROVE DirOK'
<1> DEFINE k == CASE Prefix(p) \notin tree' -> "-1"
                  [] Prefix(p) \in tree' /\ level[p] = Len(target[p]) - 1 -> "leaf"
                  [] OTHER -> "loop"
<1>1. /\ mkAt[p] = "loop" /\ maker[p] = "blackbox2" /\ tree' = TreeAfter(Prefix(p))
      /\ level' = [level EXCEPT ![p] = level[p] + 1] /\ mkAt' = [mkAt EXCEPT ![p] = k]
      /\ swept' = swept /\ hour' = hour /\ maker' = maker /\ target' = target
      /\ DirTypeOK /\ tree \subseteq tree'
  BY TreeGrows DEF DirOK, DirTypeOK, MkdirsLevel
<1>2. /\ maker = [maker EXCEPT ![p] = "blackbox2"] /\ target = [target EXCEPT ![p] = target[p]]
      /\ target[p] \in Seq(PathNames) /\ level[p] + 1 \in Nat \ {0}
  BY <1>1, SameAgain
<1>3. ASSUME ~swept PROVE LaunchOK(k, "blackbox2", target[p], level[p] + 1, tree')
  <2>1. /\ Prefix(p) \in tree' /\ SubSeq(target[p], 1, level[p]) \in tree'
        /\ level[p] \in 1 .. Len(target[p])
        /\ (level[p] + 1) - 1 = level[p] /\ Len(target[p]) \in Nat
    BY <1>1, <1>3, LevelMade DEF Prefix
  <2>2. LaunchOK("loop", "blackbox2", target[p], level[p], tree)
    BY <1>1, <1>3 DEF DirOK
  <2>3. /\ level[p] < Len(target[p]) /\ Len(target[p]) > 1
        /\ SubSeq(target[p], 1, Len(target[p]) - 1) \in tree'
    BY <1>1, <2>2 DEF LaunchOK
  <2>4. k = IF level[p] = Len(target[p]) - 1 THEN "leaf" ELSE "loop"
    BY <2>1
  <2> HIDE DEF k
  <2>5. CASE level[p] = Len(target[p]) - 1
    BY <2>3, <2>4, <2>5 DEF LaunchOK
  <2>6. CASE level[p] # Len(target[p]) - 1
    <3>1. level[p] + 1 < Len(target[p]) /\ level[p] + 1 <= Len(target[p])
      BY <2>1, <2>3, <2>6
    <3> QED BY <2>1, <2>3, <2>4, <2>6, <3>1 DEF LaunchOK
  <2> QED BY <2>5, <2>6
<1>4. k \in {"-1", "leaf", "loop"}
  OBVIOUS
<1> HIDE DEF k
<1>8. /\ k \in {"off", "loop", "leaf", "0", "-1", "crash"}
      /\ maker' = [maker EXCEPT ![p] = "blackbox2"] /\ target' = [target EXCEPT ![p] = target[p]]
      /\ level' = [level EXCEPT ![p] = level[p] + 1]
  BY <1>1, <1>2, <1>3, <1>4
<1>9. ~swept => LaunchOK(k, "blackbox2", target[p], level[p] + 1, tree')
  BY <1>3
<1>10. k # "0"
  BY <1>4
<1>11. LaunchStep(p, k, "blackbox2", target[p], level[p] + 1)
  BY <1>1, <1>2, <1>3, <1>8, <1>9, <1>10 DEF LaunchStep
<1> QED BY <1>11, OneLaunch

LEMMA MkdirsLeafKeeps == ASSUME DirOK, NEW p \in Makers, MkdirsLeaf(p) PROVE DirOK'
<1> DEFINE k == IF CanMake(target[p]) THEN "0" ELSE "-1"
<1>1. /\ mkAt[p] = "leaf" /\ maker[p] = "blackbox2" /\ tree' = TreeAfter(target[p])
      /\ mkAt' = [mkAt EXCEPT ![p] = k] /\ level' = level
      /\ swept' = swept /\ hour' = hour /\ maker' = maker /\ target' = target
      /\ DirTypeOK /\ tree \subseteq tree'
  BY TreeGrows DEF DirOK, DirTypeOK, MkdirsLeaf, LeafResult
<1>2. /\ maker = [maker EXCEPT ![p] = "blackbox2"] /\ target = [target EXCEPT ![p] = target[p]]
      /\ level = [level EXCEPT ![p] = level[p]]
      /\ target[p] \in Seq(PathNames) /\ level[p] \in Nat \ {0}
  BY <1>1, SameAgain
<1>3. k \in {"0", "-1"} /\ (k = "0" => target[p] \notin tree)
  BY DEF CanMake
<1> HIDE DEF k
<1>4. ASSUME ~swept PROVE LaunchOK(k, "blackbox2", target[p], level[p], tree')
  <2>1. LaunchOK("leaf", "blackbox2", target[p], level[p], tree)
    BY <1>1, <1>4 DEF DirOK
  <2>2. SubSeq(target[p], 1, Len(target[p]) - 1) \in tree
    BY <2>1 DEF LaunchOK
  <2>3. target[p] \in tree'
    BY <1>1, <2>2, Mkdir
  <2> QED BY <1>3, <2>3 DEF LaunchOK
<1>8. /\ k \in {"off", "loop", "leaf", "0", "-1", "crash"}
      /\ maker' = [maker EXCEPT ![p] = "blackbox2"] /\ target' = [target EXCEPT ![p] = target[p]]
      /\ level' = [level EXCEPT ![p] = level[p]]
  BY <1>1, <1>2, <1>3, <1>4
<1>9. ~swept => LaunchOK(k, "blackbox2", target[p], level[p], tree')
  BY <1>4
<1>10. k = "0" => target[p] \notin tree
  BY <1>3, <1>4
<1>11. LaunchStep(p, k, "blackbox2", target[p], level[p])
  BY <1>1, <1>2, <1>3, <1>8, <1>9, <1>10 DEF LaunchStep
<1> QED BY <1>11, OneLaunch

LEMMA BlackboxLeafKeeps == ASSUME DirOK, NEW p \in Makers, BlackboxLeaf(p) PROVE DirOK'
<1>1. PICK k \in (IF target[p] \in tree' THEN {"0"} ELSE {"-1", "crash"}) : mkAt' = [mkAt EXCEPT ![p] = k]
  BY DEF BlackboxLeaf
<1>2. /\ mkAt[p] = "leaf" /\ maker[p] = "blackbox" /\ tree' = TreeAfter(target[p]) /\ level' = level
      /\ swept' = swept /\ hour' = hour /\ maker' = maker /\ target' = target
      /\ DirTypeOK /\ tree \subseteq tree'
  BY TreeGrows DEF DirOK, DirTypeOK, BlackboxLeaf
<1>3. /\ maker = [maker EXCEPT ![p] = "blackbox"] /\ target = [target EXCEPT ![p] = target[p]]
      /\ level = [level EXCEPT ![p] = level[p]]
      /\ target[p] \in Seq(PathNames) /\ level[p] \in Nat \ {0}
  BY <1>2, SameAgain
<1>4. ASSUME ~swept PROVE LaunchOK(k, "blackbox", target[p], level[p], tree')
  <2>1. LaunchOK("leaf", "blackbox", target[p], level[p], tree)
    BY <1>2, <1>4 DEF DirOK
  <2>2. SubSeq(target[p], 1, Len(target[p]) - 1) \in tree
    BY <2>1 DEF LaunchOK
  <2>3. target[p] \in tree'
    BY <1>2, <2>2, Mkdir
  <2>4. k = "0"
    BY <1>1, <2>3
  <2> QED BY <2>3, <2>4 DEF LaunchOK
<1>5. k \in {"0", "-1", "crash"}
  BY <1>1
<1>8. /\ k \in {"off", "loop", "leaf", "0", "-1", "crash"}
      /\ maker' = [maker EXCEPT ![p] = "blackbox"] /\ target' = [target EXCEPT ![p] = target[p]]
      /\ level' = [level EXCEPT ![p] = level[p]]
  BY <1>1, <1>2, <1>3, <1>4, <1>5
<1>9. ~swept => LaunchOK(k, "blackbox", target[p], level[p], tree')
  BY <1>4
<1>10. k = "0" => "blackbox" # "blackbox2"
  OBVIOUS
<1>11. LaunchStep(p, k, "blackbox", target[p], level[p])
  BY <1>1, <1>2, <1>3, <1>8, <1>9, <1>10 DEF LaunchStep
<1> QED BY <1>11, OneLaunch

(* Launches that race for the same path agree about it, for every number of *)
(* them, every path, and every working directory.                           *)
THEOREM LaunchesAgree == DirSpec => []MakersAgree
<1>1. DirInit => DirOK
  <2> SUFFICES ASSUME DirInit PROVE DirOK
    OBVIOUS
  <2>1. DirTypeOK
    <3>1. <<>> \in Seq(PathNames)
      BY EmptySeq
    <3> QED BY <3>1 DEF DirInit, DirTypeOK
  <2>2. Cwd \in tree
    <3>1. SubSeq(Cwd, 1, Len(Cwd)) = Cwd /\ Len(Cwd) \in 1 .. Len(Cwd)
      BY DirConstants, SubSeqFull
    <3> QED BY <3>1 DEF DirInit
  <2>3. ToldOne /\ \A p \in Makers : LaunchOK(mkAt[p], maker[p], target[p], level[p], tree)
    BY DEF DirInit, ToldOne, LaunchOK
  <2> QED BY <2>1, <2>2, <2>3 DEF DirOK
<1>2. DirOK /\ [DirNext]_dirVars => DirOK'
  <2> SUFFICES ASSUME DirOK, [DirNext]_dirVars PROVE DirOK'
    OBVIOUS
  <2>1. ASSUME NEW p \in Makers,
               \/ MakerStart(p) \/ MakeDirectoryLevel(p) \/ MkdirsLevel(p)
               \/ MkdirsLeaf(p) \/ BlackboxLeaf(p)
        PROVE  DirOK'
    BY <2>1, MakerStartKeeps, MakeDirectoryKeeps, MkdirsLevelKeeps, MkdirsLeafKeeps, BlackboxLeafKeeps
  <2>2. CASE HourPasses
    <3>1. hour' \in Nat /\ UNCHANGED <<tree, maker, mkAt, target, level, swept>>
      BY <2>2 DEF HourPasses, DirOK, DirTypeOK
    <3> QED BY <3>1 DEF DirOK, DirTypeOK, ToldOne
  <2>3. CASE Sweep
    BY <2>3 DEF Sweep, DirOK, DirTypeOK
  <2>4. CASE UNCHANGED dirVars
    BY <2>4 DEF dirVars, DirOK, DirTypeOK, ToldOne
  <2> QED BY <2>1, <2>2, <2>3, <2>4 DEF DirNext
<1>3. DirOK => MakersAgree
  BY DEF DirOK, LaunchOK, ToldOne, MakersAgree
<1> QED BY <1>1, <1>2, <1>3, PTL DEF DirSpec

-----------------------------------------------------------------------------
(* train2.py and train.py                                                   *)

TrainSpec == TrainInit /\ [][TrainNext]_trainVars

TrainTypeOK ==
    /\ tAt \in {"start", "extract", "fit", "save", "end", "raised", "killed"}
    /\ images \in [Directories3 -> Nat] /\ directory \in Directories3 \cup {"none"}
    /\ batch \in Nat /\ given \in Nat
    /\ DOMAIN rows = Directories3 /\ rows["train"] \in [1 .. TrainCount -> Int]

(* n images, the next row o, g of the images given in this round, the rows  *)
(* r so far.  With enough images the two run in step.  With fewer they do   *)
(* until a round is over, and it can only be over when the images fill      *)
(* whole batches, but for one.                                              *)
RowsSoFar(n, o, g, r) ==
    /\ o \in Nat /\ o < TrainCount /\ g <= n
    /\ n >= TrainCount => g = o /\ \A k \in 1 .. o : r[k] = k
    /\ n < TrainCount => /\ \E m \in Nat : g = Batch * m
                         /\ \/ \E q \in Nat : n = Batch * q + 1 \/ n = Batch * q
                            \/ g = o

(* The rows when the array is full.                                         *)
RowsDone(n, r) ==
    /\ n >= TrainCount => r = [k \in 1 .. TrainCount |-> k]
    /\ n < TrainCount => n % Batch = 1 \/ TrainCount % Batch = 0

TrainOK ==
    /\ TrainTypeOK
    /\ tAt = "start" => directory = "train" /\ batch = 0 /\ given = 0
    /\ tAt = "extract" =>
          /\ directory \in Directories3
          /\ directory = "train" => RowsSoFar(images["train"], batch * Batch, given, rows["train"])
          /\ directory # "train" => batch = 0 /\ given = 0 /\ RowsDone(images["train"], rows["train"])
          /\ directory = "test" => images["validation"] = 1
    /\ tAt \in {"fit", "save", "end"} =>
          /\ images["validation"] = 1 /\ images["test"] = 1
          /\ RowsDone(images["train"], rows["train"])
    /\ tAt = "raised" /\ directory # "none" => images[directory] # Count(directory)
    /\ saved # {} => tAt \in {"save", "end", "killed"} /\ images["test"] = 1

LEMMA MinIs ==
    ASSUME NEW a \in Int, NEW b \in Int
    PROVE  Min({a, b}) = IF a < b THEN a ELSE b
BY DEF Min

LEMMA MaxIs ==
    ASSUME NEW a \in Int, NEW b \in Int
    PROVE  Max({a, b}) = IF a < b THEN b ELSE a
BY DEF Max

LEMMA Counts == /\ Count("train") = TrainCount /\ Count("validation") = 1 /\ Count("test") = 1
                /\ TrainCount \in Nat \ {0} /\ Batch \in Nat \ {0, 1}
BY TrainAssumption DEF Count

LEMMA RestOfBlocks ==
    ASSUME NEW b \in Nat \ {0}, NEW m \in Nat, NEW r \in 0 .. b - 1
    PROVE  (b * m + r) % b = r
OBVIOUS

LEMMA MultipleOfBatch ==
    ASSUME NEW q \in Nat
    PROVE  (Batch * q) % Batch = 0 /\ (Batch * q + 1) % Batch = 1
<1>1. Batch \in Nat \ {0} /\ 0 \in 0 .. Batch - 1 /\ 1 \in 0 .. Batch - 1
  BY Counts
<1>2. (Batch * q + 0) % Batch = 0 /\ (Batch * q + 1) % Batch = 1
  BY <1>1, RestOfBlocks
<1>3. Batch * q + 0 = Batch * q
  BY <1>1
<1> QED BY <1>2, <1>3

LEMMA NextMultiple ==
    ASSUME NEW q \in Nat
    PROVE  /\ (q + 1) * Batch = q * Batch + Batch /\ Batch * (q + 1) = Batch * q + Batch
           /\ q * Batch = Batch * q /\ Batch * q \in Nat
BY Counts

LEMMA FurtherMultiple ==
    ASSUME NEW q \in Nat, NEW m \in Nat, Batch * m < Batch * q
    PROVE  Batch * m + Batch <= Batch * q
<1>1. Batch \in Nat /\ Batch > 0
  BY Counts
<1>2. m < q
  BY <1>1
<1>3. PICK d \in Nat : q = m + 1 + d
  <2>1. q - m - 1 \in Nat /\ q = m + 1 + (q - m - 1)
    BY <1>2
  <2> QED BY <2>1
<1>4. Batch * q = Batch * m + Batch + Batch * d /\ Batch * d \in Nat /\ Batch * m \in Nat
  BY <1>1, <1>3
<1> QED BY <1>1, <1>4

(* What the loop computes from its offset o in the array.                   *)
LEMMA Lengths ==
    ASSUME TrainOK, tAt = "extract", directory = "train"
    PROVE  LET o == batch * Batch
               n == images["train"]
           IN  /\ o \in Nat /\ o < TrainCount /\ n \in Nat /\ given \in Nat /\ given <= n
               /\ BatchLength = (IF Batch < n - given THEN Batch ELSE n - given)
               /\ SliceLength = (IF Batch < TrainCount - o THEN Batch ELSE TrainCount - o)
               /\ Full <=> o + Batch >= TrainCount
               /\ (batch + 1) * Batch = o + Batch
<1> DEFINE o == batch * Batch
           n == images["train"]
<1>1. /\ o \in Nat /\ o < TrainCount /\ n \in Nat /\ given \in Nat /\ given <= n /\ batch \in Nat
      /\ RowsSoFar(n, o, given, rows["train"])
  BY DEF TrainOK, TrainTypeOK, Directories3, RowsSoFar
<1>2. (batch + 1) * Batch = o + Batch
  BY <1>1, NextMultiple
<1> HIDE DEF o, n
<1>3. BatchLength = (IF Batch < n - given THEN Batch ELSE n - given)
  BY <1>1, Counts, MinIs DEF BatchLength, n
<1>4. TrainCount - o \in Nat /\ Min({Batch, TrainCount - o}) = (IF Batch < TrainCount - o THEN Batch ELSE TrainCount - o)
  BY <1>1, Counts, MinIs
<1>5. SliceLength = Max({0, Min({Batch, TrainCount - o})})
  BY Counts DEF SliceLength, o
<1>6. SliceLength = (IF Batch < TrainCount - o THEN Batch ELSE TrainCount - o)
  <2> DEFINE x == Min({Batch, TrainCount - o})
  <2>1. x \in Int /\ x >= 0 /\ x = (IF Batch < TrainCount - o THEN Batch ELSE TrainCount - o)
    BY <1>4, Counts
  <2> HIDE DEF x
  <2>2. Max({0, x}) = x
    BY <2>1, MaxIs
  <2> QED BY <1>5, <2>1, <2>2 DEF x
<1>7. Full <=> o + Batch >= TrainCount
  BY <1>2, Counts DEF Full
<1> QED BY <1>1, <1>2, <1>3, <1>6, <1>7 DEF o, n

(* An assignment that fits takes images o + 1, o + 2 and so on, when there  *)
(* are enough; with fewer, the rounds go on as RowsSoFar says.              *)
LEMMA EnoughImages ==
    ASSUME NEW o \in Nat, NEW n \in Nat, NEW bl, NEW sl, o < TrainCount, n >= TrainCount,
           bl = (IF Batch < n - o THEN Batch ELSE n - o),
           sl = (IF Batch < TrainCount - o THEN Batch ELSE TrainCount - o),
           bl = sl \/ bl = 1
    PROVE  /\ bl = sl /\ sl \in Nat \ {0}
           /\ o + Batch < TrainCount => o + bl # n /\ bl = Batch
           /\ o + Batch >= TrainCount => o + sl = TrainCount
BY Counts

LEMMA RoundGoesOn ==
    ASSUME NEW o \in Nat, NEW n \in Nat, NEW g \in Nat, NEW bl, g <= n, n < TrainCount,
           NEW m \in Nat, g = Batch * m, NEW j \in Nat, o = j * Batch,
           bl = (IF Batch < n - g THEN Batch ELSE n - g), bl = Batch \/ bl = 1,
           (\E q \in Nat : n = Batch * q + 1 \/ n = Batch * q) \/ g = o
    PROVE  LET h == IF g + bl = n THEN 0 ELSE g + bl
           IN  /\ h \in Nat /\ h <= n /\ \E k \in Nat : h = Batch * k
               /\ (\E q \in Nat : n = Batch * q + 1 \/ n = Batch * q) \/ h = o + Batch
<1> DEFINE h == IF g + bl = n THEN 0 ELSE g + bl
<1>1. Batch \in Nat /\ Batch > 1 /\ Batch * (m + 1) = g + Batch /\ Batch * (j + 1) = o + Batch /\ 0 = Batch * 0
  BY Counts, NextMultiple
<1>2. CASE bl = 1
  <2>1. n = Batch * m + 1 /\ h = 0
    BY <1>1, <1>2
  <2> HIDE DEF h
  <2> QED BY <1>1, <2>1 DEF h
<1>3. CASE bl = Batch /\ g + bl = n
  <2>1. n = Batch * (m + 1) /\ h = 0 /\ m + 1 \in Nat
    BY <1>1, <1>3
  <2> HIDE DEF h
  <2> QED BY <1>1, <2>1 DEF h
<1>4. CASE bl = Batch /\ g + bl # n
  <2>1. h = Batch * (m + 1) /\ h \in Nat /\ h <= n /\ m + 1 \in Nat /\ (g = o => h = o + Batch)
    BY <1>1, <1>4
  <2> HIDE DEF h
  <2> QED BY <2>1 DEF h
<1> QED BY <1>2, <1>3, <1>4

LEMMA RoundsFill ==
    ASSUME NEW o \in Nat, NEW n \in Nat, NEW g \in Nat, NEW bl, NEW sl, g <= n, n < TrainCount,
           NEW m \in Nat, g = Batch * m, NEW j \in Nat, o = j * Batch, o < TrainCount,
           o + Batch >= TrainCount,
           bl = (IF Batch < n - g THEN Batch ELSE n - g),
           sl = (IF Batch < TrainCount - o THEN Batch ELSE TrainCount - o),
           bl = sl \/ bl = 1,
           (\E q \in Nat : n = Batch * q + 1 \/ n = Batch * q) \/ g = o
    PROVE  n % Batch = 1 \/ TrainCount % Batch = 0
<1>1. Batch \in Nat /\ Batch > 1 /\ Batch * (m + 1) = g + Batch /\ Batch * (j + 1) = o + Batch
  BY Counts, NextMultiple
<1>2. sl = TrainCount - o /\ sl \in Nat \ {0} /\ sl <= Batch
  BY <1>1, Counts
<1>3. CASE \E q \in Nat : n = Batch * q + 1
  BY <1>3, MultipleOfBatch
<1>4. ASSUME NEW q \in Nat, n = Batch * q PROVE TrainCount % Batch = 0
  <2>1. bl >= 1
    BY <1>2
  <2>2. g < n
    BY <1>1, <2>1
  <2>3. g + Batch <= n
    BY <1>4, <2>2, FurtherMultiple
  <2>4. bl = Batch
    BY <1>1, <2>3
  <2>5. TrainCount = Batch * (j + 1) /\ j + 1 \in Nat
    BY <1>1, <1>2, <2>4, Counts
  <2> QED BY <2>5, MultipleOfBatch
<1>5. CASE g = o
  <2>1. n - g < sl /\ n - g < Batch
    BY <1>1, <1>2, <1>5, Counts
  <2>2. bl = n - g
    BY <1>1, <2>1
  <2>3. n = Batch * m + 1
    BY <2>1, <2>2
  <2> QED BY <2>3, MultipleOfBatch
<1> QED BY <1>3, <1>4, <1>5

LEMMA AssignKeepsTrain == ASSUME TrainOK, Assign, directory = "train" PROVE TrainOK'
<1> DEFINE o == batch * Batch
           n == images["train"]
           bl == BatchLength
           sl == SliceLength
           r == rows["train"]
<1>0. tAt = "extract" /\ TrainTypeOK
  BY DEF Assign, TrainOK
<1>1. /\ tAt = "extract" /\ (bl = sl \/ bl = 1)
      /\ batch' = IF Full THEN 0 ELSE batch + 1
      /\ given' = IF Full \/ given + bl = n THEN 0 ELSE given + bl
      /\ directory' = IF Full THEN "validation" ELSE "train"
      /\ tAt' = "extract" /\ UNCHANGED <<images, saved>>
  <2>1. directory' = IF Full THEN "validation" ELSE "train"
    BY DEF Assign
  <2>2. directory' # "none"
    BY <2>1
  <2> QED BY <2>1, <2>2 DEF Assign, Fits
<1>2. /\ o \in Nat /\ o < TrainCount /\ n \in Nat /\ given \in Nat /\ given <= n
      /\ bl = (IF Batch < n - given THEN Batch ELSE n - given)
      /\ sl = (IF Batch < TrainCount - o THEN Batch ELSE TrainCount - o)
      /\ Full <=> o + Batch >= TrainCount
      /\ (batch + 1) * Batch = o + Batch
  <2> HIDE DEF bl, sl
  <2> QED BY <1>0, Lengths DEF bl, sl
<1>3. TrainTypeOK /\ RowsSoFar(n, o, given, r) /\ batch \in Nat /\ r \in [1 .. TrainCount -> Int]
  <2>1. RowsSoFar(n, o, given, r)
    BY <1>0 DEF TrainOK
  <2>2. batch \in Nat /\ r \in [1 .. TrainCount -> Int]
    BY <1>0 DEF TrainTypeOK
  <2> QED BY <1>0, <2>1, <2>2
<1>4. rows' = [rows EXCEPT !["train"] = [k \in 1 .. TrainCount |->
                   IF k \in o + 1 .. o + sl THEN given + (IF bl = 1 THEN 1 ELSE k - o) ELSE r[k]]]
  BY <1>3 DEF Assign
<1>5. /\ "train" \in DOMAIN rows /\ DOMAIN rows' = Directories3
      /\ rows'["train"] = [k \in 1 .. TrainCount |->
            IF k \in o + 1 .. o + sl THEN given + (IF bl = 1 THEN 1 ELSE k - o) ELSE r[k]]
  BY <1>3, <1>4 DEF TrainTypeOK, Directories3
<1> HIDE DEF o, n, bl, sl, r
<1>6. bl \in Int /\ sl \in Nat \ {0} /\ Batch \in Nat /\ TrainCount \in Nat
  BY <1>2, Counts
<1>7. rows'["train"] \in [1 .. TrainCount -> Int]
  BY <1>2, <1>3, <1>5, <1>6
<1>8. batch' \in Nat /\ given' \in Nat
  BY <1>1, <1>2, <1>3, <1>6
<1>9. TrainTypeOK'
  BY <1>1, <1>3, <1>5, <1>7, <1>8 DEF TrainTypeOK, Directories3
<1>10. saved' = {} /\ saved = {}
  <2>1. saved = {}
    BY <1>0 DEF TrainOK
  <2> QED BY <1>1, <2>1
<1>11. n' = n
  BY <1>1 DEF n
<1>12. CASE Full
  <2>1. directory' = "validation" /\ batch' = 0 /\ given' = 0 /\ o + Batch >= TrainCount
    BY <1>1, <1>2, <1>12
  <2>2. ASSUME n >= TrainCount PROVE rows'["train"] = [k \in 1 .. TrainCount |-> k]
    <3>1. given = o /\ \A k \in 1 .. o : r[k] = k
      BY <1>3, <2>2 DEF RowsSoFar
    <3>2. bl = sl /\ o + sl = TrainCount
      BY <1>1, <1>2, <2>1, <2>2, <3>1, EnoughImages
    <3>3. ASSUME NEW k \in 1 .. TrainCount PROVE rows'["train"][k] = k
      <4>1. CASE k <= o
        BY <1>2, <1>5, <1>6, <3>1, <3>3, <4>1
      <4>2. CASE k > o
        <5>1. k \in o + 1 .. o + sl /\ given + (IF bl = 1 THEN 1 ELSE k - o) = k
          BY <1>2, <1>6, <3>1, <3>2, <4>2
        <5> QED BY <1>5, <5>1
      <4>3. k <= o \/ k > o
        BY <1>2
      <4> QED BY <4>1, <4>2, <4>3
    <3> QED BY <1>7, <3>3
  <2>3. ASSUME n < TrainCount PROVE n % Batch = 1 \/ TrainCount % Batch = 0
    <3>1. PICK m \in Nat : given = Batch * m
      BY <1>3, <2>3 DEF RowsSoFar
    <3>2. (\E q \in Nat : n = Batch * q + 1 \/ n = Batch * q) \/ given = o
      BY <1>3, <2>3 DEF RowsSoFar
    <3> QED BY <1>1, <1>2, <1>3, <2>1, <2>3, <3>1, <3>2, RoundsFill DEF o
  <2>4. RowsDone(n, rows'["train"])
    BY <2>2, <2>3 DEF RowsDone
  <2>5. RowsDone(images'["train"], rows'["train"])
    BY <1>1, <2>4 DEF n
  <2> QED BY <1>1, <1>9, <1>10, <2>1, <2>5 DEF TrainOK, Directories3
<1>13. CASE ~Full
  <2>1. directory' = "train" /\ batch' = batch + 1 /\ o + Batch < TrainCount /\ sl = Batch
        /\ given' = IF given + bl = n THEN 0 ELSE given + bl
    BY <1>1, <1>2, <1>6, <1>13
  <2>2. ASSUME n >= TrainCount
        PROVE  given' = o + Batch /\ \A k \in 1 .. o + Batch : rows'["train"][k] = k
    <3>1. given = o /\ \A k \in 1 .. o : r[k] = k
      BY <1>3, <2>2 DEF RowsSoFar
    <3>2. bl = sl /\ o + bl # n /\ bl = Batch
      BY <1>1, <1>2, <2>1, <2>2, <3>1, EnoughImages
    <3>3. ASSUME NEW k \in 1 .. o + Batch PROVE rows'["train"][k] = k
      <4>1. k \in 1 .. TrainCount
        BY <1>2, <1>6, <2>1
      <4>2. CASE k <= o
        BY <1>2, <1>5, <1>6, <3>1, <4>1, <4>2
      <4>3. CASE k > o
        <5>1. k \in o + 1 .. o + sl /\ given + (IF bl = 1 THEN 1 ELSE k - o) = k
          BY <1>2, <1>6, <3>1, <3>2, <4>3
        <5> QED BY <1>5, <4>1, <5>1
      <4>4. k <= o \/ k > o
        BY <1>2, <1>6
      <4> QED BY <4>2, <4>3, <4>4
    <3> QED BY <2>1, <3>1, <3>2, <3>3
  <2>3. ASSUME n < TrainCount
        PROVE  /\ given' <= n /\ \E m \in Nat : given' = Batch * m
               /\ (\E q \in Nat : n = Batch * q + 1 \/ n = Batch * q) \/ given' = o + Batch
    <3>1. PICK m \in Nat : given = Batch * m
      BY <1>3, <2>3 DEF RowsSoFar
    <3>2. (\E q \in Nat : n = Batch * q + 1 \/ n = Batch * q) \/ given = o
      BY <1>3, <2>3 DEF RowsSoFar
    <3>3. bl = Batch \/ bl = 1
      BY <1>1, <2>1
    <3> QED BY <1>2, <1>3, <2>1, <2>3, <3>1, <3>2, <3>3, RoundGoesOn DEF o
  <2>4. given' <= n
    BY <1>2, <1>6, <2>1, <2>2, <2>3
  <2>5. RowsSoFar(n, o + Batch, given', rows'["train"])
    <3>1. o + Batch \in Nat
      BY <1>2, <1>6
    <3>2. \E m \in Nat : n < TrainCount => given' = Batch * m
      BY <2>3
    <3>3. n < TrainCount =>
             (\E q \in Nat : n = Batch * q + 1 \/ n = Batch * q) \/ given' = o + Batch
      BY <2>3
    <3> QED BY <2>1, <2>2, <2>3, <2>4, <3>1, <3>2, <3>3 DEF RowsSoFar
  <2>6. batch' * Batch = o + Batch
    BY <1>2, <2>1
  <2>7. RowsSoFar(images'["train"], batch' * Batch, given', rows'["train"])
    BY <1>1, <2>5, <2>6 DEF n
  <2> QED BY <1>1, <1>9, <1>10, <2>1, <2>7 DEF TrainOK, Directories3
<1> QED BY <1>12, <1>13

(* The other two arrays have one row: the first assignment fills them, and  *)
(* fits only when there is one image.                                       *)
LEMMA OneRow ==
    ASSUME TrainOK, tAt = "extract", directory # "train"
    PROVE  /\ images[directory] \in Nat /\ Count(directory) = 1 /\ Full
           /\ Fits <=> images[directory] = 1
<1>1. directory \in {"validation", "test"} /\ batch = 0 /\ given = 0 /\ images[directory] \in Nat
  BY DEF TrainOK, TrainTypeOK, Directories3
<1>2. Count(directory) = 1 /\ Batch \in Nat /\ Batch > 1
  BY <1>1, Counts
<1> DEFINE n == images[directory]
<1>3. BatchLength = Min({Batch, n})
  BY <1>1 DEF BatchLength
<1>4. BatchLength = IF Batch < n THEN Batch ELSE n
  BY <1>1, <1>2, <1>3, MinIs
<1>5. Min({Batch, 1}) = 1 /\ Max({0, 1}) = 1
  BY <1>2, MinIs, MaxIs
<1>6. batch * Batch = 0 /\ (batch + 1) * Batch = Batch
  BY <1>1, <1>2
<1>7. SliceLength = 1
  <2>1. Count(directory) - batch * Batch = 1
    BY <1>2, <1>6
  <2>2. SliceLength = Max({0, Min({Batch, 1})})
    BY <2>1 DEF SliceLength
  <2> QED BY <1>5, <2>2
<1>8. Full
  BY <1>2, <1>6 DEF Full
<1> HIDE DEF n
<1>9. Fits <=> n = 1
  BY <1>1, <1>2, <1>4, <1>7 DEF Fits, n
<1> QED BY <1>1, <1>2, <1>8, <1>9 DEF n

LEMMA AssignKeepsOthers == ASSUME TrainOK, Assign, directory # "train" PROVE TrainOK'
<1>1. tAt = "extract" /\ directory \in {"validation", "test"} /\ TrainTypeOK
  BY DEF Assign, TrainOK, Directories3
<1>2. Full /\ images[directory] = 1
  BY <1>1, OneRow DEF Assign
<1>3. /\ batch' = 0 /\ given' = 0 /\ UNCHANGED <<images, saved>>
      /\ directory' = IF directory = "validation" THEN "test" ELSE "none"
      /\ tAt' = IF directory' = "none" THEN "fit" ELSE "extract"
      /\ DOMAIN rows' = DOMAIN rows /\ rows'["train"] = rows["train"]
  BY <1>1, <1>2 DEF Assign, TrainTypeOK, Directories3
<1>4. TrainTypeOK'
  BY <1>1, <1>3 DEF TrainTypeOK, Directories3
<1>5. RowsDone(images["train"], rows["train"]) /\ saved = {}
      /\ (directory = "test" => images["validation"] = 1)
  BY <1>1 DEF TrainOK
<1> QED BY <1>1, <1>2, <1>3, <1>4, <1>5 DEF TrainOK, Directories3

LEMMA DoesNotFitKeeps == ASSUME TrainOK, DoesNotFit PROVE TrainOK'
<1>1. /\ tAt = "extract" /\ ~Fits /\ tAt' = "raised" /\ TrainTypeOK
      /\ UNCHANGED <<images, directory, batch, given, rows, saved>>
  BY DEF TrainOK, DoesNotFit
<1>2. saved = {}
  BY <1>1 DEF TrainOK
<1>3. images[directory] # Count(directory)
  <2>1. CASE directory = "train"
    <3> SUFFICES ASSUME images["train"] = TrainCount PROVE FALSE
      BY <2>1, Counts
    <3> DEFINE o == batch * Batch
    <3>1. RowsSoFar(images["train"], o, given, rows["train"])
      BY <1>1, <2>1 DEF TrainOK
    <3>2. given = o
      BY <3>1, Counts DEF RowsSoFar
    <3>3. BatchLength = SliceLength
      BY <1>1, <2>1, <3>2, Lengths
    <3> QED BY <1>1, <3>3 DEF Fits
  <2>2. CASE directory # "train"
    BY <1>1, <2>2, OneRow
  <2> QED BY <2>1, <2>2
<1>4. TrainTypeOK'
  BY <1>1 DEF TrainTypeOK
<1>5. images'[directory'] # Count(directory')
  BY <1>1, <1>3 DEF Count
<1> QED BY <1>1, <1>2, <1>4, <1>5 DEF TrainOK

(* What the network is fitted to, for every number of images, every size of *)
(* the arrays and every size of a batch but one.                            *)
THEOREM RowsAreRight == TrainSpec => []RowsAreImages
<1>1. TrainInit => TrainOK
  <2> SUFFICES ASSUME TrainInit PROVE TrainOK
    OBVIOUS
  <2>1. rows["train"] = [k \in 1 .. TrainCount |-> 0]
    BY Counts DEF TrainInit, Directories3
  <2>2. rows["train"] \in [1 .. TrainCount -> Int]
    BY <2>1
  <2>3. TrainTypeOK
    BY <2>2 DEF TrainInit, TrainTypeOK, Directories3
  <2> QED BY <2>3 DEF TrainInit, TrainOK
<1>2. TrainOK /\ [TrainNext]_trainVars => TrainOK'
  <2> SUFFICES ASSUME TrainOK, [TrainNext]_trainVars PROVE TrainOK'
    OBVIOUS
  <2>0. TrainTypeOK
    BY DEF TrainOK
  <2>1. CASE Train2
    <3>1. PICK n \in 0 .. MaxImages, v \in 0 .. 2, t \in 0 .. 2 :
             images' = [train |-> n, validation |-> v, test |-> t]
      BY <2>1 DEF Train2
    <3>2. images' \in [Directories3 -> Nat] /\ images'["train"] = n
      BY <3>1, TrainAssumption DEF Directories3
    <3>3. /\ tAt = "start" /\ tAt' = "extract" /\ directory' = "train" /\ batch' = 0 /\ given' = 0
          /\ UNCHANGED <<rows, saved>> /\ saved = {}
      BY <2>1 DEF Train2, TrainOK
    <3>4. TrainTypeOK'
      BY <2>0, <3>2, <3>3 DEF TrainTypeOK, Directories3
    <3>5. n \in Nat /\ batch' * Batch = 0 /\ 0 = Batch * 0
      BY <3>3, TrainAssumption
    <3>6. RowsSoFar(n, 0, 0, rows'["train"])
      BY <3>5, Counts DEF RowsSoFar
    <3>7. RowsSoFar(images'["train"], batch' * Batch, given', rows'["train"])
      BY <3>2, <3>3, <3>5, <3>6
    <3> QED BY <3>3, <3>4, <3>7 DEF TrainOK, Directories3
  <2>2. CASE Train
    <3>1. PICK n \in 0 .. MaxImages : images' = [images EXCEPT !["train"] = n]
      BY <2>2 DEF Train
    <3>2. images' \in [Directories3 -> Nat]
      BY <2>0, <3>1, TrainAssumption DEF TrainTypeOK, Directories3
    <3>3. /\ tAt' = "raised" /\ directory' = "none" /\ UNCHANGED <<batch, given, rows, saved>> /\ saved = {}
      BY <2>2 DEF Train, TrainOK
    <3>4. TrainTypeOK'
      BY <2>0, <3>2, <3>3 DEF TrainTypeOK
    <3> QED BY <3>3, <3>4 DEF TrainOK
  <2>3. CASE Assign
    BY <2>3, AssignKeepsTrain, AssignKeepsOthers
  <2>4. CASE DoesNotFit
    BY <2>4, DoesNotFitKeeps
  <2>5. CASE Fit
    <3>1. TrainTypeOK'
      BY <2>0, <2>5 DEF Fit, TrainTypeOK
    <3> QED BY <2>5, <3>1 DEF Fit, TrainOK
  <2>6. CASE SaveFile
    <3>1. tAt' \in {"save", "end"} /\ tAt = "save" /\ UNCHANGED <<images, directory, batch, given, rows>>
      BY <2>6 DEF SaveFile
    <3>2. TrainTypeOK'
      BY <2>0, <3>1 DEF TrainTypeOK
    <3> QED BY <3>1, <3>2 DEF TrainOK
  <2>7. CASE TrainKilled
    <3>1. TrainTypeOK'
      BY <2>0, <2>7 DEF TrainKilled, TrainTypeOK
    <3> QED BY <2>7, <3>1 DEF TrainKilled, TrainOK
  <2>8. CASE UNCHANGED trainVars
    <3>1. TrainTypeOK' /\ (Count(directory))' = Count(directory)
      BY <2>0, <2>8 DEF trainVars, TrainTypeOK, Count
    <3> QED BY <2>8, <3>1 DEF trainVars, TrainOK
  <2> QED BY <2>1, <2>2, <2>3, <2>4, <2>5, <2>6, <2>7, <2>8 DEF TrainNext
<1>3. TrainOK => RowsAreImages
  BY DEF TrainOK, RowsDone, RowsAreImages
<1> QED BY <1>1, <1>2, <1>3, PTL DEF TrainSpec

-----------------------------------------------------------------------------
(* pipe, fork, thread and signal exercises of project/system                *)

ProcSpec == ProcInit /\ [][ProcNext]_procVars

(* What the programs print.                                                 *)
Printed ==
    {"who are you?", "Thank you", "running thread", "end of main", ThreadMessage, "I am", "Done",
     "parent", "before fork", "glob=6", "glob=7", "pthread_create() error"}

LEMMA PrintedLines ==
    /\ ThreadMessage \in Printed
    /\ ThreadMessage \notin {"before fork", "glob=6", "glob=7", "running thread", "who are you?",
                             "Thank you", "end of main", "I am", "Done", "parent",
                             "pthread_create() error"}
    /\ "pthread_create() error" \in Printed
    /\ "who are you?" \in Printed /\ "Thank you" \in Printed /\ "running thread" \in Printed
    /\ "end of main" \in Printed /\ "I am" \in Printed /\ "Done" \in Printed /\ "parent" \in Printed
    /\ "before fork" \in Printed /\ "glob=6" \in Printed /\ "glob=7" \in Printed
<1>1. ThreadMessage \notin {"before fork", "glob=6", "glob=7", "running thread", "who are you?",
                            "Thank you", "end of main", "I am", "Done", "parent",
                            "pthread_create() error"}
  BY DEF ThreadMessage
<1> QED BY <1>1 DEF Printed

LEMMA OneLine == \A text \in Printed : <<text>> \in Seq(Printed)
OBVIOUS

(* Lines are counted piece by piece.                                        *)
LEMMA CountType ==
    \A text : \A s \in Seq(Printed) : HowOften(text, s) \in Nat
<1> TAKE text
<1> TAKE s \in Seq(Printed)
<1>1. Len(s) \in Nat /\ DOMAIN s = 1 .. Len(s)
  OBVIOUS
<1>2. IsFiniteSet(1 .. Len(s))
  BY <1>1, FS_Interval
<1>3. {n \in DOMAIN s : s[n] = text} \subseteq 1 .. Len(s)
  BY <1>1
<1>4. IsFiniteSet({n \in DOMAIN s : s[n] = text})
  BY <1>2, <1>3, FS_Subset
<1> QED BY <1>4, FS_CardinalityType DEF HowOften

LEMMA CountNone == \A text : HowOften(text, <<>>) = 0
<1> TAKE text
<1>1. {n \in DOMAIN <<>> : <<>>[n] = text} = {}
  OBVIOUS
<1> QED BY <1>1, FS_EmptySet DEF HowOften

LEMMA CountOne == \A text, l : HowOften(text, <<l>>) = IF l = text THEN 1 ELSE 0
<1> TAKE text, l
<1>1. CASE l = text
  <2>1. {n \in DOMAIN <<l>> : <<l>>[n] = text} = {1}
    BY <1>1
  <2> QED BY <1>1, <2>1, FS_Singleton DEF HowOften
<1>2. CASE l # text
  <2>1. {n \in DOMAIN <<l>> : <<l>>[n] = text} = {}
    BY <1>2
  <2> QED BY <1>2, <2>1, FS_EmptySet DEF HowOften
<1> QED BY <1>1, <1>2

LEMMA CountConcat ==
    \A text : \A s, t \in Seq(Printed) : HowOften(text, s \o t) = HowOften(text, s) + HowOften(text, t)
<1> TAKE text
<1> TAKE s, t \in Seq(Printed)
<1> DEFINE A == {n \in DOMAIN s : s[n] = text}
           B == {n \in DOMAIN t : t[n] = text}
           C == {n \in DOMAIN (s \o t) : (s \o t)[n] = text}
           k == Len(s)
           f == [n \in B |-> k + n]
           D == {n \in k + 1 .. k + Len(t) : n - k \in B}
<1>1. k \in Nat /\ Len(t) \in Nat /\ DOMAIN s = 1 .. k /\ DOMAIN t = 1 .. Len(t)
      /\ DOMAIN (s \o t) = 1 .. k + Len(t)
  OBVIOUS
<1>2. \A n \in 1 .. k + Len(t) : (s \o t)[n] = IF n <= k THEN s[n] ELSE t[n - k]
  OBVIOUS
<1> HIDE DEF k
<1>3. C = A \cup D
  <2>1. \A n \in C : n \in A \cup D
    BY <1>1, <1>2
  <2>2. \A n \in A \cup D : n \in C
    BY <1>1, <1>2
  <2> QED BY <2>1, <2>2
<1>4. A \cap D = {}
  BY <1>1
<1>5. IsFiniteSet(A) /\ IsFiniteSet(B)
  <2>1. IsFiniteSet(1 .. k) /\ IsFiniteSet(1 .. Len(t))
    BY <1>1, FS_Interval
  <2>2. A \subseteq 1 .. k /\ B \subseteq 1 .. Len(t)
    BY <1>1
  <2> QED BY <2>1, <2>2, FS_Subset
<1>6. IsFiniteSet(D) /\ Cardinality(D) = Cardinality(B)
  <2>1. B \subseteq 1 .. Len(t)
    BY <1>1
  <2> HIDE DEF B
  <2>2. f \in [B -> D]
    BY <1>1, <2>1
  <2>3. f \in Surjection(B, D)
    <3>1. ASSUME NEW d \in D PROVE d - k \in B /\ f[d - k] = d
      BY <1>1
    <3> QED BY <2>2, <3>1 DEF Surjection
  <2>4. f \in Injection(B, D)
    BY <1>1, <2>1, <2>2 DEF Injection, IsInjective
  <2>5. ExistsBijection(B, D)
    BY <2>3, <2>4 DEF ExistsBijection, Bijection
  <2> QED BY <1>5, <2>5, FS_Bijection
<1> HIDE DEF A, B, C, D
<1>7. Cardinality(C) = Cardinality(A) + Cardinality(D) - Cardinality(A \cap D)
  BY <1>3, <1>5, <1>6, FS_Union
<1>8. Cardinality(A \cap D) = 0
  BY <1>4, FS_EmptySet
<1>9. Cardinality(A) \in Nat /\ Cardinality(B) \in Nat
  BY <1>5, FS_CardinalityType
<1>10. Cardinality(C) = Cardinality(A) + Cardinality(B)
  BY <1>6, <1>7, <1>8, <1>9
<1> QED BY <1>10 DEF A, B, C, HowOften

(* What the two sides have done when, and the lines that tell of it.        *)
ProcType ==
    /\ exercise \in {"pip2", "thread1", "tread2", "forkEx", "forkEx1", "test"} /\ tty \in BOOLEAN
    /\ exAt \in [Sides -> {"none", "run", "wait", "sleep", "end", "killed", "failed"}]
    /\ pipe \in [Sides -> BOOLEAN] /\ ran \in 0 .. Rounds
    /\ held \in [Sides -> Seq(Printed)] /\ screen \in Seq(Printed)

NotStarted ==
    exAt["other"] = "none" =>
        /\ exAt["main"] = "run" /\ ~pipe["main"] /\ ~pipe["other"] /\ ran = 0
        /\ held["main"] = <<>> /\ held["other"] = <<>> /\ screen = <<>>

(* The child of pip2.c gets no answer before its parent has printed.        *)
AnswerAfterQuestion ==
    exercise = "pip2" /\ tty /\ exAt["other"] # "none"
    /\ (pipe["main"] \/ exAt["other"] = "end" \/ exAt["main"] = "run")
    => Times("who are you?") # 0

(* Every round is on the screen or in the buffer of the one process; after  *)
(* main's last line nothing is held any more.                               *)
RoundsCounted ==
    /\ Threads => Times("running thread") + HowOften("running thread", held["main"]) = ran
    /\ exercise = "tread2" /\ exAt["other"] = "end" => ran = Rounds
    /\ \A s \in Sides : HowOften(ThreadMessage, held[s]) = 0
    /\ Times(ThreadMessage) # 0 =>
          /\ exercise = "tread2" /\ exAt["other"] = "end" /\ exAt["main"] = "end"
          /\ held["main"] = <<>>

Waited ==
    exercise = "forkEx1" /\ exAt["main"] = "end" => exAt["other"] \in {"end", "killed", "failed"}

(* Nobody writes to the parent of pip2.c that has no child.                 *)
Alone ==
    exercise = "pip2" /\ exAt["other"] = "failed" => exAt["main"] \in {"wait", "killed"} /\ ~pipe["other"]

Ended(s) == IF exAt[s] = "end" THEN 1 ELSE 0

(* Each process of test.c holds its own copy of the line until it ends.     *)
CopiesHeld ==
    exercise = "test" /\ exAt["other"] # "none" =>
        /\ \A s \in Sides :
              held[s] = IF tty \/ exAt[s] \in {"end", "failed"} THEN <<>> ELSE <<"before fork">>
        /\ Times("before fork") = IF tty THEN 1 ELSE Ended("main") + Ended("other")
        /\ Times("glob=6") = Ended("main") /\ Times("glob=7") = Ended("other")

ProcOK ==
    ProcType /\ NotStarted /\ AnswerAfterQuestion /\ RoundsCounted /\ Waited /\ CopiesHeld

LEMMA ShownCounts ==
    ASSUME ProcType
    PROVE  \A l : Times(l) \in Nat /\ HowOften(l, held["main"]) \in Nat /\ HowOften(l, held["other"]) \in Nat
BY CountType DEF ProcType, Times, Sides

LEMMA ProcOKSuffices == ProcOK /\ Alone => TwoSides
<1> SUFFICES ASSUME ProcOK, Alone PROVE TwoSides
  OBVIOUS
<1>1. ASSUME exercise = "pip2", exAt["main"] = "killed", tty, Times("who are you?") = 0
      PROVE  exAt["other"] # "end"
  BY <1>1, Zenon DEF ProcOK, AnswerAfterQuestion
<1>2. ASSUME Times(ThreadMessage) > 0 PROVE Times("running thread") = Rounds
  <2>0. Times(ThreadMessage) # 0
    BY <1>2
  <2>1. Times("running thread") + 0 = Rounds
    BY <2>0, CountNone DEF ProcOK, RoundsCounted, Threads
  <2> DEFINE T == Times("running thread")
  <2>2. T \in Nat /\ T + 0 = Rounds
    BY <2>1, ShownCounts DEF ProcOK
  <2> HIDE DEF T
  <2>3. T = Rounds
    BY <2>2
  <2> QED BY <2>3 DEF T
<1>3. ASSUME exercise = "test", exAt["main"] = "end", exAt["other"] \in {"end", "failed"}
      PROVE  /\ Times("before fork") = (IF tty \/ ~(exAt["other"] = "end") THEN 1 ELSE 2)
             /\ Times("glob=6") = 1 /\ Times("glob=7") = (IF exAt["other"] = "end" THEN 1 ELSE 0)
  <2>1. exAt["other"] # "none" /\ Ended("main") = 1
    BY <1>3 DEF Ended
  <2>2. /\ Times("before fork") = IF tty THEN 1 ELSE Ended("main") + Ended("other")
        /\ Times("glob=6") = Ended("main") /\ Times("glob=7") = Ended("other")
    BY <1>3, <2>1, Zenon DEF ProcOK, CopiesHeld
  <2>3. 1 + 1 = 2 /\ 1 + 0 = 1
    OBVIOUS
  <2>4. CASE exAt["other"] = "end"
    <3>1. Ended("other") = 1
      BY <2>4 DEF Ended
    <3> QED BY <2>1, <2>2, <2>3, <2>4, <3>1, Zenon
  <2>5. CASE exAt["other"] = "failed"
    <3>1. Ended("other") = 0 /\ exAt["other"] # "end"
      BY <2>5 DEF Ended
    <3> QED BY <2>1, <2>2, <2>3, <3>1, Zenon
  <2> QED BY <1>3, <2>4, <2>5
<1> QED BY <1>1, <1>2, <1>3 DEF TwoSides, ProcOK, Waited, Alone

LEMMA ProcInitOK == ProcInit => ProcOK
<1> SUFFICES ASSUME ProcInit PROVE ProcOK
  OBVIOUS
<1>1. ProcType /\ NotStarted /\ AnswerAfterQuestion /\ Waited /\ CopiesHeld
  BY RoundsAssumption
     DEF ProcInit, ProcType, NotStarted, AnswerAfterQuestion, Waited, CopiesHeld, Sides
<1>2. \A l : Times(l) = 0 /\ \A s \in Sides : HowOften(l, held[s]) = 0
  BY CountNone DEF ProcInit, Times
<1>3. /\ ran = 0 /\ exAt["other"] = "none" /\ "main" \in Sides
      /\ Times("running thread") = 0 /\ HowOften("running thread", held["main"]) = 0
      /\ Times(ThreadMessage) = 0
      /\ \A s \in Sides : HowOften(ThreadMessage, held[s]) = 0
  <2>1. "main" \in Sides
    BY DEF Sides
  <2>2. ran = 0 /\ exAt["other"] = "none"
    BY DEF ProcInit, Sides
  <2> QED BY <1>2, <2>1, <2>2, Zenon
<1>4. 0 + 0 = 0
  OBVIOUS
<1>5. RoundsCounted
  BY <1>3, <1>4, Zenon DEF RoundsCounted
<1> QED BY <1>1, <1>5 DEF ProcOK

(* printf adds one line, to the screen or to the buffer; what was held and  *)
(* the last line come to the screen at the exit.                            *)
LEMMA Showed ==
    ASSUME ProcType, NEW s \in Sides, NEW text \in Printed, Show(s, <<text>>)
    PROVE  /\ screen' \in Seq(Printed) /\ held' \in [Sides -> Seq(Printed)]
           /\ tty => /\ held' = held
                     /\ \A l : Times(l)' = Times(l) + HowOften(l, <<text>>)
           /\ ~tty => /\ screen' = screen /\ \A l : Times(l)' = Times(l)
                      /\ \A b \in Sides \ {Buffer(s)} : held'[b] = held[b]
                      /\ \A l : HowOften(l, held'[Buffer(s)])
                                   = HowOften(l, held[Buffer(s)]) + HowOften(l, <<text>>)
<1>1. Buffer(s) \in Sides /\ held[Buffer(s)] \in Seq(Printed) /\ screen \in Seq(Printed) /\ <<text>> \in Seq(Printed)
  BY DEF ProcType, Buffer, Sides
<1>2. CASE tty
  <2>1. screen' = screen \o <<text>> /\ held' = held
    BY <1>2 DEF Show
  <2>2. \A l : HowOften(l, screen') = HowOften(l, screen) + HowOften(l, <<text>>)
    BY <1>1, <2>1, CountConcat
  <2>3. \A l : Times(l)' = Times(l) + HowOften(l, <<text>>)
    BY <2>2 DEF Times
  <2>4. screen' \in Seq(Printed) /\ held' \in [Sides -> Seq(Printed)]
    BY <1>1, <2>1 DEF ProcType
  <2> QED BY <1>2, <2>1, <2>3, <2>4
<1>3. CASE ~tty
  <2>1. screen' = screen /\ held' = [held EXCEPT ![Buffer(s)] = @ \o <<text>>]
    BY <1>3 DEF Show
  <2>2. held'[Buffer(s)] = held[Buffer(s)] \o <<text>>
    BY <1>1, <2>1 DEF ProcType
  <2>3. \A l : HowOften(l, held'[Buffer(s)]) = HowOften(l, held[Buffer(s)]) + HowOften(l, <<text>>)
    BY <1>1, <2>2, CountConcat
  <2>4. held' \in [Sides -> Seq(Printed)] /\ \A b \in Sides \ {Buffer(s)} : held'[b] = held[b]
    BY <1>1, <2>1 DEF ProcType
  <2> QED BY <1>1, <1>3, <2>1, <2>3, <2>4 DEF Times
<1> QED BY <1>2, <1>3

LEMMA ShowedLast ==
    ASSUME ProcType, NEW s \in Sides, NEW texts \in Seq(Printed), ShowLast(s, texts)
    PROVE  /\ screen' \in Seq(Printed) /\ held' \in [Sides -> Seq(Printed)]
           /\ held'[Buffer(s)] = <<>> /\ \A b \in Sides \ {Buffer(s)} : held'[b] = held[b]
           /\ \A l : Times(l)' = Times(l) + HowOften(l, held[Buffer(s)]) + HowOften(l, texts)
<1>1. Buffer(s) \in Sides /\ held[Buffer(s)] \in Seq(Printed) /\ screen \in Seq(Printed)
  BY DEF ProcType, Buffer, Sides
<1>2. /\ screen' = screen \o held[Buffer(s)] \o texts
      /\ held' = [held EXCEPT ![Buffer(s)] = <<>>]
  BY DEF ShowLast
<1>3. screen \o held[Buffer(s)] \in Seq(Printed)
  BY <1>1
<1>4. \A l : HowOften(l, screen') = HowOften(l, screen) + HowOften(l, held[Buffer(s)]) + HowOften(l, texts)
  BY <1>1, <1>2, <1>3, CountConcat
<1>5. screen' \in Seq(Printed)
  BY <1>2, <1>3
<1> QED BY <1>1, <1>2, <1>4, <1>5 DEF ProcType, Times

(* The steps that neither print nor end the process.                        *)
LEMMA Silent ==
    ASSUME ProcOK, UNCHANGED <<exercise, tty, held, screen>>
    PROVE  /\ \A l : Times(l)' = Times(l)
           /\ \A s \in Sides : HowOften(ThreadMessage, held'[s]) = 0
BY DEF Times, ProcOK, RoundsCounted

LEMMA ProcStart == ProcOK /\ (Start \/ NoChild) => ProcOK'
<1> SUFFICES ASSUME ProcOK, Start \/ NoChild PROVE ProcOK'
  OBVIOUS
<1> DEFINE early == Before
           born == IF Start THEN "run" ELSE "failed"
<1>1. /\ exAt' = [s \in Sides |-> IF s = "main" THEN "wait" ELSE born]
      /\ UNCHANGED <<exercise, tty, pipe, ran>> /\ born \in {"run", "failed"}
  BY DEF Start, NoChild
<1>2. exAt'["main"] = "wait" /\ exAt'["other"] = born
  BY <1>1 DEF Sides
<1>3. /\ held["main"] = <<>> /\ held["other"] = <<>> /\ screen = <<>> /\ ran = 0 /\ ~pipe["main"]
  BY DEF Start, NoChild, ProcOK, NotStarted
<1>4. IF tty THEN screen' = early /\ held' = held
      ELSE held' = [s \in Sides |-> IF s = "main" \/ born = "run" THEN early ELSE <<>>] /\ screen' = screen
  <2>1. CASE Start
    BY <2>1 DEF Start
  <2>2. CASE NoChild /\ ~Start
    <3>1. Show("main", early) /\ Buffer("main") = "main" /\ held \in [Sides -> Seq(Printed)]
      BY <2>2 DEF NoChild, Buffer, ProcOK, ProcType
    <3>2. CASE tty
      <4>1. screen' = screen \o early /\ held' = held
        BY <3>1, <3>2 DEF Show
      <4>2. screen \o early = early
        BY <1>3 DEF Before
      <4> QED BY <3>2, <4>1, <4>2
    <3>3. CASE ~tty
      <4>1. screen' = screen /\ held' = [held EXCEPT !["main"] = @ \o early]
        BY <3>1, <3>3 DEF Show
      <4>2. held["main"] \o early = early
        BY <1>3 DEF Before
      <4> QED BY <1>3, <2>2, <3>1, <3>3, <4>1, <4>2 DEF Sides
    <3> QED BY <3>2, <3>3
  <2> QED BY <2>1, <2>2
<1>5. early \in Seq(Printed)
  <2>1. <<"before fork">> \in Seq(Printed)
    BY OneLine, PrintedLines
  <2>2. <<>> \in Seq(Printed)
    OBVIOUS
  <2> QED BY <2>1, <2>2, Zenon DEF Before
<1>6. /\ HowOften(ThreadMessage, early) = 0 /\ HowOften("running thread", early) = 0
      /\ HowOften("glob=6", early) = 0 /\ HowOften("glob=7", early) = 0
      /\ exercise = "test" => HowOften("before fork", early) = 1
  BY CountOne, CountNone, PrintedLines DEF Before
<1>7. exercise = "test" => early = <<"before fork">>
  BY DEF Before
<1> HIDE DEF early, born
<1>8. screen' = (IF tty THEN early ELSE <<>>)
      /\ \A s \in Sides : held'[s] = IF tty \/ ~(s = "main" \/ born = "run") THEN <<>> ELSE early
  BY <1>3, <1>4 DEF Sides
<1>13. <<>> \in Seq(Printed)
  OBVIOUS
<1>9. ProcType'
  BY <1>1, <1>4, <1>5, <1>13 DEF ProcOK, ProcType, Sides
<1>10. NotStarted' /\ AnswerAfterQuestion' /\ Waited'
  BY <1>1, <1>2, <1>3 DEF NotStarted, AnswerAfterQuestion, Waited
<1>11. CASE tty
  <2>1. \A l : Times(l)' = HowOften(l, early)
    BY <1>8, <1>11 DEF Times
  <2>2. \A s \in Sides : held'[s] = <<>>
    BY <1>8, <1>11
  <2>3. RoundsCounted'
    <3>1. Times(ThreadMessage)' = 0 /\ Times("running thread")' = 0
      BY <1>6, <2>1
    <3>2. \A s \in Sides : HowOften(ThreadMessage, held'[s]) = 0
      BY <2>2, CountNone
    <3>3. HowOften("running thread", held'["main"]) = 0
      BY <2>2, CountNone DEF Sides
    <3>4. ran' = 0 /\ exAt'["other"] # "end"
      BY <1>1, <1>2, <1>3
    <3>5. 0 + 0 = 0
      OBVIOUS
    <3> QED BY <3>1, <3>2, <3>3, <3>4, <3>5, Zenon DEF RoundsCounted
  <2>4. CopiesHeld'
    <3>1. Ended("main")' = 0 /\ Ended("other")' = 0 /\ tty'
      BY <1>1, <1>2, <1>11 DEF Ended
    <3>2. Times("glob=6")' = 0 /\ Times("glob=7")' = 0 /\ (exercise' = "test" => Times("before fork")' = 1)
      BY <1>1, <1>6, <2>1
    <3> QED BY <2>2, <3>1, <3>2, Zenon DEF CopiesHeld
  <2> QED BY <1>9, <1>10, <2>3, <2>4 DEF ProcOK
<1>12. CASE ~tty
  <2>1. \A l : Times(l)' = 0
    BY <1>8, <1>12, CountNone DEF Times
  <2>2. \A s \in Sides : held'[s] \in {early, <<>>}
    BY <1>8, <1>12
  <2>3. RoundsCounted'
    <3>1. Times(ThreadMessage)' = 0 /\ Times("running thread")' = 0
      BY <2>1
    <3>2. \A s \in Sides : HowOften(ThreadMessage, held'[s]) = 0
      BY <1>6, <2>2, CountNone
    <3>3. HowOften("running thread", held'["main"]) = 0
      BY <1>6, <2>2, CountNone DEF Sides
    <3>4. ran' = 0 /\ exAt'["other"] # "end"
      BY <1>1, <1>2, <1>3
    <3>5. 0 + 0 = 0
      OBVIOUS
    <3> QED BY <3>1, <3>2, <3>3, <3>4, <3>5, Zenon DEF RoundsCounted
  <2>4. CopiesHeld'
    <3>1. Ended("main")' = 0 /\ Ended("other")' = 0 /\ ~tty'
      BY <1>1, <1>2, <1>12 DEF Ended
    <3>2. \A s \in Sides : exAt'[s] # "end" /\ (exAt'[s] = "failed" <=> ~(s = "main" \/ born = "run"))
      BY <1>1, <1>2 DEF Sides
    <3>3. exercise' = "test" => \A s \in Sides :
             held'[s] = IF exAt'[s] \in {"end", "failed"} THEN <<>> ELSE <<"before fork">>
      BY <1>1, <1>7, <1>8, <1>12, <3>2
    <3>4. 0 = 0 + 0
      OBVIOUS
    <3> QED BY <2>1, <3>1, <3>2, <3>3, <3>4, Zenon DEF CopiesHeld
  <2> QED BY <1>9, <1>10, <2>3, <2>4 DEF ProcOK
<1> QED BY <1>11, <1>12

LEMMA ProcChildWrites == ProcOK /\ ChildWrites => ProcOK'
<1> SUFFICES ASSUME ProcOK, ChildWrites PROVE ProcOK'
  OBVIOUS
<1>1. ProcType' /\ NotStarted' /\ exAt'["main"] = exAt["main"] /\ exAt'["other"] = "wait"
      /\ pipe'["main"] = pipe["main"]
  BY DEF ChildWrites, ProcOK, ProcType, NotStarted, Sides
<1>2. AnswerAfterQuestion'
  BY <1>1, Silent DEF ChildWrites, ProcOK, AnswerAfterQuestion
<1>3. UNCHANGED <<exercise, tty, ran, held, screen>> /\ exercise = "pip2"
  BY DEF ChildWrites
<1>4. RoundsCounted' /\ Waited' /\ CopiesHeld'
  <2>1. exercise' = "pip2" /\ ~Threads' /\ Times(ThreadMessage) = 0
    BY <1>3 DEF Threads, ProcOK, RoundsCounted
  <2> QED BY <1>3, <2>1, Silent DEF RoundsCounted, Waited, CopiesHeld
<1> QED BY <1>1, <1>2, <1>4 DEF ProcOK

(* Nobody but main in tread2.c prints the message.                          *)
Prints(s, text) == Show(s, <<text>>) \/ ShowLast(s, <<text>>) \/ ShowLast(s, <<>>)

LEMMA Printing ==
    ASSUME ProcOK, NEW s \in Sides, NEW text \in Printed, Prints(s, text)
    PROVE  /\ screen' \in Seq(Printed) /\ held' \in [Sides -> Seq(Printed)]
           /\ \A l : Times(l) # 0 => Times(l)' # 0
           /\ Times(ThreadMessage) = 0 /\ text # ThreadMessage =>
                  /\ Times(ThreadMessage)' = 0
                  /\ \A b \in Sides : HowOften(ThreadMessage, held'[b]) = 0
<1>1. ProcType /\ <<text>> \in Seq(Printed) /\ <<>> \in Seq(Printed)
  BY OneLine DEF ProcOK
<1>2. /\ Buffer(s) \in Sides /\ \A l : Times(l) \in Nat /\ HowOften(l, held[Buffer(s)]) \in Nat
      /\ \A b \in Sides : HowOften(ThreadMessage, held[b]) = 0
  BY <1>1, ShownCounts DEF Buffer, Sides, ProcOK, RoundsCounted
<1>3. /\ \A l : HowOften(l, <<text>>) \in Nat /\ HowOften(l, <<>>) = 0
      /\ text # ThreadMessage => HowOften(ThreadMessage, <<text>>) = 0
  BY CountOne, CountNone
<1>4. CASE Show(s, <<text>>)
  <2>1. CASE tty
    <3>1. held' = held /\ \A l : Times(l)' = Times(l) + HowOften(l, <<text>>)
      BY <1>1, <1>4, <2>1, Showed
    <3>2. screen' \in Seq(Printed) /\ held' \in [Sides -> Seq(Printed)]
      BY <1>1, <1>4, Showed
    <3>3. \A l : Times(l) # 0 => Times(l)' # 0
      BY <1>2, <1>3, <3>1
    <3>4. Times(ThreadMessage) = 0 /\ text # ThreadMessage => Times(ThreadMessage)' = 0
      BY <1>2, <1>3, <3>1
    <3> QED BY <1>2, <3>1, <3>2, <3>3, <3>4
  <2>2. CASE ~tty
    <3>1. /\ \A l : Times(l)' = Times(l)
          /\ \A b \in Sides \ {Buffer(s)} : held'[b] = held[b]
          /\ \A l : HowOften(l, held'[Buffer(s)]) = HowOften(l, held[Buffer(s)]) + HowOften(l, <<text>>)
      BY <1>1, <1>4, <2>2, Showed
    <3>2. screen' \in Seq(Printed) /\ held' \in [Sides -> Seq(Printed)]
      BY <1>1, <1>4, Showed
    <3>3. ASSUME text # ThreadMessage, NEW b \in Sides PROVE HowOften(ThreadMessage, held'[b]) = 0
      <4>1. CASE b = Buffer(s)
        BY <1>2, <1>3, <3>1, <3>3, <4>1
      <4>2. CASE b # Buffer(s)
        BY <1>2, <3>1, <4>2
      <4> QED BY <4>1, <4>2
    <3> QED BY <3>1, <3>2, <3>3
  <2> QED BY <2>1, <2>2
<1>5. ASSUME NEW texts \in Seq(Printed), ShowLast(s, texts), \A l : HowOften(l, texts) \in Nat,
             text # ThreadMessage => HowOften(ThreadMessage, texts) = 0
      PROVE  /\ screen' \in Seq(Printed) /\ held' \in [Sides -> Seq(Printed)]
             /\ \A l : Times(l) # 0 => Times(l)' # 0
             /\ Times(ThreadMessage) = 0 /\ text # ThreadMessage =>
                  /\ Times(ThreadMessage)' = 0
                  /\ \A b \in Sides : HowOften(ThreadMessage, held'[b]) = 0
  <2>1. /\ screen' \in Seq(Printed) /\ held' \in [Sides -> Seq(Printed)]
        /\ held'[Buffer(s)] = <<>> /\ \A b \in Sides \ {Buffer(s)} : held'[b] = held[b]
    BY <1>1, <1>5, ShowedLast
  <2>2. \A l : Times(l)' = Times(l) + HowOften(l, held[Buffer(s)]) + HowOften(l, texts)
    BY <1>1, <1>5, ShowedLast
  <2>3. \A l : Times(l) # 0 => Times(l)' # 0
    BY <1>2, <1>5, <2>2
  <2>4. Times(ThreadMessage) = 0 /\ text # ThreadMessage => Times(ThreadMessage)' = 0
    BY <1>2, <1>5, <2>2
  <2>5. \A b \in Sides : HowOften(ThreadMessage, held'[b]) = 0
    BY <1>2, <1>3, <2>1
  <2> QED BY <2>1, <2>3, <2>4, <2>5
<1>6. CASE ShowLast(s, <<text>>)
  <2> HIDE DEF Printed
  <2> QED BY <1>1, <1>3, <1>5, <1>6
<1>7. CASE ShowLast(s, <<>>)
  <2>1. \A l : HowOften(l, <<>>) \in Nat
    BY <1>3
  <2> QED BY <1>1, <1>3, <1>5, <1>7, <2>1
<1> QED BY <1>4, <1>6, <1>7 DEF Prints

LEMMA OtherExercises ==
    ASSUME ProcOK, NEW s \in Sides, NEW text \in Printed \ {ThreadMessage}, Prints(s, text),
           exercise \notin {"thread1", "tread2"}, exercise' = exercise
    PROVE  RoundsCounted'
<1>1. Times(ThreadMessage) = 0
  BY DEF ProcOK, RoundsCounted
<1>2. Times(ThreadMessage)' = 0 /\ \A b \in Sides : HowOften(ThreadMessage, held'[b]) = 0
  BY <1>1, Printing
<1> QED BY <1>2 DEF RoundsCounted, Threads

LEMMA ProcPipe == ProcOK /\ (ParentReads \/ ParentAnswers \/ ParentLeaves \/ ChildReads) => ProcOK'
<1> SUFFICES ASSUME ProcOK, ParentReads \/ ParentAnswers \/ ParentLeaves \/ ChildReads PROVE ProcOK'
  OBVIOUS
<1>1. "main" \in Sides /\ "other" \in Sides /\ ProcType
  BY DEF Sides, ProcOK
<1>2. CASE ParentReads
  <2>1. /\ exercise = "pip2" /\ exAt' = [exAt EXCEPT !["main"] = "run"]
        /\ pipe' = [pipe EXCEPT !["other"] = FALSE]
        /\ Show("main", <<"who are you?">>) /\ UNCHANGED <<exercise, tty, ran>>
        /\ exAt["main"] = "wait"
    BY <1>2 DEF ParentReads
  <2>2. Prints("main", "who are you?") /\ "who are you?" \in Printed \ {ThreadMessage}
    BY <2>1, PrintedLines DEF Prints
  <2>3. RoundsCounted'
    BY <1>1, <2>1, <2>2, OtherExercises
  <2>4. ProcType'
    BY <1>1, <2>1, <2>2, Printing DEF ProcType
  <2>5. exAt["other"] # "none"
    BY <2>1 DEF ProcOK, NotStarted
  <2>6. NotStarted' /\ Waited' /\ CopiesHeld'
    BY <1>1, <2>1, <2>5 DEF NotStarted, Waited, CopiesHeld, ProcType
  <2>7. tty => Times("who are you?")' # 0
    <3> SUFFICES ASSUME tty PROVE Times("who are you?")' # 0
      OBVIOUS
    <3>1. Times("who are you?")' = Times("who are you?") + HowOften("who are you?", <<"who are you?">>)
      BY <1>1, <2>1, <2>2, Showed
    <3>2. HowOften("who are you?", <<"who are you?">>) = 1
      BY CountOne
    <3>3. Times("who are you?") \in Nat
      BY <1>1, ShownCounts
    <3>4. \A n \in Nat : n + 1 # 0
      OBVIOUS
    <3> QED BY <3>1, <3>2, <3>3, <3>4, Zenon
  <2>8. AnswerAfterQuestion'
    BY <2>1, <2>7, Zenon DEF AnswerAfterQuestion
  <2> QED BY <2>3, <2>4, <2>6, <2>8 DEF ProcOK
<1>3. CASE ParentAnswers
  <2>1. /\ exercise = "pip2" /\ exAt' = [exAt EXCEPT !["main"] = "sleep"] /\ exAt["main"] = "run"
        /\ exAt["other"] # "none" /\ pipe' = [pipe EXCEPT !["main"] = TRUE]
        /\ UNCHANGED <<exercise, tty, ran, held, screen>>
    BY <1>3 DEF ParentAnswers
  <2>2. ProcType' /\ NotStarted' /\ Waited' /\ CopiesHeld'
    BY <1>1, <2>1 DEF ProcType, NotStarted, Waited, CopiesHeld
  <2>3. Times(ThreadMessage) = 0 /\ (tty => Times("who are you?") # 0)
    BY <2>1 DEF ProcOK, RoundsCounted, AnswerAfterQuestion
  <2>4. AnswerAfterQuestion'
    BY <2>1, <2>3, Silent DEF AnswerAfterQuestion
  <2>5. RoundsCounted'
    BY <2>1, <2>3, Silent DEF RoundsCounted, Threads
  <2> QED BY <2>2, <2>4, <2>5 DEF ProcOK
<1>4. CASE ParentLeaves \/ ChildReads
  <2>1. PICK s \in Sides, text \in Printed \ {ThreadMessage} :
            /\ Prints(s, text) /\ exAt' = [exAt EXCEPT ![s] = "end"]
            /\ s = "other" => exAt["other"] = "wait" /\ pipe["main"]
            /\ s = "main" => exAt["main"] = "sleep"
            /\ pipe'["main"] => pipe["main"]
            /\ pipe' \in [Sides -> BOOLEAN]
    <3>1. CASE ParentLeaves
      BY <1>1, <3>1, PrintedLines DEF ParentLeaves, Prints, End, ProcType
    <3>2. CASE ChildReads
      BY <1>1, <3>2, PrintedLines DEF ChildReads, Prints, End, ProcType
    <3> QED BY <1>4, <3>1, <3>2
  <2>2. exercise = "pip2" /\ UNCHANGED <<exercise, tty, ran>>
    BY <1>4 DEF ParentLeaves, ChildReads
  <2>3. RoundsCounted'
    BY <2>1, <2>2, OtherExercises
  <2>4. ProcType'
    BY <1>1, <2>1, <2>2, Printing DEF ProcType
  <2>5. exAt["other"] # "none"
    BY <2>1 DEF ProcOK, NotStarted, Sides
  <2>6. exAt'["other"] # "none" /\ exAt'["main"] \in {exAt["main"], "end"}
        /\ (exAt'["other"] = "end" => exAt["other"] = "end" \/ pipe["main"])
    BY <1>1, <2>1, <2>5 DEF ProcType, Sides
  <2>7. NotStarted' /\ Waited' /\ CopiesHeld'
    BY <2>2, <2>6 DEF NotStarted, Waited, CopiesHeld
  <2>8. \A l : Times(l) # 0 => Times(l)' # 0
    BY <2>1, Printing
  <2>9. AnswerAfterQuestion'
    <3> SUFFICES ASSUME tty, pipe'["main"] \/ exAt'["other"] = "end" \/ exAt'["main"] = "run"
                 PROVE  Times("who are you?")' # 0
      BY <2>2 DEF AnswerAfterQuestion
    <3>1. pipe["main"] \/ exAt["other"] = "end" \/ exAt["main"] = "run"
      BY <2>1, <2>6
    <3>2. Times("who are you?") # 0
      BY <2>2, <2>5, <3>1 DEF ProcOK, AnswerAfterQuestion
    <3> QED BY <2>8, <3>2
  <2> QED BY <2>3, <2>4, <2>7, <2>9 DEF ProcOK
<1> QED BY <1>2, <1>3, <1>4

LEMMA NothingAdded == \A i, j \in Nat : (i + j + 0) + 0 = i + j
OBVIOUS

LEMMA ProcThreadRuns == ProcOK /\ ThreadRuns => ProcOK'
<1> SUFFICES ASSUME ProcOK, ThreadRuns PROVE ProcOK'
  OBVIOUS
<1>1. /\ ProcType /\ "main" \in Sides /\ "other" \in Sides /\ "running thread" \in Printed
      /\ "running thread" # ThreadMessage
  BY PrintedLines DEF ProcOK, Sides
<1>2. /\ Threads /\ exAt["other"] = "run" /\ ran < Rounds /\ ran' = ran + 1
      /\ Show("other", <<"running thread">>) /\ UNCHANGED <<exercise, tty, exAt, pipe>>
  BY DEF ThreadRuns
<1>3. Buffer("other") = "main" /\ Prints("other", "running thread")
  BY <1>2 DEF Buffer, Prints
<1>4. ProcType'
  <2>1. screen' \in Seq(Printed) /\ held' \in [Sides -> Seq(Printed)]
    BY <1>1, <1>3, Printing
  <2>2. ran \in 0 .. Rounds /\ ran < Rounds /\ ran' = ran + 1
    BY <1>1, <1>2, Zenon DEF ProcType
  <2>3. ran' \in 0 .. Rounds
    BY ONLY <2>2, RoundsAssumption
  <2> QED BY <1>1, <1>2, <2>1, <2>3 DEF ProcType
<1>5. NotStarted' /\ AnswerAfterQuestion' /\ Waited' /\ CopiesHeld'
  BY <1>2 DEF NotStarted, AnswerAfterQuestion, Waited, CopiesHeld, Threads, ProcOK
<1>6. Times(ThreadMessage)' = 0 /\ \A b \in Sides : HowOften(ThreadMessage, held'[b]) = 0
  <2>1. Times(ThreadMessage) = 0
    BY <1>2 DEF ProcOK, RoundsCounted
  <2> QED BY <1>1, <1>3, <2>1, Printing
<1>7. Times("running thread")' + HowOften("running thread", held'["main"]) = ran'
  <2> DEFINE x == Times("running thread")
             y == HowOften("running thread", held["main"])
             v == HowOften("running thread", held'["main"])
  <2>1. HowOften("running thread", <<"running thread">>) = 1
    BY CountOne
  <2>2. x \in Nat /\ y \in Nat /\ x + y = ran /\ ran' = ran + 1
    BY <1>1, <1>2, ShownCounts DEF ProcOK, RoundsCounted
  <2>4. CASE tty
    <3>1. x' = x + HowOften("running thread", <<"running thread">>) /\ v = y
      BY <1>1, <1>2, <2>4, Showed
    <3>2. x' = x + 1 /\ v = y
      BY <2>1, <3>1, Zenon
    <3> HIDE DEF x, y, v
    <3>3. x' + v = ran'
      BY ONLY <2>2, <3>2
    <3> QED BY <3>3 DEF x, v
  <2>5. CASE ~tty
    <3>1. x' = x /\ v = y + HowOften("running thread", <<"running thread">>)
      BY <1>1, <1>2, <1>3, <2>5, Showed
    <3>2. x' = x /\ v = y + 1
      BY <2>1, <3>1, Zenon
    <3> HIDE DEF x, y, v
    <3>3. x' + v = ran'
      BY ONLY <2>2, <3>2
    <3> QED BY <3>3 DEF x, v
  <2> QED BY <2>4, <2>5
<1>8. RoundsCounted'
  BY <1>2, <1>6, <1>7 DEF RoundsCounted
<1> QED BY <1>4, <1>5, <1>8 DEF ProcOK

LEMMA ProcThreadReturns == ProcOK /\ ThreadReturns => ProcOK'
<1> SUFFICES ASSUME ProcOK, ThreadReturns PROVE ProcOK'
  OBVIOUS
<1>1. /\ Threads /\ exAt["other"] = "run" /\ ran = Rounds /\ exAt' = [exAt EXCEPT !["other"] = "end"]
      /\ UNCHANGED <<exercise, tty, pipe, ran, held, screen>>
  BY DEF ThreadReturns, End
<1>2. ProcType' /\ exAt'["other"] = "end"
  BY <1>1 DEF ProcOK, ProcType, Sides
<1>3. NotStarted' /\ AnswerAfterQuestion' /\ Waited' /\ CopiesHeld'
  BY <1>1, <1>2 DEF NotStarted, AnswerAfterQuestion, Waited, CopiesHeld, Threads
<1>4. RoundsCounted'
  <2>1. Times(ThreadMessage) = 0
    BY <1>1 DEF ProcOK, RoundsCounted
  <2>2. Threads => Times("running thread") + HowOften("running thread", held["main"]) = ran
    BY DEF ProcOK, RoundsCounted
  <2> QED BY <1>1, <2>1, <2>2, Silent DEF RoundsCounted, Threads
<1> QED BY <1>2, <1>3, <1>4 DEF ProcOK

(* The end of main ends both, and nothing is held any more.                 *)
LEMMA ThreadsEnd ==
    ASSUME ProcOK, NEW text \in Printed \ {"running thread"}, ShowLast("main", <<text>>), EndProcess,
           Threads, exAt["main"] = "wait", UNCHANGED <<exercise, tty, pipe, ran>>,
           exercise = "tread2" => exAt["other"] = "end",
           text = ThreadMessage => exercise = "tread2"
    PROVE  ProcOK'
<1>1. ProcType /\ "main" \in Sides /\ Buffer("main") = "main" /\ <<text>> \in Seq(Printed)
  BY OneLine DEF ProcOK, Sides, Buffer
<1>2. exAt' = [s \in Sides |-> "end"] /\ exAt'["main"] = "end" /\ exAt'["other"] = "end"
  BY DEF EndProcess, Sides
<1>3. /\ screen' \in Seq(Printed) /\ held' \in [Sides -> Seq(Printed)]
      /\ held'["main"] = <<>> /\ \A b \in Sides \ {"main"} : held'[b] = held[b]
      /\ \A l : Times(l)' = Times(l) + HowOften(l, held["main"]) + HowOften(l, <<text>>)
  BY <1>1, ShowedLast
<1>4. ProcType'
  BY <1>1, <1>2, <1>3 DEF ProcType
<1>5. NotStarted' /\ AnswerAfterQuestion' /\ Waited' /\ CopiesHeld'
  BY <1>2 DEF NotStarted, AnswerAfterQuestion, Waited, CopiesHeld, Threads
<1>6. HowOften("running thread", held'["main"]) = 0
  BY <1>3, CountNone
<1>7. \A b \in Sides : HowOften(ThreadMessage, held'[b]) = 0
  BY <1>3, CountNone DEF ProcOK, RoundsCounted
<1>8. Times("running thread")' + HowOften("running thread", held'["main"]) = ran'
  <2> DEFINE x == Times("running thread")
             y == HowOften("running thread", held["main"])
  <2>1. x \in Nat /\ y \in Nat /\ x + y = ran
    BY <1>1, ShownCounts DEF ProcOK, RoundsCounted
  <2>2. HowOften("running thread", <<text>>) = 0
    BY CountOne
  <2>3. x' = x + y + 0
    BY <1>3, <2>2, Zenon
  <2> QED BY <1>6, <2>1, <2>3, NothingAdded, Zenon
<1>9. Times(ThreadMessage)' # 0 => exercise = "tread2"
  <2> SUFFICES ASSUME exercise # "tread2" PROVE Times(ThreadMessage)' = 0
    OBVIOUS
  <2>1. Times(ThreadMessage) = 0 /\ text # ThreadMessage
    BY DEF ProcOK, RoundsCounted
  <2> QED BY <1>1, <2>1, Printing DEF Prints
<1>10. exercise' = "tread2" => ran' = Rounds
  BY DEF ProcOK, RoundsCounted
<1>11. RoundsCounted'
  BY <1>2, <1>3, <1>7, <1>8, <1>9, <1>10 DEF RoundsCounted
<1> QED BY <1>4, <1>5, <1>11 DEF ProcOK

LEMMA ProcThreadsEnd == ProcOK /\ (SleepOver \/ Join) => ProcOK'
<1>1. ASSUME ProcOK, SleepOver PROVE ProcOK'
  <2>1. "end of main" \in Printed \ {"running thread"} /\ "end of main" # ThreadMessage
    BY PrintedLines
  <2> QED BY <1>1, <2>1, ThreadsEnd DEF SleepOver, Threads
<1>2. ASSUME ProcOK, Join PROVE ProcOK'
  <2>1. ThreadMessage \in Printed \ {"running thread"}
    BY PrintedLines
  <2> QED BY <1>2, <2>1, ThreadsEnd DEF Join, MayJoin, Threads
<1> QED BY <1>1, <1>2

LEMMA ProcForkEx ==
    ProcOK /\ (ForkExChild \/ ForkExDone \/ ForkExParent \/ ForkExReturns) => ProcOK'
<1> SUFFICES ASSUME ProcOK, ForkExChild \/ ForkExDone \/ ForkExParent \/ ForkExReturns PROVE ProcOK'
  OBVIOUS
<1>1. ProcType /\ "main" \in Sides /\ "other" \in Sides
  BY DEF ProcOK, Sides
<1>2. PICK s \in Sides, text \in Printed \ {ThreadMessage}, to \in {"sleep", "end"} :
          /\ Prints(s, text) /\ exAt' = [exAt EXCEPT ![s] = to]
          /\ exAt[s] # "none" /\ exAt["other"] # "none"
          /\ s = "other" => exAt["other"] \in {"run", "sleep"}
          /\ s = "main" /\ to = "end" =>
                exercise = "forkEx" \/ exAt["other"] \in {"end", "killed", "failed"}
          /\ s = "other" => exAt["main"] # "end" \/ exercise = "forkEx" \/ to = "end"
          /\ exercise \in {"forkEx", "forkEx1"} /\ UNCHANGED <<exercise, tty, pipe, ran>>
  <2>1. CASE ForkExChild
    <3>1. Prints("other", "I am") /\ "I am" \in Printed \ {ThreadMessage}
      BY <2>1, PrintedLines DEF ForkExChild, Prints
    <3>2. exAt["main"] # "end" \/ exercise = "forkEx"
      BY <2>1 DEF ForkExChild, ProcOK, Waited
    <3> QED BY <1>1, <2>1, <3>1, <3>2 DEF ForkExChild
  <2>2. CASE ForkExDone
    <3>1. Prints("other", "Done") /\ "Done" \in Printed \ {ThreadMessage}
      BY <2>2, PrintedLines DEF ForkExDone, Prints
    <3> QED BY <1>1, <2>2, <3>1 DEF ForkExDone, End
  <2>3. CASE ForkExParent
    <3>1. Prints("main", "parent") /\ "parent" \in Printed \ {ThreadMessage}
      BY <2>3, PrintedLines DEF ForkExParent, Prints
    <3>2. exAt["other"] # "none"
      BY <2>3 DEF ForkExParent, ProcOK, NotStarted
    <3> QED BY <1>1, <2>3, <3>1, <3>2 DEF ForkExParent
  <2>4. CASE ForkExReturns
    <3>1. Prints("main", "parent") /\ "parent" \in Printed \ {ThreadMessage}
      BY <2>4, PrintedLines DEF ForkExReturns, Prints
    <3>2. exAt["other"] # "none"
      BY <2>4 DEF ForkExReturns, ProcOK, NotStarted
    <3> QED BY <1>1, <2>4, <3>1, <3>2 DEF ForkExReturns, End
  <2> QED BY <2>1, <2>2, <2>3, <2>4
<1>3. RoundsCounted'
  BY <1>2, OtherExercises
<1>4. ProcType'
  BY <1>1, <1>2, Printing DEF ProcType
<1>5. exAt'["other"] # "none"
  BY <1>1, <1>2 DEF ProcType
<1>6. NotStarted' /\ AnswerAfterQuestion' /\ CopiesHeld'
  BY <1>2, <1>5 DEF NotStarted, AnswerAfterQuestion, CopiesHeld
<1>7. Waited'
  <2>1. CASE s = "main"
    <3>1. exAt'["other"] = exAt["other"] /\ exAt'["main"] = to
      BY <1>1, <1>2, <2>1 DEF ProcType
    <3> QED BY <1>2, <2>1, <3>1 DEF Waited, ProcOK
  <2>2. CASE s = "other"
    <3>1. exAt'["other"] = to /\ exAt'["main"] = exAt["main"]
      BY <1>1, <1>2, <2>2 DEF ProcType
    <3> QED BY <1>2, <2>2, <3>1 DEF Waited, ProcOK
  <2> QED BY <2>1, <2>2 DEF Sides
<1> QED BY <1>3, <1>4, <1>6, <1>7 DEF ProcOK

(* A thread that was not made: main's line is all there is.                 *)
LEMMA ProcCreateFails == ProcOK /\ CreateFails => ProcOK'
<1> SUFFICES ASSUME ProcOK, CreateFails PROVE ProcOK'
  OBVIOUS
<1> DEFINE text == "pthread_create() error"
<1>1. /\ Threads /\ exAt' = [s \in Sides |-> IF s = "main" THEN "end" ELSE "failed"]
      /\ ShowLast("main", <<text>>) /\ UNCHANGED <<exercise, tty, pipe, ran>>
      /\ held["main"] = <<>> /\ held["other"] = <<>> /\ screen = <<>> /\ ran = 0
  BY DEF CreateFails, ProcOK, NotStarted
<1>2. /\ ProcType /\ "main" \in Sides /\ Buffer("main") = "main"
      /\ text \in Printed \ {ThreadMessage} /\ <<text>> \in Seq(Printed) /\ text # "running thread"
  BY <1>1, OneLine, PrintedLines DEF ProcOK, Sides, Buffer
<1> HIDE DEF text
<1>3. /\ screen' \in Seq(Printed) /\ held' \in [Sides -> Seq(Printed)]
      /\ held'[Buffer("main")] = <<>> /\ \A b \in Sides \ {Buffer("main")} : held'[b] = held[b]
      /\ \A l : Times(l)' = Times(l) + HowOften(l, held[Buffer("main")]) + HowOften(l, <<text>>)
  BY <1>1, <1>2, ShowedLast
<1>4. /\ \A b \in Sides : held'[b] = <<>>
      /\ \A l : Times(l)' = 0 + 0 + HowOften(l, <<text>>)
  <2>1. \A b \in Sides : b = "main" \/ b = "other"
    BY DEF Sides
  <2>2. \A l : Times(l) = 0 /\ HowOften(l, held["main"]) = 0
    BY <1>1, CountNone DEF Times
  <2> QED BY <1>1, <1>2, <1>3, <2>1, <2>2, Zenon
<1>5. exAt'["main"] = "end" /\ exAt'["other"] = "failed"
  BY <1>1 DEF Sides
<1>6. ProcType'
  BY <1>1, <1>2, <1>3 DEF ProcType
<1>7. NotStarted' /\ AnswerAfterQuestion' /\ Waited' /\ CopiesHeld'
  BY <1>1, <1>5 DEF NotStarted, AnswerAfterQuestion, Waited, CopiesHeld, Threads
<1>8. HowOften("running thread", <<text>>) = 0 /\ HowOften(ThreadMessage, <<text>>) = 0
  BY <1>2, CountOne
<1>9. 0 + 0 + 0 = 0 /\ 0 + 0 = 0
  OBVIOUS
<1>10. /\ Times("running thread")' = 0 /\ Times(ThreadMessage)' = 0
       /\ HowOften("running thread", held'["main"]) = 0
       /\ \A b \in Sides : HowOften(ThreadMessage, held'[b]) = 0
  BY <1>2, <1>4, <1>8, <1>9, CountNone, Zenon
<1>11. ran' = 0 /\ exAt'["other"] # "end"
  BY <1>1, <1>5
<1>12. RoundsCounted'
  BY <1>9, <1>10, <1>11, Zenon DEF RoundsCounted
<1> QED BY <1>6, <1>7, <1>12 DEF ProcOK

LEMMA Sums == \A e \in {0, 1} : (0 + e) + 1 + 0 = 1 + e /\ (e + 0) + 1 + 0 = e + 1
OBVIOUS

LEMMA ProcTestEnds == ASSUME ProcOK, NEW s \in Sides, TestEnds(s) PROVE ProcOK'
<1> DEFINE text == IF s = "main" THEN "glob=6" ELSE "glob=7"
           o == IF s = "main" THEN "other" ELSE "main"
<1>1. /\ exercise = "test" /\ exAt' = [exAt EXCEPT ![s] = "end"] /\ ShowLast(s, <<text>>)
      /\ UNCHANGED <<exercise, tty, pipe, ran>>
      /\ exAt[s] \in {"wait", "run"} /\ (s = "other" => exAt[s] = "run") /\ (s = "main" => exAt[s] = "wait")
  BY DEF TestEnds, End
<1>2. ProcType /\ Buffer(s) = s /\ "main" \in Sides /\ "other" \in Sides
  BY <1>1 DEF ProcOK, Buffer, Threads, Sides
<1>3. text \in Printed \ {ThreadMessage} /\ <<text>> \in Seq(Printed) /\ text # "before fork"
  BY PrintedLines, OneLine
<1> HIDE DEF text
<1>4. RoundsCounted'
  BY <1>1, <1>3, OtherExercises DEF Prints
<1>5. /\ screen' \in Seq(Printed) /\ held' \in [Sides -> Seq(Printed)] /\ held'[s] = <<>>
      /\ \A b \in Sides \ {s} : held'[b] = held[b]
      /\ \A l : Times(l)' = Times(l) + HowOften(l, held[s]) + HowOften(l, <<text>>)
  <2>1. /\ screen' \in Seq(Printed) /\ held' \in [Sides -> Seq(Printed)] /\ held'[Buffer(s)] = <<>>
        /\ \A b \in Sides \ {Buffer(s)} : held'[b] = held[b]
        /\ \A l : Times(l)' = Times(l) + HowOften(l, held[Buffer(s)]) + HowOften(l, <<text>>)
    BY <1>1, <1>2, <1>3, ShowedLast
  <2> QED BY <1>2, <2>1, Zenon
<1>6. ProcType'
  BY <1>1, <1>2, <1>5 DEF ProcType
<1>7. exAt["other"] # "none" /\ exAt'["other"] # "none"
  <2>1. exAt["other"] # "none"
    <3>1. CASE s = "main"
      BY <1>1, <3>1 DEF ProcOK, NotStarted
    <3>2. CASE s = "other"
      BY <1>1, <3>2
    <3> QED BY <3>1, <3>2 DEF Sides
  <2> QED BY <1>1, <1>2, <2>1 DEF ProcType
<1>8. NotStarted' /\ AnswerAfterQuestion' /\ Waited'
  BY <1>1, <1>7 DEF NotStarted, AnswerAfterQuestion, Waited
<1>9. /\ \A b \in Sides : held[b] = IF tty \/ exAt[b] \in {"end", "failed"} THEN <<>> ELSE <<"before fork">>
      /\ Times("before fork") = IF tty THEN 1 ELSE Ended("main") + Ended("other")
      /\ Times("glob=6") = Ended("main") /\ Times("glob=7") = Ended("other")
  BY <1>1, <1>7 DEF ProcOK, CopiesHeld
<1>10. exAt'[s] = "end" /\ \A b \in Sides \ {s} : exAt'[b] = exAt[b]
  BY <1>1, <1>2 DEF ProcType
<1>11. \A b \in Sides : held'[b] = IF tty' \/ exAt'[b] \in {"end", "failed"} THEN <<>> ELSE <<"before fork">>
  BY <1>1, <1>5, <1>9, <1>10
<1>12. Ended(s) = 0 /\ Ended(s)' = 1 /\ Ended(o)' = Ended(o) /\ Ended(o) \in {0, 1} /\ o \in Sides \ {s}
  BY <1>1, <1>10 DEF Ended, Sides
<1>13. /\ HowOften("before fork", <<text>>) = 0 /\ HowOften("glob=6", <<text>>) = (IF s = "main" THEN 1 ELSE 0)
       /\ HowOften("glob=7", <<text>>) = (IF s = "main" THEN 0 ELSE 1)
  BY CountOne DEF text
<1>14. /\ tty => held[s] = <<>>
       /\ ~tty => held[s] = <<"before fork">>
  BY <1>1, <1>9
<1>15. /\ HowOften("glob=6", held[s]) = 0 /\ HowOften("glob=7", held[s]) = 0
       /\ tty => HowOften("before fork", held[s]) = 0
       /\ ~tty => HowOften("before fork", held[s]) = 1
  BY <1>14, CountNone, CountOne
<1>16. /\ Ended("main") \in {0, 1} /\ Ended("other") \in {0, 1}
       /\ s = "main" => Ended("main") = 0 /\ Ended("main")' = 1 /\ Ended("other")' = Ended("other")
       /\ s = "other" => Ended("other") = 0 /\ Ended("other")' = 1 /\ Ended("main")' = Ended("main")
  BY <1>12 DEF Ended
<1>17. Times("glob=6")' = Ended("main")' /\ Times("glob=7")' = Ended("other")'
  <2>1. /\ Times("glob=6")' = Ended("main") + 0 + (IF s = "main" THEN 1 ELSE 0)
        /\ Times("glob=7")' = Ended("other") + 0 + (IF s = "main" THEN 0 ELSE 1)
    BY <1>5, <1>9, <1>13, <1>15, Zenon
  <2>2. s = "main" \/ s = "other"
    BY DEF Sides
  <2> QED BY ONLY <1>16, <2>1, <2>2
<1>18. Times("before fork")' = IF tty' THEN 1 ELSE Ended("main")' + Ended("other")'
  <2>1. CASE tty
    <3>1. Times("before fork")' = 1 + 0 + 0
      BY <1>5, <1>9, <1>13, <1>15, <2>1, Zenon
    <3>2. 1 + 0 + 0 = 1
      BY ONLY TRUE
    <3> QED BY <1>1, <2>1, <3>1, <3>2, Zenon
  <2>2. CASE ~tty
    <3>1. Times("before fork")' = (Ended("main") + Ended("other")) + 1 + 0
      BY <1>5, <1>9, <1>13, <1>15, <2>2, Zenon
    <3>2. s = "main" \/ s = "other"
      BY DEF Sides
    <3>3. Times("before fork")' = Ended("main")' + Ended("other")'
      <4>1. CASE s = "main"
        <5>1. /\ Ended("main") = 0 /\ Ended("main")' = 1 /\ Ended("other")' = Ended("other")
              /\ Ended("other") \in {0, 1}
          BY ONLY <1>16, <4>1
        <5> QED BY <3>1, <5>1, Sums, Zenon
      <4>2. CASE s = "other"
        <5>1. /\ Ended("other") = 0 /\ Ended("other")' = 1 /\ Ended("main")' = Ended("main")
              /\ Ended("main") \in {0, 1}
          BY ONLY <1>16, <4>2
        <5> QED BY <3>1, <5>1, Sums, Zenon
      <4> QED BY <3>2, <4>1, <4>2
    <3> QED BY <1>1, <2>2, <3>3, Zenon
  <2> QED BY <2>1, <2>2
<1>19. CopiesHeld'
  BY <1>11, <1>17, <1>18, Zenon DEF CopiesHeld
<1> QED BY <1>4, <1>6, <1>8, <1>19 DEF ProcOK

LEMMA ProcKilled == ASSUME ProcOK, NEW s \in Sides, Killed(s) PROVE ProcOK'
<1>1. /\ exAt[s] \in {"run", "wait", "sleep"} /\ exAt["other"] # "none"
      /\ exAt' = IF Threads THEN [t \in Sides |-> "killed"] ELSE [exAt EXCEPT ![s] = "killed"]
      /\ UNCHANGED <<exercise, tty, pipe, ran, held, screen>>
  BY DEF Killed
<1>2. ProcType /\ "main" \in Sides /\ "other" \in Sides
  BY DEF ProcOK, Sides
<1>3. /\ exAt'[s] = "killed"
      /\ Threads => \A b \in Sides : exAt'[b] = "killed"
      /\ ~Threads => \A b \in Sides \ {s} : exAt'[b] = exAt[b]
  BY <1>1, <1>2 DEF ProcType
<1>4. ProcType'
  BY <1>1, <1>2 DEF ProcType
<1>5. exAt'["other"] # "none"
  BY <1>1, <1>2, <1>3
<1>6. NotStarted' /\ Waited'
  BY <1>1, <1>2, <1>3, <1>5 DEF NotStarted, Waited, ProcOK
<1>7. AnswerAfterQuestion'
  <2> SUFFICES ASSUME exercise = "pip2", tty, pipe["main"] \/ exAt'["other"] = "end" \/ exAt'["main"] = "run"
               PROVE  Times("who are you?")' # 0
    BY <1>1 DEF AnswerAfterQuestion
  <2>1. pipe["main"] \/ exAt["other"] = "end" \/ exAt["main"] = "run"
    BY <1>2, <1>3 DEF Threads
  <2>2. Times("who are you?") # 0
    BY <1>1, <2>1 DEF ProcOK, AnswerAfterQuestion
  <2> QED BY <1>1, <2>2, Silent
<1>8. RoundsCounted'
  <2>1. Times(ThreadMessage) = 0
    BY <1>1, <1>2 DEF ProcOK, RoundsCounted, Sides
  <2>2. Threads => Times("running thread") + HowOften("running thread", held["main"]) = ran
    BY DEF ProcOK, RoundsCounted
  <2>3. ~(exercise = "tread2" /\ exAt'["other"] = "end")
    BY <1>2, <1>3 DEF Threads
  <2>4. /\ Times(ThreadMessage)' = 0 /\ Times("running thread")' = Times("running thread")
        /\ \A b \in Sides : HowOften(ThreadMessage, held'[b]) = 0
    BY <1>1, <2>1, Silent
  <2> QED BY <1>1, <2>2, <2>3, <2>4 DEF RoundsCounted, Threads
<1>9. CopiesHeld'
  <2> SUFFICES ASSUME exercise = "test" PROVE CopiesHeld'
    BY <1>1 DEF CopiesHeld
  <2>1. \A b \in Sides : /\ exAt'[b] = "end" <=> exAt[b] = "end"
                         /\ exAt'[b] = "failed" <=> exAt[b] = "failed"
    BY <1>1, <1>2, <1>3 DEF Threads
  <2>2. Ended("main")' = Ended("main") /\ Ended("other")' = Ended("other")
    BY <1>2, <2>1 DEF Ended
  <2>3. /\ \A b \in Sides : held[b] = IF tty \/ exAt[b] \in {"end", "failed"} THEN <<>> ELSE <<"before fork">>
        /\ Times("before fork") = IF tty THEN 1 ELSE Ended("main") + Ended("other")
        /\ Times("glob=6") = Ended("main") /\ Times("glob=7") = Ended("other")
    BY <1>1 DEF ProcOK, CopiesHeld
  <2>4. \A b \in Sides : held'[b] = IF tty' \/ exAt'[b] \in {"end", "failed"} THEN <<>> ELSE <<"before fork">>
    BY <1>1, <2>1, <2>3
  <2>5. /\ Times("before fork")' = IF tty' THEN 1 ELSE Ended("main")' + Ended("other")'
        /\ Times("glob=6")' = Ended("main")' /\ Times("glob=7")' = Ended("other")'
    BY <1>1, <2>2, <2>3, Silent, Zenon
  <2> QED BY <2>4, <2>5, Zenon DEF CopiesHeld
<1> QED BY <1>4, <1>6, <1>7, <1>8, <1>9 DEF ProcOK

(* The parent that has no child stays where it waits for one.               *)
LEMMA AloneStays == ProcOK /\ Alone /\ [ProcNext]_procVars => Alone'
<1> SUFFICES ASSUME ProcOK, Alone, [ProcNext]_procVars PROVE Alone'
  OBVIOUS
<1>1. ProcType /\ NotStarted /\ "main" \in Sides /\ "other" \in Sides
  BY DEF ProcOK, Sides
<1>2. CASE exercise # "pip2"
  <2>1. exercise' = exercise
    BY DEF ProcNext, Start, CreateFails, NoChild, ChildWrites, ParentReads, ParentAnswers, ParentLeaves,
           ChildReads, ThreadRuns, ThreadReturns, SleepOver, Join, ForkExChild, ForkExDone, ForkExParent,
           ForkExReturns, TestEnds, Killed, procVars
  <2> QED BY <1>2, <2>1 DEF Alone
<1>3. CASE exercise = "pip2"
  <2>1. CASE Start \/ CreateFails \/ NoChild
    BY <1>1, <2>1 DEF Start, CreateFails, NoChild, Alone, NotStarted, Threads, Sides
  <2>2. CASE ChildWrites \/ ChildReads
    BY <1>1, <2>2 DEF ChildWrites, ChildReads, End, Alone, ProcType
  <2>3. CASE ParentReads \/ ParentAnswers \/ ParentLeaves
    BY <1>1, <2>3 DEF ParentReads, ParentAnswers, ParentLeaves, End, Alone, ProcType
  <2>4. ASSUME NEW s \in Sides, Killed(s) PROVE Alone'
    BY <1>1, <1>3, <2>4 DEF Killed, Threads, Alone, ProcType, Sides
  <2>5. CASE UNCHANGED procVars
    BY <2>5 DEF procVars, Alone
  <2>6. ~(ThreadRuns \/ ThreadReturns \/ SleepOver \/ Join \/ ForkExChild \/ ForkExDone \/ ForkExParent)
        /\ ~ForkExReturns /\ ~\E s \in Sides : TestEnds(s)
    BY <1>3 DEF ThreadRuns, ThreadReturns, SleepOver, Join, ForkExChild, ForkExDone, ForkExParent,
                ForkExReturns, TestEnds, Threads
  <2> QED BY <2>1, <2>2, <2>3, <2>4, <2>5, <2>6 DEF ProcNext
<1> QED BY <1>2, <1>3

LEMMA ProcStep == ProcOK /\ [ProcNext]_procVars => ProcOK'
<1> SUFFICES ASSUME ProcOK, [ProcNext]_procVars PROVE ProcOK'
  OBVIOUS
<1>1. CASE UNCHANGED procVars
  BY <1>1 DEF procVars, ProcOK, ProcType, NotStarted, AnswerAfterQuestion, RoundsCounted, Waited,
              CopiesHeld, Times, Ended, Threads
<1>6. CASE CreateFails
  BY <1>6, ProcCreateFails
<1>2. CASE Start \/ NoChild \/ ChildWrites \/ ParentReads \/ ParentAnswers \/ ParentLeaves \/ ChildReads
  BY <1>2, ProcStart, ProcChildWrites, ProcPipe
<1>3. CASE ThreadRuns \/ ThreadReturns \/ SleepOver \/ Join
  BY <1>3, ProcThreadRuns, ProcThreadReturns, ProcThreadsEnd
<1>4. CASE ForkExChild \/ ForkExDone \/ ForkExParent \/ ForkExReturns
  BY <1>4, ProcForkEx
<1>5. CASE \E s \in Sides : TestEnds(s) \/ Killed(s)
  BY <1>5, ProcTestEnds, ProcKilled
<1> QED BY <1>1, <1>2, <1>3, <1>4, <1>5, <1>6 DEF ProcNext

(* The two sides of the exercises, for every number of rounds: a child is   *)
(* not answered by a killed parent, nor a parent by a child that it could   *)
(* not fork, main has all the rounds before the thread's message, the       *)
(* parent that waits ends last, and a line in the buffer is written by both *)
(* processes when there are two.                                            *)
THEOREM BothSides == ProcSpec => []TwoSides
<1>1. ProcInit => Alone
  BY DEF ProcInit, Alone, Sides
<1> QED BY <1>1, ProcInitOK, ProcStep, AloneStays, ProcOKSuffices, PTL DEF ProcSpec

-----------------------------------------------------------------------------
(* myls.c, scandir.c, Blackbox/myls.c and opendir.c                         *)

ListingSpec == LsInit /\ [][LsNext]_lsVars

(* What a permission string says of the mode it was made from.              *)
Says(perm, mode) ==
    /\ perm[1] = TypeChar(mode)
    /\ \A i \in 0 .. 8 :
          SaysAllowed(perm, i) <=> Bit(mode, i) \/ (i % 3 = 0 /\ Bit(mode, 9 + i \div 3))

LEMMA LetterSays == \A mode : \A i \in 0 .. 8 : Letter(mode, i) # "-" <=> Bit(mode, 8 - i)
<1> TAKE mode
<1> TAKE i \in 0 .. 8
<1>1. (i % 3) + 1 \in {1, 2, 3}
  OBVIOUS
<1>2. PermChar[(i % 3) + 1] # "-"
  BY <1>1 DEF PermChar
<1> QED BY <1>2 DEF Letter

LEMMA StringSays == \A mode : Says(AccessPerm(mode), mode)
<1> TAKE mode
<1> DEFINE p == AccessPerm(mode)
<1>1. p[1] = TypeChar(mode)
  BY DEF AccessPerm
<1>2. ASSUME NEW i \in {1, 2, 4, 5, 7, 8} PROVE SaysAllowed(p, i) <=> Bit(mode, i)
  <2>1. 10 - i \in 1 .. 10 \ {1, 4, 7, 10} /\ (10 - i) - 2 \in 0 .. 8 /\ 8 - ((10 - i) - 2) = i
    OBVIOUS
  <2>2. p[10 - i] = Letter(mode, (10 - i) - 2)
    BY <2>1 DEF AccessPerm
  <2> QED BY <2>1, <2>2, LetterSays DEF SaysAllowed
<1>3. SaysAllowed(p, 0) <=> Bit(mode, 0) \/ Bit(mode, 9)
  <2>1. p[10] = IF Bit(mode, 9) THEN "t" ELSE Letter(mode, 8)
    BY DEF AccessPerm
  <2>2. Letter(mode, 8) # "-" <=> Bit(mode, 0)
    BY LetterSays
  <2> QED BY <2>1, <2>2 DEF SaysAllowed
<1>4. SaysAllowed(p, 3) <=> Bit(mode, 3) \/ Bit(mode, 10)
  <2>1. p[7] = IF Bit(mode, 10) THEN "s" ELSE Letter(mode, 5)
    BY DEF AccessPerm
  <2>2. Letter(mode, 5) # "-" <=> Bit(mode, 3)
    BY LetterSays
  <2> QED BY <2>1, <2>2 DEF SaysAllowed
<1>5. SaysAllowed(p, 6) <=> Bit(mode, 6) \/ Bit(mode, 11)
  <2>1. p[4] = IF Bit(mode, 11) THEN "s" ELSE Letter(mode, 2)
    BY DEF AccessPerm
  <2>2. Letter(mode, 2) # "-" <=> Bit(mode, 6)
    BY LetterSays
  <2> QED BY <2>1, <2>2 DEF SaysAllowed
<1> HIDE DEF p
<1>6. ASSUME NEW i \in 0 .. 8
      PROVE  SaysAllowed(p, i) <=> Bit(mode, i) \/ (i % 3 = 0 /\ Bit(mode, 9 + i \div 3))
  <2>1. CASE i \in {1, 2, 4, 5, 7, 8}
    <3>1. i % 3 # 0
      BY <2>1
    <3> QED BY <1>2, <2>1, <3>1
  <2>2. CASE i = 0
    <3>1. i % 3 = 0 /\ 9 + i \div 3 = 9
      BY <2>2
    <3> QED BY <1>3, <2>2, <3>1
  <2>3. CASE i = 3
    <3>1. i % 3 = 0 /\ 9 + i \div 3 = 10
      BY <2>3
    <3> QED BY <1>4, <2>3, <3>1
  <2>4. CASE i = 6
    <3>1. i % 3 = 0 /\ 9 + i \div 3 = 11
      BY <2>4
    <3> QED BY <1>5, <2>4, <3>1
  <2> QED BY <2>1, <2>2, <2>3, <2>4
<1> QED BY <1>1, <1>6 DEF p, Says

(* myls.c's letter and statEx.c's word for the type.                        *)
Types == {1, 2, 4, 6, 8, 10, 12}

LEMMA TypesAgree ==
    \A m, k : Type(m) \in Types /\ Type(k) \in Types =>
        /\ FileType(m) = FileType(k) => TypeChar(m) = TypeChar(k)
        /\ TypeChar(m) = TypeChar(k) =>
              FileType(m) = FileType(k) \/ "socket" \in {FileType(m), FileType(k)}
<1>1. \A m :
            /\ Type(m) = 1 => FileType(m) = "FIFO/pipe" /\ TypeChar(m) = "p"
            /\ Type(m) = 2 => FileType(m) = "character device" /\ TypeChar(m) = "c"
            /\ Type(m) = 4 => FileType(m) = "directory" /\ TypeChar(m) = "d"
            /\ Type(m) = 6 => FileType(m) = "block device" /\ TypeChar(m) = "b"
            /\ Type(m) = 8 => FileType(m) = "regular file" /\ TypeChar(m) = "-"
            /\ Type(m) = 10 => FileType(m) = "symlink" /\ TypeChar(m) = "l"
            /\ Type(m) = 12 => FileType(m) = "socket" /\ TypeChar(m) = "-"
  BY DEF FileType, TypeChar
<1> TAKE m, k
<1> HAVE Type(m) \in Types /\ Type(k) \in Types
<1>2. FileType(m) = FileType(k) => TypeChar(m) = TypeChar(k)
  BY <1>1 DEF Types
<1>3. TypeChar(m) = TypeChar(k) =>
         FileType(m) = FileType(k) \/ "socket" \in {FileType(m), FileType(k)}
  BY <1>1 DEF Types
<1> QED BY <1>2, <1>3

(* Every mode lstat can have stored is one of a file or the directory's.    *)
AnyMode == Modes \cup {DirMode}

(* The lines there can be.                                                  *)
ShortLines == {<<e>> : e \in Entries}

LongLines == {<<e, AccessPerm(m)>> : e \in Entries, m \in AnyMode}

LEMMA LineFacts ==
    /\ \A e \in Entries : <<e>> \in ShortLines /\ <<e>>[1] = e
    /\ \A e \in Entries : \A m \in AnyMode :
          <<e, AccessPerm(m)>> \in LongLines /\ <<e, AccessPerm(m)>>[1] = e
          /\ <<e, AccessPerm(m)>>[2] = AccessPerm(m)
    /\ \A l \in ShortLines \cup LongLines : l[1] \in Entries
<1>1. \A e \in Entries : <<e>> \in ShortLines /\ <<e>>[1] = e
  BY DEF ShortLines
<1>2. \A e \in Entries : \A m \in AnyMode :
          <<e, AccessPerm(m)>> \in LongLines /\ <<e, AccessPerm(m)>>[1] = e
          /\ <<e, AccessPerm(m)>>[2] = AccessPerm(m)
  BY DEF LongLines
<1>3. \A l \in ShortLines \cup LongLines : l[1] \in Entries
  BY DEF ShortLines, LongLines
<1> QED BY <1>1, <1>2, <1>3

Listed == {shown[n][1] : n \in DOMAIN shown}

LsType ==
    /\ flag \in 0 .. 5 /\ lsAt \in {"stat", "opendir", "loop", "inner", "all", "end"}
    /\ entryMode \in [Entries -> AnyMode] /\ present \subseteq Entries /\ unread \subseteq Entries
    /\ shown \in Seq(ShortLines \cup LongLines)

(* Each program is where it can be, and prints nothing before it reads.     *)
LsPhase ==
    /\ lsAt = "stat" => flag = 0
    /\ lsAt \in {"stat", "opendir"} => shown = <<>>
    /\ lsAt \in {"opendir", "loop"} => flag \in 0 .. 3
    /\ lsAt = "inner" => flag \in {0, 2}
    /\ lsAt = "all" => flag \in {4, 5}
    /\ lsAt = "opendir" => statbuf = DirMode
    /\ lsAt = "end" => unread = {}

(* A mode that was stored for an entry, the directory or a file before it.  *)
Stored(e, m) ==
    \/ m = entryMode[e]
    \/ e \notin present /\ (m = DirMode \/ \E f \in Entries : f < e /\ m = entryMode[f])

LongRight ==
    flag \in {1, 3} =>
        /\ lsAt # "stat" => statbuf = DirMode
              \/ \E f \in Entries : statbuf = entryMode[f] /\ \A e \in unread : f < e
        /\ \A n \in DOMAIN shown :
              \E m \in AnyMode : shown[n][2] = AccessPerm(m) /\ Stored(shown[n][1], m)

(* What is there is still to be read or has been shown.                     *)
NothingMissed ==
    /\ flag \in {1, 3} /\ lsAt \in {"loop", "end"} => present \subseteq unread \cup Listed
    /\ flag \in {4, 5} => present \subseteq unread \cup Listed

RestFrom(k) == {e \in Entries : k < e}

(* The short form, while nothing is removed: all but the first are read one *)
(* after the other.                                                         *)
OnlyFirstMissed ==
    flag \in {0, 2} /\ present = Entries =>
        /\ \A n \in DOMAIN shown : shown[n][1] = n + 1
        /\ lsAt = "loop" => \/ unread = Entries /\ shown = <<>>
                            \/ unread = {} /\ NEntries > 0 /\ Len(shown) = NEntries - 1
        /\ lsAt = "inner" => unread = RestFrom(Len(shown) + 1) /\ Len(shown) + 1 <= NEntries
        /\ lsAt = "end" /\ NEntries > 0 => Len(shown) = NEntries - 1

ByName ==
    flag = 4 =>
        /\ \A n \in DOMAIN shown : \A e \in unread : Alphabetical[shown[n][1]] < Alphabetical[e]
        /\ \A n \in 1 .. Len(shown) - 1 : Alphabetical[shown[n][1]] < Alphabetical[shown[n + 1][1]]

LsOK == LsType /\ LsPhase /\ LongRight /\ NothingMissed /\ OnlyFirstMissed /\ ByName

LEMMA EntryFacts ==
    /\ NEntries \in Nat
    /\ Alphabetical \in [Entries -> Nat]
    /\ \A e, f \in Entries : Alphabetical[e] = Alphabetical[f] => e = f
BY Zenon, ListingAssumption DEF Entries

LEMMA EarlierEntries == \A e \in Entries : \A f \in Entries : f < e => f \in 1 .. e - 1
<1>1. NEntries \in Nat
  BY EntryFacts
<1> QED BY ONLY <1>1 DEF Entries

LEMMA LsOKSuffices == LsOK => ListingIsRight
<1> SUFFICES ASSUME LsOK PROVE ListingIsRight
  OBVIOUS
<1>1. LsType /\ DOMAIN shown = 1 .. Len(shown) /\ Len(shown) \in Nat
  BY DEF LsOK, LsType
<1>2. ASSUME NEW n \in DOMAIN shown, flag \in {1, 3}
      PROVE  LET e == shown[n][1]
                 perm == shown[n][2]
                 own(mode) ==
                     /\ perm[1] = TypeChar(mode)
                     /\ \A i \in 0 .. 8 :
                           SaysAllowed(perm, i) <=>
                               Bit(mode, i) \/ (i % 3 = 0 /\ Bit(mode, 9 + i \div 3))
             IN  \/ own(entryMode[e])
                 \/ e \notin present /\ \E m \in {DirMode} \cup {entryMode[f] : f \in 1 .. e - 1} : own(m)
  <2> DEFINE e == shown[n][1]
             p == shown[n][2]
  <2>1. PICK m \in AnyMode : p = AccessPerm(m) /\ Stored(e, m)
    BY <1>2 DEF LsOK, LongRight
  <2>2. Says(p, m)
    BY <2>1, StringSays
  <2>3. \A k : Says(p, k) <=>
           /\ p[1] = TypeChar(k)
           /\ \A i \in 0 .. 8 : SaysAllowed(p, i) <=> Bit(k, i) \/ (i % 3 = 0 /\ Bit(k, 9 + i \div 3))
    BY DEF Says
  <2>4. e \in Entries
    BY <1>1, LineFacts DEF LsType
  <2> HIDE DEF e, p
  <2>5. m = entryMode[e] \/ (e \notin present /\ m \in {DirMode} \cup {entryMode[f] : f \in 1 .. e - 1})
    <3>1. \A f \in Entries : f < e => f \in 1 .. e - 1
      BY ONLY <2>4, EarlierEntries
    <3> QED BY <2>1, <3>1 DEF Stored
  <2>6. \/ Says(p, entryMode[e])
        \/ e \notin present /\ \E k \in {DirMode} \cup {entryMode[f] : f \in 1 .. e - 1} : Says(p, k)
    BY <2>2, <2>5
  <2> QED BY <2>3, <2>6 DEF e, p
<1>3. lsAt = "end" /\ flag \in {1, 3} => present \subseteq Listed
  BY DEF LsOK, NothingMissed, LsPhase
<1>4. lsAt = "end" /\ flag \in {4, 5} => present \subseteq Listed
  BY DEF LsOK, NothingMissed, LsPhase
<1>5. ASSUME lsAt = "end", flag \in {0, 2}, present = Entries, NEntries > 0
      PROVE  [n \in DOMAIN shown |-> shown[n][1]] = [n \in 1 .. NEntries - 1 |-> n + 1]
  <2>1. Len(shown) = NEntries - 1 /\ \A n \in DOMAIN shown : shown[n][1] = n + 1
    BY <1>5 DEF LsOK, OnlyFirstMissed
  <2>2. DOMAIN shown = 1 .. NEntries - 1
    BY <1>1, <2>1
  <2> QED BY <2>1, <2>2
<1>6. flag = 4 => \A n \in 1 .. Len(shown) - 1 :
          Alphabetical[shown[n][1]] < Alphabetical[shown[n + 1][1]]
  BY DEF LsOK, ByName
<1>7. \A e \in Entries, f \in Entries :
          LET m == entryMode[e]
              k == entryMode[f]
          IN  /\ FileType(m) = FileType(k) => TypeChar(m) = TypeChar(k)
              /\ TypeChar(m) = TypeChar(k) =>
                    FileType(m) = FileType(k) \/ "socket" \in {FileType(m), FileType(k)}
  <2>1. \A e \in Entries : Type(entryMode[e]) \in Types
    BY <1>1, TypeAssumption DEF LsType, AnyMode, Types
  <2> QED BY <2>1, TypesAgree
<1> HIDE DEF Listed
<1> QED BY <1>2, <1>3, <1>4, <1>5, <1>6, <1>7 DEF ListingIsRight, Listed

LEMMA LsInitOK == LsInit => LsOK
<1> SUFFICES ASSUME LsInit PROVE LsOK
  OBVIOUS
<1>1. LsType /\ LsPhase
  BY DEF LsInit, LsType, LsPhase, AnyMode
<1>2. DOMAIN shown = {}
  BY DEF LsInit
<1>3. LongRight /\ NothingMissed /\ OnlyFirstMissed /\ ByName
  BY <1>2 DEF LsInit, LongRight, NothingMissed, OnlyFirstMissed, ByName
<1> QED BY <1>1, <1>3 DEF LsOK

LEMMA LsStat == LsOK /\ (Stat \/ OpenDir) => LsOK'
<1>1. ASSUME LsOK, Stat PROVE LsOK'
  <2>1. LsType' /\ LsPhase'
    BY <1>1 DEF Stat, LsOK, LsType, LsPhase, AnyMode
  <2>2. shown' = <<>> /\ DOMAIN shown' = {} /\ statbuf' = DirMode /\ lsAt' = "opendir" /\ flag' \in 0 .. 3
    BY <1>1 DEF Stat, LsOK, LsPhase
  <2>3. LongRight' /\ NothingMissed' /\ OnlyFirstMissed' /\ ByName'
    BY <2>2 DEF LongRight, NothingMissed, OnlyFirstMissed, ByName
  <2> QED BY <2>1, <2>3 DEF LsOK
<1>2. ASSUME LsOK, OpenDir PROVE LsOK'
  <2>1. LsType' /\ LsPhase'
    BY <1>2 DEF OpenDir, LsOK, LsType, LsPhase
  <2>2. /\ shown' = <<>> /\ DOMAIN shown' = {} /\ statbuf' = statbuf /\ lsAt' = "loop" /\ flag' \in 0 .. 3
        /\ flag' = flag /\ unread' = present /\ present' = present /\ entryMode' = entryMode
    BY <1>2 DEF OpenDir, LsOK, LsPhase
  <2>3. LongRight'
    <3>1. statbuf = DirMode
      BY <1>2 DEF OpenDir, LsOK, LsPhase
    <3> QED BY <2>2, <3>1 DEF LongRight
  <2>4. NothingMissed' /\ OnlyFirstMissed' /\ ByName'
    BY <2>2 DEF NothingMissed, OnlyFirstMissed, ByName
  <2> QED BY <2>1, <2>3, <2>4 DEF LsOK
<1> QED BY <1>1, <1>2


(* One more line.                                                           *)
LEMMA OneMore ==
    \A s \in Seq(ShortLines \cup LongLines) : \A l \in ShortLines \cup LongLines :
        /\ Append(s, l) \in Seq(ShortLines \cup LongLines)
        /\ Len(s) \in Nat /\ Len(Append(s, l)) = Len(s) + 1
        /\ DOMAIN s = 1 .. Len(s) /\ DOMAIN Append(s, l) = 1 .. Len(s) + 1
        /\ \A n \in 1 .. Len(s) : Append(s, l)[n] = s[n]
        /\ Append(s, l)[Len(s) + 1] = l
<1> DEFINE T == ShortLines \cup LongLines
<1> HIDE DEF T
<1>1. ASSUME NEW s \in Seq(T), NEW l \in T
      PROVE  /\ Append(s, l) \in Seq(T)
             /\ Len(s) \in Nat /\ Len(Append(s, l)) = Len(s) + 1
             /\ DOMAIN s = 1 .. Len(s) /\ DOMAIN Append(s, l) = 1 .. Len(s) + 1
             /\ \A n \in 1 .. Len(s) : Append(s, l)[n] = s[n]
             /\ Append(s, l)[Len(s) + 1] = l
  BY AppendProperties
<1> QED BY <1>1 DEF T

(* What the next entry's line changes, in whichever form.                   *)
LEMMA AfterOne ==
    ASSUME LsOK, NEW e \in Entries, IsNext(e), unread' = unread \ {e},
           NEW l \in ShortLines \cup LongLines, l[1] = e, shown' = Append(shown, l),
           UNCHANGED <<flag, lsAt, entryMode, present>>, lsAt \in {"loop", "inner", "all"}
    PROVE  /\ LsType' /\ LsPhase'
           /\ DOMAIN shown = 1 .. Len(shown) /\ Len(shown) \in Nat
           /\ DOMAIN shown' = 1 .. Len(shown) + 1 /\ Len(shown') = Len(shown) + 1
           /\ \A n \in 1 .. Len(shown) : shown'[n] = shown[n]
           /\ shown'[Len(shown) + 1] = l
           /\ Listed' = Listed \cup {e}
<1>1. LsType /\ LsPhase /\ shown \in Seq(ShortLines \cup LongLines)
  BY DEF LsOK, LsType
<1>2. /\ shown' \in Seq(ShortLines \cup LongLines)
      /\ DOMAIN shown = 1 .. Len(shown) /\ Len(shown) \in Nat
      /\ DOMAIN shown' = 1 .. Len(shown) + 1 /\ Len(shown') = Len(shown) + 1
      /\ \A n \in 1 .. Len(shown) : shown'[n] = shown[n]
      /\ shown'[Len(shown) + 1] = l
  <2> HIDE DEF ShortLines, LongLines
  <2> QED BY <1>1, OneMore
<1>3. LsType'
  BY <1>1, <1>2 DEF LsType
<1>4. LsPhase'
  BY <1>1 DEF LsPhase
<1>5. Listed' = Listed \cup {e}
  <2>1. 1 .. Len(shown) + 1 = (1 .. Len(shown)) \cup {Len(shown) + 1}
    BY <1>2
  <2> QED BY <1>2, <2>1 DEF Listed
<1> QED BY <1>2, <1>3, <1>4, <1>5

LEMMA LsShowLong == LsOK /\ ShowLong => LsOK'
<1> SUFFICES ASSUME LsOK, ShowLong PROVE LsOK'
  OBVIOUS
<1>1. PICK e \in Entries :
         IsNext(e) /\ unread' = unread \ {e} /\ statbuf' = Statbuf(e)
         /\ shown' = Append(shown, <<e, AccessPerm(statbuf')>>)
  BY DEF ShowLong
<1>2. lsAt = "loop" /\ flag \in {1, 3} /\ UNCHANGED <<flag, lsAt, entryMode, present>>
  BY DEF ShowLong
<1>3. LsType /\ entryMode \in [Entries -> AnyMode] /\ unread \subseteq Entries /\ e \in unread
  BY <1>1 DEF LsOK, LsType, IsNext
<1>4. statbuf = DirMode \/ \E f \in Entries : statbuf = entryMode[f] /\ \A x \in unread : f < x
  BY <1>2 DEF LsOK, LongRight
<1>5. \A x \in unread' : e < x
  <2>1. \A x \in unread : e <= x /\ x \in Nat /\ e \in Nat
    BY <1>1, <1>2, <1>3, EntryFacts DEF IsNext, Place, Entries
  <2> QED BY <1>1, <2>1
<1>6. statbuf' \in AnyMode /\ Stored(e, statbuf')
  <2>1. CASE e \in present
    BY <1>1, <1>3, <2>1 DEF Statbuf, Stored
  <2>2. CASE e \notin present
    <3>1. statbuf' = statbuf
      BY <1>1, <2>2 DEF Statbuf
    <3> QED BY <1>3, <1>4, <2>2, <3>1 DEF Stored, AnyMode
  <2> QED BY <2>1, <2>2
<1>7. statbuf' = DirMode \/ \E f \in Entries : statbuf' = entryMode'[f] /\ \A x \in unread' : f < x
  <2>1. CASE e \in present
    BY <1>1, <1>2, <1>5, <2>1 DEF Statbuf
  <2>2. CASE e \notin present
    BY <1>1, <1>2, <1>4, <2>2 DEF Statbuf
  <2> QED BY <2>1, <2>2
<1> DEFINE l == <<e, AccessPerm(statbuf')>>
<1>8. l \in LongLines /\ l[1] = e /\ l[2] = AccessPerm(statbuf')
  BY <1>6, LineFacts
<1> HIDE DEF l
<1>9. /\ LsType' /\ LsPhase'
      /\ DOMAIN shown = 1 .. Len(shown) /\ Len(shown) \in Nat
      /\ DOMAIN shown' = 1 .. Len(shown) + 1 /\ Len(shown') = Len(shown) + 1
      /\ \A n \in 1 .. Len(shown) : shown'[n] = shown[n]
      /\ shown'[Len(shown) + 1] = l
      /\ Listed' = Listed \cup {e}
  <2>1. shown' = Append(shown, l) /\ l \in ShortLines \cup LongLines
    BY <1>1, <1>8 DEF l
  <2> QED BY <1>1, <1>2, <1>8, <2>1, AfterOne
<1>10. LongRight'
  <2>1. \A n \in DOMAIN shown' :
           \E m \in AnyMode : shown'[n][2] = AccessPerm(m) /\ Stored(shown'[n][1], m)
    <3>2. \A n \in DOMAIN shown :
             \E m \in AnyMode : shown[n][2] = AccessPerm(m) /\ Stored(shown[n][1], m)
      BY <1>2 DEF LsOK, LongRight
    <3>3. \A n \in DOMAIN shown' : n \in DOMAIN shown \/ n = Len(shown) + 1
      BY <1>9
    <3> TAKE n \in DOMAIN shown'
    <3>4. CASE n \in DOMAIN shown
      BY <1>9, <3>2, <3>4
    <3>5. CASE n = Len(shown) + 1
      BY <1>6, <1>8, <1>9, <3>5
    <3> QED BY <3>3, <3>4, <3>5
  <2> QED BY <1>2, <1>7, <2>1 DEF LongRight, Stored
<1>11. NothingMissed' /\ OnlyFirstMissed' /\ ByName'
  <2>1. present \subseteq unread \cup Listed
    BY <1>2 DEF LsOK, NothingMissed
  <2>2. present' \subseteq unread' \cup Listed'
    BY <1>1, <1>2, <1>9, <2>1
  <2> HIDE DEF Listed
  <2> QED BY <1>2, <2>2 DEF NothingMissed, OnlyFirstMissed, ByName
<1> QED BY <1>9, <1>10, <1>11 DEF LsOK

LEMMA LsSkipFirst == LsOK /\ SkipFirst => LsOK'
<1> SUFFICES ASSUME LsOK, SkipFirst PROVE LsOK'
  OBVIOUS
<1>1. PICK e \in Entries : IsNext(e) /\ unread' = unread \ {e}
  BY DEF SkipFirst
<1>2. lsAt = "loop" /\ flag \in {0, 2} /\ lsAt' = "inner" /\ UNCHANGED <<flag, entryMode, present, statbuf, shown>>
  BY DEF SkipFirst
<1>3. LsType /\ LsPhase
  BY DEF LsOK
<1>4. LsType' /\ LsPhase'
  BY <1>1, <1>2, <1>3 DEF LsType, LsPhase
<1>5. LongRight' /\ NothingMissed' /\ ByName'
  BY <1>2 DEF LongRight, NothingMissed, ByName
<1>6. OnlyFirstMissed'
  <2>1. SUFFICES ASSUME present = Entries
                 PROVE  /\ \A n \in DOMAIN shown : shown[n][1] = n + 1
                        /\ unread' = RestFrom(Len(shown) + 1) /\ Len(shown) + 1 <= NEntries
    BY <1>2 DEF OnlyFirstMissed, RestFrom
  <2>2. /\ \A n \in DOMAIN shown : shown[n][1] = n + 1
        /\ unread = Entries /\ shown = <<>>
    BY <1>1, <1>2, <2>1 DEF LsOK, OnlyFirstMissed, IsNext
  <2>3. e = 1 /\ NEntries >= 1
    <3>1. 1 \in Entries /\ NEntries >= 1 /\ e >= 1
      BY EntryFacts DEF Entries
    <3>2. e <= 1
      BY <1>1, <1>2, <2>2, <3>1 DEF IsNext, Place
    <3> QED BY <3>1, <3>2 DEF Entries
  <2>4. unread' = RestFrom(1)
    BY <1>1, <2>2, <2>3 DEF RestFrom, Entries
  <2>5. Len(shown) = 0
    BY <2>2
  <2> QED BY <2>2, <2>3, <2>4, <2>5, EntryFacts
<1> QED BY <1>4, <1>5, <1>6 DEF LsOK

LEMMA LsShowShort == LsOK /\ ShowShort => LsOK'
<1> SUFFICES ASSUME LsOK, ShowShort PROVE LsOK'
  OBVIOUS
<1>1. PICK e \in Entries : IsNext(e) /\ unread' = unread \ {e} /\ shown' = Append(shown, <<e>>)
  BY DEF ShowShort, ShowNext
<1>2. lsAt = "inner" /\ UNCHANGED <<flag, lsAt, entryMode, present, statbuf>>
  BY DEF ShowShort
<1>3. flag \in {0, 2}
  BY <1>2 DEF LsOK, LsPhase
<1> DEFINE l == <<e>>
<1>4. l \in ShortLines \cup LongLines /\ l[1] = e
  BY LineFacts
<1>5. shown' = Append(shown, l)
  BY <1>1
<1> HIDE DEF l
<1>6. /\ LsType' /\ LsPhase'
      /\ DOMAIN shown = 1 .. Len(shown) /\ Len(shown) \in Nat
      /\ DOMAIN shown' = 1 .. Len(shown) + 1 /\ Len(shown') = Len(shown) + 1
      /\ \A n \in 1 .. Len(shown) : shown'[n] = shown[n]
      /\ shown'[Len(shown) + 1] = l
  BY <1>1, <1>2, <1>4, <1>5, AfterOne
<1>7. LongRight' /\ NothingMissed' /\ ByName'
  BY <1>2, <1>3 DEF LongRight, NothingMissed, ByName
<1>8. OnlyFirstMissed'
  <2>1. SUFFICES ASSUME present = Entries
                 PROVE  /\ \A n \in DOMAIN shown' : shown'[n][1] = n + 1
                        /\ unread' = RestFrom(Len(shown') + 1) /\ Len(shown') + 1 <= NEntries
    BY <1>2 DEF OnlyFirstMissed, RestFrom
  <2> DEFINE k == Len(shown)
  <2>2. /\ \A n \in DOMAIN shown : shown[n][1] = n + 1
        /\ unread = RestFrom(k + 1) /\ k + 1 <= NEntries
    BY <1>2, <1>3, <2>1 DEF LsOK, OnlyFirstMissed
  <2>3. k \in Nat /\ e \in Nat /\ NEntries \in Nat /\ e <= NEntries /\ k + 1 < e
    BY <1>1, <1>6, <2>2, EntryFacts DEF IsNext, RestFrom, Entries
  <2>4. e = k + 2
    <3>1. k + 2 \in RestFrom(k + 1)
      BY <2>3 DEF RestFrom, Entries
    <3>2. e <= k + 2
      BY <1>1, <1>3, <2>2, <3>1 DEF IsNext, Place
    <3> QED BY <2>3, <3>2
  <2>5. unread' = RestFrom(k + 2)
    BY <1>1, <2>2, <2>3, <2>4 DEF RestFrom, Entries
  <2>6. \A n \in DOMAIN shown' : n \in DOMAIN shown \/ n = k + 1
    BY <1>6
  <2>7. Len(shown') + 1 = k + 2 /\ k + 2 <= NEntries
    BY <1>6, <2>3
  <2>8. \A n \in DOMAIN shown' : shown'[n][1] = n + 1
    BY <1>4, <1>6, <2>2, <2>3, <2>4, <2>6
  <2> QED BY <2>5, <2>7, <2>8
<1> QED BY <1>6, <1>7, <1>8 DEF LsOK

LEMMA LsOpen == LsOK /\ (ScanDir \/ OpenHere) => LsOK'
<1> SUFFICES ASSUME LsOK, ScanDir \/ OpenHere PROVE LsOK'
  OBVIOUS
<1>1. LsType /\ lsAt = "stat" /\ shown = <<>>
  BY DEF LsOK, LsPhase, ScanDir, OpenHere
<1>2. /\ flag' \in {4, 5} /\ lsAt' = "all" /\ shown' = shown /\ unread' = present'
      /\ DOMAIN shown' = {} /\ Len(shown') = 0
  BY <1>1 DEF ScanDir, OpenHere
<1>3. LsType'
  <2>1. CASE ScanDir
    BY <1>1, <2>1 DEF LsType, ScanDir
  <2>2. CASE OpenHere
    BY <1>1, <2>2 DEF LsType, OpenHere, Made, AnyMode
  <2> QED BY <2>1, <2>2
<1>4. LsPhase'
  BY <1>1, <1>2 DEF LsPhase
<1>5. LongRight' /\ NothingMissed' /\ OnlyFirstMissed' /\ ByName'
  BY <1>2 DEF LongRight, NothingMissed, OnlyFirstMissed, ByName
<1> QED BY <1>3, <1>4, <1>5 DEF LsOK

LEMMA LsShowAll == LsOK /\ ShowAll => LsOK'
<1> SUFFICES ASSUME LsOK, ShowAll PROVE LsOK'
  OBVIOUS
<1>1. PICK e \in Entries : IsNext(e) /\ unread' = unread \ {e} /\ shown' = Append(shown, <<e>>)
  BY DEF ShowAll, ShowNext
<1>2. lsAt = "all" /\ UNCHANGED <<flag, lsAt, entryMode, present, statbuf>>
  BY DEF ShowAll
<1>3. flag \in {4, 5}
  BY <1>2 DEF LsOK, LsPhase
<1> DEFINE l == <<e>>
<1>4. l \in ShortLines \cup LongLines /\ l[1] = e
  BY LineFacts
<1>5. shown' = Append(shown, l)
  BY <1>1
<1> HIDE DEF l
<1>6. /\ LsType' /\ LsPhase'
      /\ DOMAIN shown = 1 .. Len(shown) /\ Len(shown) \in Nat
      /\ DOMAIN shown' = 1 .. Len(shown) + 1 /\ Len(shown') = Len(shown) + 1
      /\ \A n \in 1 .. Len(shown) : shown'[n] = shown[n]
      /\ shown'[Len(shown) + 1] = l
      /\ Listed' = Listed \cup {e}
  BY <1>1, <1>2, <1>4, <1>5, AfterOne
<1>7. LongRight' /\ OnlyFirstMissed'
  BY <1>2, <1>3 DEF LongRight, OnlyFirstMissed
<1>8. NothingMissed'
  <2>1. present \subseteq unread \cup Listed
    BY <1>3 DEF LsOK, NothingMissed
  <2>2. present' \subseteq unread' \cup Listed'
    BY <1>1, <1>2, <1>6, <2>1
  <2> HIDE DEF Listed
  <2> QED BY <1>2, <2>2 DEF NothingMissed
<1>9. ByName'
  <2>1. SUFFICES ASSUME flag = 4
                 PROVE  /\ \A n \in DOMAIN shown' : \A x \in unread' :
                              Alphabetical[shown'[n][1]] < Alphabetical[x]
                        /\ \A n \in 1 .. Len(shown') - 1 :
                              Alphabetical[shown'[n][1]] < Alphabetical[shown'[n + 1][1]]
    BY <1>2 DEF ByName
  <2> DEFINE k == Len(shown)
  <2>2. /\ \A n \in DOMAIN shown : \A x \in unread : Alphabetical[shown[n][1]] < Alphabetical[x]
        /\ \A n \in 1 .. k - 1 : Alphabetical[shown[n][1]] < Alphabetical[shown[n + 1][1]]
    BY <2>1 DEF LsOK, ByName
  <2>3. e \in unread /\ unread \subseteq Entries
    BY <1>1 DEF IsNext, LsOK, LsType
  <2>4. \A x \in unread' : Alphabetical[e] < Alphabetical[x]
    <3>1. \A x \in unread : Alphabetical[e] <= Alphabetical[x]
      BY <1>1, <2>1 DEF IsNext, Place
    <3>2. \A x \in unread : Alphabetical[x] \in Nat /\ (Alphabetical[x] = Alphabetical[e] => x = e)
      BY <2>3, EntryFacts DEF Entries
    <3> QED BY <1>1, <2>3, <3>1, <3>2
  <2>5. k \in Nat /\ shown'[k + 1][1] = e
    BY <1>4, <1>6
  <2>6. \A n \in DOMAIN shown' : n \in DOMAIN shown \/ n = k + 1
    BY <1>6
  <2>7. \A n \in DOMAIN shown' : \A x \in unread' :
           Alphabetical[shown'[n][1]] < Alphabetical[x]
    <3> TAKE n \in DOMAIN shown'
    <3>1. CASE n \in DOMAIN shown
      BY <1>1, <1>6, <2>2, <3>1
    <3>2. CASE n = k + 1
      BY <2>4, <2>5, <3>2
    <3> QED BY <2>6, <3>1, <3>2
  <2>8. \A n \in 1 .. Len(shown') - 1 :
           Alphabetical[shown'[n][1]] < Alphabetical[shown'[n + 1][1]]
    <3> TAKE n \in 1 .. Len(shown') - 1
    <3>1. n \in 1 .. k
      BY <1>6, <2>5
    <3>2. CASE n \in 1 .. k - 1
      <4>1. n + 1 \in 1 .. k
        BY <2>5, <3>2
      <4> QED BY <1>6, <2>2, <3>1, <3>2, <4>1
    <3>3. CASE n = k
      <4>1. n \in DOMAIN shown /\ shown'[n] = shown[n]
        BY <1>6, <3>1
      <4> QED BY <2>2, <2>3, <2>5, <3>3, <4>1
    <3> QED BY <2>5, <3>1, <3>2, <3>3
  <2> QED BY <2>7, <2>8
<1> QED BY <1>6, <1>7, <1>8, <1>9 DEF LsOK

LEMMA LsNoMore == LsOK /\ NoMore => LsOK'
<1> SUFFICES ASSUME LsOK, NoMore PROVE LsOK'
  OBVIOUS
<1>1. /\ lsAt \in {"loop", "inner", "all"} /\ unread = {}
      /\ lsAt' = IF lsAt = "inner" THEN "loop" ELSE "end"
      /\ UNCHANGED <<flag, entryMode, present, unread, statbuf, shown>>
  BY DEF NoMore
<1>2. LsType /\ LsPhase
  BY DEF LsOK
<1>3. LsType' /\ LsPhase'
  BY <1>1, <1>2 DEF LsType, LsPhase
<1>4. LongRight'
  BY <1>1 DEF LsOK, LongRight, Stored
<1>5. NothingMissed'
  <2>1. Listed' = Listed
    BY <1>1 DEF Listed
  <2> HIDE DEF Listed
  <2> QED BY <1>1, <1>2, <2>1 DEF LsOK, NothingMissed, LsPhase
<1>6. ByName'
  BY <1>1 DEF LsOK, ByName
<1>7. OnlyFirstMissed'
  <2>1. SUFFICES ASSUME flag \in {0, 2}, present = Entries
                 PROVE  /\ \A n \in DOMAIN shown : shown[n][1] = n + 1
                        /\ lsAt' = "loop" => NEntries > 0 /\ Len(shown) = NEntries - 1
                        /\ lsAt' = "end" /\ NEntries > 0 => Len(shown) = NEntries - 1
    BY <1>1 DEF OnlyFirstMissed
  <2>2. \A n \in DOMAIN shown : shown[n][1] = n + 1
    BY <2>1 DEF LsOK, OnlyFirstMissed
  <2>3. Len(shown) \in Nat /\ NEntries \in Nat
    BY <1>2, EntryFacts DEF LsType
  <2>4. CASE lsAt = "inner"
    <3>1. RestFrom(Len(shown) + 1) = {} /\ Len(shown) + 1 <= NEntries
      BY <1>1, <2>1, <2>4 DEF LsOK, OnlyFirstMissed
    <3>2. NEntries \notin RestFrom(Len(shown) + 1)
      BY <3>1
    <3>3. ~(Len(shown) + 1 < NEntries)
      BY <2>3, <3>1, <3>2 DEF RestFrom, Entries
    <3>4. NEntries > 0 /\ Len(shown) = NEntries - 1
      BY <2>3, <3>1, <3>3
    <3> QED BY <1>1, <2>2, <2>4, <3>4
  <2>5. CASE lsAt = "loop"
    <3>1. NEntries > 0 => 1 \in Entries
      BY <2>3 DEF Entries
    <3>2. NEntries > 0 => Len(shown) = NEntries - 1
      BY <1>1, <2>1, <2>5, <3>1 DEF LsOK, OnlyFirstMissed
    <3> QED BY <1>1, <2>2, <2>5, <3>2
  <2>6. CASE lsAt = "all"
    BY <1>2, <2>1, <2>6 DEF LsPhase
  <2> QED BY <1>1, <2>4, <2>5, <2>6
<1> QED BY <1>3, <1>4, <1>5, <1>6, <1>7 DEF LsOK

LEMMA LsUnlink == LsOK /\ Unlink => LsOK'
<1> SUFFICES ASSUME LsOK, Unlink PROVE LsOK'
  OBVIOUS
<1>1. PICK e \in present : present' = present \ {e}
  BY DEF Unlink
<1>2. UNCHANGED <<flag, lsAt, entryMode, unread, statbuf, shown>> /\ present \subseteq Entries
  BY DEF Unlink, LsOK, LsType
<1>3. LsType' /\ LsPhase'
  BY <1>1, <1>2 DEF LsOK, LsType, LsPhase
<1>4. LongRight'
  <2>1. \A x, m : Stored(x, m) => Stored(x, m)'
    BY <1>1, <1>2 DEF Stored
  <2> QED BY <1>2, <2>1 DEF LsOK, LongRight
<1>5. NothingMissed' /\ ByName'
  BY <1>1, <1>2 DEF LsOK, NothingMissed, ByName, Listed
<1>6. OnlyFirstMissed'
  <2>1. present' # Entries
    BY <1>1, <1>2
  <2> QED BY <2>1 DEF OnlyFirstMissed
<1> QED BY <1>3, <1>4, <1>5, <1>6 DEF LsOK

LEMMA LsStutter == LsOK /\ UNCHANGED lsVars => LsOK'
<1> SUFFICES ASSUME LsOK, UNCHANGED lsVars PROVE LsOK'
  OBVIOUS
<1>1. LsType' /\ LsPhase' /\ LongRight'
  BY DEF lsVars, LsOK, LsType, LsPhase, LongRight, Stored
<1>2. NothingMissed' /\ OnlyFirstMissed' /\ ByName'
  BY DEF lsVars, LsOK, NothingMissed, Listed, OnlyFirstMissed, RestFrom, ByName
<1> QED BY <1>1, <1>2 DEF LsOK

(* The listings' outputs are right, whatever is removed while they run:     *)
(* the order of the steps of myls.c, of the programs with scandir and of    *)
(* opendir.c is free against the removals.                                  *)
THEOREM ListingRight == ListingSpec => []ListingIsRight
<1>1. LsOK /\ [LsNext]_lsVars => LsOK'
  BY LsStat, LsShowLong, LsSkipFirst, LsShowShort, LsOpen, LsShowAll, LsNoMore, LsUnlink, LsStutter
     DEF LsNext
<1> QED BY LsInitOK, LsOKSuffices, <1>1, PTL DEF ListingSpec

-----------------------------------------------------------------------------
(* oob_send.c and oob_recv.c                                                *)

OobSpec == OobInit /\ [][OobNext]_oobVars

(* The ten bytes, and how many were sent after each piece.                  *)
TenBytes == 1 .. 10

SentAfter == [k \in 0 .. 4 |-> IF k = 0 THEN 0 ELSE IF k = 1 THEN 3 ELSE IF k = 2 THEN 4 ELSE IF k = 3 THEN 7 ELSE 10]

Ordinary == {1, 2, 3, 5, 6, 7, 8, 9}

Below(s, t) == \A x \in ToSet(s), y \in ToSet(t) : x < y

LEMMA Digits ==
    /\ {1, 2, 3} \subseteq TenBytes /\ {5, 6, 7} \subseteq TenBytes /\ {8, 9, 10} \subseteq TenBytes
    /\ 1 < 2 /\ 2 < 3 /\ 5 < 6 /\ 6 < 7 /\ 8 < 9 /\ 9 < 10
BY DEF TenBytes

LEMMA ByteFacts ==
    ASSUME NEW s \in Seq(TenBytes)
    PROVE  /\ Len(s) \in Nat /\ DOMAIN s = 1 .. Len(s)
           /\ \A i \in 1 .. Len(s) : s[i] \in TenBytes /\ s[i] \in ToSet(s)
           /\ \A x \in ToSet(s) : x \in TenBytes /\ \E i \in 1 .. Len(s) : x = s[i]
BY DEF ToSet

LEMMA InOrder ==
    ASSUME NEW s \in Seq(TenBytes), NEW t \in Seq(TenBytes)
    PROVE  /\ s \o t \in Seq(TenBytes)
           /\ ToSet(s \o t) = ToSet(s) \cup ToSet(t)
           /\ Increasing(s) /\ Increasing(t) /\ Below(s, t) => Increasing(s \o t)
<1> DEFINE S == TenBytes
<1>1. s \in Seq(S) /\ t \in Seq(S)
  OBVIOUS
<1> HIDE DEF S
<1>2. /\ s \o t \in Seq(S) /\ Len(s \o t) = Len(s) + Len(t)
      /\ \A i \in 1 .. Len(s) + Len(t) : (s \o t)[i] = IF i <= Len(s) THEN s[i] ELSE t[i - Len(s)]
  BY <1>1, ConcatProperties
<1>3. s \o t \in Seq(TenBytes)
  BY <1>2 DEF S
<1>4. ToSet(s \o t) = ToSet(s) \cup ToSet(t)
  <2>1. ToSet(s) = Range(s) /\ ToSet(t) = Range(t) /\ ToSet(s \o t) = Range(s \o t)
    BY DEF ToSet, Range
  <2> QED BY <1>1, <2>1, RangeConcatenation
<1>5. ASSUME Increasing(s), Increasing(t), Below(s, t) PROVE Increasing(s \o t)
  <2> DEFINE n == Len(s)
  <2>1. n \in Nat /\ Len(t) \in Nat /\ DOMAIN s = 1 .. n /\ DOMAIN t = 1 .. Len(t)
    BY ByteFacts
  <2>2. DOMAIN (s \o t) = 1 .. n + Len(t)
    BY <1>2, <1>3, ByteFacts
  <2>3. SUFFICES ASSUME NEW i \in 1 .. n + Len(t), NEW j \in 1 .. n + Len(t), i < j
                 PROVE  (s \o t)[i] < (s \o t)[j]
    BY <2>2 DEF Increasing
  <2>4. CASE j <= n
    <3>1. i \in 1 .. n /\ j \in 1 .. n /\ (s \o t)[i] = s[i] /\ (s \o t)[j] = s[j]
      BY <1>2, <2>1, <2>3, <2>4
    <3> QED BY <1>5, <2>1, <2>3, <3>1 DEF Increasing
  <2>5. CASE n < i
    <3>1. /\ i - n \in 1 .. Len(t) /\ j - n \in 1 .. Len(t) /\ i - n < j - n
          /\ (s \o t)[i] = t[i - n] /\ (s \o t)[j] = t[j - n]
      BY <1>2, <2>1, <2>3, <2>5
    <3> QED BY <1>5, <2>1, <3>1 DEF Increasing
  <2>6. CASE i <= n /\ n < j
    <3>1. /\ i \in 1 .. n /\ j - n \in 1 .. Len(t)
          /\ (s \o t)[i] = s[i] /\ (s \o t)[j] = t[j - n]
      BY <1>2, <2>1, <2>3, <2>6
    <3>2. s[i] \in ToSet(s) /\ t[j - n] \in ToSet(t)
      BY <3>1, ByteFacts
    <3> QED BY <1>5, <3>1, <3>2 DEF Below
  <2> QED BY <2>1, <2>3, <2>4, <2>5, <2>6
<1> QED BY <1>3, <1>4, <1>5

LEMMA NoBytes ==
    /\ <<>> \in Seq(TenBytes) /\ ToSet(<<>>) = {} /\ Increasing(<<>>)
    /\ \A s : Below(<<>>, s) /\ Below(s, <<>>)
BY DEF ToSet, Increasing, Below

LEMMA OneByte ==
    \A u \in TenBytes : <<u>> \in Seq(TenBytes) /\ ToSet(<<u>>) = {u} /\ Increasing(<<u>>)
<1> TAKE u \in TenBytes
<1>1. <<u>> \in Seq(TenBytes) /\ DOMAIN <<u>> = {1}
  OBVIOUS
<1> QED BY <1>1 DEF ToSet, Increasing

LEMMA TwoBytes ==
    \A x, y \in TenBytes : x < y =>
        <<x, y>> \in Seq(TenBytes) /\ ToSet(<<x, y>>) = {x, y} /\ Increasing(<<x, y>>)
<1> TAKE x, y \in TenBytes
<1> HAVE x < y
<1>1. <<x, y>> = <<x>> \o <<y>>
  <2> DEFINE s == <<x>>
             t == <<y>>
  <2>1. /\ s \in Seq(TenBytes) /\ t \in Seq(TenBytes) /\ <<x, y>> \in Seq(TenBytes)
        /\ Len(s) = 1 /\ Len(t) = 1 /\ s[1] = x /\ t[1] = y
    OBVIOUS
  <2>2. Len(<<x, y>>) = 2 /\ <<x, y>>[1] = x /\ <<x, y>>[2] = y
    OBVIOUS
  <2> HIDE DEF s, t
  <2>3. /\ s \o t \in Seq(TenBytes) /\ Len(s \o t) = Len(s) + Len(t)
        /\ \A i \in 1 .. Len(s) + Len(t) : (s \o t)[i] = IF i <= Len(s) THEN s[i] ELSE t[i - Len(s)]
    <3> DEFINE S == TenBytes
    <3>1. s \in Seq(S) /\ t \in Seq(S)
      BY <2>1
    <3> HIDE DEF S
    <3> QED BY <3>1, ConcatProperties DEF S
  <2>4. Len(s \o t) = 2 /\ (s \o t)[1] = x /\ (s \o t)[2] = y
    BY ONLY <2>1, <2>3
  <2>5. \A i \in 1 .. 2 : <<x, y>>[i] = (s \o t)[i]
    BY <2>2, <2>4
  <2>6. <<x, y>> = s \o t
    BY <2>1, <2>2, <2>3, <2>4, <2>5, SeqEqual
  <2> QED BY <2>6 DEF s, t
<1>2. Below(<<x>>, <<y>>)
  BY OneByte DEF Below
<1>3. <<x>> \in Seq(TenBytes) /\ <<y>> \in Seq(TenBytes)
  BY OneByte
<1>4. /\ <<x>> \o <<y>> \in Seq(TenBytes) /\ ToSet(<<x>> \o <<y>>) = {x} \cup {y}
      /\ Increasing(<<x>> \o <<y>>)
  <2> DEFINE s == <<x>>
             t == <<y>>
  <2>1. s \in Seq(TenBytes) /\ t \in Seq(TenBytes) /\ ToSet(s) = {x} /\ ToSet(t) = {y}
        /\ Increasing(s) /\ Increasing(t) /\ Below(s, t)
    BY <1>2, <1>3, OneByte
  <2> HIDE DEF s, t
  <2>2. s \o t \in Seq(TenBytes) /\ ToSet(s \o t) = {x} \cup {y} /\ Increasing(s \o t)
    BY <2>1, InOrder
  <2> QED BY <2>2 DEF s, t
<1> QED BY <1>1, <1>4

LEMMA ThreeBytes ==
    \A x, y, z \in TenBytes : x < y /\ y < z =>
        /\ <<x, y, z>> \in Seq(TenBytes) /\ ToSet(<<x, y, z>>) = {x, y, z}
        /\ Increasing(<<x, y, z>>) /\ Front(<<x, y, z>>) = <<x, y>>
<1> TAKE x, y, z \in TenBytes
<1> HAVE x < y /\ y < z
<1> DEFINE s == <<x, y>>
           t == <<z>>
<1>1. <<x, y, z>> = s \o t /\ Len(<<x, y, z>>) = 3 /\ Len(s) = 2
  OBVIOUS
<1>2. /\ s \in Seq(TenBytes) /\ t \in Seq(TenBytes) /\ ToSet(s) = {x, y} /\ ToSet(t) = {z}
      /\ Increasing(s) /\ Increasing(t)
  BY OneByte, TwoBytes
<1> HIDE DEF s, t
<1>3. Below(s, t)
  BY <1>2 DEF Below, TenBytes
<1>4. s \o t \in Seq(TenBytes) /\ ToSet(s \o t) = {x, y} \cup {z} /\ Increasing(s \o t)
  BY <1>2, <1>3, InOrder
<1>5. Front(s \o t) = s
  <2>1. Len(s \o t) = 3
    BY <1>1
  <2>2. Front(s \o t) = SubSeq(s \o t, 1, 2)
    BY <2>1 DEF Front
  <2>3. 1 \in 1 .. Len(s) /\ 2 \in 1 .. Len(s)
    BY <1>1
  <2>4. SubSeq(s \o t, 1, 2) = SubSeq(s, 1, 2)
    BY <1>2, <2>3, SubSeqOfConcat1
  <2>5. SubSeq(s, 1, Len(s)) = s
    BY <1>2, SubSeqFull
  <2> QED BY <1>1, <2>2, <2>4, <2>5
<1>6. {x, y} \cup {z} = {x, y, z}
  OBVIOUS
<1> QED BY <1>1, <1>4, <1>5, <1>6 DEF s

(* What comes before a place of the stream and what comes behind it.        *)
LEMMA Cut ==
    ASSUME NEW s \in Seq(TenBytes), NEW n \in 0 .. Len(s), Increasing(s)
    PROVE  LET a == SubSeq(s, 1, n)
               b == SubSeq(s, n + 1, Len(s))
           IN  /\ a \in Seq(TenBytes) /\ b \in Seq(TenBytes)
               /\ ToSet(a) \cup ToSet(b) = ToSet(s)
               /\ ToSet(a) = {s[i] : i \in 1 .. n} /\ ToSet(b) = {s[i] : i \in n + 1 .. Len(s)}
               /\ Increasing(a) /\ Increasing(b) /\ Below(a, b)
<1> DEFINE a == SubSeq(s, 1, n)
           b == SubSeq(s, n + 1, Len(s))
           S == TenBytes
<1>1. Len(s) \in Nat /\ DOMAIN s = 1 .. Len(s) /\ n \in Nat /\ n <= Len(s)
  BY ByteFacts
<1>2. \A i \in 1 .. Len(s) : s[i] \in S
  BY ByteFacts
<1> HIDE DEF S
<1>3. 1 \in Int /\ n \in Int /\ n + 1 \in Int /\ Len(s) \in Int
      /\ (\A i \in 1 .. n : s[i] \in S) /\ (\A i \in n + 1 .. Len(s) : s[i] \in S)
  BY <1>1, <1>2
<1>4. /\ a \in Seq(S) /\ Len(a) = IF 1 <= n THEN n - 1 + 1 ELSE 0
      /\ \A i \in 1 .. n - 1 + 1 : a[i] = s[1 + i - 1]
  BY <1>3, SubSeqProperties
<1>5. /\ b \in Seq(S) /\ Len(b) = IF n + 1 <= Len(s) THEN Len(s) - (n + 1) + 1 ELSE 0
      /\ \A i \in 1 .. Len(s) - (n + 1) + 1 : b[i] = s[n + 1 + i - 1]
  BY <1>3, SubSeqProperties
<1> HIDE DEF a, b
<1>6. Len(a) = n /\ DOMAIN a = 1 .. n /\ \A i \in 1 .. n : a[i] = s[i]
  BY <1>1, <1>4
<1>7. Len(b) = Len(s) - n /\ DOMAIN b = 1 .. Len(s) - n /\ \A i \in 1 .. Len(s) - n : b[i] = s[n + i]
  <2>1. Len(b) = Len(s) - n
    <3>1. CASE n + 1 <= Len(s)
      <4>1. Len(b) = Len(s) - (n + 1) + 1
        BY ONLY <1>5, <3>1
      <4> QED BY ONLY <1>1, <4>1
    <3>2. CASE ~(n + 1 <= Len(s))
      <4>1. Len(b) = 0
        BY ONLY <1>5, <3>2
      <4>2. Len(s) - n = 0
        <5>1. Len(s) \in Nat /\ n \in Nat /\ n <= Len(s)
          BY <1>1
        <5> QED BY ONLY <3>2, <5>1
      <4> QED BY <4>1, <4>2
    <3> QED BY <3>1, <3>2
  <2>2. DOMAIN b = 1 .. Len(s) - n
    BY <1>5, <2>1
  <2>3. Len(s) - (n + 1) + 1 = Len(s) - n
    BY <1>1
  <2>4. ASSUME NEW i \in 1 .. Len(s) - n PROVE b[i] = s[n + i]
    <3>1. b[i] = s[n + 1 + i - 1]
      <4>1. \A j \in 1 .. Len(s) - n : b[j] = s[n + 1 + j - 1]
        BY ONLY <1>5, <2>3
      <4> QED BY <4>1
    <3>2. n + 1 + i - 1 = n + i
      BY ONLY <1>1, i \in 1 .. Len(s) - n
    <3> QED BY <3>1, <3>2
  <2> QED BY <2>1, <2>2, <2>4
<1>8. ToSet(a) = {s[i] : i \in 1 .. n}
  BY <1>6 DEF ToSet
<1>9. ToSet(b) = {s[i] : i \in n + 1 .. Len(s)}
  <2>1. \A i \in n + 1 .. Len(s) : i - n \in 1 .. Len(s) - n /\ b[i - n] = s[i]
    BY <1>1, <1>7
  <2>2. \A i \in 1 .. Len(s) - n : n + i \in n + 1 .. Len(s) /\ b[i] = s[n + i]
    BY <1>1, <1>7
  <2>3. ToSet(b) = {b[i] : i \in 1 .. Len(s) - n}
    BY <1>7 DEF ToSet
  <2> QED BY <2>1, <2>2, <2>3
<1>10. ToSet(a) \cup ToSet(b) = ToSet(s)
  <2>1. ToSet(s) = {s[i] : i \in 1 .. Len(s)}
    BY <1>1 DEF ToSet
  <2>2. \A i : i \in 1 .. Len(s) <=> i \in 1 .. n \/ i \in n + 1 .. Len(s)
    BY <1>1
  <2> QED BY <1>8, <1>9, <2>1, <2>2
<1>11. Increasing(a)
  <2>1. \A i, j \in 1 .. n : i \in 1 .. Len(s) /\ j \in 1 .. Len(s)
    BY <1>1
  <2> QED BY <1>1, <1>6, <2>1 DEF Increasing
<1>12. Increasing(b)
  <2>1. \A i \in 1 .. Len(s) - n : n + i \in 1 .. Len(s)
    BY <1>1
  <2>2. \A i, j \in 1 .. Len(s) - n : i < j => n + i < n + j
    BY <1>1
  <2> QED BY <1>1, <1>7, <2>1, <2>2 DEF Increasing
<1>13. Below(a, b)
  <2>1. \A i \in 1 .. n, j \in n + 1 .. Len(s) : i \in 1 .. Len(s) /\ j \in 1 .. Len(s) /\ i < j
    BY <1>1
  <2>2. \A i \in 1 .. n, j \in n + 1 .. Len(s) : s[i] < s[j]
    BY <1>1, <2>1 DEF Increasing
  <2> QED BY <1>8, <1>9, <2>2 DEF Below
<1> QED BY <1>4, <1>5, <1>8, <1>9, <1>10, <1>11, <1>12, <1>13 DEF a, b, S

(* The byte that was kept apart, put where it was.                          *)
LEMMA PutBack ==
    ASSUME NEW s \in Seq(TenBytes), Increasing(s), NEW u \in TenBytes, u \notin ToSet(s),
           NEW n \in 1 .. Len(s) + 1, \A i \in DOMAIN s : s[i] < u <=> i < n
    PROVE  /\ InsertAt(s, n, u) \in Seq(TenBytes) /\ Increasing(InsertAt(s, n, u))
           /\ ToSet(InsertAt(s, n, u)) = ToSet(s) \cup {u}
<1> DEFINE k == n - 1
           a == SubSeq(s, 1, k)
           b == SubSeq(s, k + 1, Len(s))
<1>1. Len(s) \in Nat /\ DOMAIN s = 1 .. Len(s) /\ k \in 0 .. Len(s) /\ k + 1 = n
  BY ByteFacts
<1>2. \A i \in 1 .. Len(s) : s[i] \in TenBytes /\ s[i] # u
  BY ByteFacts
<1>3. InsertAt(s, n, u) = (a \o <<u>>) \o b
  BY <1>1 DEF InsertAt
<1> HIDE DEF k
<1>4. /\ a \in Seq(TenBytes) /\ b \in Seq(TenBytes)
      /\ ToSet(a) \cup ToSet(b) = ToSet(s)
      /\ ToSet(a) = {s[i] : i \in 1 .. k} /\ ToSet(b) = {s[i] : i \in k + 1 .. Len(s)}
      /\ Increasing(a) /\ Increasing(b) /\ Below(a, b)
  BY <1>1, Cut
<1> HIDE DEF a, b
<1>5. (\A i \in 1 .. k : s[i] < u) /\ \A i \in k + 1 .. Len(s) : u < s[i]
  <2>1. \A i \in 1 .. k : i \in 1 .. Len(s) /\ i < n
    BY <1>1
  <2>2. \A i \in k + 1 .. Len(s) : i \in 1 .. Len(s) /\ ~(i < n)
    BY <1>1
  <2>3. \A i \in 1 .. Len(s) : s[i] < u \/ u < s[i]
    BY <1>2 DEF TenBytes
  <2> QED BY <1>1, <2>1, <2>2, <2>3
<1>6. (\A x \in ToSet(a) : x < u) /\ \A x \in ToSet(b) : u < x
  BY <1>4, <1>5
<1>7. <<u>> \in Seq(TenBytes) /\ ToSet(<<u>>) = {u} /\ Increasing(<<u>>)
  BY OneByte
<1>8. Below(a, <<u>>)
  BY <1>6, <1>7 DEF Below
<1> DEFINE t == <<u>>
           c == a \o t
<1> HIDE DEF t, c
<1>9. c \in Seq(TenBytes) /\ ToSet(c) = ToSet(a) \cup {u} /\ Increasing(c)
  <2>1. t \in Seq(TenBytes) /\ ToSet(t) = {u} /\ Increasing(t) /\ Below(a, t)
    BY <1>7, <1>8 DEF t
  <2> QED BY <1>4, <2>1, InOrder DEF c
<1>10. Below(c, b)
  BY <1>4, <1>6, <1>9 DEF Below
<1>11. c \o b \in Seq(TenBytes) /\ ToSet(c \o b) = ToSet(c) \cup ToSet(b) /\ Increasing(c \o b)
  BY <1>4, <1>9, <1>10, InOrder
<1> QED BY <1>3, <1>4, <1>9, <1>11 DEF c, t

-----------------------------------------------------------------------------

OobType ==
    /\ pieces \in 0 .. 4 /\ mark \in {0} \cup TenBytes /\ urgent \in {0, mark}
    /\ stream \in Seq(TenBytes) /\ rcBuf \in Seq(TenBytes) /\ puts \in Seq(TenBytes) /\ told \in Seq(TenBytes)

(* What main has put, what it is going to and what it will receive.         *)
Held == ToSet(puts) \cup (IF rcAt = "puts" THEN ToSet(rcBuf) ELSE {}) \cup ToSet(stream)

(* All of that is in the order it was sent.                                 *)
HeldInOrder ==
    /\ Increasing(puts) /\ Increasing(stream) /\ Below(puts, stream)
    /\ rcAt = "puts" => Increasing(rcBuf) /\ Below(puts, rcBuf) /\ Below(rcBuf, stream)

(* Nothing is held that was not sent, and not the mark; what the handler    *)
(* printed is the mark, unless it can still be read, or came before it.     *)
KeptApart ==
    /\ Increasing(told)
    /\ \A x \in Held : x <= SentAfter[pieces] /\ x # mark
    /\ mark <= SentAfter[pieces]
    /\ \A x \in ToSet(told) : x <= mark /\ (urgent # 0 => x < urgent)

(* No ordinary byte is missing, unless the handler broke main.              *)
NoneMissing ==
    /\ rcAt # "crash" => \A x \in Ordinary : x <= SentAfter[pieces] => x \in Held
    /\ rcAt = "end" => pieces = 4 /\ stream = <<>>

OobOK == OobType /\ HeldInOrder /\ KeptApart /\ NoneMissing

LEMMA SentIs ==
    /\ SentAfter[0] = 0 /\ SentAfter[1] = 3 /\ SentAfter[2] = 4 /\ SentAfter[3] = 7 /\ SentAfter[4] = 10
    /\ \A k \in 0 .. 4 : SentAfter[k] \in Nat
BY DEF SentAfter

LEMMA OobOKSuffices == OobOK => NothingTwice
<1> SUFFICES ASSUME OobOK PROVE NothingTwice
  OBVIOUS
<1>1. Increasing(puts) /\ Increasing(told)
  BY DEF OobOK, HeldInOrder, KeptApart
<1>2. \A b \in ToSet(puts) \cap ToSet(told) : b < mark
  <2> TAKE b \in ToSet(puts) \cap ToSet(told)
  <2>1. b # mark /\ b <= mark /\ b \in TenBytes /\ mark \in {0} \cup TenBytes
    BY ByteFacts DEF OobOK, OobType, KeptApart, Held
  <2> QED BY <2>1 DEF TenBytes
<1>3. ASSUME rcAt = "end" PROVE {1, 2, 3, 5, 6, 7, 8, 9} \subseteq ToSet(puts)
  <2>1. \A x \in Ordinary : x \in Held
    BY <1>3, SentIs DEF OobOK, NoneMissing, Ordinary
  <2>2. Held = ToSet(puts)
    BY <1>3, NoBytes DEF OobOK, NoneMissing, Held
  <2> QED BY <2>1, <2>2 DEF Ordinary
<1> QED BY <1>1, <1>2, <1>3 DEF NothingTwice

LEMMA OobInitOK == OobInit => OobOK
<1> SUFFICES ASSUME OobInit PROVE OobOK
  OBVIOUS
<1>1. OobType
  BY NoBytes DEF OobInit, OobType
<1>2. HeldInOrder
  BY NoBytes DEF OobInit, HeldInOrder
<1>3. Held = {}
  BY NoBytes DEF OobInit, Held
<1>4. KeptApart
  BY <1>3, NoBytes, SentIs DEF OobInit, KeptApart
<1>5. NoneMissing
  BY SentIs DEF OobInit, NoneMissing, Ordinary
<1> QED BY <1>1, <1>2, <1>4, <1>5 DEF OobOK

(* The bytes of a piece that go into the stream follow all that were sent.  *)
LEMMA NextPiece ==
    ASSUME NEW k \in 1 .. 4, NEW ordinary,
           ordinary = IF IsUrgent(k) THEN Front(Pieces[k]) ELSE Pieces[k]
    PROVE  /\ ordinary \in Seq(TenBytes) /\ Increasing(ordinary)
           /\ \A x \in ToSet(ordinary) : SentAfter[k - 1] < x /\ x <= SentAfter[k]
           /\ \A x \in Ordinary : x <= SentAfter[k] /\ ~(x <= SentAfter[k - 1]) => x \in ToSet(ordinary)
           /\ SentAfter[k - 1] <= SentAfter[k]
           /\ IsUrgent(k) => /\ Last(Pieces[k]) = SentAfter[k] /\ SentAfter[k] \in TenBytes
                             /\ SentAfter[k - 1] < SentAfter[k]
                             /\ SentAfter[k] \notin ToSet(ordinary)
<1>1. CASE k = 1
  <2>1. ordinary = <<1, 2, 3>> /\ ToSet(ordinary) = {1, 2, 3} /\ ~IsUrgent(k)
    <3>1. ordinary = <<1, 2, 3>> /\ ~IsUrgent(k)
      BY <1>1 DEF IsUrgent, Pieces
    <3> QED BY <3>1, Digits, ThreeBytes
  <2>2. ordinary \in Seq(TenBytes) /\ Increasing(ordinary)
    <3>1. <<1, 2, 3>> \in Seq(TenBytes) /\ Increasing(<<1, 2, 3>>)
      BY Digits, ThreeBytes
    <3> QED BY Zenon, <2>1, <3>1
  <2> QED BY <1>1, <2>1, <2>2, SentIs DEF Ordinary
<1>2. CASE k = 2
  <2>1. Pieces[k] = <<4>> /\ IsUrgent(k)
    BY <1>2 DEF IsUrgent, Pieces
  <2>2. ordinary = <<>> /\ Last(Pieces[k]) = 4
    <3>1. Len(<<4>>) = 1 /\ SubSeq(<<4>>, 1, 0) = <<>>
      OBVIOUS
    <3> QED BY <2>1, <3>1 DEF Front, Last
  <2> QED BY <1>2, <2>1, <2>2, SentIs, NoBytes DEF Ordinary, TenBytes
<1>3. CASE k = 3
  <2>1. ordinary = <<5, 6, 7>> /\ ToSet(ordinary) = {5, 6, 7} /\ ~IsUrgent(k)
    <3>1. ordinary = <<5, 6, 7>> /\ ~IsUrgent(k)
      BY <1>3 DEF IsUrgent, Pieces
    <3> QED BY <3>1, Digits, ThreeBytes
  <2>2. ordinary \in Seq(TenBytes) /\ Increasing(ordinary)
    <3>1. <<5, 6, 7>> \in Seq(TenBytes) /\ Increasing(<<5, 6, 7>>)
      BY Digits, ThreeBytes
    <3> QED BY Zenon, <2>1, <3>1
  <2>3. SentAfter[k - 1] = 4 /\ SentAfter[k] = 7
    BY <1>3, SentIs
  <2>4. \A x \in ToSet(ordinary) : SentAfter[k - 1] < x /\ x <= SentAfter[k]
    BY <2>1, <2>3
  <2>5. \A x \in Ordinary : x <= SentAfter[k] /\ ~(x <= SentAfter[k - 1]) => x \in ToSet(ordinary)
    BY <2>1, <2>3 DEF Ordinary
  <2>6. SentAfter[k - 1] <= SentAfter[k]
    BY <2>3
  <2> QED BY <2>1, <2>2, <2>4, <2>5, <2>6
<1>4. CASE k = 4
  <2>1. Pieces[k] = <<8, 9, 10>> /\ IsUrgent(k)
    BY <1>4 DEF IsUrgent, Pieces
  <2>2. ordinary = <<8, 9>> /\ Last(Pieces[k]) = 10
    <3>2. Front(<<8, 9, 10>>) = <<8, 9>>
      BY Digits, ThreeBytes
    <3>3. Last(<<8, 9, 10>>) = 10
      BY DEF Last
    <3> QED BY <2>1, <3>2, <3>3
  <2>3. ToSet(ordinary) = {8, 9}
    BY <2>2, Digits, TwoBytes
  <2>4. ordinary \in Seq(TenBytes) /\ Increasing(ordinary)
    <3>1. <<8, 9>> \in Seq(TenBytes) /\ Increasing(<<8, 9>>)
      BY Digits, TwoBytes
    <3> QED BY Zenon, <2>2, <3>1
  <2> QED BY <1>4, <2>1, <2>2, <2>3, <2>4, SentIs DEF Ordinary, TenBytes
<1> QED BY <1>1, <1>2, <1>3, <1>4

(* A call of the sender: the stream, perhaps with the old urgent byte in    *)
(* it, grows by later bytes.                                                *)
LEMMA Grows ==
    ASSUME OobOK, NEW left \in Seq(TenBytes), Increasing(left), Below(puts, left),
           rcAt = "puts" => Below(rcBuf, left),
           ToSet(stream) \subseteq ToSet(left), ToSet(left) \subseteq ToSet(stream) \cup ({mark} \ {0}),
           NEW k \in 1 .. 4, pieces = k - 1, pieces' = k,
           NEW more \in Seq(TenBytes), more = IF IsUrgent(k) THEN Front(Pieces[k]) ELSE Pieces[k],
           stream' = left \o more,
           \/ ~IsUrgent(k) /\ left = stream /\ mark' = mark /\ urgent' = urgent
           \/ IsUrgent(k) /\ mark' = Last(Pieces[k]) /\ urgent' = mark',
           UNCHANGED <<rcAt, rcBuf, puts, told>>, rcAt # "end"
    PROVE  OobOK'
<1>1. /\ Increasing(more)
      /\ \A x \in ToSet(more) : SentAfter[k - 1] < x /\ x <= SentAfter[k]
      /\ \A x \in Ordinary : x <= SentAfter[k] /\ ~(x <= SentAfter[k - 1]) => x \in ToSet(more)
      /\ SentAfter[k - 1] <= SentAfter[k]
      /\ IsUrgent(k) => /\ Last(Pieces[k]) = SentAfter[k] /\ SentAfter[k] \in TenBytes
                        /\ SentAfter[k - 1] < SentAfter[k]
                        /\ SentAfter[k] \notin ToSet(more)
  BY NextPiece
<1>2. SentAfter[k - 1] \in Nat /\ SentAfter[k] \in Nat
  BY SentIs
<1>3. OobType /\ HeldInOrder /\ KeptApart /\ NoneMissing
  BY DEF OobOK
<1> DEFINE lo == SentAfter[k - 1]
           hi == SentAfter[k]
<1>4. /\ \A x \in Held : x <= lo /\ x # mark /\ x \in TenBytes
      /\ mark <= lo
      /\ \A x \in ToSet(told) : x <= lo /\ x <= mark /\ (urgent # 0 => x < urgent) /\ x \in TenBytes
  <2>1. \A x \in Held \cup ToSet(told) : x \in TenBytes
    BY <1>3, ByteFacts DEF Held, OobType
  <2>2. mark \in {0} \cup TenBytes /\ mark <= lo /\ \A x \in ToSet(told) : x <= mark
    BY <1>3 DEF KeptApart, OobType
  <2>3. \A x \in ToSet(told) : x <= lo
    BY <1>2, <2>1, <2>2 DEF TenBytes
  <2> QED BY <1>3, <2>1, <2>2, <2>3 DEF KeptApart
<1>5. \A x \in ToSet(left) : x \in TenBytes /\ x <= lo /\ (x \in Held \/ (x = mark /\ mark # 0))
  <2>1. \A x \in ToSet(left) : x \in ToSet(stream) \/ (x = mark /\ mark # 0)
    OBVIOUS
  <2>2. \A x \in ToSet(left) : x \in TenBytes
    BY ByteFacts
  <2> QED BY <1>4, <2>1, <2>2 DEF Held
<1>6. \A x \in ToSet(more) : x \in TenBytes
  BY ByteFacts
<1>7. \A x, y : x \in TenBytes /\ y \in TenBytes /\ x <= lo /\ lo < y => x < y
  BY <1>2 DEF TenBytes
<1> HIDE DEF lo, hi
<1>8. Below(left, more)
  BY <1>1, <1>5, <1>6, <1>7 DEF Below, lo
<1>9. stream' \in Seq(TenBytes) /\ ToSet(stream') = ToSet(left) \cup ToSet(more) /\ Increasing(stream')
  BY <1>1, <1>8, InOrder
<1>10. \A s \in Seq(TenBytes) : (\A x \in ToSet(s) : x \in Held) /\ Below(s, left) => Below(s, stream')
  <2> TAKE s \in Seq(TenBytes)
  <2> HAVE (\A x \in ToSet(s) : x \in Held) /\ Below(s, left)
  <2>1. \A x \in ToSet(s), y \in ToSet(more) : x < y
    BY <1>1, <1>4, <1>6, <1>7 DEF lo
  <2> QED BY <1>9, <2>1 DEF Below
<1>11. OobType'
  <2>1. CASE IsUrgent(k)
    <3>1. urgent' = mark' /\ mark' \in TenBytes
      BY <1>1, <2>1
    <3> QED BY <1>3, <1>9, <3>1 DEF OobType
  <2>2. CASE ~IsUrgent(k)
    <3>1. urgent' = urgent /\ mark' = mark
      BY <2>2
    <3> QED BY <1>3, <1>9, <3>1 DEF OobType
  <2> QED BY <2>1, <2>2
<1>12. HeldInOrder'
  <2>1. Below(puts, stream') /\ (rcAt = "puts" => Below(rcBuf, stream'))
    BY <1>3, <1>10 DEF Held, OobType
  <2> QED BY <1>3, <1>9, <2>1 DEF HeldInOrder
<1>13. Held' = Held \cup ToSet(left) \cup ToSet(more)
  BY <1>9 DEF Held
<1>14. \A x : x \in Held' => x \in TenBytes /\ x <= hi
  <2>1. \A x, y : x \in TenBytes /\ x <= lo => x <= hi
    BY <1>1, <1>2 DEF TenBytes, lo, hi
  <2>2. \A x \in ToSet(more) : x \in TenBytes /\ x <= hi
    BY <1>1, <1>6 DEF hi
  <2> QED BY <1>4, <1>5, <1>13, <2>1, <2>2
<1>15. /\ \A x \in Held' : x # mark'
       /\ mark' <= hi
       /\ \A x \in ToSet(told) : x <= mark' /\ (urgent' # 0 => x < urgent')
  <2>1. CASE IsUrgent(k)
    <3>1. mark' = hi /\ urgent' = hi /\ hi \in TenBytes /\ lo < hi /\ hi \notin ToSet(more)
      BY <1>1, <2>1 DEF lo, hi
    <3>2. \A x \in TenBytes : x <= lo => x < hi /\ x # hi /\ x <= hi
      BY <1>2, <3>1 DEF TenBytes, lo
    <3>3. hi <= hi
      BY <3>1 DEF TenBytes
    <3> QED BY <1>4, <1>5, <1>13, <3>1, <3>2, <3>3
  <2>2. CASE ~IsUrgent(k)
    <3>1. urgent' = urgent /\ mark' = mark /\ left = stream
      BY <2>2
    <3>2. mark <= hi
      <4>1. lo \in Nat /\ hi \in Nat /\ lo <= hi /\ mark <= lo
        BY <1>1, <1>2, <1>4 DEF lo, hi
      <4>2. mark \in Nat
        BY <1>3 DEF OobType, TenBytes
      <4> QED BY ONLY <4>1, <4>2
    <3>3. \A x \in ToSet(more) : x # mark
      <4>1. mark \in Nat /\ mark <= lo
        BY <1>3, <1>4 DEF OobType, TenBytes
      <4> QED BY <1>1, <1>2, <1>6, <4>1 DEF TenBytes, lo
    <3>4. \A x \in ToSet(left) : x \in Held
      BY <3>1 DEF Held
    <3> QED BY <1>4, <1>13, <3>1, <3>2, <3>3, <3>4
  <2> QED BY <2>1, <2>2
<1>16. KeptApart'
  <2>1. SentAfter[pieces'] = hi /\ Increasing(told)
    BY <1>3 DEF hi, KeptApart
  <2> QED BY <1>14, <1>15, <2>1 DEF KeptApart
<1>17. NoneMissing'
  <2>1. ASSUME rcAt # "crash", NEW x \in Ordinary, x <= hi PROVE x \in Held'
    <3>1. CASE x <= lo
      <4>1. x \in Held
        BY <1>3, <2>1, <3>1 DEF NoneMissing, lo
      <4> QED BY <1>13, <4>1
    <3>2. CASE ~(x <= lo)
      BY <1>1, <1>13, <2>1, <3>2 DEF lo, hi
    <3> QED BY <3>1, <3>2
  <2> QED BY <2>1 DEF NoneMissing, hi
<1> QED BY <1>11, <1>12, <1>16, <1>17 DEF OobOK

LEMMA OobWrite == OobOK /\ Write => OobOK'
<1> SUFFICES ASSUME OobOK, Write PROVE OobOK'
  OBVIOUS
<1> DEFINE k == pieces + 1
<1>1. /\ pieces < 4 /\ ~IsUrgent(k) /\ pieces' = k /\ stream' = stream \o Pieces[k]
      /\ UNCHANGED <<mark, urgent, rcAt, rcBuf, puts, told>> /\ pieces \in 0 .. 4
  BY DEF Write, OobOK, OobType
<1>2. k \in 1 .. 4 /\ pieces = k - 1
  BY <1>1
<1>3. rcAt # "end"
  BY <1>1 DEF OobOK, NoneMissing
<1> HIDE DEF k
<1>4. Pieces[k] \in Seq(TenBytes) /\ Pieces[k] = IF IsUrgent(k) THEN Front(Pieces[k]) ELSE Pieces[k]
  BY <1>1, <1>2, NextPiece
<1>5. stream \in Seq(TenBytes) /\ Increasing(stream) /\ Below(puts, stream) /\ (rcAt = "puts" => Below(rcBuf, stream))
  BY DEF OobOK, OobType, HeldInOrder
<1> QED BY <1>1, <1>2, <1>3, <1>4, <1>5, Grows

LEMMA OobSendOob == OobOK /\ SendOob => OobOK'
<1> SUFFICES ASSUME OobOK, SendOob PROVE OobOK'
  OBVIOUS
<1> DEFINE k == pieces + 1
<1>1. /\ pieces < 4 /\ IsUrgent(k) /\ pieces' = k /\ mark' = Last(Pieces[k]) /\ urgent' = mark'
      /\ \E left \in {stream} \cup WithUrgent : stream' = left \o Front(Pieces[k])
      /\ UNCHANGED <<rcAt, rcBuf, puts, told>> /\ pieces \in 0 .. 4
  BY DEF SendOob, Overtaken, OobOK, OobType
<1>2. k \in 1 .. 4 /\ pieces = k - 1
  BY <1>1
<1>3. rcAt # "end"
  BY <1>1 DEF OobOK, NoneMissing
<1> HIDE DEF k
<1> DEFINE more == Front(Pieces[k])
<1>4. more \in Seq(TenBytes) /\ more = IF IsUrgent(k) THEN Front(Pieces[k]) ELSE Pieces[k]
  BY <1>1, <1>2, NextPiece
<1> HIDE DEF more
<1>5. stream \in Seq(TenBytes) /\ Increasing(stream) /\ Below(puts, stream) /\ (rcAt = "puts" => Below(rcBuf, stream))
  BY DEF OobOK, OobType, HeldInOrder
<1>6. PICK left \in {stream} \cup WithUrgent : stream' = left \o more
  BY <1>1 DEF more
<1>7. /\ left \in Seq(TenBytes) /\ Increasing(left) /\ Below(puts, left) /\ (rcAt = "puts" => Below(rcBuf, left))
      /\ ToSet(stream) \subseteq ToSet(left) /\ ToSet(left) \subseteq ToSet(stream) \cup ({mark} \ {0})
  <2>1. CASE left = stream
    BY <1>5, <2>1
  <2>2. CASE left \in WithUrgent
    <3>1. PICK n \in 1 .. Len(stream) + 1 :
             /\ mark # 0 /\ \A b \in ToSet(puts \o rcBuf) : b < mark
             /\ \A i \in DOMAIN stream : stream[i] < mark <=> i < n
             /\ left = InsertAt(stream, n, mark)
      BY <2>2 DEF WithUrgent
    <3>2. mark \in TenBytes /\ mark \notin ToSet(stream)
      BY <3>1 DEF OobOK, OobType, KeptApart, Held
    <3>3. left \in Seq(TenBytes) /\ Increasing(left) /\ ToSet(left) = ToSet(stream) \cup {mark}
      BY <1>5, <3>1, <3>2, PutBack
    <3>4. puts \in Seq(TenBytes) /\ rcBuf \in Seq(TenBytes)
      BY DEF OobOK, OobType
    <3>5. \A b \in ToSet(puts) \cup ToSet(rcBuf) : b < mark
      BY <3>1, <3>4, InOrder
    <3>6. Below(puts, left) /\ (rcAt = "puts" => Below(rcBuf, left))
      BY <1>5, <3>3, <3>5 DEF Below
    <3> QED BY <3>1, <3>3, <3>6
  <2> QED BY <2>1, <2>2
<1> QED BY <1>1, <1>2, <1>3, <1>4, <1>6, <1>7, Grows

LEMMA OobRecv == OobOK /\ RecvBytes => OobOK'
<1> SUFFICES ASSUME OobOK, RecvBytes PROVE OobOK'
  OBVIOUS
<1>1. PICK n \in 1 .. Len(stream) :
         rcBuf' = SubSeq(stream, 1, n) /\ stream' = SubSeq(stream, n + 1, Len(stream))
  BY DEF RecvBytes
<1>2. rcAt = "recv" /\ rcAt' = "puts" /\ urgent' \in {urgent, 0} /\ UNCHANGED <<pieces, mark, puts, told>>
  BY DEF RecvBytes
<1>3. OobType /\ HeldInOrder /\ KeptApart /\ NoneMissing /\ stream \in Seq(TenBytes) /\ Increasing(stream)
      /\ Below(puts, stream)
  BY DEF OobOK, OobType, HeldInOrder
<1>4. n \in 0 .. Len(stream)
  BY <1>3, ByteFacts
<1>5. /\ rcBuf' \in Seq(TenBytes) /\ stream' \in Seq(TenBytes)
      /\ ToSet(rcBuf') \cup ToSet(stream') = ToSet(stream)
      /\ Increasing(rcBuf') /\ Increasing(stream') /\ Below(rcBuf', stream')
  BY <1>1, <1>3, <1>4, Cut
<1>6. OobType'
  BY <1>2, <1>3, <1>5 DEF OobType
<1>7. HeldInOrder'
  <2>1. Below(puts, rcBuf') /\ Below(puts, stream')
    BY <1>3, <1>5 DEF Below
  <2> QED BY <1>2, <1>3, <1>5, <2>1 DEF HeldInOrder
<1>8. Held' = Held
  BY <1>2, <1>5 DEF Held
<1>9. KeptApart' /\ NoneMissing'
  BY <1>2, <1>3, <1>8 DEF KeptApart, NoneMissing
<1> QED BY <1>6, <1>7, <1>9 DEF OobOK

LEMMA OobPuts == OobOK /\ Puts => OobOK'
<1> SUFFICES ASSUME OobOK, Puts PROVE OobOK'
  OBVIOUS
<1>1. /\ rcAt = "puts" /\ rcAt' = "recv" /\ puts' = puts \o rcBuf
      /\ UNCHANGED <<pieces, stream, mark, urgent, told, rcBuf>>
  BY DEF Puts
<1>2. OobType /\ HeldInOrder /\ KeptApart /\ NoneMissing /\ puts \in Seq(TenBytes) /\ rcBuf \in Seq(TenBytes)
  BY DEF OobOK, OobType
<1>3. Increasing(puts) /\ Increasing(rcBuf) /\ Below(puts, rcBuf) /\ Below(puts, stream) /\ Below(rcBuf, stream)
      /\ Increasing(stream)
  BY <1>1, <1>2 DEF HeldInOrder
<1>4. puts' \in Seq(TenBytes) /\ ToSet(puts') = ToSet(puts) \cup ToSet(rcBuf) /\ Increasing(puts')
  BY <1>1, <1>2, <1>3, InOrder
<1>5. OobType'
  BY <1>1, <1>2, <1>4 DEF OobType
<1>6. HeldInOrder'
  <2>1. Below(puts', stream)
    BY <1>3, <1>4 DEF Below
  <2> QED BY <1>1, <1>3, <1>4, <2>1 DEF HeldInOrder
<1>7. Held' = Held
  BY <1>1, <1>4 DEF Held
<1>8. KeptApart' /\ NoneMissing'
  BY <1>1, <1>2, <1>7 DEF KeptApart, NoneMissing
<1> QED BY <1>5, <1>6, <1>8 DEF OobOK

(* Where main is may change without a byte being moved.                     *)
LEMMA NothingMoves ==
    ASSUME OobOK, UNCHANGED <<pieces, stream, mark, urgent, rcBuf, puts, told>>,
           rcAt' = "puts" <=> rcAt = "puts", rcAt' # "end" \/ rcAt = "end",
           rcAt = "crash" => rcAt' = "crash"
    PROVE  OobOK'
<1>1. OobType /\ HeldInOrder /\ KeptApart /\ NoneMissing
  BY DEF OobOK
<1>2. Held' = Held
  BY DEF Held
<1>3. OobType' /\ HeldInOrder'
  BY <1>1 DEF OobType, HeldInOrder
<1>4. KeptApart' /\ NoneMissing'
  BY <1>1, <1>2 DEF KeptApart, NoneMissing
<1> QED BY <1>3, <1>4 DEF OobOK

LEMMA OobCrash ==
    ASSUME OobOK, rcAt' = "crash", UNCHANGED <<pieces, stream, mark, urgent, rcBuf, puts, told>>
    PROVE  OobOK'
<1>1. OobType /\ HeldInOrder /\ KeptApart
  BY DEF OobOK
<1>2. Held' \subseteq Held
  BY DEF Held
<1>3. OobType' /\ HeldInOrder'
  BY <1>1 DEF OobType, HeldInOrder
<1>4. KeptApart' /\ NoneMissing'
  BY <1>1, <1>2 DEF KeptApart, NoneMissing
<1> QED BY <1>3, <1>4 DEF OobOK

(* The handler prints the byte that was kept apart.                         *)
LEMMA OobTold ==
    ASSUME OobOK, urgent # 0, told' = Append(told, urgent), urgent' = 0, rcAt' = rcAt,
           UNCHANGED <<pieces, stream, mark, rcBuf, puts>>
    PROVE  OobOK'
<1>1. OobType /\ HeldInOrder /\ KeptApart /\ NoneMissing /\ told \in Seq(TenBytes) /\ urgent \in TenBytes /\ urgent = mark
  BY DEF OobOK, OobType
<1> DEFINE t == <<urgent>>
<1>2. t \in Seq(TenBytes) /\ ToSet(t) = {urgent} /\ Increasing(t)
  BY <1>1, OneByte
<1>3. told' = told \o t
  BY <1>1
<1> HIDE DEF t
<1>4. Below(told, t)
  BY <1>1, <1>2 DEF KeptApart, Below
<1>5. told' \in Seq(TenBytes) /\ ToSet(told') = ToSet(told) \cup {urgent} /\ Increasing(told')
  BY <1>1, <1>2, <1>3, <1>4, InOrder DEF KeptApart
<1>6. OobType' /\ HeldInOrder'
  BY <1>1, <1>5 DEF OobType, HeldInOrder
<1>7. Held' = Held
  BY DEF Held
<1>8. KeptApart'
  <2>1. mark <= mark /\ \A x \in ToSet(told) : x <= mark
    BY <1>1 DEF KeptApart, TenBytes
  <2> QED BY <1>1, <1>5, <1>7, <2>1 DEF KeptApart
<1>9. NoneMissing'
  BY <1>1, <1>7 DEF NoneMissing
<1> QED BY <1>6, <1>8, <1>9 DEF OobOK

LEMMA OobHandler == OobOK /\ UrgHandler => OobOK'
<1> SUFFICES ASSUME OobOK, UrgHandler PROVE OobOK'
  OBVIOUS
<1>1. rcAt \in {"recv", "puts"} /\ UNCHANGED <<pieces, stream, mark, rcBuf, puts>>
  BY DEF UrgHandler
<1>2. CASE urgent # 0 /\ told' = Append(told, urgent) /\ urgent' = 0 /\ rcAt' = rcAt
  BY <1>1, <1>2, OobTold
<1>3. CASE UNCHANGED <<told, urgent>> /\ rcAt' = rcAt
  BY <1>1, <1>3, NothingMoves
<1>4. CASE UNCHANGED <<told, urgent>> /\ rcAt' = "crash"
  BY <1>1, <1>4, OobCrash
<1> QED BY <1>1, <1>2, <1>3, <1>4 DEF UrgHandler, AfterInterrupt

LEMMA OobOthers == OobOK /\ (Connect \/ ListenOob \/ AcceptOob \/ SetOwn \/ SigAction \/ UNCHANGED oobVars) => OobOK'
<1> SUFFICES ASSUME OobOK, Connect \/ ListenOob \/ AcceptOob \/ SetOwn \/ SigAction \/ UNCHANGED oobVars
             PROVE  OobOK'
  OBVIOUS
<1>1. UNCHANGED <<pieces, stream, mark, urgent, rcBuf, puts, told>>
  BY DEF Connect, ListenOob, AcceptOob, SetOwn, SigAction, oobVars
<1>2. /\ rcAt' = "puts" <=> rcAt = "puts"
      /\ rcAt' # "end" \/ rcAt = "end"
      /\ rcAt = "crash" => rcAt' = "crash"
  BY DEF Connect, ListenOob, AcceptOob, SetOwn, SigAction, oobVars
<1> QED BY <1>1, <1>2, NothingMoves

LEMMA OobEnd == OobOK /\ RecvEnd => OobOK'
<1> SUFFICES ASSUME OobOK, RecvEnd PROVE OobOK'
  OBVIOUS
<1>1. /\ rcAt = "recv" /\ rcAt' = "end" /\ stream = <<>> /\ pieces = 4
      /\ UNCHANGED <<pieces, stream, mark, urgent, rcBuf, puts, told>>
  BY DEF RecvEnd
<1>2. OobType /\ HeldInOrder /\ KeptApart /\ NoneMissing
  BY DEF OobOK
<1>3. Held' = Held
  BY <1>1 DEF Held
<1>4. OobType' /\ HeldInOrder'
  BY <1>1, <1>2 DEF OobType, HeldInOrder
<1>5. KeptApart' /\ NoneMissing'
  BY <1>1, <1>2, <1>3 DEF KeptApart, NoneMissing
<1> QED BY <1>4, <1>5 DEF OobOK

(* What main puts are bytes in the order they were sent, none twice, none   *)
(* that the handler printed and at the end no ordinary one missing,         *)
(* wherever the signals of oob_recv.c interrupt main.                       *)
THEOREM OobRight == OobSpec => []NothingTwice
<1>1. OobOK /\ [OobNext]_oobVars => OobOK'
  BY OobWrite, OobSendOob, OobRecv, OobPuts, OobHandler, OobOthers, OobEnd DEF OobNext
<1> QED BY OobInitOK, OobOKSuffices, <1>1, PTL DEF OobSpec

=============================================================================
