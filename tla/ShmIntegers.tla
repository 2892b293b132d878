---------------------------- MODULE ShmIntegers ----------------------------
(***************************************************************************)
(* shmTx.c writes integers into a shared segment and leaves it there;      *)
(* shmRx.c prints them, and removes the segment.  Nothing orders the two,  *)
(* and each may be launched several times.                                 *)
(*                                                                         *)
(* Abstractions.  Every launch of the writer stores the same integers; a   *)
(* cell holds here the launch that stored it last, 0 when none did.  A     *)
(* segment that is removed has no key any more, but lives on for the       *)
(* processes that are attached.                                            *)
(***************************************************************************)
EXTENDS Naturals

CONSTANTS
    SHMSIZE,        \* 100
    IntLaunches     \* bound: launches of the two programs

ASSUME IntAssumption == SHMSIZE \in Nat \ {0} /\ IntLaunches \in Nat \ {0}

Launches == 1 .. IntLaunches

VARIABLES
    key,        \* the segment that has the key, 0 for none: segments are
                \* numbered by the launch that created them
    mem,        \* what is in each segment
    role,       \* of each launch: "none", "tx", "rx"
    intAt,      \* where it stands
    shmid,      \* the segment it got
    index,      \* its i
    printed,    \* the launches whose integers it printed
    before      \* history: the readers that had ended well when it was launched

intVars == <<key, mem, role, intAt, shmid, index, printed, before>>

IntInit ==
    /\ key = 0
    /\ mem = [s \in Launches |-> [c \in 1 .. SHMSIZE |-> 0]]
    /\ role = [p \in Launches |-> "none"] /\ intAt = [p \in Launches |-> "off"]
    /\ shmid = [p \in Launches |-> 0] /\ index = [p \in Launches |-> 1]
    /\ printed = [p \in Launches |-> {}] /\ before = [p \in Launches |-> {}]

-----------------------------------------------------------------------------

IntLaunch(p) ==
    /\ intAt[p] = "off" /\ (p > 1 => intAt[p - 1] # "off")
    /\ \E r \in {"tx", "rx"} : role' = [role EXCEPT ![p] = r]
    /\ intAt' = [intAt EXCEPT ![p] = "shmget"]
    /\ before' = [before EXCEPT ![p] = {q \in Launches : role[q] = "rx" /\ intAt[q] = "ended"}]
    /\ UNCHANGED <<key, mem, shmid, index, printed>>

(* shmget makes a segment of zeros when none has the key.                   *)
Shmget(p) ==
    /\ intAt[p] = "shmget"
    /\ key' = IF key = 0 THEN p ELSE key
    /\ shmid' = [shmid EXCEPT ![p] = key']
    /\ intAt' = [intAt EXCEPT ![p] = "shmat"]
    /\ UNCHANGED <<mem, role, index, printed, before>>

Attached(s) == {q \in Launches : shmid[q] = s /\ intAt[q] \in {"loop", "shmdt"}}

(* A segment is gone when it was removed and nobody is attached.            *)
Gone(s) == key # s /\ Attached(s) = {}

Shmat(p) ==
    /\ intAt[p] = "shmat"
    /\ intAt' = [intAt EXCEPT ![p] = IF Gone(shmid[p]) THEN "failed" ELSE "loop"]
    /\ UNCHANGED <<key, mem, role, shmid, index, printed, before>>

Advance(p) ==
    /\ index' = [index EXCEPT ![p] = @ + 1]
    /\ intAt' = [intAt EXCEPT ![p] = IF index[p] = SHMSIZE THEN "shmdt" ELSE "loop"]

Store1(p) ==
    /\ intAt[p] = "loop" /\ role[p] = "tx"
    /\ mem' = [mem EXCEPT ![shmid[p]][index[p]] = p]
    /\ Advance(p)
    /\ UNCHANGED <<key, role, shmid, printed, before>>

Print1(p) ==
    /\ intAt[p] = "loop" /\ role[p] = "rx"
    /\ printed' = [printed EXCEPT ![p] = @ \cup ({mem[shmid[p]][index[p]]} \ {0})]
    /\ Advance(p)
    /\ UNCHANGED <<key, mem, role, shmid, before>>

(* shmdt; the writer ends without the IPC_RMID that it has in a comment.    *)
Shmdt(p) ==
    /\ intAt[p] = "shmdt"
    /\ intAt' = [intAt EXCEPT ![p] = IF role[p] = "tx" THEN "ended" ELSE "rmid"]
    /\ UNCHANGED <<key, mem, role, shmid, index, printed, before>>

(* IPC_RMID takes the key from the segment.  A definition whose name ends   *)
(* in Variant is a wrong form of the one it precedes: the properties are    *)
(* checked to tell the two apart.                                           *)
KeyAfterRmidVariant(s) == key

KeyAfterRmid(s) == IF key = s THEN 0 ELSE key

(* It fails when another reader has removed the segment and nobody is       *)
(* attached.                                                                *)
Rmid(p) ==
    /\ intAt[p] = "rmid"
    /\ intAt' = [intAt EXCEPT ![p] = IF Gone(shmid[p]) THEN "failed" ELSE "ended"]
    /\ key' = KeyAfterRmid(shmid[p])
    /\ UNCHANGED <<mem, role, shmid, index, printed, before>>

IntKilled(p) ==
    /\ intAt[p] \notin {"off", "ended", "failed"}
    /\ intAt' = [intAt EXCEPT ![p] = "failed"]
    /\ UNCHANGED <<key, mem, role, shmid, index, printed, before>>

IntNext ==
    \E p \in Launches :
        \/ IntLaunch(p) \/ Shmget(p) \/ Shmat(p) \/ Store1(p) \/ Print1(p)
        \/ Shmdt(p) \/ Rmid(p) \/ IntKilled(p)

-----------------------------------------------------------------------------

(* shmRx.c:64: what a reader that ended well has printed is not printed by  *)
(* a reader launched later, even if the writer of it is still at work or    *)
(* other readers have the segment too.                                      *)
PrintedOnce ==
    \A p, q \in Launches : q \in before[p] => printed[p] \cap printed[q] = {}

=============================================================================
