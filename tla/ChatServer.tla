----------------------------- MODULE ChatServer -----------------------------
(***************************************************************************)
(* The hand-over of clients to threads in project/system/chat_server.c.    *)
(* main accepts into one variable, clnt_sock, and gives every thread its   *)
(* address; a thread reads it when it starts, by which time main may have  *)
(* accepted again.  The source ends in the thread's reading loop: what a   *)
(* thread does with its client is not written.                             *)
(*                                                                         *)
(* Abstractions.  A descriptor is the number of the client it is for, -1   *)
(* what a failed accept returns.  Descriptors are never closed, so no      *)
(* number is used twice.                                                   *)
(***************************************************************************)
EXTENDS Integers, SequencesExt

CONSTANTS
    MAX_CLNT,       \* places in clnt_socks
    MaxAccepts      \* bound: calls of accept

ASSUME ChatAssumption == MAX_CLNT \in Nat \ {0} /\ MaxAccepts \in Nat

VARIABLES
    mainAt,         \* "bind", "failed", "accept", "register", "create"
    calls,          \* calls of accept so far
    clnt_sock,      \* main's variable
    clnt_socks,     \* the clients in the order of registration, clnt_cnt its length
    threads,        \* the calls of accept whose thread could be created
    serves          \* what their threads read: {} until one has started, or a descriptor

chatVars == <<mainAt, calls, clnt_sock, clnt_socks, threads, serves>>

ChatInit ==
    /\ mainAt = "bind" /\ calls = 0 /\ clnt_sock = -1
    /\ clnt_socks = <<>> /\ threads = {} /\ serves = <<>>

-----------------------------------------------------------------------------
(* A definition whose name ends in Variant is a wrong form of the one it    *)
(* precedes: the properties are checked to tell the two apart.              *)

(* socket, bind and listen, which may fail.                                 *)
ChatListen ==
    /\ mainAt = "bind"
    /\ mainAt' \in {"accept", "failed"}
    /\ UNCHANGED <<calls, clnt_sock, clnt_socks, threads, serves>>

ChatAccept ==
    /\ mainAt = "accept" /\ calls < MaxAccepts
    /\ calls' = calls + 1
    /\ clnt_sock' \in {calls + 1, -1}
    /\ mainAt' = "register"
    /\ UNCHANGED <<clnt_socks, threads, serves>>

(* clnt_socks[clnt_cnt++]=clnt_sock, without a look at MAX_CLNT: beyond it  *)
(* the store is behind the array, and this model stops there.               *)
Register ==
    /\ mainAt = "register" /\ Len(clnt_socks) < MAX_CLNT
    /\ clnt_socks' = Append(clnt_socks, clnt_sock)
    /\ mainAt' = "create"
    /\ UNCHANGED <<calls, clnt_sock, threads, serves>>

(* pthread_create may fail, which main does not look at.                    *)
CreateThread ==
    /\ mainAt = "create"
    /\ threads' \in {threads, threads \cup {calls}}
    /\ serves' = Append(serves, {})
    /\ mainAt' = "accept"
    /\ UNCHANGED <<calls, clnt_sock, clnt_socks>>

(* The thread copies what its argument points to: main's variable.          *)
ArgVariant(t) == Head(clnt_socks)

Arg(t) == clnt_sock

ThreadStarts(t) ==
    /\ serves[t] = {}
    /\ serves' = [serves EXCEPT ![t] = {Arg(t)}]
    /\ UNCHANGED <<mainAt, calls, clnt_sock, clnt_socks, threads>>

ChatNext ==
    \/ ChatListen \/ ChatAccept \/ Register \/ CreateThread
    \/ \E t \in threads : ThreadStarts(t)

-----------------------------------------------------------------------------

Started(t) == serves[t] # {}

ServedBy(c) == {t \in threads : serves[t] = {c}}

(* A client may be served by no thread, or by several.  What remains of the *)
(* one-thread-per-client that the program wants: no thread serves a client  *)
(* accepted before its own, so that a client that has a thread created for  *)
(* it is only lost to later ones; and when that of the last one could be    *)
(* created and every thread has started before main accepts again, the last *)
(* client is served.                                                        *)
LostOnlyToLater ==
    /\ \A t \in threads : Started(t) => serves[t] \subseteq {-1} \cup t .. calls
    /\ mainAt = "accept" /\ calls \in threads /\ (\A t \in threads : Started(t)) =>
          ServedBy(clnt_sock) # {}

=============================================================================
