--------------------------- MODULE StreamPrograms ---------------------------
(***************************************************************************)
(* Three programs of project/system that read a stream to its end:         *)
(*                                                                         *)
(*   echo_stdserv.c  serves five clients, one after the other: fgets,      *)
(*                   fputs and fflush on two FILEs of the socket           *)
(*   peek_recv.c     polls the socket with MSG_PEEK until there is data,   *)
(*                   then reads it                                         *)
(*   select.c        waits for the console with select, five seconds at a  *)
(*                   time                                                  *)
(*                                                                         *)
(* Abstractions.  A line is a number, given in the order of sending over   *)
(* all clients; 0 is what a buffer holds that was never written.  The peer *)
(* sends whole lines, and the last one perhaps without its newline.        *)
(***************************************************************************)
EXTENDS Naturals, SequencesExt

CONSTANTS
    MaxClients,     \* 5
    MaxSent         \* bound: lines one client sends

ASSUME StreamAssumption == MaxClients \in Nat \ {0} /\ MaxSent \in Nat

VARIABLES
    prog, at,       \* the program and where it stands
    port,           \* where the program listens: "none", "named", "other"
    refused,        \* whether a caller of the named port was refused
    client,         \* clients accepted so far
    peer,           \* the peer: "none", "calling", "open", "half" (it sends no more),
                    \* "closed"
    bare,           \* whether its last line has no newline
    sent,           \* the lines of this client
    inbox,          \* those that were not read yet
    message, eof,   \* the program's buffer, the end-of-file flag
    reset,          \* whether a write found the peer closed
    out,            \* what this client gets back, or the console shows
    temps,          \* select's set of descriptors
    heard           \* history: the last line the program ever read

sockVars == <<port, refused>>
peerVars == <<sockVars, client, peer, bare, sent>>
streamVars == <<prog, at, peerVars, inbox, message, eof, reset, out, temps, heard>>

StreamInit ==
    /\ prog \in {"echo", "peek", "select"}
    /\ at = IF prog = "select" THEN "accept" ELSE "bind"
    /\ port = "none" /\ refused = FALSE
    /\ client = 0 /\ peer = "none" /\ bare = FALSE /\ sent = <<>> /\ inbox = <<>>
    /\ message = 0 /\ eof = FALSE /\ reset = FALSE /\ out = <<>> /\ temps = {}
    /\ heard = 0

-----------------------------------------------------------------------------
(* The peer                                                                 *)

(* peek_send.c and the echo server's clients call a port, and give up when  *)
(* they are refused.                                                        *)
Call(n) ==
    /\ at = "accept" /\ peer = "none" /\ prog # "select"
    /\ IF port = n THEN peer' = "calling" /\ UNCHANGED refused
                   ELSE refused' = (refused \/ n = "named") /\ UNCHANGED peer
    /\ UNCHANGED <<prog, at, port, client, bare, sent, inbox, message, eof, reset, out, temps,
                   heard>>

Send ==
    /\ peer = "open" /\ Len(sent) < MaxSent
    /\ LET line == (client - 1) * MaxSent + Len(sent) + 1
       IN  sent' = Append(sent, line) /\ inbox' = Append(inbox, line)
    /\ \/ UNCHANGED <<peer, bare>>
       \/ bare' = TRUE /\ peer' \in {"half", "closed"}
    /\ UNCHANGED <<prog, at, sockVars, client, message, eof, reset, out, temps, heard>>

Finish ==
    /\ peer = "open" /\ peer' \in {"half", "closed"}
    /\ UNCHANGED <<prog, at, sockVars, client, bare, sent, inbox, message, eof, reset, out, temps,
                   heard>>

-----------------------------------------------------------------------------
(* A definition whose name ends in Variant is a wrong form of the one it    *)
(* precedes: the properties are checked to tell the two apart.              *)

(* socket, bind and listen, which may fail.  peek_recv.c swaps the port with *)
(* htonl: the two bytes that fit sin_port are 0, for which the kernel       *)
(* chooses a port.                                                          *)
Listens(who, ports) ==
    /\ at = "bind" /\ prog = who
    /\ \/ port' \in ports /\ at' = "accept"
       \/ UNCHANGED port /\ at' = "failed"
    /\ UNCHANGED <<prog, refused, client, peer, bare, sent, inbox, message, eof, reset, out, temps,
                   heard>>

ListenEcho == Listens("echo", {"named"})

ListenPeek == Listens("peek", {"named", "other"})

(* accept, or the console that is there from the start; the new FILEs have  *)
(* no end-of-file flag, but the echo server's buffer stays as it is.        *)
Accept ==
    /\ at = "accept" /\ client < (IF prog = "echo" THEN MaxClients ELSE 1)
    /\ peer = "calling" \/ prog = "select"
    /\ client' = client + 1 /\ peer' = "open" /\ bare' = FALSE
    /\ sent' = <<>> /\ inbox' = <<>> /\ out' = <<>>
    /\ eof' = FALSE /\ reset' = FALSE
    /\ at' = CASE prog = "echo" -> "feof" [] prog = "peek" -> "peek" [] OTHER -> "top"
    /\ UNCHANGED <<prog, sockVars, message, temps, heard>>

Feof ==
    /\ at = "feof"
    /\ at' = IF eof THEN "close" ELSE "fgets"
    /\ UNCHANGED <<prog, peerVars, inbox, message, eof, reset, out, temps, heard>>

(* fgets meets the end of file only behind the last newline; a last line    *)
(* without one is returned and sets the flag.                               *)
Fgets ==
    /\ at = "fgets" /\ inbox # <<>>
    /\ message' = Head(inbox) /\ heard' = Head(inbox)
    /\ inbox' = Tail(inbox)
    /\ eof' = (bare /\ Len(inbox) = 1)
    /\ at' = "fputs"
    /\ UNCHANGED <<prog, peerVars, reset, out, temps>>

(* The result NULL is ignored.                                              *)
AfterEofVariant == "feof"

AfterEof == "fputs"

EofFlagVariant == eof

EofFlag == TRUE

FgetsEof ==
    /\ at = "fgets" /\ inbox = <<>> /\ peer \in {"half", "closed"}
    /\ eof' = EofFlag
    /\ at' = AfterEof
    /\ UNCHANGED <<prog, peerVars, inbox, message, reset, out, temps, heard>>

(* A write to a peer that closed is lost, and makes the peer reset the      *)
(* connection; a write after the reset has come raises SIGPIPE.             *)
Fputs ==
    /\ at = "fputs"
    /\ IF peer # "closed"
       THEN out' = Append(out, message) /\ at' = "feof" /\ UNCHANGED reset
       ELSE UNCHANGED out /\ reset' = TRUE /\ (at' = "feof" \/ (reset /\ at' = "killed"))
    /\ UNCHANGED <<prog, peerVars, inbox, message, eof, temps, heard>>

(* Both FILEs are closed, the socket with the first of them.                *)
Fclose ==
    /\ at = "close"
    /\ peer' = "none" /\ sent' = <<>> /\ out' = <<>> /\ bare' = FALSE
    /\ at' = IF client = MaxClients THEN "end" ELSE "accept"
    /\ UNCHANGED <<prog, sockVars, client, inbox, message, eof, reset, temps, heard>>

(* MSG_PEEK|MSG_DONTWAIT: without data the loop goes on, at the end of the  *)
(* stream too.                                                              *)
Peek ==
    /\ at = "peek" /\ inbox # <<>>
    /\ message' = Head(inbox) /\ heard' = Last(inbox)
    /\ at' = "recv"
    /\ UNCHANGED <<prog, peerVars, inbox, eof, reset, out, temps>>

(* "Read again": at least what was peeked, perhaps more.                    *)
Recv ==
    /\ at = "recv" /\ (inbox # <<>> \/ peer # "open")
    /\ out' = inbox /\ inbox' = <<>>
    /\ at' = "end"
    /\ UNCHANGED <<prog, peerVars, message, eof, reset, temps, heard>>

(* temps=reads before every select, which leaves in temps what is ready.    *)
Reads == {0}

SelectTop ==
    /\ at = "top"
    /\ temps' = Reads
    /\ at' = "select"
    /\ UNCHANGED <<prog, peerVars, inbox, message, eof, reset, out, heard>>

Timeout ==
    /\ at = "select" /\ (temps = {} \/ (inbox = <<>> /\ peer = "open"))
    /\ temps' = {}
    /\ at' = "top"
    /\ UNCHANGED <<prog, peerVars, inbox, message, eof, reset, out, heard>>

(* A console at its end is always ready.                                    *)
Ready ==
    /\ at = "select" /\ temps # {} /\ (inbox # <<>> \/ peer # "open")
    /\ at' = "read"
    /\ UNCHANGED <<prog, peerVars, inbox, message, eof, reset, out, temps, heard>>

Read ==
    /\ at = "read"
    /\ IF inbox # <<>>
       THEN /\ message' = Head(inbox) /\ heard' = Head(inbox)
            /\ out' = Append(out, Head(inbox)) /\ inbox' = Tail(inbox)
       ELSE UNCHANGED <<message, heard, out, inbox>>
    /\ at' = "top"
    /\ UNCHANGED <<prog, peerVars, eof, reset, temps>>

-----------------------------------------------------------------------------

Peer == Send \/ Finish \/ \E n \in {"named", "other"} : Call(n)

Server == ListenEcho \/ ListenPeek \/ Accept \/ Feof \/ Fgets \/ FgetsEof \/ Fputs \/ Fclose

Poller == Peek \/ Recv \/ SelectTop \/ Timeout \/ Ready \/ Read

StreamNext == Peer \/ Server \/ Poller

-----------------------------------------------------------------------------

(* echo_stdserv.c:55: a client that keeps reading gets its lines back in    *)
(* order, once each, except that feof is only true after a read that found  *)
(* the end: behind a last newline the buffer is echoed once more, which is  *)
(* what the server read last, an earlier client's line when this one sent   *)
(* nothing.  And what peek_recv.c:44 reads again begins with what line 37   *)
(* had peeked, whatever came in between.  Who calls the port that was given *)
(* to a program that listens is only refused by peek_recv.c (line 26).      *)
ShownIsSent ==
    /\ prog = "echo" /\ at = "close" /\ peer = "half" =>
          out = IF bare THEN sent ELSE Append(sent, heard)
    /\ prog = "peek" /\ at = "end" => out # <<>> /\ Head(out) = message
    /\ refused => prog = "peek" /\ port = "other"

(* echo_stdserv.c:55 and peek_recv.c:37: with a program that goes on, the   *)
(* echo server does not stay with a client that has ended, and the peeking  *)
(* program ends, unless its peer ended without a byte: then it polls for    *)
(* ever.  (A SIGPIPE ends the echo server for all clients.)  And            *)
(* select.c:21: however many timeouts there were, what is typed is read.    *)
LetsGo ==
    /\ \A c \in 1 .. MaxClients :
        (prog # "select" /\ client = c /\ peer \in {"half", "closed"}
            /\ (prog = "peek" => sent # <<>>))
        ~> (client # c \/ peer = "none" \/ at \in {"end", "killed"})
    /\ (prog = "select" /\ inbox # <<>>) ~> (prog = "select" /\ inbox = <<>>)

=============================================================================
