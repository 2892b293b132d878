----------------------------- MODULE UrgentData -----------------------------
(***************************************************************************)
(* Out-of-band data in project/system: oob_send.c writes ordinary bytes    *)
(* and sends urgent ones in between, oob_recv.c puts the ordinary ones and *)
(* reads the urgent ones in the handler of SIGURG.                         *)
(*                                                                         *)
(* Abstractions.  Bytes are numbered in the order of sending.  Of the      *)
(* kernel (Linux): the last byte of an urgent send is the mark, where one  *)
(* recv ends and the next one goes on behind it, and is kept apart until   *)
(* then; when the next one comes before, the old one is an ordinary byte   *)
(* again, even when the handler has read it.  The signal may come before   *)
(* the byte.                                                               *)
(***************************************************************************)
EXTENDS Naturals, SequencesExt

VARIABLES
    link,       \* the sender's connection: "none", "up", "refused"
    pieces,     \* calls of the sender that were made
    stream,     \* ordinary bytes on their way
    mark,       \* the urgent byte that came last, 0 for none
    urgent,     \* the same while MSG_OOB can read it, or 0
    sigurg,     \* whether SIGURG is pending
    rcAt,       \* "bind", "failed", "accept", "setown", "sigaction", "recv", "puts", "end", "crash"
    rcBuf,      \* main's buf
    puts,       \* what main has put
    told        \* what the handler has printed

oobVars == <<link, pieces, stream, mark, urgent, sigurg, rcAt, rcBuf, puts, told>>

OobInit ==
    /\ link = "none" /\ pieces = 0 /\ stream = <<>> /\ mark = 0 /\ urgent = 0 /\ sigurg = FALSE
    /\ rcAt = "bind" /\ rcBuf = <<>> /\ puts = <<>> /\ told = <<>>

-----------------------------------------------------------------------------

(* "123", "4", "567" and "890", the second and the last urgent.             *)
Pieces == << <<1, 2, 3>>, <<4>>, <<5, 6, 7>>, <<8, 9, 10>> >>

IsUrgent(k) == k \in {2, 4}

Write ==
    /\ link = "up" /\ pieces < 4 /\ ~IsUrgent(pieces + 1)
    /\ pieces' = pieces + 1
    /\ stream' = stream \o Pieces[pieces']
    /\ UNCHANGED <<link, mark, urgent, sigurg, rcAt, rcBuf, puts, told>>

(* The stream with the old mark where it was, when main has not read beyond *)
(* it.                                                                      *)
WithUrgent ==
    {InsertAt(stream, k, mark) : k \in
        {n \in 1 .. Len(stream) + 1 :
            /\ mark # 0 /\ \A b \in ToSet(puts \o rcBuf) : b < mark
            /\ \A i \in DOMAIN stream : stream[i] < mark <=> i < n}}

(* What becomes of the old mark when the next one comes: it stays while     *)
(* bytes before it are unread; when main has just come to it, it is skipped,*)
(* or stays when it has not arrived yet.                                    *)
Overtaken ==
    IF \E b \in ToSet(stream) : b < mark THEN WithUrgent
    ELSE {stream} \cup (IF urgent = 0 THEN {} ELSE WithUrgent)

(* Without an owner no signal is sent, and without a handler it is ignored. *)
SendOob ==
    /\ link = "up" /\ pieces < 4 /\ IsUrgent(pieces + 1)
    /\ pieces' = pieces + 1
    /\ mark' = Last(Pieces[pieces']) /\ urgent' = mark'
    /\ \E left \in Overtaken : stream' = left \o Front(Pieces[pieces'])
    /\ sigurg' = (sigurg \/ rcAt \in {"recv", "puts"})
    /\ UNCHANGED <<link, rcAt, rcBuf, puts, told>>

-----------------------------------------------------------------------------

(* The sender connects when the receiver listens, or is refused and ends.   *)
Connect ==
    /\ link = "none"
    /\ link' = IF rcAt = "accept" THEN "up" ELSE "refused"
    /\ UNCHANGED <<pieces, stream, mark, urgent, sigurg, rcAt, rcBuf, puts, told>>

ListenOob ==
    /\ rcAt = "bind"
    /\ rcAt' \in {"accept", "failed"}
    /\ UNCHANGED <<link, pieces, stream, mark, urgent, sigurg, rcBuf, puts, told>>

(* accept: bytes that came before are in the stream.                        *)
AcceptOob ==
    /\ rcAt = "accept" /\ link = "up"
    /\ rcAt' = "setown"
    /\ UNCHANGED <<link, pieces, stream, mark, urgent, sigurg, rcBuf, puts, told>>

SetOwn ==
    /\ rcAt = "setown" /\ rcAt' = "sigaction"
    /\ UNCHANGED <<link, pieces, stream, mark, urgent, sigurg, rcBuf, puts, told>>

SigAction ==
    /\ rcAt = "sigaction" /\ rcAt' = "recv"
    /\ UNCHANGED <<link, pieces, stream, mark, urgent, sigurg, rcBuf, puts, told>>

(* A recv does not read beyond the mark; the one that reads on behind it    *)
(* gives it up.                                                             *)
RecvBytes ==
    /\ rcAt = "recv" /\ stream # <<>>
    /\ \E n \in 1 .. Len(stream) :
          rcBuf' = SubSeq(stream, 1, n) /\ stream' = SubSeq(stream, n + 1, Len(stream))
    /\ \/ UNCHANGED urgent /\ \A b \in ToSet(rcBuf') : b < mark
       \/ urgent' = 0 /\ \A b \in ToSet(rcBuf') : b > mark
    /\ rcAt' = "puts"
    /\ UNCHANGED <<link, pieces, mark, sigurg, puts, told>>

RecvEnd ==
    /\ rcAt = "recv" /\ stream = <<>> /\ pieces = 4
    /\ rcAt' = "end"
    /\ UNCHANGED <<link, pieces, stream, mark, urgent, sigurg, rcBuf, puts, told>>

Puts ==
    /\ rcAt = "puts"
    /\ puts' = puts \o rcBuf
    /\ rcAt' = "recv"
    /\ UNCHANGED <<link, pieces, stream, mark, urgent, sigurg, rcBuf, told>>

(* A recv that waits when the signal comes returns -1.  A definition whose  *)
(* name ends in Variant is a wrong form of the one it precedes: the         *)
(* properties are checked to tell the two apart.                            *)
AfterInterruptVariant == "puts"

AfterInterrupt == "recv"

(* The handler runs in the middle of main.  Its recv fails when the byte is *)
(* not there, yet or any more, and then the 0 goes in front of its buffer,  *)
(* which may do no harm.                                                    *)
UrgHandler ==
    /\ sigurg /\ rcAt \in {"recv", "puts"}
    /\ sigurg' = FALSE
    /\ \/ /\ urgent # 0 /\ told' = Append(told, urgent) /\ urgent' = 0
          /\ rcAt' = IF rcAt = "recv" THEN AfterInterrupt ELSE rcAt
       \/ /\ UNCHANGED <<told, urgent>>
          /\ rcAt' \in {IF rcAt = "recv" THEN AfterInterrupt ELSE rcAt, "crash"}
    /\ UNCHANGED <<link, pieces, stream, mark, rcBuf, puts>>

OobNext ==
    \/ Connect \/ Write \/ SendOob
    \/ ListenOob \/ AcceptOob \/ SetOwn \/ SigAction \/ RecvBytes \/ RecvEnd \/ Puts \/ UrgHandler

-----------------------------------------------------------------------------

Increasing(s) == \A i, j \in DOMAIN s : i < j => s[i] < s[j]

(* oob_recv.c:51: whenever the signal interrupts main, what it puts are     *)
(* bytes in the order they were sent, none twice, and when it ends no       *)
(* ordinary byte is missing; the handler prints none twice either.  What    *)
(* both print is an urgent byte that the next one overtook.  Urgent bytes   *)
(* may be missing: one that was overtaken, or whose signal came too early.  *)
NothingTwice ==
    /\ Increasing(puts) /\ Increasing(told)
    /\ \A b \in ToSet(puts) \cap ToSet(told) : b < mark
    /\ rcAt = "end" => {1, 2, 3, 5, 6, 7, 8, 9} \subseteq ToSet(puts)

=============================================================================
