------------------------------ MODULE MCNetwork ------------------------------
(* The network programs of project/system, checked in one run: a behaviour  *)
(* is one of StreamPrograms or one of ChatServer, as which chooses at the   *)
(* start.  They do not interact.                                            *)
EXTENDS StreamPrograms, ChatServer

VARIABLE which

StreamSteps(A) == which = "stream" /\ A /\ UNCHANGED <<which, chatVars>>

ChatSteps == which = "chat" /\ ChatNext /\ UNCHANGED <<which, streamVars>>

NetworkInit == StreamInit /\ ChatInit /\ which \in {"stream", "chat"}

NetworkNext == StreamSteps(StreamNext) \/ ChatSteps

(* The programs go on; the peers send when they like.                       *)
NetworkSpec ==
    /\ NetworkInit /\ [][NetworkNext]_<<which, streamVars, chatVars>>
    /\ WF_<<which, streamVars, chatVars>>(StreamSteps(Server))
    /\ WF_<<which, streamVars, chatVars>>(StreamSteps(Poller))

=============================================================================
