--------------------------- MODULE RecorderEarly ---------------------------
(***************************************************************************)
(* The recorder before it had a signal handler, blackbox/webcam_save.cpp.  *)
(* thread_save, thread_delete, deleteold, dfopen and dfget are, word for   *)
(* word, those of webcam_savesave.cpp; main is not: it starts the threads  *)
(* and spins in while(1), and SIGINT keeps its default action.  A main     *)
(* that spins stands at "signal", where the later main installs the        *)
(* handler.                                                                *)
(***************************************************************************)
EXTENDS Recorder

(* The kernel runs the default action of SIGINT in a process that has not   *)
(* returned from system().  The Variant is a program that runs rm with      *)
(* popen and pclose, which do not make it ignore SIGINT.                    *)
EarlyStopVariant ==
    /\ mainpc \in {"mkdirs", "save", "delete", "signal"}
    /\ ProcessEnds
    /\ UNCHANGED rmVars

EarlyStop == InterruptEarly

EarlyMakeDirectory == MakeDirectory

EarlySave == Save

EarlyDfOpen == DfOpen \/ DfOpenFails

EarlyDeleteOld == List \/ ListNothing \/ ListFails \/ Return

EarlyDelete == EarlyDfOpen \/ Df \/ EarlyDeleteOld \/ Wake

(* The loop at the end of main has no action.                               *)
EarlyMain == Launch \/ EarlyMakeDirectory \/ CreateSave \/ CreateDelete

EarlyNext == EarlyMain \/ EarlySave \/ EarlyDelete \/ EarlyStop \/ Rm \/ Tick \/ PowerLoss

EarlySpec == Init /\ [][EarlyNext]_vars

-----------------------------------------------------------------------------

(* An rm never outlives the program that started it.  The later recorder    *)
(* does not have this property: its handler's exit(0) may come, ten seconds *)
(* after the signal, while rm is at work, and the next launch would then    *)
(* record into a tree that is being removed.                                *)
NoOrphan == rm # "idle" => delpc = "wait"

=============================================================================
