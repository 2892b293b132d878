----------------------------- MODULE MCPrograms -----------------------------
(***************************************************************************)
(* The stand-alone programs in one run: each behaviour is one of theirs,   *)
(* and leaves the variables of the others alone.                           *)
(***************************************************************************)
EXTENDS ShmIntegers, Shell, CopyPrograms, DirPrograms, Listing, ObjectCounter,
        UrgentData, Processes, Viewers, TrainScripts

VARIABLE which      \* the program that runs

MCLines ==
    {<<>>, <<"exit">>, <<"ls">>, <<"cd">>, <<"cd", "src">>, <<"cd", "nowhere">>,
     <<"nothing", "src">>, <<"ls", "src">>, <<"?", "src">>, <<"ls", "src", "src">>}

MCHomePath == <<"hub", "mypro", "Blackbox", "cctv">>

MCCwd == <<"hub", "mypro">>

MCAlphabetical == <<2, 3, 1>>

(* S_IFREG | 0644, S_IFDIR | 01755, S_IFREG | 04710, S_IFSOCK | 02070.      *)
MCModes == {33188, 17389, 35272, 50232}

MCInit ==
    /\ which \in {"integers", "shell", "copy", "directories", "listing", "counter",
                  "urgent", "processes", "viewers", "training"}
    /\ IntInit /\ ShellInit /\ CopyInit /\ DirInit /\ LsInit /\ ObInit /\ OobInit /\ ProcInit
    /\ ViewInit /\ TrainInit
    /\ which # "processes" => exercise = "pip2" /\ tty

MCNext ==
    /\ UNCHANGED which
    /\ \/ /\ which = "integers" /\ IntNext
          /\ UNCHANGED <<shellVars, copyVars, dirVars, lsVars, obVars,
                         oobVars, procVars, viewerVars, trainVars>>
       \/ /\ which = "shell" /\ ShellNext
          /\ UNCHANGED <<intVars, copyVars, dirVars, lsVars, obVars,
                         oobVars, procVars, viewerVars, trainVars>>
       \/ /\ which = "copy" /\ CopyNext
          /\ UNCHANGED <<intVars, shellVars, dirVars, lsVars, obVars,
                         oobVars, procVars, viewerVars, trainVars>>
       \/ /\ which = "directories" /\ DirNext
          /\ UNCHANGED <<intVars, shellVars, copyVars, lsVars, obVars,
                         oobVars, procVars, viewerVars, trainVars>>
       \/ /\ which = "listing" /\ LsNext
          /\ UNCHANGED <<intVars, shellVars, copyVars, dirVars, obVars,
                         oobVars, procVars, viewerVars, trainVars>>
       \/ /\ which = "counter" /\ ObNext
          /\ UNCHANGED <<intVars, shellVars, copyVars, dirVars, lsVars,
                         oobVars, procVars, viewerVars, trainVars>>
       \/ /\ which = "urgent" /\ OobNext
          /\ UNCHANGED <<intVars, shellVars, copyVars, dirVars, lsVars,
                         obVars, procVars, viewerVars, trainVars>>
       \/ /\ which = "processes" /\ ProcNext
          /\ UNCHANGED <<intVars, shellVars, copyVars, dirVars, lsVars,
                         obVars, oobVars, viewerVars, trainVars>>
       \/ /\ which = "viewers" /\ ViewNext
          /\ UNCHANGED <<intVars, shellVars, copyVars, dirVars, lsVars,
                         obVars, oobVars, procVars, trainVars>>
       \/ /\ which = "training" /\ TrainNext
          /\ UNCHANGED <<intVars, shellVars, copyVars, dirVars, lsVars,
                         obVars, oobVars, procVars, viewerVars>>

MCVars == <<which, intVars, shellVars, copyVars, dirVars, lsVars,
            obVars, oobVars, procVars, viewerVars, trainVars>>

MCSpec == MCInit /\ [][MCNext]_MCVars

=============================================================================
