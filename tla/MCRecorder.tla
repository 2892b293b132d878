----------------------------- MODULE MCRecorder -----------------------------
(* Instances of Recorder: the hours are three successive hours of one day,  *)
(* named as the code names them.                                            *)
EXTENDS Recorder

Hour == INSTANCE HourName

(* The 9th of November 2019 from 8 o'clock: names of nine and ten bytes,    *)
(* which deleteold cuts out whole.                                          *)
ShortName(h) == Hour!HourDir(2019, 11, 9, h + 8)

(* The 10th from 9 o'clock: the second name has eleven bytes.               *)
LongName(h) == Hour!HourDir(2019, 11, 10, h + 9)

CutOf(n) == Hour!CutOut(n)

(* What the theorems on the order of the recordings suppose of the names    *)
(* holds of the hours of every run.                                         *)
ASSUME InstanceNames == NamesInOrder

=============================================================================
