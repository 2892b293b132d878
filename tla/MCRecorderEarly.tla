-------------------------- MODULE MCRecorderEarly --------------------------
(* RecorderEarly with the names of MCRecorder.                              *)
EXTENDS RecorderEarly

Hour == INSTANCE HourName

ShortName(h) == Hour!HourDir(2019, 11, 9, h + 8)

CutOf(n) == Hour!CutOut(n)

=============================================================================
