--------------------------- MODULE ObjectCounter ---------------------------
(***************************************************************************)
(* The detectors object_detector.py ("first"), object_detector_edit.py     *)
(* ("edit"), object_detector_count.py and object_detector_ui.py: what one  *)
(* method leaves in self for the next, frame by frame.  All but "count",   *)
(* whose main loop is in a string, have a loop over a video.  "count" and  *)
(* "ui" call detect_objects, object_boxdraw and count_inbox, the others    *)
(* detect_objects alone.                                                   *)
(*                                                                         *)
(* Abstractions.  The detections of a frame are given by whether each is a *)
(* person in the zone with a score of 50 or more; the network, the boxes'  *)
(* coordinates and the drawing are left out.                               *)
(***************************************************************************)
EXTENDS Integers, FiniteSets, SequencesExt

CONSTANTS
    MaxFrames,      \* bound: frames of the video
    MaxDetections   \* 100

ASSUME CounterAssumption == MaxFrames \in Nat /\ MaxDetections \in Nat

VARIABLES
    counter,    \* "none", "count", "ui", "first", "edit": which of the four
    obAt,       \* "load", "video", "read", "detect", "draw", "inbox", "key",
                \* "over", "finish", "raised"
    writer,     \* the output video: "none", "open", "released"
    frames,     \* frames read so far
    frame,      \* the detections of the frame
    boxes,      \* self.xmin and the three others, as their common length
    obCount,    \* self.ob_count, -1 before it exists
    dots,       \* self.dot, as the number of dots computed
    dotCount,   \* what count_inbox counted
    ended,      \* whether read gave None
    lastSeen    \* history: detections of the last frame that had some

obVars == <<counter, obAt, writer, frames, frame, boxes, obCount, dots, dotCount, ended, lastSeen>>

ObInit ==
    /\ counter = "none" /\ obAt = "load" /\ writer = "none" /\ frames = 0 /\ frame = <<>>
    /\ boxes = 0 /\ obCount = -1 /\ dots = 0 /\ dotCount = 0
    /\ ended = FALSE /\ lastSeen = 0

-----------------------------------------------------------------------------

(* __init__: the graph and the label map are read from fixed paths; without *)
(* one of them the program ends with the exception.                         *)
Loads(program) ==
    /\ obAt = "load"
    /\ counter' = program
    /\ obAt' \in {"video", "raised"}
    /\ UNCHANGED <<writer, frames, frame, boxes, obCount, dots, dotCount, ended, lastSeen>>

LoadCount == Loads("count")

LoadUi == Loads("ui")

LoadFirst == Loads("first")

LoadEdit == Loads("edit")

(* The main programs open the video, and all but object_detector.py, where  *)
(* the lines are in a string, a writer for the result.  "count" is imported *)
(* by others, whose writer is not its own.                                  *)
Opens(program, w) ==
    /\ obAt = "video" /\ counter = program
    /\ writer' = w
    /\ obAt' = "read"
    /\ UNCHANGED <<counter, frames, frame, boxes, obCount, dots, dotCount, ended, lastSeen>>

OpenCount == Opens("count", "none")

OpenUi == Opens("ui", "open")

OpenFirst == Opens("first", "none")

OpenEdit == Opens("edit", "open")

(* What run_inference finds: those of its MaxDetections places whose score  *)
(* is not 0 come first.                                                     *)
RunInference == UNION {[1 .. n -> BOOLEAN] : n \in 0 .. MaxDetections}

ReadFrame ==
    /\ obAt = "read" /\ frames < MaxFrames
    /\ frame' \in RunInference
    /\ frames' = frames + 1
    /\ obAt' = "detect"
    /\ UNCHANGED <<counter, writer, boxes, obCount, dots, dotCount, ended, lastSeen>>

(* At the end of the video the frame is None, which resize and the slice in *)
(* detect_objects do not take: the test for None comes too late.            *)
ReadNone ==
    /\ obAt = "read"
    /\ ended' = TRUE
    /\ obAt' = "raised"
    /\ UNCHANGED <<counter, writer, frames, frame, boxes, obCount, dots, dotCount, lastSeen>>

Detected ==
    /\ boxes' = Len(frame)
    /\ lastSeen' = IF frame = <<>> THEN lastSeen ELSE Len(frame)
    /\ obAt' = "draw"
    /\ UNCHANGED <<counter, writer, frames, frame, dots, dotCount, ended>>

(* ob_count is reset, and then the index of the last detection: a frame     *)
(* with one detection has the count of a frame with none.  A definition     *)
(* whose name ends in Variant is a wrong form of the one it precedes: the   *)
(* properties are checked to tell the two apart.                            *)
ObCountVariant == IF frame = <<>> THEN obCount ELSE Len(frame) - 1

ObCount == IF frame = <<>> THEN 0 ELSE Len(frame) - 1

DetectObjects ==
    /\ obAt = "detect" /\ counter = "count"
    /\ obCount' = ObCount
    /\ Detected

(* The other program does not reset it.                                     *)
DetectObjectsUi ==
    /\ obAt = "detect" /\ counter = "ui"
    /\ obCount' = IF frame = <<>> THEN obCount ELSE Len(frame) - 1
    /\ Detected

(* The other two keep nothing.  "first" returns the place of detection 0,   *)
(* which its main draws even when there is none; in "edit" the tracking of  *)
(* boxes from frame to frame is in a string, and boxcoordi stays 0.         *)
DetectOne ==
    /\ obAt' = "key"
    /\ UNCHANGED <<counter, writer, frames, frame, boxes, obCount, dots, dotCount, ended, lastSeen>>

DetectObjectsFirst == obAt = "detect" /\ counter = "first" /\ DetectOne

DetectObjectsEdit == obAt = "detect" /\ counter = "edit" /\ DetectOne

(* Dots 0 to ob_count, from as many boxes: AttributeError when there is no  *)
(* ob_count yet, IndexError when there are fewer boxes.                     *)
ObjectBoxdraw ==
    /\ obAt = "draw"
    /\ IF obCount = -1 \/ (obCount # 0 /\ boxes <= obCount)
       THEN obAt' = "raised" /\ UNCHANGED dots
       ELSE obAt' = "inbox" /\ dots' = (IF obCount = 0 THEN 0 ELSE obCount + 1)
    /\ UNCHANGED <<counter, writer, frames, frame, boxes, obCount, dotCount, ended, lastSeen>>

CountInbox ==
    /\ obAt = "inbox"
    /\ dotCount' = Cardinality({i \in 1 .. dots : frame[i]})
    /\ obAt' = "key"
    /\ UNCHANGED <<counter, writer, frames, frame, boxes, obCount, dots, ended, lastSeen>>

(* The keys: q ends the loop and s reads on; a, which would read on by      *)
(* range(60,0), does nothing, and "edit" does not have it.                  *)
Keys ==
    /\ obAt = "key"
    /\ \/ obAt' = "over" /\ UNCHANGED frames
       \/ obAt' = "read" /\ frames' \in {frames, MaxFrames}
    /\ UNCHANGED <<counter, writer, frame, boxes, obCount, dots, dotCount, ended, lastSeen>>

Key == counter \in {"count", "ui"} /\ Keys

KeyFirst == counter = "first" /\ Keys

KeyEdit == counter = "edit" /\ Keys

(* The clean-up of "ui" and "edit".                                         *)
CleanUp ==
    /\ obAt = "over" /\ counter # "first"
    /\ writer' = IF writer = "open" THEN "released" ELSE writer
    /\ obAt' = "finish"
    /\ UNCHANGED <<counter, frames, frame, boxes, obCount, dots, dotCount, ended, lastSeen>>

(* The writer that object_detector.py releases was never made.              *)
CleanUpFirst ==
    /\ obAt = "over" /\ counter = "first"
    /\ obAt' = "raised"
    /\ UNCHANGED <<counter, writer, frames, frame, boxes, obCount, dots, dotCount, ended, lastSeen>>

ObNext ==
    \/ LoadCount \/ LoadUi \/ LoadFirst \/ LoadEdit
    \/ OpenCount \/ OpenUi \/ OpenFirst \/ OpenEdit
    \/ ReadFrame \/ ReadNone
    \/ DetectObjects \/ DetectObjectsUi \/ DetectObjectsFirst \/ DetectObjectsEdit
    \/ ObjectBoxdraw \/ CountInbox
    \/ Key \/ KeyFirst \/ KeyEdit \/ CleanUp \/ CleanUpFirst

-----------------------------------------------------------------------------

(* object_detector_count.py:135 and :145, object_detector_ui.py:140: what   *)
(* is counted are this frame's persons, whatever the frames before it left  *)
(* in self, except that a detection that is alone is not counted.  Once it  *)
(* runs, "count" and "edit" raise nothing before the end of the video; "ui" *)
(* does at a frame without detections, unless the last frame that had some  *)
(* had one.  object_detector.py:249: "first" never prints its last line,    *)
(* however it is left, and no program whose video comes to its end releases *)
(* the file it writes.                                                      *)
CountsThisFrame ==
    /\ obAt = "key" /\ counter \in {"count", "ui"} =>
          dotCount = IF Len(frame) = 1 THEN 0 ELSE Cardinality({i \in DOMAIN frame : frame[i]})
    /\ obAt = "raised" /\ ~ended /\ frames # 0 =>
          counter = "first" \/ (counter = "ui" /\ frame = <<>> /\ lastSeen # 1)
    /\ obAt = "finish" => counter # "first" /\ writer # "open"
    /\ ended => writer # "released"

=============================================================================
