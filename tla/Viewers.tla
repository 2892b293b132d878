------------------------------ MODULE Viewers ------------------------------
(***************************************************************************)
(* The programs that show a camera, a video or a picture in a window.  All *)
(* have the same loop - read a frame, show it, wait for a key, clean up -  *)
(* and differ in what they test and what they give back: one record for    *)
(* each says that.  0211.py shows frames in a figure of matplotlib, whose  *)
(* events run its two callbacks while the loop waits in flush_events.      *)
(*                                                                         *)
(* Abstractions.  Frames have no content; what a program does to a frame   *)
(* before it shows it (flip, Canny, split) is left out; a key is one that  *)
(* ends the program or one that does not.                                  *)
(***************************************************************************)
EXTENDS Integers, FiniteSets

CONSTANTS
    EdgeThreshold,  \* 40, where cannyDetection.py starts
    MaxThreshold    \* bound: the threshold it is raised to

ASSUME ViewerAssumption == EdgeThreshold \in Nat /\ MaxThreshold \in Nat

VARIABLES
    viewer,     \* which program
    vAt,        \* "start", "first", "loop", "key", "clean", "end", "raised"
    capture,     \* the camera or file: "shut", "live", "released"
    window,     \* "none", "open", "closed" by the user
    canny,      \* the settings of cannyDetection.py
    turns       \* quarter turns of event_press.py's picture

viewerVars == <<viewer, vAt, capture, window, canny, turns>>

ViewInit ==
    /\ viewer = "none" /\ vAt = "start" /\ capture = "shut" /\ window = "none"
    /\ canny = [shows |-> 3, help |-> TRUE, threshold |-> EdgeThreshold, full |-> FALSE]
    /\ turns = 0

-----------------------------------------------------------------------------

(* asks: it tests that the capture is open before the loop; tests: it leaves*)
(* the loop when there is no frame, where the others hand the empty frame   *)
(* to a function that raises; fails: so does the first frame, by a name     *)
(* that is not defined; once: it shows one picture; last: how its clean-up  *)
(* can end.                                                                 *)
Program(asks, tests, fails, once, last) ==
    [asks |-> asks, tests |-> tests, fails |-> fails, once |-> once, last |-> last]

WebcamCpp    == Program(FALSE, FALSE, FALSE, FALSE, {"end"})
WebcamF      == Program(FALSE, TRUE,  FALSE, FALSE, {"end"})
WebcamRotate == Program(FALSE, FALSE, FALSE, FALSE, {"end"})
WebcamPy     == Program(TRUE,  FALSE, TRUE,  FALSE, {"end"})
WTest        == Program(TRUE,  FALSE, FALSE, FALSE, {"end"})

(* It destroys a window it never made: an error, or nothing, by the version *)
(* of the library.                                                          *)
WTest2       == Program(TRUE,  FALSE, FALSE, FALSE, {"end", "raised"})
Camera       == Program(FALSE, FALSE, FALSE, FALSE, {"end"})
Canny        == Program(TRUE,  FALSE, FALSE, FALSE, {"end"})
VideoFile    == Program(FALSE, TRUE,  FALSE, FALSE, {"end"})
VideoNet     == Program(FALSE, TRUE,  FALSE, FALSE, {"end"})
UTube        == Program(FALSE, TRUE,  TRUE,  FALSE, {"end"})
Figure       == Program(FALSE, TRUE,  FALSE, FALSE, {"end"})

(* Pictures.  event_press.py and merge.py misspell destroyAllWindows.       *)
ReadCpp      == Program(FALSE, TRUE,  FALSE, TRUE,  {"end"})
ImagePro     == Program(FALSE, TRUE,  FALSE, TRUE,  {"end"})
EventPress   == Program(FALSE, FALSE, FALSE, TRUE,  {"raised"})
Merge        == Program(FALSE, FALSE, FALSE, TRUE,  {"raised"})
ImRead       == Program(FALSE, FALSE, FALSE, TRUE,  {"end"})
Crop         == Program(FALSE, FALSE, FALSE, TRUE,  {"end"})

ViewerPrograms ==
    [webcam |-> WebcamCpp, webcamf |-> WebcamF, rotate |-> WebcamRotate, webcam_py |-> WebcamPy,
     wtest |-> WTest, wtest2 |-> WTest2, camera |-> Camera, canny |-> Canny,
     video |-> VideoFile, net |-> VideoNet, utube |-> UTube, figure |-> Figure,
     read |-> ReadCpp, imagepro |-> ImagePro, event_press |-> EventPress, merge |-> Merge,
     imread |-> ImRead, crop |-> Crop]

This == ViewerPrograms[viewer]

-----------------------------------------------------------------------------

(* The capture opens or not.  Only those that ask look; cannyDetection.py   *)
(* then still releases, the others are at their end.  Those that ask, and   *)
(* the figure, have a window before the first frame.                        *)
OpenSource ==
    /\ vAt = "start"
    /\ viewer' \in DOMAIN ViewerPrograms
    /\ capture' \in {"shut", "live"}
    /\ LET asks == ViewerPrograms[viewer'].asks
       IN  /\ vAt' = IF viewer' = "figure" THEN "first"
                    ELSE IF ~asks \/ capture' = "live" THEN "loop"
                    ELSE IF viewer' = "canny" THEN "clean" ELSE "end"
           /\ window' = IF vAt' = "first" \/ (asks /\ vAt' = "loop") THEN "open" ELSE "none"
    /\ UNCHANGED <<canny, turns>>

(* utube.py asks the site first, which may raise.                           *)
NoSuchVideo ==
    /\ vAt = "start"
    /\ viewer' = "utube" /\ vAt' = "raised"
    /\ UNCHANGED <<capture, window, canny, turns>>

(* The first frame of the figure is converted without a test.               *)
FirstFrame ==
    /\ vAt = "first"
    /\ vAt' \in IF capture = "live" THEN {"loop", "raised"} ELSE {"raised"}
    /\ UNCHANGED <<viewer, capture, window, canny, turns>>

(* cannyDetection.py, alone, looks at the top of the loop whether the user  *)
(* closed the window.                                                       *)
SeesClosed == viewer = "canny" /\ window = "closed"

WindowGone ==
    /\ vAt = "loop" /\ SeesClosed
    /\ vAt' = "clean"
    /\ UNCHANGED <<viewer, capture, window, canny, turns>>

(* A frame is shown in a window, which imshow opens again when the user     *)
(* closed it.                                                               *)
ShowFrame ==
    /\ vAt = "loop" /\ ~SeesClosed /\ capture = "live"
    /\ window' = "open"
    /\ vAt' = IF This.fails THEN "raised" ELSE "key"
    /\ UNCHANGED <<viewer, capture, canny, turns>>

(* The end of the video, a camera that does not answer, a capture that is   *)
(* not open.                                                                *)
NoFrame ==
    /\ vAt = "loop" /\ ~SeesClosed
    /\ vAt' = IF This.tests THEN "clean" ELSE "raised"
    /\ UNCHANGED <<viewer, capture, window, canny, turns>>

(* waitKey handles the window's events: no key, or one that does nothing.   *)
KeepOn ==
    /\ vAt = "key" /\ ~This.once
    /\ vAt' = "loop"
    /\ UNCHANGED <<viewer, capture, window, canny, turns>>

EndKey ==
    /\ vAt = "key" /\ viewer # "figure"
    /\ vAt' = "clean"
    /\ UNCHANGED <<viewer, capture, window, canny, turns>>

(* The user closes the window: waitKey returns without a key, which ends    *)
(* the wait of those that show one picture.                                 *)
CloseWindow ==
    /\ vAt = "key" /\ viewer # "figure"
    /\ window' = "closed"
    /\ vAt' = IF This.once THEN "clean" ELSE "loop"
    /\ UNCHANGED <<viewer, capture, canny, turns>>

(* event_press.py: a press shows the picture turned, in the same window.    *)
OnPress ==
    /\ vAt = "key" /\ viewer = "event_press" /\ window = "open"
    /\ turns' = (turns + 1) % 4
    /\ UNCHANGED <<viewer, vAt, capture, window, canny>>

(* cannyDetection.py: the other keys.                                       *)
CannyKey ==
    /\ vAt = "key" /\ viewer = "canny"
    /\ vAt' = "loop"
    /\ \/ \E k \in 1 .. 3 : canny' = [canny EXCEPT !.shows = k]
       \/ canny' = [canny EXCEPT !.help = ~@]
       \/ canny' = [canny EXCEPT !.full = ~@]
       \/ canny' = [canny EXCEPT !.threshold = IF @ = 0 THEN 0 ELSE @ - 1]
       \/ canny.threshold < MaxThreshold /\ canny' = [canny EXCEPT !.threshold = @ + 1]
    /\ UNCHANGED <<viewer, capture, window, turns>>

(* The callbacks of the figure, in flush_events: escape closes the figure,  *)
(* and however it is closed the capture is released, so that the next read *)
(* gives no frame.                                                          *)
SourceAfterCloseVariant == capture

SourceAfterClose == "released"

HandleClose ==
    /\ vAt = "key" /\ viewer = "figure"
    /\ window' = "closed" /\ capture' = SourceAfterClose
    /\ vAt' = "loop"
    /\ UNCHANGED <<viewer, canny, turns>>

HandleKeyPress ==
    /\ vAt = "key" /\ viewer = "figure"
    /\ window' = "closed" /\ capture' = "released"
    /\ vAt' = "loop"
    /\ UNCHANGED <<viewer, canny, turns>>

(* release and destroyAllWindows, or the destructors of the C++ programs.   *)
ViewerCleanUp ==
    /\ vAt = "clean"
    /\ capture' = IF capture = "live" THEN "released" ELSE capture
    /\ window' = "none"
    /\ vAt' \in This.last
    /\ UNCHANGED <<viewer, canny, turns>>

ViewNext ==
    \/ OpenSource \/ NoSuchVideo \/ FirstFrame \/ WindowGone \/ ShowFrame \/ NoFrame
    \/ KeepOn \/ EndKey \/ CloseWindow \/ OnPress \/ CannyKey
    \/ HandleClose \/ HandleKeyPress \/ ViewerCleanUp

-----------------------------------------------------------------------------

(* cannyDetection.py:61, 0211.py:11: these two programs, and the pictures,  *)
(* show nothing more once the user has closed their window - the others     *)
(* open it again with the next frame - and no program that comes to its end *)
(* without an exception leaves the capture open.                            *)
ClosedStaysClosed ==
    [][/\ vAt = "loop" /\ vAt' = "key" /\ window = "closed" =>
             ~This.once /\ viewer \notin {"canny", "figure"}
       /\ vAt' = "end" => capture' # "live"]_viewerVars

=============================================================================
