----------------------------- MODULE Retention -----------------------------
(***************************************************************************)
(* What the recorder's store promises to somebody who looks for a          *)
(* recording afterwards: recordings are kept in the order they were made,  *)
(* and what goes is one of the oldest hour.  Only when the listing was out *)
(* of line may any recording go.  Threads, directories, the rm child and   *)
(* launches are not seen here.                                             *)
(***************************************************************************)
EXTENDS Naturals

CONSTANTS
    Recordings,     \* a set of seconds
    HourOf(_)       \* the hour of a second

VARIABLES
    kept,           \* the recordings in the store
    misaligned      \* whether the listing is out of line

Init == kept = {} /\ misaligned = FALSE

(* A recording is never older than one that is kept.  The recording of the  *)
(* same second may be made again.                                           *)
Keep ==
    /\ \E f \in Recordings : (\A g \in kept : g <= f) /\ kept' = kept \cup {f}
    /\ UNCHANGED misaligned

DropOfOldestHour ==
    /\ \E f \in kept :
          /\ \A g \in kept : HourOf(f) <= HourOf(g)
          /\ kept' = kept \ {f}
    /\ UNCHANGED misaligned

DropAny ==
    /\ misaligned
    /\ \E f \in kept : kept' = kept \ {f}
    /\ UNCHANGED misaligned

List == misaligned' \in BOOLEAN /\ UNCHANGED kept

Next == Keep \/ DropOfOldestHour \/ DropAny \/ List

Spec == Init /\ [][Next]_<<kept, misaligned>>

=============================================================================
