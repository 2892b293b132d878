----------------------------- MODULE HourNames ------------------------------
(***************************************************************************)
(* The hours of a year one after the other, each with its directory name:  *)
(* what a name says about the hour it was made from, and what deleteold's  *)
(* ten bytes say about the name.                                           *)
(***************************************************************************)
EXTENDS HourName

CONSTANT Year

ASSUME YearAssumption == Year \in 1000 .. 9999

VARIABLES month, day, hour      \* tm_mon + 1, tm_mday, tm_hour

vars == <<month, day, hour>>

Init == month = 1 /\ day = 1 /\ hour = 0

(* localtime an hour later, within the year.                                *)
NextHour ==
    \/ /\ hour < 23
       /\ hour' = hour + 1
       /\ UNCHANGED <<month, day>>
    \/ /\ hour = 23 /\ day < DaysOf(Year, month)
       /\ hour' = 0 /\ day' = day + 1
       /\ UNCHANGED month
    \/ /\ hour = 23 /\ day = DaysOf(Year, month) /\ month < 12
       /\ hour' = 0 /\ day' = 1 /\ month' = month + 1

Spec == Init /\ [][NextHour]_vars

Name == HourDir(Year, month, day, hour)

(* The dates whose digits are those of today's.                             *)
Readings == {md \in Dates(Year) : Date(md[1], md[2]) = Date(month, day)}

(* The digits of a date do not say where the month ends, 1/11 and 11/1 give *)
(* the same directory; but two dates that share their digits are at least   *)
(* 294 days apart, so a name is unique among the recordings of 293 days.    *)
NamesFarApart ==
    \A md \in Readings :
        md = <<month, day>>
        \/ DayNumber(Year, md[1], md[2]) >= DayNumber(Year, month, day) + 294
        \/ DayNumber(Year, month, day) >= DayNumber(Year, md[1], md[2]) + 294

(* deleteold cuts a name whole unless month, day and hour have two digits   *)
(* each, and what it cuts then is the name of hour 1 or 2 of the same day.  *)
CutIsAnEarlierHour ==
    IF month >= 10 /\ day >= 10 /\ hour >= 10
    THEN CutOut(Name) = HourDir(Year, month, day, hour \div 10)
    ELSE CutOut(Name) = Name

=============================================================================
