------------------------------ MODULE HourName ------------------------------
(***************************************************************************)
(* The names blackbox/webcam_savesave.cpp gives to its directories, one    *)
(* per hour, and the ten bytes deleteold cuts out of a listing to get such *)
(* a name back.                                                            *)
(*                                                                         *)
(* A name is a sequence of digits and of the separator "_", which is       *)
(* written as the number 10 so that the elements of a name are comparable. *)
(* The dates are those of localtime.                                       *)
(***************************************************************************)
EXTENDS Naturals, Sequences, FiniteSets

Underscore == 10

(* The digits "%d" prints: no padding.                                      *)
Decimal[n \in Nat] ==
    IF n < 10 THEN <<n>> ELSE Append(Decimal[n \div 10], n % 10)

(* The date without its year; the variant forgets the month.                *)
DateVariant(month, day) == Decimal[day]

Date(month, day) == Decimal[month] \o Decimal[day]

(* sprintf(buf_dirname, "%d%d%d_%d", year, month, day, hour)                *)
HourDir(year, month, day, hour) ==
    Decimal[year] \o Date(month, day) \o <<Underscore>> \o Decimal[hour]

(* The bytes of the first listed name that deleteold copies into result.  A *)
(* shorter name is followed there by "/" and a newline, neither of which    *)
(* changes the path rm is given.  The variant cuts one byte less.           *)
SliceLengthVariant == 9

SliceLength == 10

CutOut(name) ==
    IF Len(name) <= SliceLength THEN name ELSE SubSeq(name, 1, SliceLength)

-----------------------------------------------------------------------------
(* The calendar: the dates <<tm_mon + 1, tm_mday>> of a year, and the days  *)
(* from its beginning, a month at a time.                                   *)

LeapYear(y) == y % 4 = 0 /\ (y % 100 # 0 \/ y % 400 = 0)

DaysOf(y, m) ==
    CASE m = 2 -> IF LeapYear(y) THEN 29 ELSE 28
      [] m \in {4, 6, 9, 11} -> 30
      [] OTHER -> 31

Dates(y) == {md \in (1 .. 12) \X (1 .. 31) : md[2] <= DaysOf(y, md[1])}

DayNumber(y, m, d) == d + Cardinality({md \in Dates(y) : md[1] < m})

=============================================================================
