-------------------------- MODULE HourNamesProofs ---------------------------
(***************************************************************************)
(* What HourNames' run checks for the hours of 2019, for every year of     *)
(* four digits.                                                            *)
(***************************************************************************)
EXTENDS HourNames, HourNameProofs

(* The hour is one of the calendar's.                                       *)
CalendarOK ==
    /\ month \in Nat /\ 1 <= month /\ month <= 12
    /\ day \in Nat /\ 1 <= day /\ day <= DaysOf(Year, month)
    /\ hour \in Nat /\ hour <= 23

LEMMA YearType == Year \in Nat /\ FourDigits(Year)
BY YearAssumption DEF FourDigits

THEOREM SpecCalendarOK == Spec => []CalendarOK
<1>1. Init => CalendarOK
  BY MonthLength DEF Init, CalendarOK
<1>2. CalendarOK /\ [NextHour]_vars => CalendarOK'
  <2> SUFFICES ASSUME CalendarOK, [NextHour]_vars
               PROVE  CalendarOK'
    OBVIOUS
  <2>1. CASE UNCHANGED vars
    BY <2>1 DEF CalendarOK, vars
  <2>2. CASE hour < 23 /\ hour' = hour + 1 /\ UNCHANGED <<month, day>>
    BY <2>2 DEF CalendarOK
  <2>3. CASE hour = 23 /\ day < DaysOf(Year, month) /\ hour' = 0 /\ day' = day + 1 /\ UNCHANGED month
    BY <2>3, MonthType DEF CalendarOK
  <2>4. CASE /\ hour = 23 /\ day = DaysOf(Year, month) /\ month < 12
             /\ hour' = 0 /\ day' = 1 /\ month' = month + 1
    <3>1. 1 <= DaysOf(Year, month + 1)
      BY DEF DaysOf
    <3> QED BY <2>4, <3>1 DEF CalendarOK
  <2> QED BY <2>1, <2>2, <2>3, <2>4 DEF NextHour
<1> QED BY <1>1, <1>2, PTL DEF Spec

LEMMA ToDay == CalendarOK => Day(month, day)
BY MonthType DEF CalendarOK, Day

(* In every year a name is unique among the recordings of 293 days.         *)
THEOREM SpecNamesFarApart == Spec => []NamesFarApart
<1>1. CalendarOK => NamesFarApart
  <2> SUFFICES ASSUME CalendarOK, NEW md \in Readings
               PROVE  \/ md = <<month, day>>
                      \/ DayNumber(Year, md[1], md[2]) >= DayNumber(Year, month, day) + 294
                      \/ DayNumber(Year, month, day) >= DayNumber(Year, md[1], md[2]) + 294
    BY DEF NamesFarApart
  <2> DEFINE m == md[1]
             d == md[2]
  <2>1. md = <<m, d>> /\ m \in 1 .. 12 /\ d \in 1 .. 31 /\ Date(m, d) = Date(month, day)
    BY DEF Readings, Dates
  <2> HIDE DEF m, d
  <2>2. m \in Nat /\ d \in Nat /\ Day(m, d)
    BY <2>1 DEF Day
  <2>3. month \in Nat /\ day \in Nat /\ Day(month, day)
    BY ToDay DEF CalendarOK
  <2>4. \/ m = month /\ d = day
        \/ DayNumber(Year, m, d) >= DayNumber(Year, month, day) + 294
        \/ DayNumber(Year, month, day) >= DayNumber(Year, m, d) + 294
    BY <2>1, <2>2, <2>3, DatesFarApart
  <2> QED BY <2>1, <2>4 DEF m, d
<1> QED BY <1>1, SpecCalendarOK, PTL

(* In every year the cut names an hour: its own, or hour 1 or 2 of the day. *)
THEOREM SpecCutIsAnEarlierHour == Spec => []CutIsAnEarlierHour
<1>1. CalendarOK => CutIsAnEarlierHour
  <2> SUFFICES ASSUME CalendarOK PROVE CutIsAnEarlierHour
    OBVIOUS
  <2>1. month \in Nat /\ month <= 12 /\ day \in Nat /\ day <= 31 /\ hour \in Nat /\ hour <= 23
    BY ToDay DEF CalendarOK, Day
  <2>2. CutOut(HourDir(Year, month, day, hour)) =
            IF month >= 10 /\ day >= 10 /\ hour >= 10
            THEN HourDir(Year, month, day, hour \div 10)
            ELSE HourDir(Year, month, day, hour)
    BY <2>1, YearType, CutOfName
  <2>3. CASE month >= 10 /\ day >= 10 /\ hour >= 10
    BY <2>2, <2>3 DEF CutIsAnEarlierHour, Name
  <2>4. CASE ~(month >= 10 /\ day >= 10 /\ hour >= 10)
    BY <2>2, <2>4 DEF CutIsAnEarlierHour, Name
  <2> QED BY <2>3, <2>4
<1> QED BY <1>1, SpecCalendarOK, PTL

=============================================================================
