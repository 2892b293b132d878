------------------------ MODULE RecorderOrderProofs ------------------------
(***************************************************************************)
(* Theorems about the order of things in Recorder, for every value of the  *)
(* constants whose names are in order: what rm deletes is the oldest, a    *)
(* file is only truncated by its own second, the file being written stays, *)
(* a name that is too long blocks deletion for good, and the recorder      *)
(* implements the abstract store.  The early recorder takes no step the    *)
(* later one could not take, and inherits its theorems; and it never       *)
(* leaves an rm behind, which the later one may.                           *)
(***************************************************************************)
EXTENDS RecorderEarly, RecorderProofs, HourNameProofs

USE DEF vars, threadVars, saveVars, deleteVars, rmVars, diskVars,
        ParentThere, StillRaw, StillStarved, Released, FirstRow, RowName

-----------------------------------------------------------------------------
(* Seconds and hours.                                                       *)

LEMMA DivMod ==
    ASSUME NEW n \in Nat, NEW h \in Nat \ {0}
    PROVE  /\ n \div h \in Nat /\ n % h \in 0 .. h - 1
           /\ n = h * (n \div h) + (n % h)
OBVIOUS

LEMMA TimesOrder ==
    ASSUME NEW a \in Nat, NEW b \in Nat, a < b, NEW h \in Nat \ {0}
    PROVE  h * a \in Nat /\ h * b \in Nat /\ h * a + h <= h * b
OBVIOUS

LEMMA DivOrder ==
    ASSUME NEW s \in Nat, NEW t \in Nat, s <= t, NEW h \in Nat \ {0}
    PROVE  s \div h <= t \div h
<1> DEFINE q == s \div h
           r == t \div h
           u == s % h
           v == t % h
<1>1. /\ q \in Nat /\ u \in 0 .. h - 1 /\ s = h * q + u
      /\ r \in Nat /\ v \in 0 .. h - 1 /\ t = h * r + v
  BY DivMod
<1> HIDE DEF q, r, u, v
<1>2. ASSUME r < q PROVE FALSE
  <2> DEFINE x == h * r
             y == h * q
  <2>1. x \in Nat /\ y \in Nat /\ x + h <= y /\ s = y + u /\ t = x + v
    BY <1>1, <1>2, TimesOrder
  <2> HIDE DEF x, y
  <2>2. QED
    BY <1>1, <2>1
<1>3. QED
  BY <1>1, <1>2 DEF q, r

LEMMA HourFacts ==
    /\ \A t \in Seconds : HourOf(t) \in Nat /\ t \in Nat /\ DirOf(t) \in Names
    /\ \A s, t \in Seconds : s <= t => HourOf(s) <= HourOf(t)
    /\ \A s, t \in Seconds : HourOf(s) = HourOf(t) => DirOf(s) = DirOf(t)
<1>1. Seconds \subseteq Nat /\ SecondsPerHour \in Nat \ {0}
  BY ConstantFacts DEF Seconds
<1>2. \A t \in Seconds : HourOf(t) \in Nat /\ DirOf(t) \in Names
  BY <1>1, ConstantFacts, DivMod DEF HourOf
<1>3. \A s, t \in Seconds : s <= t => HourOf(s) <= HourOf(t)
  BY <1>1, DivOrder DEF HourOf
<1>4. QED
  BY <1>1, <1>2, <1>3 DEF DirOf

(* The second is known from its path: the directory tells the hour, the     *)
(* name the second in it.                                                   *)
LEMMA PathsDiffer ==
    ASSUME NamesInOrder, NEW s \in Seconds, NEW t \in Seconds, PathOf(s) = PathOf(t)
    PROVE  s = t
<1>1. s \in Nat /\ t \in Nat /\ SecondsPerHour \in Nat \ {0}
  BY ConstantFacts DEF Seconds
<1>2. DirOf(s) = DirOf(t) /\ s % SecondsPerHour = t % SecondsPerHour
  BY DEF PathOf
<1>3. s \div SecondsPerHour = t \div SecondsPerHour
  BY <1>2 DEF NamesInOrder, HourOf
<1>4. QED
  BY <1>1, <1>2, <1>3, DivMod

-----------------------------------------------------------------------------
(* The names of the calendar are in order                                   *)

(* An hour of localtime.                                                    *)
IsHour(p) ==
    /\ p.year \in Nat /\ p.month \in Nat /\ p.day \in Nat /\ p.hour \in Nat
    /\ FourDigits(p.year) /\ Day(p.month, p.day) /\ p.hour <= 23

DayOf(p) == DayNumber(p.year, p.month, p.day)

Earlier(p, q) ==
    \/ p.year < q.year
    \/ /\ p.year = q.year
       /\ DayOf(p) < DayOf(q) \/ (DayOf(p) = DayOf(q) /\ p.hour < q.hour)

NameOf(p) == HourDir(p.year, p.month, p.day, p.hour)

LEMMA NameTells ==
    ASSUME NEW p, NEW q, IsHour(p), IsHour(q), NEW h \in Nat,
           NameOf(q) = HourDir(p.year, p.month, p.day, h)
    PROVE  q.year = p.year /\ Date(q.month, q.day) = Date(p.month, p.day) /\ q.hour = h
<1>1. HourDir(q.year, q.month, q.day, q.hour) = HourDir(p.year, p.month, p.day, h)
  BY DEF NameOf
<1>2. /\ p.year \in Nat /\ p.month \in Nat /\ p.day \in Nat /\ FourDigits(p.year)
      /\ q.year \in Nat /\ q.month \in Nat /\ q.day \in Nat /\ q.hour \in Nat /\ FourDigits(q.year)
  BY DEF IsHour
<1> QED BY ONLY <1>1, <1>2, h \in Nat, SameName

LEMMA SameHour ==
    ASSUME NEW p, NEW q, IsHour(p), IsHour(q),
           NEW h \in Nat, NameOf(q) = HourDir(p.year, p.month, p.day, h),
           p.year = q.year => DayOf(q) < DayOf(p) + 294 /\ DayOf(p) < DayOf(q) + 294
    PROVE  p.year = q.year /\ DayOf(p) = DayOf(q) /\ q.hour = h
<1>1. p.year = q.year /\ Date(p.month, p.day) = Date(q.month, q.day) /\ q.hour = h
  BY NameTells
<1>2. \/ p.month = q.month /\ p.day = q.day
      \/ DayNumber(p.year, p.month, p.day) >= DayNumber(p.year, q.month, q.day) + 294
      \/ DayNumber(p.year, q.month, q.day) >= DayNumber(p.year, p.month, p.day) + 294
  BY <1>1, DatesFarApart DEF IsHour
<1>3. DayOf(p) \in Nat /\ DayOf(q) \in Nat
  BY DayNumberType DEF IsHour, DayOf
<1> QED BY <1>1, <1>2, <1>3 DEF DayOf

(* When the hours of a behaviour are hours of the calendar, one after the   *)
(* other and of a year no two more than 293 days apart, and the code names  *)
(* them and cuts their names, then the names are in order: what the         *)
(* theorems above suppose is what sprintf and deleteold provide.            *)
THEOREM CalendarNames ==
    ASSUME NEW at,
           \A t \in Seconds : /\ IsHour(at[HourOf(t)])
                              /\ DirOf(t) = NameOf(at[HourOf(t)])
                              /\ CutName(DirOf(t)) = CutOut(DirOf(t)),
           \A s, t \in Seconds :
               HourOf(s) < HourOf(t) =>
                   /\ Earlier(at[HourOf(s)], at[HourOf(t)])
                   /\ at[HourOf(s)].year = at[HourOf(t)].year =>
                         DayOf(at[HourOf(t)]) <= DayOf(at[HourOf(s)]) + 293
    PROVE  NamesInOrder
<1> SUFFICES ASSUME NEW s \in Seconds, NEW t \in Seconds
             PROVE  /\ DirOf(s) = DirOf(t) => HourOf(s) = HourOf(t)
                    /\ CutName(DirOf(s)) = DirOf(t) => HourOf(t) <= HourOf(s)
  BY DEF NamesInOrder
<1> DEFINE p == at[HourOf(s)]
           q == at[HourOf(t)]
<1>1. /\ IsHour(p) /\ IsHour(q) /\ DirOf(s) = NameOf(p) /\ DirOf(t) = NameOf(q)
      /\ CutName(DirOf(s)) = CutOut(NameOf(p))
  OBVIOUS
<1>2. /\ HourOf(s) < HourOf(t) => Earlier(p, q) /\ (p.year = q.year => DayOf(q) <= DayOf(p) + 293)
      /\ HourOf(t) < HourOf(s) => Earlier(q, p) /\ (q.year = p.year => DayOf(p) <= DayOf(q) + 293)
  OBVIOUS
<1>3. HourOf(s) \in Nat /\ HourOf(t) \in Nat
  BY HourFacts
<1> HIDE DEF p, q
<1>4. /\ p.hour \in Nat /\ q.hour \in Nat /\ DayOf(p) \in Nat /\ DayOf(q) \in Nat
      /\ p.year \in Nat /\ q.year \in Nat
  BY <1>1, DayNumberType DEF IsHour, DayOf
<1>5. p.year = q.year => DayOf(q) < DayOf(p) + 294 /\ DayOf(p) < DayOf(q) + 294
  <2>1. CASE HourOf(s) < HourOf(t)
    BY <1>2, <1>4, <2>1 DEF Earlier
  <2>2. CASE HourOf(t) < HourOf(s)
    BY <1>2, <1>4, <2>2 DEF Earlier
  <2>3. CASE HourOf(s) = HourOf(t)
    <3>1. p = q
      BY <2>3 DEF p, q
    <3> QED BY <1>4, <3>1
  <2> QED BY <1>3, <2>1, <2>2, <2>3
<1>6. ASSUME NEW h \in Nat, h <= p.hour, NameOf(q) = HourDir(p.year, p.month, p.day, h)
      PROVE  HourOf(t) <= HourOf(s) /\ (h = p.hour => HourOf(s) = HourOf(t))
  <2>1. p.year = q.year /\ DayOf(p) = DayOf(q) /\ q.hour = h
    BY <1>1, <1>5, <1>6, SameHour
  <2>2. ~(HourOf(s) < HourOf(t))
    BY <1>2, <1>4, <1>6, <2>1 DEF Earlier
  <2>3. h = p.hour => ~(HourOf(t) < HourOf(s))
    BY <1>2, <1>4, <1>6, <2>1 DEF Earlier
  <2> QED BY <1>3, <2>2, <2>3
<1>7. ASSUME DirOf(s) = DirOf(t) PROVE HourOf(s) = HourOf(t)
  <2>1. NameOf(q) = HourDir(p.year, p.month, p.day, p.hour)
    BY <1>1, <1>7 DEF NameOf
  <2>2. p.hour <= p.hour
    BY <1>4
  <2> QED BY <1>4, <1>6, <2>1, <2>2
<1>8. ASSUME CutName(DirOf(s)) = DirOf(t) PROVE HourOf(t) <= HourOf(s)
  <2> DEFINE h == IF p.month >= 10 /\ p.day >= 10 /\ p.hour >= 10 THEN p.hour \div 10 ELSE p.hour
  <2>1. h \in Nat /\ h <= p.hour
    BY <1>4
  <2>2. CutOut(NameOf(p)) = HourDir(p.year, p.month, p.day, h)
    <3>1. /\ p.year \in Nat /\ FourDigits(p.year) /\ p.month \in Nat /\ p.month <= 12
          /\ p.day \in Nat /\ p.day <= 31 /\ p.hour \in Nat /\ p.hour <= 23
      BY <1>1 DEF IsHour, Day
    <3>2. CutOut(HourDir(p.year, p.month, p.day, p.hour)) =
             IF p.month >= 10 /\ p.day >= 10 /\ p.hour >= 10
             THEN HourDir(p.year, p.month, p.day, p.hour \div 10)
             ELSE HourDir(p.year, p.month, p.day, p.hour)
      BY <3>1, CutOfName
    <3> QED BY <3>2 DEF NameOf
  <2> HIDE DEF h
  <2> QED BY <1>1, <1>6, <1>8, <2>1, <2>2
<1> QED BY <1>7, <1>8

-----------------------------------------------------------------------------
(* The listing is in the order of the hours.                                *)

(* The names of different hours, the older one first.                       *)
Older ==
    {p \in Names \X Names :
        \A s, t \in Seconds : DirOf(s) = p[1] /\ DirOf(t) = p[2] => HourOf(s) < HourOf(t)}

(* The inductive invariant behind OldestFirst.  ListedByHour: modification  *)
(* time, by which ls sorts, is the order of the hours, and no directory is  *)
(* ahead of the clock or of the file about to be opened.  NewestLast: that  *)
(* file and the open one are not older than any other.  CutIsOldest: the    *)
(* name given to rm is of no later hour than any directory.                 *)
ListedByHour ==
    /\ \A i, j \in DOMAIN dirs : i < j => <<dirs[i], dirs[j]>> \in Older
    /\ \A s \in Seconds : DirOf(s) \in ToSet(dirs) =>
          /\ HourOf(s) <= HourOf(clock)
          /\ savepc = "open" => HourOf(s) <= HourOf(stamp)

NewestLast ==
    /\ stamp <= clock
    /\ \A f \in writer : f <= stamp
    /\ \A g \in files :
          /\ g <= clock
          /\ savepc = "open" => g <= stamp
          /\ \A f \in writer : g <= f

CutIsOldest ==
    rm # "idle" => \A s \in Seconds : DirOf(s) = cut =>
        /\ HourOf(s) <= HourOf(clock)
        /\ \A t \in Seconds : DirOf(t) \in ToSet(dirs) => HourOf(s) <= HourOf(t)

Ordered == ListedByHour /\ NewestLast /\ CutIsOldest

LEMMA OlderHours ==
    ASSUME NamesInOrder, NEW s \in Seconds, NEW t \in Seconds
    PROVE  <<DirOf(s), DirOf(t)>> \in Older <=> HourOf(s) < HourOf(t)
<1>1. DirOf(s) \in Names /\ DirOf(t) \in Names
  BY HourFacts
<1>2. \A r \in Seconds : /\ DirOf(r) = DirOf(s) => HourOf(r) = HourOf(s)
                         /\ DirOf(r) = DirOf(t) => HourOf(r) = HourOf(t)
  BY DEF NamesInOrder
<1>3. QED
  BY <1>1, <1>2 DEF Older

(* Every listed name is the name of some second's hour.                     *)
LEMMA ListedSecond ==
    ASSUME TypeOK, NEW d \in ToSet(dirs)
    PROVE  \E s \in Seconds : d = DirOf(s)
BY DEF TypeOK, ToSet, Names

LEMMA OrderInit == Init => Ordered
<1> SUFFICES ASSUME Init PROVE Ordered
  OBVIOUS
<1>1. ToSet(dirs) = {} /\ DOMAIN dirs = {}
  BY DEF Init, ToSet
<1>2. QED
  BY <1>1 DEF Init, Ordered, ListedByHour, NewestLast, CutIsOldest

LEMMA OrderKept ==
    ASSUME Ordered, UNCHANGED <<clock, stamp, writer, files, dirs, rm, cut>>,
           savepc' = "open" => savepc = "open"
    PROVE  Ordered'
BY DEF Ordered, ListedByHour, NewestLast, CutIsOldest

LEMMA OrderProcessEnds ==
    ASSUME TypeOK, Ordered, ProcessEnds, RmIdle \/ UNCHANGED rmVars
    PROVE  Ordered'
<1>1. 0 <= clock
  BY HourFacts DEF TypeOK
<1>2. ListedByHour' /\ NewestLast'
  BY <1>1 DEF Ordered, ProcessEnds, ListedByHour, NewestLast
<1>3. CutIsOldest'
  BY DEF Ordered, ProcessEnds, RmIdle, CutIsOldest
<1>4. QED
  BY <1>2, <1>3 DEF Ordered

LEMMA OrderSave ==
    ASSUME NamesInOrder, TypeOK, StoreOK, Ordered, Save
    PROVE  Ordered'
<1> USE DEF Ordered
<1>1. CASE NameDirectory
  <2>1. clock \in Seconds /\ DirOf(clock) \in Names /\ clock \in Nat
    BY HourFacts DEF TypeOK
  <2>2. CASE DirOf(clock) \notin ToSet(dirs) /\ dirs' = Append(dirs, DirOf(clock))
    <3>1. /\ ToSet(dirs') = ToSet(dirs) \cup {DirOf(clock)}
      BY <2>1, <2>2, AppendSet DEF TypeOK
    <3>2. \A d \in ToSet(dirs) : <<d, DirOf(clock)>> \in Older
      <4> SUFFICES ASSUME NEW d \in ToSet(dirs) PROVE <<d, DirOf(clock)>> \in Older
        OBVIOUS
      <4>1. PICK s \in Seconds : d = DirOf(s)
        BY ListedSecond
      <4>2. HourOf(s) <= HourOf(clock) /\ HourOf(s) # HourOf(clock)
        BY <2>1, <2>2, <4>1, HourFacts DEF ListedByHour
      <4>3. QED
        BY <2>1, <4>1, <4>2, OlderHours, HourFacts
    <3>3. SortedBy(dirs', Older)
      BY <2>1, <2>2, <3>2, AppendSorted DEF TypeOK, ListedByHour, SortedBy
    <3>4. \A s \in Seconds : DirOf(s) \in ToSet(dirs') => HourOf(s) <= HourOf(clock)
      BY <2>1, <3>1, HourFacts DEF ListedByHour, NamesInOrder
    <3>5. ListedByHour'
      BY <1>1, <3>3, <3>4 DEF NameDirectory, ListedByHour, SortedBy
    <3>6. NewestLast'
      BY <1>1, <2>1, HourFacts DEF NameDirectory, NewestLast, TypeOK
    <3>7. CutIsOldest'
      BY <1>1, <2>1, <3>1, HourFacts DEF NameDirectory, CutIsOldest, NamesInOrder
    <3>8. QED
      BY <3>5, <3>6, <3>7
  <2>3. CASE UNCHANGED dirs
    <3>1. ListedByHour'
      BY <1>1, <2>3 DEF NameDirectory, ListedByHour
    <3>2. NewestLast'
      BY <1>1, <2>1, HourFacts DEF NameDirectory, NewestLast, TypeOK
    <3>3. CutIsOldest'
      BY <1>1, <2>3 DEF NameDirectory, CutIsOldest
    <3>4. QED
      BY <3>1, <3>2, <3>3
  <2>4. QED
    BY <1>1, <2>2, <2>3 DEF NameDirectory
<1>2. CASE OpenFile
  <2> DEFINE touched == Append(RemoveFirst(dirs, DirOf(stamp)), DirOf(stamp))
  <2>1. stamp \in Seconds /\ DirOf(stamp) \in Names /\ DirOf(stamp) \in ToSet(dirs)
    BY <1>2, HourFacts DEF TypeOK, OpenFile
  <2>2. SortedBy(touched, Older) /\ ToSet(touched) = ToSet(dirs)
    <3> DEFINE rest == RemoveFirst(dirs, DirOf(stamp))
    <3>1. SortedBy(dirs, Older)
      BY DEF ListedByHour, SortedBy
    <3>2. /\ rest \in Seq(Names) /\ IsInjective(rest)
          /\ ToSet(rest) = ToSet(dirs) \ {DirOf(stamp)}
      BY RemoveFirstSet DEF TypeOK
    <3>3. SortedBy(rest, Older)
      BY <3>1, RemoveFirstSorted DEF TypeOK
    <3>4. \A d \in ToSet(rest) : <<d, DirOf(stamp)>> \in Older
      <4> SUFFICES ASSUME NEW d \in ToSet(rest) PROVE <<d, DirOf(stamp)>> \in Older
        OBVIOUS
      <4>1. PICK s \in Seconds : d = DirOf(s)
        BY <3>2, ListedSecond
      <4>2. HourOf(s) <= HourOf(stamp) /\ HourOf(s) # HourOf(stamp)
        BY <1>2, <2>1, <3>2, <4>1, HourFacts DEF ListedByHour, OpenFile
      <4>3. QED
        BY <2>1, <4>1, <4>2, OlderHours, HourFacts
    <3> HIDE DEF rest
    <3>5. SortedBy(Append(rest, DirOf(stamp)), Older)
      BY <2>1, <3>2, <3>3, <3>4, AppendSorted
    <3>6. QED
      BY <2>1, <3>5, TouchSet DEF rest
  <2> HIDE DEF touched
  <2>3. SortedBy(dirs', Older) /\ ToSet(dirs') = ToSet(dirs)
    BY <1>2, <2>2 DEF OpenFile, touched, ListedByHour, SortedBy
  <2>4. ListedByHour'
    BY <1>2, <2>3 DEF OpenFile, ListedByHour, SortedBy
  <2>5. NewestLast'
    <3>1. \A g \in files' : g \in files \/ g = stamp
      BY <1>2 DEF OpenFile
    <3>2. stamp <= stamp
      BY <2>1, HourFacts
    <3>3. QED
      BY <1>2, <3>1, <3>2 DEF OpenFile, NewestLast
  <2>6. CutIsOldest'
    BY <1>2, <2>3 DEF OpenFile, CutIsOldest
  <2>7. QED
    BY <2>4, <2>5, <2>6
<1>3. CASE OpenFails
  BY <1>3 DEF OpenFails, ListedByHour, NewestLast, CutIsOldest
<1>4. CASE GrabFrame \/ EmptyFrame
  BY <1>4, OrderKept DEF GrabFrame, EmptyFrame
<1>5. QED
  BY <1>1, <1>2, <1>3, <1>4 DEF Save

(* The first row is of an hour no later than any other's.                   *)
LEMMA HeadIsOldest ==
    ASSUME NamesInOrder, TypeOK, ListedByHour, dirs # <<>>,
           NEW s \in Seconds, DirOf(s) = Head(dirs)
    PROVE  /\ DirOf(s) \in ToSet(dirs)
           /\ \A t \in Seconds : DirOf(t) \in ToSet(dirs) => HourOf(s) <= HourOf(t)
<1>1. SortedBy(dirs, Older)
  BY DEF ListedByHour, SortedBy
<1>2. /\ Head(dirs) \in ToSet(dirs)
      /\ \A d \in ToSet(dirs) : d = Head(dirs) \/ <<Head(dirs), d>> \in Older
  BY <1>1, HeadSorted DEF TypeOK
<1>3. ASSUME NEW t \in Seconds, DirOf(t) \in ToSet(dirs)
      PROVE  HourOf(s) <= HourOf(t)
  <2>1. CASE DirOf(t) = DirOf(s)
    BY <2>1, HourFacts DEF NamesInOrder
  <2>2. CASE <<DirOf(s), DirOf(t)>> \in Older
    BY <2>2, OlderHours, HourFacts
  <2>3. QED
    BY <1>2, <1>3, <2>1, <2>2
<1>4. QED
  BY <1>2, <1>3

(* What is cut out of the listing is no directory or one of an hour not     *)
(* later than the first row's.                                              *)
LEMMA CutHour ==
    ASSUME NamesInOrder, TypeOK, ListedByHour, dirs # <<>>,
           NEW s \in Seconds, DirOf(s) = CutName(Head(dirs))
    PROVE  \E h \in Seconds : DirOf(h) = Head(dirs) /\ HourOf(s) <= HourOf(h)
<1>1. Head(dirs) \in Names
  BY DEF TypeOK
<1>2. PICK h \in Seconds : Head(dirs) = DirOf(h)
  BY <1>1 DEF Names
<1>3. QED
  BY <1>2 DEF NamesInOrder

LEMMA OrderDelete ==
    ASSUME NamesInOrder, TypeOK, Ordered, Delete
    PROVE  Ordered'
<1>1. CASE List
  <2>1. ListedByHour' /\ NewestLast'
    BY <1>1 DEF List, Ordered, ListedByHour, NewestLast
  <2>2. CutIsOldest'
    <3>1. SUFFICES ASSUME NEW s \in Seconds, DirOf(s) = cut'
                   PROVE  /\ HourOf(s) <= HourOf(clock)
                          /\ \A t \in Seconds : DirOf(t) \in ToSet(dirs) => HourOf(s) <= HourOf(t)
      BY <1>1 DEF List, CutIsOldest
    <3>2. DirOf(s) # NoName
      BY HourFacts, NameAssumption
    <3>3. dirs # <<>> /\ DirOf(s) = CutName(Head(dirs))
      BY <1>1, <3>1, <3>2 DEF List
    <3>4. PICK h \in Seconds : DirOf(h) = Head(dirs) /\ HourOf(s) <= HourOf(h)
      BY <3>3, CutHour DEF Ordered
    <3>5. /\ DirOf(h) \in ToSet(dirs)
          /\ \A t \in Seconds : DirOf(t) \in ToSet(dirs) => HourOf(h) <= HourOf(t)
      BY <3>3, <3>4, HeadIsOldest DEF Ordered
    <3>6. HourOf(h) <= HourOf(clock)
      BY <3>5 DEF Ordered, ListedByHour
    <3>7. HourOf(s) \in Nat /\ HourOf(h) \in Nat /\ HourOf(clock) \in Nat
          /\ \A t \in Seconds : HourOf(t) \in Nat
      BY HourFacts DEF TypeOK
    <3>8. QED
      BY <3>4, <3>5, <3>6, <3>7
  <2>3. QED
    BY <2>1, <2>2 DEF Ordered
<1>2. CASE ListNothing
  <2>1. \A s \in Seconds : DirOf(s) # cut'
    BY <1>2, HourFacts, NameAssumption DEF ListNothing
  <2>2. QED
    BY <1>2, <2>1 DEF ListNothing, Ordered, ListedByHour, NewestLast, CutIsOldest
<1>3. CASE DfOpenFails
  BY <1>3, OrderProcessEnds DEF DfOpenFails
<1>4. CASE Return
  BY <1>4, OrderKept, OrderProcessEnds DEF Return
<1>5. CASE DfOpen \/ Df \/ ListFails \/ Wake
  BY <1>5, OrderKept DEF DfOpen, Df, ListFails, Wake
<1>6. QED
  BY <1>1, <1>2, <1>3, <1>4, <1>5 DEF Delete

LEMMA OrderRm ==
    ASSUME TypeOK, Ordered, Rm
    PROVE  Ordered'
<1> USE DEF Ordered
<1>1. CASE RmStart \/ RmEnter \/ RmUnlink
  BY <1>1 DEF RmStart, RmEnter, RmUnlink, ListedByHour, NewestLast, CutIsOldest
<1>2. CASE RmDirectory
  <2>1. dirs' = IF FilesIn(inside) = {} THEN RemoveFirst(dirs, inside) ELSE dirs
    BY <1>2 DEF RmDirectory
  <2>2. ToSet(dirs') \subseteq ToSet(dirs)
    BY <2>1, RemoveFirstSet DEF TypeOK
  <2>3. SortedBy(dirs', Older)
    BY <2>1, RemoveFirstSorted DEF TypeOK, ListedByHour, SortedBy
  <2>4. ListedByHour'
    BY <1>2, <2>2, <2>3 DEF RmDirectory, ListedByHour, SortedBy
  <2>5. NewestLast' /\ CutIsOldest'
    BY <1>2, <2>2 DEF RmDirectory, NewestLast, CutIsOldest
  <2>6. QED
    BY <2>4, <2>5
<1>3. CASE RmEnds \/ RmKilled
  BY <1>3 DEF RmEnds, RmKilled, RmIdle, ListedByHour, NewestLast, CutIsOldest
<1>4. QED
  BY <1>1, <1>2, <1>3 DEF Rm

LEMMA OrderEnvironment ==
    ASSUME TypeOK, Ordered, Main \/ Environment
    PROVE  Ordered'
<1>1. CASE Main \/ Launch \/ Interrupt
  BY <1>1, OrderKept DEF Main, MakeDirectory, CreateSave, CreateDelete, InstallHandler, Launch,
                         Interrupt
<1>2. CASE InterruptEarly \/ Exit \/ PowerLoss
  BY <1>2, OrderProcessEnds DEF InterruptEarly, Exit, PowerLoss
<1>3. CASE Tick
  <2>1. clock \in Seconds /\ clock' \in Seconds /\ clock <= clock'
    BY <1>3, ConstantFacts DEF Tick, TypeOK, Seconds
  <2>2. HourOf(clock) <= HourOf(clock')
    BY <2>1, HourFacts
  <2>3. \A s \in Seconds : HourOf(s) <= HourOf(clock) => HourOf(s) <= HourOf(clock')
    BY <2>1, <2>2, HourFacts
  <2>4. \A s \in Seconds : s <= clock => s <= clock'
    BY <2>1, HourFacts
  <2>5. ListedByHour' /\ CutIsOldest'
    BY <1>3, <2>3 DEF Tick, Ordered, ListedByHour, CutIsOldest
  <2>6. NewestLast'
    BY <1>3, <2>4 DEF Tick, TypeOK, Ordered, NewestLast
  <2>7. QED
    BY <2>5, <2>6 DEF Ordered
<1>4. QED
  BY <1>1, <1>2, <1>3 DEF Environment

LEMMA OrderStep == NamesInOrder /\ TypeOK /\ StoreOK /\ Ordered /\ [Next]_vars => Ordered'
<1> SUFFICES ASSUME NamesInOrder, TypeOK, StoreOK, Ordered, [Next]_vars PROVE Ordered'
  OBVIOUS
<1>1. CASE UNCHANGED vars
  BY <1>1, OrderKept
<1>2. CASE Next
  BY <1>2, OrderSave, OrderDelete, OrderRm, OrderEnvironment DEF Next
<1>3. QED
  BY <1>1, <1>2

(* On every disk, whatever is interrupted, crashes and is launched again:   *)
(* the listing is by hour, the file being written is the newest, and rm is  *)
(* never given a directory that is younger than another.                    *)
THEOREM OrderKeptForever == NamesInOrder => (Spec => []Ordered)
<1> SUFFICES ASSUME NamesInOrder PROVE Spec => []Ordered
  OBVIOUS
<1>1. Init => StoreOK /\ Ordered
  BY LinksInit, OrderInit DEF Links
<1>2. TypeOK /\ StoreOK /\ [Next]_vars => StoreOK'
  <2>1. StoreOK /\ UNCHANGED vars => StoreOK'
    BY DEF StoreOK
  <2>2. QED
    BY <2>1, StoreStep
<1>3. TypeOK /\ StoreOK /\ Ordered /\ [Next]_vars => Ordered'
  BY OrderStep
<1>4. QED
  BY <1>1, <1>2, <1>3, TypeCorrect, PTL DEF Spec

-----------------------------------------------------------------------------
(* What the order says of single steps.                                     *)

LEMMA StoreForever == Spec => []StoreOK
<1>1. Init => StoreOK
  BY LinksInit DEF Links
<1>2. TypeOK /\ StoreOK /\ [Next]_vars => StoreOK'
  <2>1. StoreOK /\ UNCHANGED vars => StoreOK'
    BY DEF StoreOK
  <2>2. QED
    BY <2>1, StoreStep
<1>3. QED
  BY <1>1, <1>2, TypeCorrect, PTL DEF Spec

(* Where rm is: in the one directory it was given, or in one of all, and    *)
(* what it unlinks next lies there.                                         *)
WalkOK ==
    /\ mainpc \in {"off", "mkdirs", "save", "delete"} => delpc = "off"
    /\ rm # "idle" => delpc = "wait" \/ mainpc = "off"
    /\ rm = "idle" => doomed = {} /\ inside = NoName
    /\ cut # NoName => doomed \subseteq {cut} /\ inside \in {cut, NoName}
    /\ \A f \in victims : DirOf(f) = inside

LEMMA WalkStep == TypeOK /\ WalkOK /\ Next => WalkOK'
<1> SUFFICES ASSUME TypeOK, WalkOK, Next PROVE WalkOK'
  OBVIOUS
<1> USE DEF WalkOK
<1>1. CASE Main \/ Launch
  BY <1>1 DEF Main, MakeDirectory, CreateSave, CreateDelete, InstallHandler, Launch
<1>2. CASE Save
  BY <1>2 DEF Save, NameDirectory, OpenFile, OpenFails, GrabFrame, EmptyFrame
<1>3. CASE List \/ ListNothing
  BY <1>3 DEF List, ListNothing, Live
<1>4. CASE ProcessEnds /\ (UNCHANGED rmVars \/ RmIdle)
  BY <1>4 DEF ProcessEnds, RmIdle
<1>5. CASE DfOpen \/ Df \/ ListFails \/ Wake \/ (Return /\ ~ProcessEnds)
  BY <1>5 DEF DfOpen, Df, ListFails, Wake, Return, Sleep, Live
<1>6. CASE RmStart \/ RmEnter
  BY <1>6 DEF RmStart, RmEnter, FilesIn
<1>7. CASE RmUnlink \/ RmDirectory
  BY <1>7 DEF RmUnlink, RmDirectory
<1>8. CASE RmEnds \/ RmKilled
  BY <1>8 DEF RmEnds, RmKilled, RmIdle
<1>9. CASE Tick \/ Interrupt
  BY <1>9 DEF Tick, Interrupt
<1>10. DfOpenFails \/ InterruptEarly \/ Exit \/ PowerLoss \/ (Return /\ ProcessEnds)
         => ProcessEnds /\ (UNCHANGED rmVars \/ RmIdle)
  BY DEF DfOpenFails, InterruptEarly, Exit, PowerLoss, Return
<1>11. QED
  BY <1>1, <1>2, <1>3, <1>4, <1>5, <1>6, <1>7, <1>8, <1>9, <1>10
     DEF Next, Delete, Rm, Environment

LEMMA WalkForever == Spec => []WalkOK
<1>1. Init => WalkOK
  BY DEF Init, WalkOK
<1>2. TypeOK /\ WalkOK /\ [Next]_vars => WalkOK'
  <2>1. WalkOK /\ UNCHANGED vars => WalkOK'
    BY DEF WalkOK
  <2>2. QED
    BY <2>1, WalkStep
<1>3. QED
  BY <1>1, <1>2, TypeCorrect, PTL DEF Spec

(* Entries are made by thread_save's open and taken away by it or by rm.    *)
LEMMA FilesStep == Next => OpenFile \/ RmUnlink \/ UNCHANGED files
BY DEF Next, Main, Save, Delete, Rm, Environment, ProcessEnds, MakeDirectory, CreateSave,
       CreateDelete, InstallHandler, NameDirectory, OpenFails, GrabFrame, EmptyFrame, DfOpen,
       DfOpenFails, Df, List, ListNothing, ListFails, Return, Wake, RmStart, RmEnter, RmDirectory, RmEnds, RmKilled, Launch, Tick,
       InterruptEarly, Interrupt, Exit, PowerLoss

(* The open truncates the file of the very same second, and no other.       *)
LEMMA OpenAdds ==
    ASSUME NamesInOrder, TypeOK, OpenFile
    PROVE  /\ files' = files \cup {stamp}
           /\ {f \in files : PathOf(f) = PathOf(stamp)} \subseteq {stamp}
<1>1. stamp \in Seconds /\ files \subseteq Seconds
  BY DEF TypeOK
<1>2. \A f \in files : PathOf(f) = PathOf(stamp) => f = stamp
  BY <1>1, PathsDiffer
<1>3. QED
  BY <1>2 DEF OpenFile

(* An unlink takes one recording of the directory rm is in, or none.        *)
LEMMA UnlinkTakes ==
    ASSUME NamesInOrder, TypeOK, WalkOK, RmUnlink
    PROVE  \E f \in victims : files' = files \ {f} /\ DirOf(f) = inside /\ f \in Seconds
<1>1. PICK f \in victims : files' = {g \in files : PathOf(g) # PathOf(f)}
  BY DEF RmUnlink
<1>2. f \in Seconds /\ files \subseteq Seconds /\ DirOf(f) = inside
  BY DEF TypeOK, WalkOK
<1>3. \A g \in files : PathOf(g) = PathOf(f) <=> g = f
  BY <1>2, PathsDiffer
<1>4. QED
  BY <1>1, <1>2, <1>3

(* If rm was given a directory, no recording is of an earlier hour than the *)
(* one it unlinks.                                                          *)
LEMMA UnlinksOldest ==
    ASSUME NamesInOrder, TypeOK, StoreOK, WalkOK, Ordered, RmUnlink, cut # NoName
    PROVE  \E f \in Seconds : /\ files' = files \ {f}
                             /\ \A g \in files : HourOf(f) <= HourOf(g)
<1>1. PICK f \in victims : files' = files \ {f} /\ DirOf(f) = inside /\ f \in Seconds
  BY UnlinkTakes
<1>2. DirOf(f) # NoName
  BY <1>1, HourFacts, NameAssumption
<1>3. DirOf(f) = cut /\ rm # "idle"
  BY <1>1, <1>2 DEF WalkOK, RmUnlink
<1>4. \A g \in files : g \in Seconds /\ DirOf(g) \in ToSet(dirs)
  BY DEF TypeOK, StoreOK
<1>5. QED
  BY <1>1, <1>3, <1>4 DEF Ordered, CutIsOldest

(* The listing is by modification time, and what rm deletes of a directory  *)
(* it was given is of no later hour than anything it leaves, wherever it is *)
(* stopped: for every disk, naming in order and interleaving.               *)
THEOREM DeletesOldest == NamesInOrder => (Spec => OldestFirst)
<1> SUFFICES ASSUME NamesInOrder PROVE Spec => OldestFirst
  OBVIOUS
<1>1. ASSUME TypeOK, StoreOK, WalkOK, Ordered, Next, cut # NoName,
             NEW f \in files \ files', NEW g \in files'
      PROVE  HourOf(f) <= HourOf(g)
  <2>1. CASE OpenFile
    BY <1>1, <2>1, OpenAdds
  <2>2. CASE RmUnlink
    BY <1>1, <2>2, UnlinksOldest
  <2>3. QED
    BY <1>1, <2>1, <2>2, FilesStep
<1>2. TypeOK /\ StoreOK /\ WalkOK /\ Ordered /\ [Next]_vars
      => [cut # NoName =>
            \A f \in files \ files', g \in files' : HourOf(f) <= HourOf(g)]_vars
  BY <1>1
<1>3. QED
  BY <1>2, TypeCorrect, StoreForever, WalkForever, OrderKeptForever, PTL DEF Spec, OldestFirst

(* Frames of a file that has an entry go only with the entry, or when       *)
(* thread_save opens the same second's path again.                          *)
THEOREM NothingOverwritten == NamesInOrder => (Spec => NoOverwrite)
<1> SUFFICES ASSUME NamesInOrder PROVE Spec => NoOverwrite
  OBVIOUS
<1>1. ASSUME TypeOK, WalkOK, Next, NEW x \in footage, x[1] \in files, x \notin footage'
      PROVE  \/ rm = "walk" /\ DirOf(x[1]) = inside
             \/ savepc = "open" /\ x[1] = stamp
  <2>1. CASE OpenFile
    BY <1>1, <2>1, OpenAdds DEF OpenFile
  <2>2. CASE RmUnlink
    BY <1>1, <2>2, UnlinkTakes DEF RmUnlink
  <2>3. CASE footage \subseteq footage' \/ footage' = Released
    BY <1>1, <2>3
  <2>4. QED
    BY <1>1, <2>1, <2>2, <2>3
       DEF Next, Main, Save, Delete, Rm, Environment, ProcessEnds, MakeDirectory, CreateSave,
           CreateDelete, InstallHandler, NameDirectory, OpenFails, GrabFrame, EmptyFrame, DfOpen,
           DfOpenFails, Df, List, ListNothing, ListFails, Return, Wake, RmStart, RmEnter, RmDirectory, RmEnds, RmKilled, Launch, Tick,
           InterruptEarly, Interrupt, Exit, PowerLoss
<1>2. TypeOK /\ WalkOK /\ [Next]_vars
      => [\A x \in footage : x[1] \in files /\ x \notin footage'
             => \/ rm = "walk" /\ DirOf(x[1]) = inside
                \/ savepc = "open" /\ x[1] = stamp]_vars
  BY <1>1
<1>3. QED
  BY <1>2, TypeCorrect, WalkForever, PTL DEF Spec, NoOverwrite

-----------------------------------------------------------------------------
(* The abstract store.                                                      *)

LEMMA StepMaps ==
    ASSUME RoomForFile, NamesInOrder, Inductive, WalkOK, Ordered, Next
    PROVE  Store!Next \/ UNCHANGED <<files, astray>>
<1> USE DEF Inductive
<1>1. CASE OpenFile
  <2>1. stamp \in Seconds /\ \A g \in files : g <= stamp
    BY <1>1 DEF TypeOK, OpenFile, Ordered, NewestLast
  <2>2. Store!Keep
    BY <1>1, <2>1, OpenAdds DEF OpenFile, Store!Keep
  <2>3. QED
    BY <2>2 DEF Store!Next
<1>2. CASE RmUnlink
  <2>1. UNCHANGED astray
    BY <1>2 DEF RmUnlink
  <2>2. CASE cut = NoName
    <3>1. astray
      BY <1>2, <2>2 DEF RmUnlink, ListingOK
    <3>2. PICK f : files' = files \ {f}
      BY <1>2, UnlinkTakes
    <3>3. CASE f \in files
      BY <2>1, <3>1, <3>2, <3>3 DEF Store!DropAny, Store!Next
    <3>4. QED
      BY <2>1, <3>2, <3>3
  <2>3. CASE cut # NoName
    <3>1. PICK f : files' = files \ {f} /\ \A g \in files : HourOf(f) <= HourOf(g)
      BY <1>2, <2>3, UnlinksOldest
    <3>2. CASE f \in files
      BY <2>1, <3>1, <3>2 DEF Store!DropOfOldestHour, Store!Next
    <3>3. QED
      BY <2>1, <3>1, <3>2
  <2>4. QED
    BY <2>2, <2>3
<1>3. CASE UNCHANGED files
  <2>1. astray' \in BOOLEAN
    BY TypeMain, TypeSave, TypeDelete, TypeRm, TypeEnvironment DEF Next, TypeOK
  <2>2. QED
    BY <1>3, <2>1 DEF Store!List, Store!Next
<1>4. QED
  BY <1>1, <1>2, <1>3, FilesStep

(* Threads, signals, crashes, launches and rm together implement the store  *)
(* that keeps recordings in order and drops of the oldest hour only, until  *)
(* a listing is misread.                                                    *)
THEOREM StoreRefined == RoomForFile /\ NamesInOrder => (Spec => ImplementsRetention)
<1> SUFFICES ASSUME RoomForFile, NamesInOrder PROVE Spec => ImplementsRetention
  OBVIOUS
<1>1. Init => Store!Init
  BY DEF Init, Store!Init
<1>2. Inductive /\ WalkOK /\ Ordered /\ [Next]_vars => [Store!Next]_<<files, astray>>
  <2>1. UNCHANGED vars => UNCHANGED <<files, astray>>
    OBVIOUS
  <2>2. QED
    BY <2>1, StepMaps
<1>3. QED
  BY <1>1, <1>2, StoreConsistent, WalkForever, OrderKeptForever, PTL
     DEF Spec, ImplementsRetention, Store!Spec

-----------------------------------------------------------------------------
(* A name that is too long.                                                 *)

LEMMA BlockedKept ==
    ASSUME Blocked, UNCHANGED <<clock, dirs>>,
           savepc' = "open" => savepc = "open" /\ UNCHANGED stamp,
           UNCHANGED <<rm, cut, doomed, inside>> \/ RmIdle
    PROVE  Blocked' /\ Head(dirs') = Head(dirs)
BY DEF Blocked, RmIdle

(* The hour of the blocking directory is over.                              *)
LEMMA BlockedIsOver ==
    ASSUME NamesInOrder, TypeOK, Ordered, Blocked
    PROVE  \E h \in Seconds :
              /\ DirOf(h) = Head(dirs) /\ Head(dirs) \in ToSet(dirs)
              /\ \A t \in Seconds : HourOf(clock) <= HourOf(t) =>
                    DirOf(t) # Head(dirs) /\ DirOf(t) # CutName(Head(dirs))
<1>1. Head(dirs) \in Names
  BY DEF TypeOK, Blocked
<1>2. PICK h \in Seconds : DirOf(h) = Head(dirs)
  BY <1>1 DEF Names
<1>3. DirOf(h) \in ToSet(dirs)
  BY <1>2, HeadIsOldest DEF Ordered, Blocked
<1>4. HourOf(h) < HourOf(clock)
  <2>1. HourOf(h) <= HourOf(clock) /\ HourOf(h) # HourOf(clock)
    BY <1>2, <1>3, HourFacts DEF Ordered, ListedByHour, Blocked, TypeOK
  <2>2. QED
    BY <2>1, HourFacts DEF TypeOK
<1>5. ASSUME NEW t \in Seconds, HourOf(clock) <= HourOf(t)
      PROVE  DirOf(t) # Head(dirs) /\ DirOf(t) # CutName(Head(dirs))
  <2>1. ~(HourOf(t) <= HourOf(h))
    BY <1>4, <1>5, HourFacts DEF TypeOK
  <2>2. HourOf(h) <= HourOf(h)
    BY HourFacts
  <2>3. QED
    BY <1>2, <2>1, <2>2 DEF NamesInOrder
<1>6. QED
  BY <1>2, <1>3, <1>5

LEMMA BlockedStep ==
    ASSUME NamesInOrder, TypeOK, Ordered, Blocked, Next
    PROVE  (Blocked' /\ Head(dirs') = Head(dirs)) \/ astray'
<1> DEFINE d == Head(dirs)
<1>1. PICK h \in Seconds :
          /\ DirOf(h) = d /\ d \in ToSet(dirs)
          /\ \A t \in Seconds : HourOf(clock) <= HourOf(t) =>
                DirOf(t) # d /\ DirOf(t) # CutName(d)
  BY BlockedIsOver
<1>2. clock \in Seconds /\ HourOf(clock) <= HourOf(clock) /\ d \in Names /\ DirOf(clock) \in Names
  BY HourFacts DEF TypeOK, Blocked
<1>3. DirOf(clock) # d /\ DirOf(clock) # CutName(d)
  BY <1>1, <1>2
<1>4. CASE NameDirectory /\ dirs' = Append(dirs, DirOf(clock))
  <2>1. DirOf(clock) \notin ToSet(dirs) \/ UNCHANGED dirs
    BY <1>4 DEF NameDirectory
  <2>2. dirs' # <<>> /\ Head(dirs') = d
    BY <1>2, <1>4 DEF TypeOK, Blocked
  <2>3. ToSet(dirs') \subseteq ToSet(dirs) \cup {DirOf(clock)}
    BY <1>2, <1>4, <2>1, AppendSet DEF TypeOK
  <2>4. rm # "idle" => cut # DirOf(clock)
    <3>1. SUFFICES ASSUME rm # "idle", cut = DirOf(clock) PROVE FALSE
      OBVIOUS
    <3>2. HourOf(clock) <= HourOf(h)
      BY <1>1, <1>2, <3>1 DEF Ordered, CutIsOldest
    <3>3. QED
      BY <1>1, <3>2
  <2>5. QED
    BY <1>3, <1>4, <2>2, <2>3, <2>4 DEF NameDirectory, Blocked
<1>5. CASE NameDirectory /\ UNCHANGED dirs
  BY <1>3, <1>5 DEF NameDirectory, Blocked
<1>6. CASE OpenFile
  <2> DEFINE rest == RemoveFirst(dirs, DirOf(stamp))
  <2>1. DirOf(stamp) # d /\ DirOf(stamp) \in ToSet(dirs) /\ DirOf(stamp) \in Names
    BY <1>6, HourFacts DEF OpenFile, Blocked, TypeOK
  <2>2. rest # <<>> /\ Head(rest) = d /\ rest \in Seq(Names)
    BY <2>1, RemoveFirstHead, RemoveFirstSet DEF TypeOK, Blocked
  <2> HIDE DEF rest
  <2>3. Head(Append(rest, DirOf(stamp))) = d
    BY <2>1, <2>2
  <2>4. dirs' # <<>> /\ Head(dirs') = d /\ ToSet(dirs') = ToSet(dirs)
    BY <1>6, <2>1, <2>3, TouchSet DEF OpenFile, rest, Blocked
  <2>5. QED
    BY <1>3, <1>6, <2>4 DEF OpenFile, Blocked
<1>7. CASE List \/ ListNothing
  <2>1. CutName(d) # NoName
    BY <1>2, NameAssumption DEF Cuts
  <2>2. CASE ListNothing
    BY <2>2 DEF ListNothing, Blocked
  <2>3. CASE List
    BY <2>1, <2>3 DEF List, Blocked
  <2>4. QED
    BY <1>7, <2>2, <2>3
<1>8. CASE RmStart \/ RmEnter
  <2>1. RmStart /\ doomed' = {}
    BY <1>8 DEF RmStart, RmEnter, Blocked
  <2>2. QED
    BY <2>1 DEF RmStart, Blocked
<1>9. CASE RmUnlink \/ RmDirectory
  BY <1>9 DEF RmUnlink, RmDirectory, Blocked
<1>10. CASE RmEnds \/ RmKilled
  BY <1>10, BlockedKept DEF RmEnds, RmKilled
<1>11. CASE Tick
  <2>1. clock' \in Seconds /\ clock <= clock'
    BY <1>11, ConstantFacts DEF Tick, TypeOK, Seconds
  <2>2. HourOf(clock) <= HourOf(clock')
    BY <1>2, <2>1, HourFacts
  <2>3. DirOf(clock') # d
    BY <1>1, <2>1, <2>2
  <2>4. QED
    BY <1>11, <2>3 DEF Tick, Blocked
<1>12. CASE ProcessEnds /\ (UNCHANGED rmVars \/ RmIdle)
  BY <1>12, BlockedKept DEF ProcessEnds
<1>13. CASE OpenFails \/ GrabFrame \/ EmptyFrame
  BY <1>13, BlockedKept DEF OpenFails, GrabFrame, EmptyFrame
<1>14. CASE Main \/ Launch \/ Interrupt
  BY <1>14, BlockedKept DEF Main, MakeDirectory, CreateSave, CreateDelete, InstallHandler, Launch,
                            Interrupt
<1>15. CASE DfOpen \/ Df \/ ListFails \/ Wake \/ (Return /\ ~ProcessEnds)
  BY <1>15, BlockedKept DEF DfOpen, Df, ListFails, Wake, Return
<1>16. NameDirectory => dirs' = Append(dirs, DirOf(clock)) \/ UNCHANGED dirs
  BY DEF NameDirectory
<1>17. DfOpenFails \/ InterruptEarly \/ Exit \/ PowerLoss \/ (Return /\ ProcessEnds)
         => ProcessEnds /\ (UNCHANGED rmVars \/ RmIdle)
  BY DEF DfOpenFails, InterruptEarly, Exit, PowerLoss, Return
<1>18. QED
  BY <1>4, <1>5, <1>6, <1>7, <1>8, <1>9, <1>10, <1>11, <1>12, <1>13, <1>14, <1>15, <1>16, <1>17
     DEF Next, Save, Delete, Rm, Environment

(* Once the oldest directory's name is longer than the cut and its hour is  *)
(* over, nothing is ever deleted again before a listing is misread: on      *)
(* every disk and over any number of launches.                              *)
THEOREM DeletionBlocked == NamesInOrder => (Spec => BlockedForGood)
<1> SUFFICES ASSUME NamesInOrder PROVE Spec => BlockedForGood
  OBVIOUS
<1>1. TypeOK /\ Ordered /\ [Next]_vars
      => [Blocked => (Blocked' /\ Head(dirs') = Head(dirs)) \/ astray']_vars
  BY BlockedStep
<1>2. QED
  BY <1>1, TypeCorrect, OrderKeptForever, PTL DEF Spec, BlockedForGood

-----------------------------------------------------------------------------
(* The file that is being written.                                          *)

(* The frames of one hour's files are bounded: a file is a second, and an   *)
(* hour has SecondsPerHour of them.                                         *)
LEMMA OneHourBound ==
    ASSUME NEW h \in Nat,
           NEW F \in SUBSET ({t \in Seconds : HourOf(t) = h} \X (1 .. MinuteFrames))
    PROVE  Cardinality(F) \in Nat /\ Cardinality(F) <= SecondsPerHour * MinuteFrames
<1> DEFINE H == SecondsPerHour
           first == H * h
           hour == first .. first + (H - 1)
<1>1. H \in Nat \ {0} /\ MinuteFrames \in Nat \ {0}
  BY ConstantFacts
<1>2. first \in Nat
  BY <1>1
<1>3. {t \in Seconds : HourOf(t) = h} \subseteq hour
  <2> SUFFICES ASSUME NEW t \in Seconds, HourOf(t) = h PROVE t \in hour
    OBVIOUS
  <2> DEFINE r == t % H
  <2>1. t \in Nat
    BY HourFacts
  <2>2. r \in 0 .. H - 1 /\ t = first + r
    BY <1>1, <2>1, DivMod DEF HourOf
  <2> HIDE DEF first, r
  <2>3. QED
    BY <1>1, <1>2, <2>1, <2>2
<1> HIDE DEF H, first
<1>4. IsFiniteSet(hour) /\ Cardinality(hour) = H
  <2>1. first + (H - 1) \in Int /\ first \in Int /\ first <= first + (H - 1)
    BY <1>1, <1>2
  <2>2. IsFiniteSet(hour) /\ Cardinality(hour) = (first + (H - 1)) - first + 1
    BY <2>1, FS_Interval
  <2>3. QED
    BY <1>1, <1>2, <2>2
<1>5. IsFiniteSet(1 .. MinuteFrames) /\ Cardinality(1 .. MinuteFrames) = MinuteFrames
  BY <1>1, FS_Interval
<1> HIDE DEF hour
<1>6. /\ IsFiniteSet(hour \X (1 .. MinuteFrames))
      /\ Cardinality(hour \X (1 .. MinuteFrames)) = H * MinuteFrames
  BY <1>4, <1>5, FS_Product
<1>7. F \subseteq hour \X (1 .. MinuteFrames)
  BY <1>3
<1>8. QED
  BY <1>6, <1>7, FS_Subset, FS_CardinalityType DEF H

LEMMA HourRoomIsFileRoom == RoomForHour => RoomForFile
<1> SUFFICES ASSUME RoomForHour, NEW o \in OtherUse
             PROVE  100 * (Total - o - MinuteFrames) >= 30 * Total
  BY DEF RoomForFile
<1>1. SecondsPerHour \in Nat \ {0} /\ MinuteFrames \in Nat /\ Total \in Nat /\ o \in Nat
  BY ConstantFacts, DiskAssumption
<1>2. SecondsPerHour * MinuteFrames \in Nat /\ SecondsPerHour * MinuteFrames >= MinuteFrames
  BY <1>1
<1>3. 100 * (Total - o - SecondsPerHour * MinuteFrames) >= 30 * Total
  BY DEF RoomForHour
<1> DEFINE full == SecondsPerHour * MinuteFrames
<1>4. full \in Nat /\ full >= MinuteFrames /\ 100 * (Total - o - full) >= 30 * Total
  BY <1>2, <1>3
<1> HIDE DEF full
<1>5. QED
  BY <1>1, <1>4

(* A name of an hour before the clock's, the open file's and that of the    *)
(* file about to be opened.                                                 *)
BeforeCurrent(n) ==
    \A s \in Seconds : DirOf(s) = n =>
        /\ HourOf(s) < HourOf(clock)
        /\ savepc = "open" => HourOf(s) < HourOf(stamp)
        /\ \A f \in writer : HourOf(s) < HourOf(f)

(* What makes CurrentFileKept so: from the reading of the free space on,    *)
(* the directory that is to go is one of an earlier hour.                   *)
CurrentSafe ==
    /\ delpc = "ls" => BeforeCurrent(Head(dirs))
    /\ rm # "idle" => BeforeCurrent(cut)

(* On a disk that is roomy for hours low space means frames of two hours.   *)
LEMMA LowMeansTwoHours ==
    ASSUME RoomForHour, TypeOK, NEW o \in OtherNow, Low(o), NEW h \in Nat
    PROVE  \E x \in footage : HourOf(x[1]) # h
<1> DEFINE full == SecondsPerHour * MinuteFrames
           n == Cardinality(footage)
<1>1. n \in Nat
  BY FootageFinite DEF TypeOK
<1>2. full \in Nat /\ Total \in Nat
  BY ConstantFacts
<1>3. o \in Nat /\ o + n <= Total /\ o \in OtherUse
  BY <1>1, DiskAssumption DEF OtherNow
<1>4. 100 * (Total - o - n) < 30 * Total
  BY DEF Low, LowReadings, Available
<1>5. 100 * (Total - o - full) >= 30 * Total
  BY <1>3 DEF RoomForHour
<1> HIDE DEF full, n
<1>6. n > full
  BY <1>1, <1>2, <1>3, <1>4, <1>5
<1>7. SUFFICES ASSUME \A x \in footage : HourOf(x[1]) = h PROVE FALSE
  OBVIOUS
<1>8. footage \in SUBSET ({t \in Seconds : HourOf(t) = h} \X (1 .. MinuteFrames))
  BY <1>7 DEF TypeOK
<1>9. QED
  BY <1>2, <1>6, <1>8, OneHourBound DEF full, n

(* And so the oldest directory is of an hour before the current one.        *)
LEMMA LowMeansOldHour ==
    ASSUME RoomForHour, NamesInOrder, Inductive, Ordered, NEW o \in OtherNow, Low(o)
    PROVE  BeforeCurrent(Head(dirs))
<1> USE DEF Inductive, Ordered
<1>1. dirs # <<>>
  BY LowMeansListed, HourRoomIsFileRoom
<1> SUFFICES ASSUME NEW s \in Seconds, DirOf(s) = Head(dirs)
             PROVE  /\ HourOf(s) < HourOf(clock)
                    /\ savepc = "open" => HourOf(s) < HourOf(stamp)
                    /\ \A f \in writer : HourOf(s) < HourOf(f)
  BY DEF BeforeCurrent
<1>2. /\ clock \in Seconds /\ stamp \in Seconds /\ writer \subseteq Seconds /\ files \subseteq Seconds
      /\ \A t \in Seconds : HourOf(t) \in Nat
  BY HourFacts DEF TypeOK
<1>3. \A g \in files : HourOf(s) <= HourOf(g)
  BY <1>1, <1>2, HeadIsOldest DEF StoreOK
<1>4. ASSUME NEW x \in Seconds, HourOf(s) < HourOf(x), x <= clock, savepc = "open" => x <= stamp,
             \A f \in writer : x <= f
      PROVE  /\ HourOf(s) < HourOf(clock)
             /\ savepc = "open" => HourOf(s) < HourOf(stamp)
             /\ \A f \in writer : HourOf(s) < HourOf(f)
  <2>1. HourOf(x) <= HourOf(clock) /\ (savepc = "open" => HourOf(x) <= HourOf(stamp))
    BY <1>2, <1>4, HourFacts
  <2>2. \A f \in writer : HourOf(x) <= HourOf(f)
    BY <1>2, <1>4, HourFacts
  <2>3. QED
    BY <1>2, <1>4, <2>1, <2>2
<1>5. PICK x \in footage : HourOf(x[1]) # HourOf(s)
  BY <1>2, LowMeansTwoHours
<1>6. x[1] \in Seconds /\ x[1] \in files \cup writer
  BY <1>5 DEF TypeOK, FootageOK
<1>7. CASE x[1] \in files
  <2>1. HourOf(s) < HourOf(x[1])
    BY <1>2, <1>3, <1>5, <1>6, <1>7
  <2>2. QED
    BY <1>4, <1>6, <1>7, <2>1 DEF NewestLast
<1>8. CASE x[1] \in writer
  <2>1. \A f \in writer : f = x[1]
    BY <1>8 DEF WriterOK
  <2>2. CASE HourOf(s) < HourOf(x[1])
    <3>1. x[1] <= stamp /\ stamp <= clock
      BY <1>8 DEF NewestLast
    <3>2. x[1] <= clock /\ x[1] <= x[1]
      BY <1>2, <1>6, <3>1, HourFacts
    <3>3. QED
      BY <1>4, <1>6, <2>1, <2>2, <3>1, <3>2
  <2>3. CASE HourOf(x[1]) < HourOf(s)
    <3>1. files = {}
      <4> SUFFICES ASSUME NEW g \in files PROVE FALSE
        OBVIOUS
      <4>1. g <= x[1] /\ HourOf(s) <= HourOf(g)
        BY <1>3, <1>8 DEF NewestLast
      <4>2. HourOf(g) <= HourOf(x[1])
        BY <1>2, <1>6, <4>1, HourFacts
      <4>3. QED
        BY <1>2, <1>6, <2>3, <4>1, <4>2
    <3>2. \A y \in footage : y[1] = x[1]
      BY <2>1, <3>1 DEF FootageOK
    <3>3. PICK y \in footage : HourOf(y[1]) # HourOf(x[1])
      BY <1>2, <1>6, LowMeansTwoHours
    <3>4. QED
      BY <3>2, <3>3
  <2>4. QED
    BY <1>2, <1>5, <1>6, <2>2, <2>3
<1>9. QED
  BY <1>6, <1>7, <1>8

(* A name of an earlier hour stays one.                                     *)
LEMMA BeforeStays ==
    ASSUME TypeOK, Next, NEW n, BeforeCurrent(n)
    PROVE  BeforeCurrent(n)'
<1>1. clock \in Seconds /\ clock' \in Seconds /\ clock <= clock'
  <2>1. clock' \in Seconds
    BY TypeMain, TypeSave, TypeDelete, TypeRm, TypeEnvironment DEF Next, TypeOK
  <2>2. clock' = clock \/ clock' = clock + 1
    BY DEF Next, Main, Save, Delete, Rm, Environment, ProcessEnds, MakeDirectory, CreateSave,
           CreateDelete, InstallHandler, NameDirectory, OpenFile, OpenFails, GrabFrame, EmptyFrame,
           DfOpen, DfOpenFails, Df, List, ListNothing, ListFails, Return, Wake, RmStart, RmEnter, RmUnlink, RmDirectory, RmEnds, RmKilled,
           Launch, Tick, InterruptEarly, Interrupt, Exit, PowerLoss
  <2>3. QED
    BY <2>1, <2>2, HourFacts DEF TypeOK
<1>2. savepc' = "open" => (savepc = "open" /\ stamp' = stamp) \/ stamp' = clock
  BY DEF Next, Main, Save, Delete, Rm, Environment, ProcessEnds, MakeDirectory, CreateSave,
         CreateDelete, InstallHandler, NameDirectory, OpenFile, OpenFails, GrabFrame, EmptyFrame,
         DfOpen, DfOpenFails, Df, List, ListNothing, ListFails, Return, Wake, RmStart, RmEnter, RmUnlink, RmDirectory, RmEnds, RmKilled,
         Launch, Tick, InterruptEarly, Interrupt, Exit, PowerLoss
<1>3. writer' \subseteq writer \/ (savepc = "open" /\ writer' = {stamp})
  BY DEF Next, Main, Save, Delete, Rm, Environment, ProcessEnds, MakeDirectory, CreateSave,
         CreateDelete, InstallHandler, NameDirectory, OpenFile, OpenFails, GrabFrame, EmptyFrame,
         DfOpen, DfOpenFails, Df, List, ListNothing, ListFails, Return, Wake, RmStart, RmEnter, RmUnlink, RmDirectory, RmEnds, RmKilled,
         Launch, Tick, InterruptEarly, Interrupt, Exit, PowerLoss
<1>4. \A s \in Seconds : HourOf(s) < HourOf(clock) => HourOf(s) < HourOf(clock')
  <2>1. HourOf(clock) <= HourOf(clock')
    BY <1>1, HourFacts
  <2>2. QED
    BY <1>1, <2>1, HourFacts
<1>5. QED
  BY <1>2, <1>3, <1>4 DEF BeforeCurrent

LEMMA CurrentStep ==
    ASSUME RoomForHour, NamesInOrder, Inductive, Ordered, CurrentSafe, Next
    PROVE  CurrentSafe'
<1> USE DEF Inductive
<1>1. delpc' = "ls" => BeforeCurrent(Head(dirs))'
  <2> SUFFICES ASSUME delpc' = "ls" PROVE BeforeCurrent(Head(dirs))'
    OBVIOUS
  <2>1. CASE Df
    <3>1. BeforeCurrent(Head(dirs))
      BY <2>1, LowMeansOldHour DEF Df, Sleep
    <3>2. UNCHANGED <<dirs, clock, savepc, stamp, writer>>
      BY <2>1 DEF Df
    <3>3. QED
      BY <3>1, <3>2 DEF BeforeCurrent
  <2>2. CASE ~Df
    <3>1. delpc = "ls"
      BY <2>2 DEF Next, Main, Save, Delete, Rm, Environment, ProcessEnds, MakeDirectory,
           CreateSave, CreateDelete, InstallHandler, NameDirectory, OpenFile, OpenFails,
           GrabFrame, EmptyFrame, DfOpen, DfOpenFails, List, ListNothing, ListFails, Return, Wake, Sleep,
           RmStart, RmEnter, RmUnlink, RmDirectory, RmEnds, RmKilled, Launch, Tick, InterruptEarly, Interrupt, Exit, PowerLoss
    <3>2. dirs # <<>> /\ BeforeCurrent(Head(dirs)) /\ Head(dirs) \in Names
      BY <3>1 DEF CurrentSafe, ListingOK, TypeOK
    <3>3. Head(dirs') = Head(dirs)
      <4>1. CASE NameDirectory
        <5>1. DirOf(clock) \in Names
          BY HourFacts DEF TypeOK
        <5>2. QED
          BY <3>2, <4>1, <5>1 DEF NameDirectory, TypeOK
      <4>2. CASE OpenFile
        <5> DEFINE rest == RemoveFirst(dirs, DirOf(stamp))
        <5>1. DirOf(stamp) # Head(dirs) /\ DirOf(stamp) \in Names
          BY <3>2, <4>2, HourFacts DEF OpenFile, BeforeCurrent, TypeOK
        <5>2. rest # <<>> /\ Head(rest) = Head(dirs) /\ rest \in Seq(Names)
          BY <3>2, <5>1, RemoveFirstHead, RemoveFirstSet DEF TypeOK
        <5> HIDE DEF rest
        <5>3. Head(Append(rest, DirOf(stamp))) = Head(dirs)
          BY <5>1, <5>2
        <5>4. QED
          BY <4>2, <5>3 DEF OpenFile, rest
      <4>3. CASE RmDirectory
        BY <3>1, <4>3 DEF RmDirectory, ListingOK
      <4>4. QED
        BY <4>1, <4>2, <4>3
           DEF Next, Main, Save, Delete, Rm, Environment, ProcessEnds, MakeDirectory, CreateSave,
               CreateDelete, InstallHandler, OpenFails, GrabFrame, EmptyFrame, DfOpen,
               DfOpenFails, Df, List, ListNothing, ListFails, Return, Wake, RmStart, RmEnter, RmUnlink, RmEnds, RmKilled, Launch, Tick,
               InterruptEarly, Interrupt, Exit, PowerLoss
    <3>4. PICK d \in Names : d = Head(dirs)
      BY <3>2
    <3>5. BeforeCurrent(d)
      BY <3>2, <3>4
    <3>6. BeforeCurrent(d)'
      BY <3>5, BeforeStays
    <3>7. QED
      BY <3>3, <3>4, <3>6 DEF BeforeCurrent
  <2>3. QED
    BY <2>1, <2>2
<1>2. rm' # "idle" => BeforeCurrent(cut)'
  <2> SUFFICES ASSUME rm' # "idle" PROVE BeforeCurrent(cut)'
    OBVIOUS
  <2>1. CASE List
    <3>1. SUFFICES ASSUME NEW s \in Seconds, DirOf(s) = cut'
                   PROVE  /\ HourOf(s) < HourOf(clock)
                          /\ savepc = "open" => HourOf(s) < HourOf(stamp)
                          /\ \A f \in writer : HourOf(s) < HourOf(f)
      BY <2>1 DEF List, BeforeCurrent
    <3>2. DirOf(s) # NoName
      BY HourFacts, NameAssumption
    <3>3. dirs # <<>> /\ DirOf(s) = CutName(Head(dirs)) /\ BeforeCurrent(Head(dirs))
      BY <2>1, <3>1, <3>2 DEF List, CurrentSafe
    <3>4. PICK h \in Seconds : DirOf(h) = Head(dirs) /\ HourOf(s) <= HourOf(h)
      BY <3>3, CutHour DEF Ordered
    <3>5. /\ HourOf(h) < HourOf(clock)
          /\ savepc = "open" => HourOf(h) < HourOf(stamp)
          /\ \A f \in writer : HourOf(h) < HourOf(f)
      BY <3>3, <3>4 DEF BeforeCurrent
    <3>6. HourOf(s) \in Nat /\ HourOf(h) \in Nat /\ HourOf(clock) \in Nat /\ HourOf(stamp) \in Nat
          /\ \A f \in writer : HourOf(f) \in Nat
      BY HourFacts DEF TypeOK
    <3>7. QED
      BY <3>4, <3>5, <3>6
  <2>2. CASE ListNothing
    <3>1. \A s \in Seconds : DirOf(s) # cut'
      BY <2>2, HourFacts, NameAssumption DEF ListNothing
    <3>2. QED
      BY <3>1 DEF BeforeCurrent
  <2>3. CASE ~List /\ ~ListNothing
    <3>1. rm # "idle" /\ cut' = cut
      BY <2>3 DEF Next, Main, Save, Delete, Rm, Environment, ProcessEnds, RmIdle, MakeDirectory,
           CreateSave, CreateDelete, InstallHandler, NameDirectory, OpenFile, OpenFails,
           GrabFrame, EmptyFrame, DfOpen, DfOpenFails, Df, ListFails, Return, Wake,
           RmStart, RmEnter, RmUnlink, RmDirectory, RmEnds, RmKilled, Launch, Tick, InterruptEarly, Interrupt, Exit, PowerLoss
    <3>2. PICK n \in Cuts \cup {NoName} : n = cut
      BY DEF TypeOK
    <3>3. BeforeCurrent(n)
      BY <3>1, <3>2 DEF CurrentSafe
    <3>4. BeforeCurrent(n)'
      BY <3>3, BeforeStays
    <3>5. QED
      BY <3>1, <3>2, <3>4 DEF BeforeCurrent
  <2>4. QED
    BY <2>1, <2>2, <2>3
<1>3. QED
  BY <1>1, <1>2 DEF CurrentSafe

(* On a disk that is roomy for hours rm never takes the file that is being  *)
(* written, unless it was given the whole base directory.                   *)
THEOREM CurrentKept == RoomForHour /\ NamesInOrder => (Spec => CurrentFileKept)
<1> SUFFICES ASSUME RoomForHour, NamesInOrder PROVE Spec => CurrentFileKept
  OBVIOUS
<1>1. Init => CurrentSafe
  BY DEF Init, CurrentSafe
<1>2. Inductive /\ Ordered /\ CurrentSafe /\ [Next]_vars => CurrentSafe'
  <2>1. CurrentSafe /\ UNCHANGED vars => CurrentSafe'
    BY DEF CurrentSafe, BeforeCurrent
  <2>2. QED
    BY <2>1, CurrentStep
<1>3. ASSUME Inductive, WalkOK, CurrentSafe, Next, NEW f \in writer \cap files
      PROVE  f \in files' \/ writer' # writer \/ astray
  <2>1. CASE OpenFile
    BY <1>3, <2>1 DEF OpenFile
  <2>2. CASE RmUnlink
    <3>1. CASE cut = NoName
      BY <1>3, <2>2, <3>1 DEF RmUnlink, Inductive, ListingOK
    <3>2. CASE cut # NoName
      <4>1. f \in Seconds /\ HourOf(f) \in Nat /\ DirOf(f) # NoName
        BY <1>3, HourFacts, NameAssumption DEF Inductive, TypeOK
      <4>2. DirOf(f) # inside
        BY <1>3, <2>2, <3>2, <4>1 DEF CurrentSafe, BeforeCurrent, RmUnlink, WalkOK
      <4>3. QED
        BY <1>3, <2>2, <4>2, UnlinkTakes DEF Inductive
    <3>3. QED
      BY <3>1, <3>2
  <2>3. QED
    BY <1>3, <2>1, <2>2, FilesStep
<1>4. Inductive /\ WalkOK /\ CurrentSafe /\ [Next]_vars
      => [\A f \in writer \cap files : f \in files' \/ writer' # writer \/ astray]_vars
  BY <1>3
<1>5. QED
  BY <1>1, <1>2, <1>4, HourRoomIsFileRoom, StoreConsistent, WalkForever, OrderKeptForever, PTL
     DEF Spec, CurrentFileKept

-----------------------------------------------------------------------------
(* The early recorder                                                       *)

LEMMA EarlyStepIsStep == EarlyNext => Next
BY DEF EarlyNext, EarlyMain, EarlyMakeDirectory, EarlySave, EarlyDelete, EarlyDfOpen,
       EarlyDeleteOld, EarlyStop, Next, Main, Save, Delete, Environment

(* The threads are word for word the later recorder's, and so what holds of *)
(* its steps holds of webcam_save.cpp's.                                    *)
LEMMA EarlyRefines == EarlySpec => Spec
<1>1. [EarlyNext]_vars => [Next]_vars
  BY EarlyStepIsStep
<1> QED BY <1>1, PTL DEF EarlySpec, Spec

(* The theorem of the later recorder, inherited: one file without an index  *)
(* per launch of webcam_save.cpp at most, besides those closed on a full    *)
(* disk.                                                                    *)
THEOREM EarlyTornFiles == EarlySpec => []TornFilesBound
BY EarlyRefines, TornFiles, PTL

(* And on a roomy disk webcam_save.cpp, too, is no more than the abstract   *)
(* store: it deletes of the oldest hour, and anything else only after a     *)
(* misread listing.                                                         *)
THEOREM EarlyStoreRefined ==
    RoomForFile /\ NamesInOrder => (EarlySpec => OldestFirst /\ ImplementsRetention)
BY EarlyRefines, DeletesOldest, StoreRefined, PTL

(* What makes NoOrphan inductive.                                           *)
NoHandler ==
    /\ NoOrphan
    /\ mainpc \in {"off", "mkdirs", "save", "delete"} => delpc = "off"

LEMMA NoHandlerStep == NoHandler /\ [EarlyNext]_vars => NoHandler'
<1> SUFFICES ASSUME NoHandler, [EarlyNext]_vars PROVE NoHandler'
  OBVIOUS
<1> USE DEF NoHandler, NoOrphan
<1>1. CASE UNCHANGED vars
  BY <1>1
<1>2. CASE EarlyMain
  BY <1>2 DEF EarlyMain, EarlyMakeDirectory, Launch, MakeDirectory, CreateSave, CreateDelete
<1>3. CASE EarlySave
  BY <1>3 DEF EarlySave, Save, NameDirectory, OpenFile, OpenFails, GrabFrame, EmptyFrame
<1>4. CASE EarlyDelete
  BY <1>4 DEF EarlyDelete, EarlyDfOpen, EarlyDeleteOld, DfOpen, DfOpenFails, Df, List, ListNothing, ListFails,
              Return, Wake, Sleep, ProcessEnds, Live
<1>5. CASE EarlyStop
  BY <1>5 DEF EarlyStop, InterruptEarly, ProcessEnds
<1>6. CASE Rm
  BY <1>6 DEF Rm, RmStart, RmEnter, RmUnlink, RmDirectory, RmEnds, RmKilled, RmIdle
<1>7. CASE Tick
  BY <1>7 DEF Tick
<1>8. CASE PowerLoss
  BY <1>8 DEF PowerLoss, ProcessEnds, RmIdle
<1> QED BY <1>1, <1>2, <1>3, <1>4, <1>5, <1>6, <1>7, <1>8 DEF EarlyNext

(* Only system() starts rm, the default action of SIGINT cannot end the     *)
(* program while it waits there, and a power loss ends both: no rm is ever  *)
(* at work without the program that started it.                             *)
THEOREM EarlyNoOrphan == EarlySpec => []NoOrphan
<1>1. Init => NoHandler
  BY DEF Init, NoHandler, NoOrphan
<1>2. NoHandler => NoOrphan
  BY DEF NoHandler
<1> QED BY <1>1, <1>2, NoHandlerStep, PTL DEF EarlySpec

=============================================================================
