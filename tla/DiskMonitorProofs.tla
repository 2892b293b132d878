------------------------- MODULE DiskMonitorProofs -------------------------
(***************************************************************************)
(* Theorems about the free-space monitors, for every table of file systems *)
(* of every length, every change of it and of the disks at any moment,     *)
(* however stdio takes in the lines, and every width of the ints.          *)
(***************************************************************************)
EXTENDS DiskMonitor, SequenceTheorems, TLAPS

USE DEF vars, streamVars, figureVars, storeVars, rmVars, Rewound

(* What makes JudgesTheRoot and PrintsEachPass so.  StreamOK: in a pass     *)
(* that nothing disturbed, what stdio holds is the part of the table behind *)
(* what fgets has returned.  FiguresOK: the two ints are those of the last  *)
(* look at the root.  PrintingOK: what has been printed is the part of the  *)
(* table that has been read.                                                *)
Fetched == position - Len(unread)

StreamOK ==
    /\ table \in Tables /\ usage \in Usages
    /\ position \in 0 .. Len(table) /\ unread \in Seq(Lines) /\ disturbed \in BOOLEAN
    /\ pc # "get" => position = 0 /\ unread = <<>> /\ ~disturbed
    /\ ~disturbed => /\ Len(unread) <= position
                     /\ \A i \in 1 .. Len(unread) : unread[i] = table[Fetched + i]

FiguresOK ==
    seen # NoFigures =>
        /\ seen \in Figures /\ seen.avail <= seen.blocks
        /\ program \notin Printers =>
              /\ available = ToInt(InKib(seen.avail, seen))
              /\ total_v = ToInt(InKib(seen.blocks, seen))

PrintingOK ==
    program \in Printers =>
        /\ pc \notin {"get", "judge"} => printed = <<>>
        /\ pc = "get" /\ ~disturbed =>
              /\ printed \in Seq(Nat \X Nat)
              /\ PrintedUpTo(program, printed, table, usage, Fetched)

MonitorOK == StreamOK /\ FiguresOK /\ PrintingOK

-----------------------------------------------------------------------------
(* Arithmetic of the figures.                                               *)

LEMMA TimesPositive ==
    ASSUME NEW n \in Nat, NEW k \in Nat
    PROVE  n * k \in Nat /\ (k > 0 => n <= n * k)
OBVIOUS

LEMMA TimesMonotone ==
    ASSUME NEW a \in Nat, NEW b \in Nat, NEW k \in Nat, a <= b
    PROVE  a * k <= b * k
OBVIOUS

(* A common factor does not change a comparison.                            *)
LEMMA CommonFactor ==
    ASSUME NEW a \in Nat, NEW b \in Nat, NEW k \in Nat \ {0}
    PROVE  a * k < b * k <=> a < b
<1>1. a < b => a * k < b * k
  <2> SUFFICES ASSUME a < b PROVE a * k < b * k
    OBVIOUS
  <2>1. PICK d \in Nat : b = a + 1 + d
    <3>1. b - a - 1 \in Nat /\ b = a + 1 + (b - a - 1)
      OBVIOUS
    <3> QED BY <3>1
  <2>2. b * k = a * k + k + d * k /\ d * k \in Nat /\ a * k \in Nat
    BY <2>1
  <2> QED BY <2>2
<1>2. b <= a => b * k <= a * k
  BY TimesMonotone
<1>3. a * k \in Nat /\ b * k \in Nat
  OBVIOUS
<1> QED BY <1>1, <1>2, <1>3

LEMMA DivMod ==
    ASSUME NEW n \in Nat, NEW k \in Nat \ {0}
    PROVE  /\ n \div k \in Nat /\ n % k \in 0 .. k - 1
           /\ n = k * (n \div k) + (n % k)
OBVIOUS

LEMMA DivPositive ==
    ASSUME NEW n \in Nat, NEW k \in Nat \ {0}, n >= k
    PROVE  n \div k \in Nat \ {0}
<1>1. ASSUME n \div k = 0 PROVE n < k
  <2>1. k * (n \div k) = 0
    BY <1>1
  <2> QED BY <2>1, DivMod
<1> QED BY <1>1, DivMod

LEMMA WholeKib ==
    ASSUME NEW u \in Figures, u.bsize >= Kib
    PROVE  u.bsize \div Kib \in Nat \ {0}
<1>1. Kib \in Nat \ {0} /\ u.bsize \in Nat
  BY DiskMonitorAssumption DEF Figures
<1> QED BY <1>1, DivPositive

LEMMA IntKeeps ==
    ASSUME NEW n \in Nat, n < IntHalf
    PROVE  ToInt(n) = n
<1>1. IntHalf \in Nat \ {0}
  BY DiskMonitorAssumption
<1>2. n % (2 * IntHalf) = n
  BY <1>1
<1>3. n \in Ints
  BY <1>1 DEF Ints
<1> QED BY <1>2, <1>3 DEF ToInt

LEMMA UnsignedKeeps ==
    ASSUME NEW n \in Nat, n < 2 * IntHalf
    PROVE  Unsigned(n) = n
BY DiskMonitorAssumption DEF Unsigned

-----------------------------------------------------------------------------
(* What a pass does with the table.                                         *)

LEMMA EmptyAtZero ==
    ASSUME NEW S, NEW s \in Seq(S), Len(s) <= 0
    PROVE  s = <<>>
<1>1. Len(s) = 0
  OBVIOUS
<1> QED BY <1>1, EmptySeq

LEMMA TableLines ==
    ASSUME NEW t \in Tables
    PROVE  t \in Seq(Lines) /\ Len(t) \in Nat /\ \A i \in 1 .. Len(t) : t[i] \in Lines
BY DiskMonitorAssumption

LEMMA UsageFigures ==
    ASSUME NEW u \in Usages, NEW line \in Lines
    PROVE  u[line.dir] \in Figures /\ u[line.dir].avail <= u[line.dir].blocks
BY DiskMonitorAssumption DEF Lines

(* fgets returns the line at Fetched + 1.                                   *)
LEMMA FgetsLine ==
    ASSUME StreamOK, NEW line, Fgets(line)
    PROVE  /\ line \in Lines /\ StreamOK'
           /\ ~disturbed => /\ Fetched \in Nat /\ Fetched' = Fetched + 1
                            /\ Fetched + 1 \in 1 .. Len(table)
                            /\ line = table[Fetched + 1]
<1>1. /\ pc = "get" /\ unread # <<>> /\ line = Head(unread) /\ unread' = Tail(unread)
      /\ UNCHANGED <<pc, table, usage, position, disturbed>>
  BY DEF Fgets
<1>2. unread \in Seq(Lines) /\ position \in Nat /\ position <= Len(table)
  BY TableLines DEF StreamOK
<1>3. /\ Len(unread) \in Nat \ {0} /\ line = unread[1] /\ line \in Lines
      /\ unread' \in Seq(Lines) /\ Len(unread') = Len(unread) - 1
      /\ \A i \in 1 .. Len(unread) - 1 : unread'[i] = unread[i + 1]
  BY <1>1, <1>2
<1>4. ASSUME ~disturbed
      PROVE  /\ Fetched \in Nat /\ Fetched' = Fetched + 1
             /\ Fetched + 1 \in 1 .. Len(table)
             /\ line = table[Fetched + 1]
             /\ Len(unread') <= position'
             /\ \A i \in 1 .. Len(unread') : unread'[i] = table'[Fetched' + i]
  <2>1. Len(unread) <= position /\ \A i \in 1 .. Len(unread) : unread[i] = table[Fetched + i]
    BY <1>4 DEF StreamOK
  <2>2. Len(table) \in Nat
    BY TableLines DEF StreamOK
  <2>3. Fetched \in Nat /\ Fetched' = Fetched + 1 /\ Fetched + 1 \in 1 .. Len(table)
    BY <1>1, <1>2, <1>3, <2>1, <2>2 DEF Fetched
  <2>4. \A i \in 1 .. Len(unread') : unread'[i] = table'[Fetched' + i]
    <3> SUFFICES ASSUME NEW i \in 1 .. Len(unread') PROVE unread'[i] = table[Fetched' + i]
      BY <1>1
    <3>1. i + 1 \in 1 .. Len(unread) /\ Fetched + (i + 1) = Fetched' + i
      BY <1>3, <2>3
    <3> QED BY <1>3, <2>1, <3>1
  <2> QED BY <1>1, <1>2, <1>3, <2>1, <2>3, <2>4
<1>5. StreamOK'
  BY <1>1, <1>3, <1>4 DEF StreamOK
<1> QED BY <1>3, <1>4, <1>5

(* stdio takes in lines from the position on.                               *)
LEMMA TakeInLines ==
    ASSUME StreamOK, TakeIn
    PROVE  StreamOK' /\ Fetched' = Fetched
<1>1. PICK n \in position + 1 .. Len(table) :
         unread' = SubSeq(table, position + 1, n) /\ position' = n
  BY DEF TakeIn
<1>2. pc = "get" /\ unread = <<>> /\ UNCHANGED <<pc, table, usage, disturbed>>
  BY DEF TakeIn
<1>3. table \in Seq(Lines) /\ Len(table) \in Nat /\ position \in Nat /\ position <= Len(table)
  BY TableLines DEF StreamOK
<1>4. /\ unread' \in Seq(Lines) /\ Len(unread') = n - position
      /\ \A i \in 1 .. n - position : unread'[i] = table[position + i]
  <2>1. position + 1 \in Int /\ n \in Int /\ \A i \in position + 1 .. n : table[i] \in Lines
    BY <1>3
  <2>2. /\ SubSeq(table, position + 1, n) \in Seq(Lines)
        /\ Len(SubSeq(table, position + 1, n))
              = IF position + 1 <= n THEN n - (position + 1) + 1 ELSE 0
        /\ \A i \in 1 .. n - (position + 1) + 1 :
              SubSeq(table, position + 1, n)[i] = table[(position + 1) + i - 1]
    BY <2>1, SubSeqProperties
  <2>3. n - (position + 1) + 1 = n - position /\ position + 1 <= n
    BY <1>3
  <2>4. \A i \in 1 .. n - position : (position + 1) + i - 1 = position + i
    BY <1>3
  <2> QED BY <1>1, <2>2, <2>3, <2>4
<1>5. Fetched = position /\ Fetched' = position
  BY <1>1, <1>2, <1>3, <1>4 DEF Fetched
<1> QED BY <1>1, <1>2, <1>3, <1>4, <1>5 DEF StreamOK

(* The steps that leave the table, the disks and stdio alone.               *)
Aside == DfOpen \/ Judge \/ Wake \/ DeleteOld \/ Record

LEMMA StepKinds ==
    ASSUME Next
    PROVE  \/ Aside \/ TakeIn \/ Skip \/ DfEnd \/ Remount \/ Use
           \/ (\E who \in Monitors \ Printers : Keeps(who))
           \/ (\E who \in Printers : PrintsLine(who))
BY DEF Next, Reading, Aside, DfGet, DfGetBack, DfGetC, Statfs, Statfs2, Statfss, Printers, Monitors

LEMMA AsideStep ==
    ASSUME Aside
    PROVE  /\ UNCHANGED <<program, table, usage, position, unread, disturbed, available, total_v, seen>>
           /\ pc' = pc \/ (pc # "get" /\ pc' # "judge")
           /\ pc' = "get" /\ pc # "get" => pc \in {"open", "sleep"}
           /\ pc = "judge" /\ pc' # "judge" => Judge
           /\ printed' # printed => Judge
BY DEF Aside, DfOpen, Judge, Wake, Record, DeleteOld, DeleteFromBase, DeleteFromHere, DeleteIntoLiteral,
       DeleteHere, DeleteFails, Listing, RmStart, RmDirectory, RmReturns, RmEnds, RmKilled

LEMMA ReturnedFgets ==
    ASSUME NEW line, Returned(line)
    PROVE  Fgets(line) /\ Returns(line) /\ UNCHANGED <<program, pc, table, usage, disturbed>>
BY DEF Returned, Fgets

LEMMA StreamStep == StreamOK /\ Next => StreamOK'
<1> SUFFICES ASSUME StreamOK, Next PROVE StreamOK'
  OBVIOUS
<1>1. CASE Aside
  BY <1>1, AsideStep DEF StreamOK, Fetched
<1>2. CASE TakeIn
  BY <1>2, TakeInLines
<1>3. CASE Skip
  BY <1>3, FgetsLine DEF Skip
<1>4. CASE DfEnd
  <2>1. /\ Len(table) \in Nat /\ unread' = <<>> /\ position' = 0 /\ disturbed' = FALSE /\ pc' = "judge"
        /\ UNCHANGED <<table, usage>> /\ table \in Tables /\ usage \in Usages
    BY <1>4, TableLines DEF DfEnd, StreamOK
  <2>2. Len(unread') = 0 /\ unread' \in Seq(Lines)
    BY <2>1, EmptySeq
  <2>3. position' \in 0 .. Len(table') /\ Len(unread') <= position' /\ 1 .. Len(unread') = {}
    BY <2>1, <2>2
  <2> QED BY <2>1, <2>2, <2>3 DEF StreamOK
<1>5. CASE Remount
  <2>1. position = 0 /\ ~disturbed => unread = <<>>
    BY EmptyAtZero DEF StreamOK
  <2>2. /\ table' \in Tables /\ Len(table') \in Nat /\ position' \in 0 .. Len(table')
        /\ UNCHANGED <<pc, usage, unread>> /\ disturbed' \in BOOLEAN
        /\ pc' # "get" => position' = 0 /\ unread' = <<>> /\ ~disturbed'
    BY <1>5, TableLines DEF Remount, StreamOK
  <2>3. ~disturbed' => position' = 0 /\ unread' = <<>> /\ Len(unread') = 0
    BY <1>5, <2>1, EmptySeq DEF Remount
  <2>4. ~disturbed' => Len(unread') <= position' /\ 1 .. Len(unread') = {}
    BY <2>3
  <2> QED BY <2>2, <2>4 DEF StreamOK
<1>6. CASE Use
  BY <1>6 DEF Use, StreamOK, Fetched
<1>7. CASE \E who \in Monitors \ Printers : Keeps(who)
  BY <1>7, ReturnedFgets, FgetsLine DEF Keeps
<1>8. CASE \E who \in Printers : PrintsLine(who)
  BY <1>8, ReturnedFgets, FgetsLine DEF PrintsLine
<1> QED BY <1>1, <1>2, <1>3, <1>4, <1>5, <1>6, <1>7, <1>8, StepKinds

(* What the last look at the root was, after a line.                        *)
LEMMA SeenFigures ==
    ASSUME StreamOK, NEW line, Returned(line)
    PROVE  IF line.dir = Root
           THEN seen' = usage[Root] /\ seen' \in Figures /\ seen'.avail <= seen'.blocks
           ELSE seen' = seen
BY ReturnedFgets, FgetsLine, UsageFigures DEF Returned, StreamOK

(* Only a line of the root changes the figures, and it changes both.        *)
LEMMA FiguresStep == StreamOK /\ FiguresOK /\ Next => FiguresOK'
<1> SUFFICES ASSUME StreamOK, FiguresOK, Next PROVE FiguresOK'
  OBVIOUS
<1>1. CASE UNCHANGED <<program, available, total_v, seen>>
  BY <1>1 DEF FiguresOK, ToInt, Ints, InKib
<1>2. ASSUME NEW who \in Monitors \ Printers, Keeps(who) PROVE FiguresOK'
  <2>1. PICK line \in ToSet(unread) :
           /\ Returned(line)
           /\ IF OfRoot(line)
              THEN /\ available' = ToInt(InKib(usage[line.dir].avail, usage[line.dir]))
                   /\ total_v' = ToInt(InKib(usage[line.dir].blocks, usage[line.dir]))
              ELSE UNCHANGED <<available, total_v>>
    BY <1>2 DEF Keeps
  <2>2. program' = program
    BY <2>1, ReturnedFgets
  <2>3. CASE line.dir = Root
    <3>1. /\ available' = ToInt(InKib(usage[Root].avail, usage[Root]))
          /\ total_v' = ToInt(InKib(usage[Root].blocks, usage[Root]))
      BY <2>1, <2>3 DEF OfRoot
    <3> QED BY <2>1, <2>3, <3>1, SeenFigures DEF FiguresOK
  <2>4. CASE line.dir # Root
    BY <2>1, <2>2, <2>4, SeenFigures DEF FiguresOK, OfRoot
  <2> QED BY <2>3, <2>4
<1>3. ASSUME NEW who \in Printers, PrintsLine(who) PROVE FiguresOK'
  <2>1. PICK line \in ToSet(unread) : Returned(line)
    BY <1>3 DEF PrintsLine
  <2>2. program' \in Printers
    BY <1>3, <2>1, ReturnedFgets DEF PrintsLine
  <2> QED BY <2>1, <2>2, SeenFigures DEF FiguresOK
<1>4. CASE TakeIn \/ Skip \/ DfEnd \/ Remount \/ Use
  BY <1>1, <1>4 DEF TakeIn, Skip, Fgets, DfEnd, Remount, Use
<1> QED BY <1>1, <1>2, <1>3, <1>4, StepKinds, AsideStep

-----------------------------------------------------------------------------
(* What has been printed.                                                   *)

LEMMA NothingPrinted ==
    ASSUME NEW who, NEW t, NEW u
    PROVE  <<>> \in Seq(Nat \X Nat) /\ PrintedUpTo(who, <<>>, t, u, 0)
<1> DEFINE none == <<>>
<1>1. Len(none) = 0 /\ 1 .. 0 = {} /\ none \in Seq(Nat \X Nat)
  OBVIOUS
<1>2. [i \in 1 .. 0 |-> 1] \in [1 .. Len(none) -> 1 .. 0] /\ 1 .. Len(none) = {}
  BY <1>1
<1> HIDE DEF none
<1>3. PrintedUpTo(who, none, t, u, 0)
  BY <1>1, <1>2, Zenon DEF PrintedUpTo
<1> QED BY <1>1, <1>3 DEF none

LEMMA NothingBut ==
    ASSUME NEW who, NEW pairs \in Seq(Nat \X Nat), NEW t, NEW u, PrintedUpTo(who, pairs, t, u, 0)
    PROVE  pairs = <<>>
<1>1. PICK at \in [1 .. Len(pairs) -> 1 .. 0] : TRUE
  BY DEF PrintedUpTo
<1>2. Len(pairs) <= 0
  <2>1. ASSUME Len(pairs) > 0 PROVE FALSE
    <3>1. 1 \in 1 .. Len(pairs)
      BY <2>1
    <3>2. at[1] \in 1 .. 0
      BY <1>1, <3>1
    <3> QED BY <3>2
  <2> QED BY <2>1
<1> QED BY <1>2, EmptyAtZero

(* A line that dfget skips adds nothing.                                    *)
LEMMA SkipsPrinting ==
    ASSUME NEW who, NEW pairs \in Seq(Nat \X Nat), NEW t, NEW u, NEW k \in Nat,
           PrintedUpTo(who, pairs, t, u, k), ~Returns(t[k + 1])
    PROVE  PrintedUpTo(who, pairs, t, u, k + 1)
<1>1. PICK at \in [1 .. Len(pairs) -> 1 .. k] :
         /\ \A i, j \in 1 .. Len(pairs) : i < j => at[i] < at[j]
         /\ \A n \in 1 .. k : Returns(t[n]) => \E i \in 1 .. Len(pairs) : at[i] = n
         /\ \A i \in 1 .. Len(pairs) :
               Returns(t[at[i]]) /\ PrintedRight(who, pairs[i], u[t[at[i]].dir])
  BY DEF PrintedUpTo
<1>2. at \in [1 .. Len(pairs) -> 1 .. k + 1] /\ \A n \in 1 .. k + 1 : n \in 1 .. k \/ n = k + 1
  OBVIOUS
<1>3. \A n \in 1 .. k + 1 : Returns(t[n]) => \E i \in 1 .. Len(pairs) : at[i] = n
  BY <1>1, <1>2
<1> QED BY <1>1, <1>2, <1>3, Zenon DEF PrintedUpTo

(* A line that it returns at adds one.                                      *)
LEMMA AddsPrinting ==
    ASSUME NEW who, NEW pairs \in Seq(Nat \X Nat), NEW t, NEW u, NEW k \in Nat,
           PrintedUpTo(who, pairs, t, u, k), Returns(t[k + 1]),
           NEW pair \in Nat \X Nat, PrintedRight(who, pair, u[t[k + 1].dir])
    PROVE  /\ Append(pairs, pair) \in Seq(Nat \X Nat)
           /\ PrintedUpTo(who, Append(pairs, pair), t, u, k + 1)
<1> DEFINE n == k + 1
           m == Len(pairs) + 1
           more == Append(pairs, pair)
<1>1. /\ more \in Seq(Nat \X Nat) /\ Len(more) = m /\ Len(pairs) \in Nat
      /\ \A i \in 1 .. Len(pairs) : more[i] = pairs[i]
      /\ more[m] = pair
  OBVIOUS
<1>2. PICK at \in [1 .. Len(pairs) -> 1 .. k] :
         /\ \A i, j \in 1 .. Len(pairs) : i < j => at[i] < at[j]
         /\ \A q \in 1 .. k : Returns(t[q]) => \E i \in 1 .. Len(pairs) : at[i] = q
         /\ \A i \in 1 .. Len(pairs) :
               Returns(t[at[i]]) /\ PrintedRight(who, pairs[i], u[t[at[i]].dir])
  BY DEF PrintedUpTo
<1> DEFINE bt == [i \in 1 .. m |-> IF i = m THEN n ELSE at[i]]
<1>3. /\ n \in Nat /\ n > k /\ Returns(t[n]) /\ PrintedRight(who, pair, u[t[n].dir])
      /\ \A q \in 1 .. n : q = n \/ q \in 1 .. k
  OBVIOUS
<1>4. /\ m \in 1 .. m /\ \A i \in 1 .. Len(pairs) : i \in 1 .. m /\ i # m
      /\ \A i \in 1 .. m : i = m \/ (i \in 1 .. Len(pairs) /\ i # m)
  BY <1>1
<1> HIDE DEF n, m, more
<1>5. bt[m] = n /\ \A i \in 1 .. Len(pairs) : bt[i] = at[i] /\ at[i] \in 1 .. k /\ at[i] < n
  BY <1>2, <1>3, <1>4
<1>6. bt \in [1 .. m -> 1 .. n]
  BY <1>3, <1>4, <1>5
<1> HIDE DEF bt
<1>7. \A i, j \in 1 .. m : i < j => bt[i] < bt[j]
  <2> SUFFICES ASSUME NEW i \in 1 .. m, NEW j \in 1 .. m, i < j PROVE bt[i] < bt[j]
    OBVIOUS
  <2>1. i \in 1 .. Len(pairs)
    BY <1>1 DEF m
  <2>2. CASE j = m
    BY <1>5, <2>1, <2>2
  <2>3. CASE j # m
    BY <1>2, <1>4, <1>5, <2>1, <2>3
  <2> QED BY <2>2, <2>3
<1>8. \A q \in 1 .. n : Returns(t[q]) => \E i \in 1 .. m : bt[i] = q
  <2> SUFFICES ASSUME NEW q \in 1 .. n, Returns(t[q]) PROVE \E i \in 1 .. m : bt[i] = q
    OBVIOUS
  <2>1. CASE q = n
    BY <1>4, <1>5, <2>1
  <2>2. CASE q \in 1 .. k
    BY <1>2, <1>4, <1>5, <2>2
  <2> QED BY <1>3, <2>1, <2>2
<1>9. \A i \in 1 .. m : Returns(t[bt[i]]) /\ PrintedRight(who, more[i], u[t[bt[i]].dir])
  <2> SUFFICES ASSUME NEW i \in 1 .. m
               PROVE  Returns(t[bt[i]]) /\ PrintedRight(who, more[i], u[t[bt[i]].dir])
    OBVIOUS
  <2>1. CASE i = m
    BY <1>1, <1>3, <1>5, <2>1
  <2>2. CASE i # m
    BY <1>1, <1>2, <1>4, <1>5, <2>2
  <2> QED BY <2>1, <2>2
<1>10. PrintedUpTo(who, more, t, u, n)
  BY <1>1, <1>6, <1>7, <1>8, <1>9 DEF PrintedUpTo
<1> QED BY <1>1, <1>10 DEF n, more

(* The figures of a line are naturals, and those that are printed are right.*)
LEMMA FiguresPrinted ==
    ASSUME NEW u \in Figures, u.avail <= u.blocks
    PROVE  LET figures == <<Figure(InKib(u.blocks, u)), Figure(InKib(u.avail, u))>>
           IN  figures \in Nat \X Nat /\ PrintedRight(program, figures, u)
<1> DEFINE b == InKib(u.blocks, u)
           a == InKib(u.avail, u)
<1>1. b \in Nat /\ a \in Nat /\ a <= b
  <2>1. u.blocks \in Nat /\ u.avail \in Nat /\ u.bsize \in Nat /\ Kib \in Nat \ {0}
    BY DiskMonitorAssumption DEF Figures
  <2>2. u.bsize \div Kib \in Nat
    BY <2>1, DivMod
  <2> QED BY <2>1, <2>2, TimesPositive, TimesMonotone DEF InKib
<1> HIDE DEF a, b
<1>2. IntHalf \in Nat \ {0}
  BY DiskMonitorAssumption
<1>3. Figure(b) \in Nat /\ Figure(a) \in Nat
  BY <1>1, <1>2, DivMod DEF Figure, Unsigned
<1>4. (Figure(b) = b /\ Figure(a) = a) \/ (program = "statfss.c" /\ b >= 2 * IntHalf)
  <2>1. CASE program # "statfss.c"
    BY <2>1 DEF Figure
  <2>2. CASE b < 2 * IntHalf
    <3>1. a < 2 * IntHalf
      BY <1>1, <1>2, <2>2
    <3> QED BY <1>1, <2>2, <3>1, UnsignedKeeps DEF Figure
  <2> QED BY <1>1, <1>2, <2>1, <2>2
<1> QED BY <1>3, <1>4 DEF PrintedRight, a, b

LEMMA PrintsStep ==
    ASSUME StreamOK, PrintingOK, NEW who \in Printers, PrintsLine(who)
    PROVE  PrintingOK'
<1>1. PICK line \in ToSet(unread) :
         /\ Returned(line)
         /\ printed' = IF disturbed THEN printed
                       ELSE Append(printed, <<Figure(InKib(usage[line.dir].blocks, usage[line.dir])),
                                              Figure(InKib(usage[line.dir].avail, usage[line.dir]))>>)
  BY DEF PrintsLine
<1>2. /\ Fgets(line) /\ Returns(line) /\ program \in Printers /\ pc = "get"
      /\ UNCHANGED <<program, pc, table, usage, disturbed>>
  BY <1>1, ReturnedFgets DEF PrintsLine, Fgets
<1>3. CASE disturbed
  BY <1>2, <1>3 DEF PrintingOK
<1>4. CASE ~disturbed
  <2>1. /\ Fetched \in Nat /\ Fetched' = Fetched + 1 /\ line = table[Fetched + 1]
        /\ line \in Lines
    BY <1>2, <1>4, FgetsLine
  <2> DEFINE v == usage[line.dir]
             pair == <<Figure(InKib(v.blocks, v)), Figure(InKib(v.avail, v))>>
  <2>2. v \in Figures /\ v.avail <= v.blocks
    BY <2>1, UsageFigures DEF StreamOK
  <2>3. pair \in Nat \X Nat /\ PrintedRight(program, pair, v)
    BY <2>2, FiguresPrinted
  <2>4. printed \in Seq(Nat \X Nat) /\ PrintedUpTo(program, printed, table, usage, Fetched)
    BY <1>2, <1>4 DEF PrintingOK
  <2>5. printed' = Append(printed, pair)
    BY <1>1, <1>4
  <2> HIDE DEF pair
  <2>6. PrintedRight(program, pair, usage[table[Fetched + 1].dir]) /\ Returns(table[Fetched + 1])
    BY <1>2, <2>1, <2>3
  <2>7. /\ Append(printed, pair) \in Seq(Nat \X Nat)
        /\ PrintedUpTo(program, Append(printed, pair), table, usage, Fetched + 1)
    BY <2>1, <2>3, <2>4, <2>6, AddsPrinting
  <2> QED BY <1>2, <2>1, <2>5, <2>7 DEF PrintingOK
<1> QED BY <1>3, <1>4

(* A change of the table or of the disks before the first line.             *)
LEMMA ChangePrinting ==
    ASSUME StreamOK, PrintingOK, Remount \/ Use, program \in Printers
    PROVE  PrintingOK'
<1>1. /\ UNCHANGED <<program, pc, unread>>
      /\ IF position = 0 THEN position' = 0 /\ printed' = printed /\ disturbed' = disturbed
         ELSE printed' = <<>> /\ disturbed' = TRUE
  BY DEF Remount, Use, StreamOK
<1>2. CASE position = 0 /\ pc = "get" /\ ~disturbed
  <2>1. unread = <<>> /\ Fetched = 0 /\ Fetched' = 0
    BY <1>1, <1>2 DEF StreamOK, Fetched
  <2>2. printed = <<>>
    BY <1>2, <2>1, NothingBut DEF PrintingOK
  <2> QED BY <1>1, <1>2, <2>1, <2>2, NothingPrinted DEF PrintingOK
<1>3. CASE ~(position = 0 /\ pc = "get" /\ ~disturbed)
  BY <1>1, <1>3 DEF PrintingOK
<1> QED BY <1>2, <1>3

LEMMA PrintingStep == StreamOK /\ PrintingOK /\ Next => PrintingOK'
<1> SUFFICES ASSUME StreamOK, PrintingOK, Next PROVE PrintingOK'
  OBVIOUS
<1>1. CASE program' \notin Printers
  BY <1>1 DEF PrintingOK
<1>2. CASE program' \in Printers
  <2>1. CASE Aside
    <3>1. CASE Judge
      BY <3>1 DEF Judge, PrintingOK
    <3>2. CASE ~Judge /\ pc' = "get" /\ pc # "get"
      <4>1. printed' = <<>> /\ position' = 0 /\ unread' = <<>>
        BY <1>2, <2>1, <3>2, AsideStep DEF PrintingOK, StreamOK
      <4>2. Len(unread') = 0 /\ Fetched' = position' - Len(unread')
        BY <4>1, EmptySeq DEF Fetched
      <4>3. Fetched' = 0
        BY <4>1, <4>2
      <4> QED BY <4>1, <4>3, NothingPrinted DEF PrintingOK
    <3>3. CASE ~Judge /\ pc' = "get" /\ pc = "get"
      BY <1>2, <2>1, <3>3, AsideStep DEF PrintingOK, Fetched
    <3>4. CASE ~Judge /\ pc' # "get"
      BY <1>2, <2>1, <3>4, AsideStep DEF PrintingOK
    <3> QED BY <3>1, <3>2, <3>3, <3>4
  <2>2. CASE TakeIn
    <3>1. Fetched' = Fetched
      BY <2>2, TakeInLines
    <3> QED BY <2>2, <3>1 DEF TakeIn, PrintingOK
  <2>3. CASE Skip
    <3>1. PICK line \in Lines : Fgets(line) /\ ~Returns(line)
      BY <2>3 DEF Skip
    <3>2. pc = "get" /\ UNCHANGED <<program, pc, table, usage, disturbed, printed>>
      BY <2>3, <3>1 DEF Skip, Fgets
    <3>3. CASE disturbed
      BY <3>2, <3>3 DEF PrintingOK
    <3>4. CASE ~disturbed
      <4>1. Fetched \in Nat /\ Fetched' = Fetched + 1 /\ ~Returns(table[Fetched + 1])
        BY <3>1, <3>4, FgetsLine
      <4>2. printed \in Seq(Nat \X Nat) /\ PrintedUpTo(program, printed, table, usage, Fetched)
        BY <1>2, <3>2, <3>4 DEF PrintingOK
      <4>3. PrintedUpTo(program, printed, table, usage, Fetched + 1)
        BY <4>1, <4>2, SkipsPrinting
      <4> QED BY <3>2, <4>1, <4>2, <4>3 DEF PrintingOK
    <3> QED BY <3>3, <3>4
  <2>4. CASE DfEnd
    BY <2>4 DEF DfEnd, PrintingOK
  <2>5. CASE Remount \/ Use
    BY <1>2, <2>5, ChangePrinting DEF Remount, Use
  <2>6. ASSUME NEW who \in Monitors \ Printers, Keeps(who) PROVE FALSE
    BY <1>2, <2>6, ReturnedFgets DEF Keeps
  <2>7. CASE \E who \in Printers : PrintsLine(who)
    BY <2>7, PrintsStep
  <2> QED BY <2>1, <2>2, <2>3, <2>4, <2>5, <2>6, <2>7, StepKinds
<1> QED BY <1>1, <1>2

LEMMA MonitorInit == Init => MonitorOK
<1> SUFFICES ASSUME Init PROVE MonitorOK
  OBVIOUS
<1>1. table \in Tables /\ Len(table) \in Nat
  BY TableLines DEF Init
<1>2. position = 0 /\ unread = <<>> /\ Len(unread) = 0 /\ ~disturbed /\ disturbed \in BOOLEAN
  BY DEF Init
<1>3. StreamOK
  BY <1>1, <1>2 DEF Init, StreamOK
<1> QED BY <1>3 DEF Init, MonitorOK, FiguresOK, PrintingOK, Monitors, Printers

-----------------------------------------------------------------------------
(* In a pass that nothing disturbed, what stdio holds is the rest of the    *)
(* table and what has been printed is the part before it, with what         *)
(* statfs() says; and the two ints belong to one and the same look at the   *)
(* root: the interplay of dfget, its static FILE* and main's ints in        *)
(* checkdisk.cpp and its kin.                                               *)
THEOREM MonitorHolds == Spec => []MonitorOK
<1>1. MonitorOK /\ [Next]_vars => MonitorOK'
  <2> SUFFICES ASSUME MonitorOK, [Next]_vars PROVE MonitorOK'
    OBVIOUS
  <2>1. CASE Next
    BY <2>1, StreamStep, FiguresStep, PrintingStep DEF MonitorOK
  <2>2. CASE UNCHANGED vars
    BY <2>2 DEF MonitorOK, StreamOK, FiguresOK, PrintingOK, Fetched, ToInt, Ints, InKib
  <2> QED BY <2>1, <2>2
<1> QED BY MonitorInit, <1>1, PTL DEF Spec

(* A pass of statfs.c and its kin during which nothing changes prints the   *)
(* file systems of the table, each once and in order, with what statfs()    *)
(* says of them, however many there are and however stdio takes them in.    *)
THEOREM PrintsTheTable == Spec => PrintsEachPass
<1> DEFINE PrintsAll ==
        pc = "get" /\ pc' = "judge" /\ program \in Printers /\ ~disturbed
          => PrintedUpTo(program, printed, table, usage, Len(table))
<1>1. MonitorOK /\ [Next]_vars => [PrintsAll]_vars
  <2> SUFFICES ASSUME MonitorOK, Next, pc = "get", pc' = "judge", program \in Printers, ~disturbed
               PROVE  PrintedUpTo(program, printed, table, usage, Len(table))
    OBVIOUS
  <2>1. DfEnd
    <3>1. ~Aside
      BY AsideStep
    <3> QED BY <3>1, StepKinds, ReturnedFgets DEF TakeIn, Skip, Fgets, Remount, Use, Keeps, PrintsLine
  <2>2. Fetched = Len(table)
    BY <2>1, TableLines DEF DfEnd, Fetched, MonitorOK, StreamOK
  <2> QED BY <2>2 DEF MonitorOK, PrintingOK
<1> QED BY MonitorHolds, <1>1, PTL DEF Spec, PrintsEachPass

(* checkdisk.cpp's comparison of the two doubles says of figures that fit   *)
(* what they say: the common factor, the size in KiB, cancels out.          *)
LEMMA BelowIsShort ==
    ASSUME FiguresOK, seen # NoFigures, Fits(seen), program \notin Printers,
           NEW percent \in Nat
    PROVE  Below(percent) <=> Short(percent)
<1> DEFINE s == seen.bsize \div Kib
           b == seen.blocks
           a == seen.avail
<1>1. seen \in Figures /\ a <= b /\ a \in Nat /\ b \in Nat
  BY DEF FiguresOK, Figures
<1>2. s \in Nat \ {0}
  BY <1>1, WholeKib DEF Fits
<1> HIDE DEF s
<1>3. b * s \in Nat /\ a * s \in Nat /\ a * s <= b * s
  BY <1>1, <1>2, TimesMonotone
<1>4. b * s < IntHalf
  BY <1>3, DiskMonitorAssumption DEF Fits, InKib, Ints, s
<1>5. available = a * s /\ total_v = b * s
  BY <1>3, <1>4, DiskMonitorAssumption, IntKeeps DEF FiguresOK, InKib, s
<1>6. 100 * available = (100 * a) * s /\ percent * total_v = (percent * b) * s
  BY <1>1, <1>2, <1>5
<1>7. 100 * a \in Nat /\ percent * b \in Nat
  BY <1>1
<1>8. 100 * available < percent * total_v <=> 100 * a < percent * b
  BY <1>2, <1>6, <1>7, CommonFactor
<1>9. CASE b = 0
  <2>1. a = 0 /\ available = 0 /\ total_v = 0 /\ percent * b = 0
    BY <1>1, <1>2, <1>5, <1>9
  <2> QED BY <2>1 DEF Below, Short
<1>10. CASE b # 0
  <2>1. total_v > 0
    BY <1>1, <1>2, <1>3, <1>5, <1>10, TimesPositive
  <2> QED BY <1>3, <1>5, <1>8, <2>1 DEF Below, Short
<1> QED BY <1>9, <1>10

(* Where the root's figures fit, checkdisk.cpp and checkdiskback.cpp judge  *)
(* space short if and only if it was short at the last look at the root.    *)
THEOREM JudgesRight == Spec => JudgesTheRoot
<1> DEFINE Right ==
        pc = "judge" /\ pc' # pc /\ seen # NoFigures /\ Fits(seen)
          => /\ program = "checkdisk.cpp" => (pc' = "delete" <=> Short(60))
             /\ program = "checkdiskback.cpp" => (pc' = "delete" <=> Short(20))
<1>1. MonitorOK /\ [Next]_vars => [Right]_vars
  <2> SUFFICES ASSUME MonitorOK, Next, pc = "judge", pc' # pc, seen # NoFigures, Fits(seen)
               PROVE  /\ program = "checkdisk.cpp" => (pc' = "delete" <=> Short(60))
                      /\ program = "checkdiskback.cpp" => (pc' = "delete" <=> Short(20))
    OBVIOUS
  <2>1. Judge
    BY StepKinds, AsideStep, ReturnedFgets
       DEF TakeIn, Skip, Fgets, DfEnd, Remount, Use, Keeps, PrintsLine
  <2>2. pc' = "delete" <=> Deletes
    BY <2>1 DEF Judge
  <2>3. ASSUME program = "checkdisk.cpp" PROVE pc' = "delete" <=> Short(60)
    BY <2>2, <2>3, BelowIsShort DEF Deletes, CheckDisk, CheckDiskBack, CheckDiskC, MonitorOK, Printers
  <2>4. ASSUME program = "checkdiskback.cpp" PROVE pc' = "delete" <=> Short(20)
    BY <2>2, <2>4, BelowIsShort DEF Deletes, CheckDisk, CheckDiskBack, CheckDiskC, MonitorOK, Printers
  <2> QED BY <2>3, <2>4
<1> QED BY MonitorHolds, <1>1, PTL DEF Spec, JudgesTheRoot

-----------------------------------------------------------------------------
(* What makes DeletesTheFirst so.  A program stands in the base directory   *)
(* or where it was launched, checkdisk.cpp in the first as long as there is *)
(* one.  From ls to the end of rm what was cut is the first row of the      *)
(* listing, or all only if it had no row, and rm finds nothing else.        *)
StoreOK ==
    /\ cwd \in {"base", "home"} /\ base \in BOOLEAN
    /\ dirs \in Seq(Names) /\ home \in Seq(Names)
    /\ ~base => dirs = <<>>

Exempt == mute \/ (program = "checkdiskback.cpp" /\ cwd = "home")

CutOK ==
    pc \in {"system", "rm"} =>
        /\ program \in {"checkdisk.cpp", "checkdiskback.cpp", "deleteOld"}
        /\ program = "checkdisk.cpp" /\ base => cwd = "base"
        /\ cut = Whole => program # "deleteOld"
        /\ base /\ ~Exempt /\ cwd = "base" =>
              /\ cut = Whole => listed = <<>>
              /\ cut # Whole => cut \notin Names \/ (listed # <<>> /\ cut = Head(listed))
        /\ pc = "rm" => cut = Whole \/ doomed \subseteq {cut}

DeletingOK == StoreOK /\ CutOK

LEMMA NamesApart == Whole \notin Names /\ Stray \notin Names /\ Whole # Stray
BY DiskMonitorAssumption DEF Whole, Stray

LEMMA RemovesOne ==
    ASSUME NEW rows \in Seq(Names), NEW i \in DOMAIN rows
    PROVE  /\ RemoveAt(rows, i) \in Seq(Names)
           /\ \A n \in ToSet(rows) \ ToSet(RemoveAt(rows, i)) : n = rows[i]
<1>1. i \in 1 .. Len(rows) /\ Len(rows) \in Nat
  OBVIOUS
<1> DEFINE before == SubSeq(rows, 1, i - 1)
           after == SubSeq(rows, i + 1, Len(rows))
<1>2. /\ before \in Seq(Names) /\ Len(before) = i - 1
      /\ \A j \in 1 .. i - 1 : before[j] = rows[j]
  BY <1>1
<1>3. /\ after \in Seq(Names) /\ Len(after) = Len(rows) - i
      /\ \A j \in 1 .. Len(rows) - i : after[j] = rows[i + j]
  BY <1>1
<1> HIDE DEF before, after
<1>4. RemoveAt(rows, i) = before \o after
  BY DEF RemoveAt, before, after
<1> DEFINE left == before \o after
<1>5. /\ left \in Seq(Names) /\ Len(left) = Len(rows) - 1
      /\ \A j \in 1 .. i - 1 : left[j] = rows[j]
      /\ \A j \in 1 .. Len(rows) - i : left[(i - 1) + j] = rows[i + j]
  BY <1>1, <1>2, <1>3
<1> HIDE DEF left
<1>6. ASSUME NEW j \in 1 .. Len(rows), j # i PROVE \E k \in 1 .. Len(left) : left[k] = rows[j]
  <2>1. CASE j < i
    BY <1>1, <1>5, <2>1
  <2>2. CASE j > i
    <3>1. j - i \in 1 .. Len(rows) - i
      BY <1>1, <2>2
    <3>2. i + (j - i) = j /\ (i - 1) + (j - i) = j - 1
      BY <1>1
    <3>3. j - 1 \in 1 .. Len(left)
      BY <1>1, <1>5, <2>2
    <3>4. left[j - 1] = rows[j]
      BY <1>5, <3>1, <3>2
    <3> QED BY <3>3, <3>4
  <2> QED BY <1>1, <1>6, <2>1, <2>2
<1>7. \A n \in ToSet(rows) \ ToSet(left) : n = rows[i]
  <2> SUFFICES ASSUME NEW j \in 1 .. Len(rows), rows[j] \notin ToSet(left) PROVE rows[j] = rows[i]
    BY DEF ToSet
  <2>1. CASE j = i
    BY <2>1
  <2>2. CASE j # i
    <3>1. PICK k \in 1 .. Len(left) : left[k] = rows[j]
      BY <1>6, <2>2
    <3>2. left[k] \in ToSet(left)
      BY <1>5, <3>1 DEF ToSet
    <3> QED BY <3>1, <3>2
  <2> QED BY <2>1, <2>2
<1> QED BY <1>4, <1>5, <1>7 DEF left

(* The steps that neither list nor delete.                                  *)
Elsewhere ==
    \/ Reading \/ DeleteIntoLiteral \/ DeleteFails \/ Remount \/ Use \/ Record

LEMMA ElsewhereStep ==
    ASSUME StoreOK, Elsewhere
    PROVE  /\ pc' \in {"system", "rm"} => pc' = pc /\ UNCHANGED <<cwd>>
           /\ pc = "rm" => UNCHANGED <<cwd>>
           /\ UNCHANGED <<program, base, home, rmVars>>
           /\ cwd' \in {"base", "home"}
           /\ dirs' = dirs \/ (base /\ \E n \in Names : dirs' = Append(dirs, n))
BY DEF Elsewhere, Reading, DfOpen, TakeIn, Fgets, Skip, Returned, Keeps, DfGet, DfGetBack, DfGetC,
       PrintsLine, Statfs, Statfs2, Statfss, DfEnd, Judge, Wake, DeleteIntoLiteral, DeleteFails, Moved,
       Remount, Use, Record, StoreOK

LEMMA ListingStep ==
    ASSUME DeletingOK, DeleteFromBase \/ DeleteFromHere \/ DeleteHere
    PROVE  DeletingOK'
<1>1. /\ UNCHANGED <<program, base, dirs, home>> /\ pc' \in {"system", "crash"}
      /\ cwd' = (IF program = "checkdisk.cpp" THEN Moved ELSE cwd)
      /\ program \in {"checkdisk.cpp", "checkdiskback.cpp", "deleteOld"}
      /\ listed' = dirs
      /\ program = "deleteOld" => cut' # Whole
      /\ \/ mute'
         \/ Rows(cwd') = <<>> /\ cut' \in {Whole, Stray}
         \/ Rows(cwd') # <<>> /\ cut' \in {Head(Rows(cwd')), Stray}
  <2>1. CASE DeleteFromBase
    BY <2>1 DEF DeleteFromBase, Listing, FirstRow
  <2>2. CASE DeleteFromHere
    BY <2>2 DEF DeleteFromHere, Listing, FirstRow
  <2>3. CASE DeleteHere
    <3>1. \A rows \in Seq(Names) : rows # <<>> => Head(rows) \in Names
      OBVIOUS
    <3>2. Rows(cwd) \in Seq(Names) /\ <<>> \in Seq(Names)
      BY DEF Rows, DeletingOK, StoreOK
    <3> QED BY <2>3, <3>1, <3>2, NamesApart DEF DeleteHere, Listing, FirstRow
  <2> QED BY <2>1, <2>2, <2>3
<1>2. cwd' \in {"base", "home"} /\ (program = "checkdisk.cpp" /\ base => cwd' = "base")
  BY <1>1 DEF Moved, DeletingOK, StoreOK
<1>3. StoreOK'
  BY <1>1, <1>2 DEF DeletingOK, StoreOK
<1>4. CutOK'
  <2>1. ASSUME ~mute', cwd' = "base"
        PROVE  /\ cut' = Whole => listed' = <<>>
               /\ cut' # Whole => cut' \notin Names \/ (listed' # <<>> /\ cut' = Head(listed'))
    <3>1. dirs \in Seq(Names) /\ (dirs # <<>> => Head(dirs) \in Names)
      BY DEF DeletingOK, StoreOK
    <3>2. Rows(cwd') = dirs
      BY <2>1 DEF Rows
    <3> QED BY <1>1, <2>1, <3>1, <3>2, NamesApart
  <2> QED BY <1>1, <1>2, <2>1 DEF CutOK, Exempt
<1> QED BY <1>3, <1>4 DEF DeletingOK

LEMMA RmDirectoryStep ==
    ASSUME DeletingOK, RmDirectory
    PROVE  /\ DeletingOK'
           /\ Exempt \/ \A n \in ToSet(dirs) \ ToSet(dirs') : listed = <<>> \/ n = Head(listed)
           /\ home' # home => program = "deleteOld"
<1>1. PICK i \in DOMAIN Rows(Place) :
         /\ Rows(Place)[i] \in doomed /\ doomed' = doomed \ {Rows(Place)[i]}
         /\ IF Place = "base" THEN dirs' = RemoveAt(dirs, i) /\ UNCHANGED home
                              ELSE home' = RemoveAt(home, i) /\ UNCHANGED dirs
  BY DEF RmDirectory
<1>2. pc = "rm" /\ UNCHANGED <<program, pc, cwd, base, cut, listed, mute>>
  BY DEF RmDirectory
<1>3. dirs \in Seq(Names) /\ home \in Seq(Names) /\ StoreOK /\ CutOK
  BY DEF DeletingOK, StoreOK
<1>4. CASE Place = "base"
  <2>1. i \in DOMAIN dirs /\ dirs[i] \in doomed /\ dirs' = RemoveAt(dirs, i) /\ home' = home
    BY <1>1, <1>4 DEF Rows
  <2>2. dirs' \in Seq(Names) /\ \A n \in ToSet(dirs) \ ToSet(dirs') : n = dirs[i]
    BY <1>3, <2>1, RemovesOne
  <2>3. base /\ dirs[i] \in Names
    BY <1>3, <2>1 DEF StoreOK
  <2>4. Exempt \/ listed = <<>> \/ dirs[i] = Head(listed)
    <3>1. CASE program = "checkdiskback.cpp" /\ cwd # "base"
      BY <1>3, <3>1 DEF Exempt, StoreOK
    <3>2. CASE cwd = "base"
      BY <1>2, <1>3, <2>1, <2>3, <3>2 DEF CutOK
    <3>3. cwd = "base" \/ program = "checkdiskback.cpp"
      BY <1>2, <1>3, <1>4, <2>3 DEF CutOK, Place
    <3> QED BY <3>1, <3>2, <3>3
  <2>5. DeletingOK'
    BY <1>1, <1>2, <1>3, <2>1, <2>2, <2>3 DEF DeletingOK, StoreOK, CutOK, Exempt
  <2> QED BY <2>1, <2>2, <2>4, <2>5
<1>5. CASE Place # "base"
  <2>1. program = "deleteOld" /\ dirs' = dirs /\ home' = RemoveAt(home, i) /\ i \in DOMAIN home
    BY <1>1, <1>5 DEF Place, Rows
  <2>2. home' \in Seq(Names)
    BY <1>3, <2>1, RemovesOne
  <2> QED BY <1>1, <1>2, <1>3, <2>1, <2>2 DEF DeletingOK, StoreOK, CutOK, Exempt
<1> QED BY <1>4, <1>5

LEMMA RmEndsStep ==
    ASSUME DeletingOK, RmEnds \/ RmKilled
    PROVE  /\ DeletingOK' /\ UNCHANGED <<dirs, home>>
           /\ Exempt \/ (base /\ ~base' => listed = <<>>)
<1>1. /\ pc \in {"system", "rm"} /\ pc' \notin {"system", "rm"} /\ UNCHANGED <<program, cwd, dirs, home>>
      /\ base' \in BOOLEAN
      /\ base' = base \/ (cut = Whole /\ dirs = <<>> /\ base' = FALSE)
  BY DEF RmEnds, RmKilled, RmReturns, DeletingOK, StoreOK
<1>2. DeletingOK'
  BY <1>1 DEF DeletingOK, StoreOK, CutOK
<1>3. ASSUME base, ~base', ~Exempt PROVE listed = <<>>
  <2>1. cut = Whole /\ program # "deleteOld"
    BY <1>1, <1>3 DEF DeletingOK, CutOK
  <2>2. cwd = "base"
    BY <1>1, <1>3, <2>1 DEF DeletingOK, StoreOK, CutOK, Exempt
  <2> QED BY <1>1, <1>3, <2>1, <2>2 DEF DeletingOK, CutOK
<1> QED BY <1>1, <1>2, <1>3

LEMMA RmStartStep ==
    ASSUME DeletingOK, RmStart
    PROVE  DeletingOK' /\ UNCHANGED <<base, dirs, home>>
<1>1. cut = Whole \/ doomed' \subseteq {cut}
  BY DEF RmStart
<1> QED BY <1>1 DEF RmStart, DeletingOK, StoreOK, CutOK, Exempt

LEMMA DeletingInit == Init => DeletingOK
BY DiskMonitorAssumption DEF Init, DeletingOK, StoreOK, CutOK

(* A directory goes that was the first of the listing, and the base         *)
(* directory only after a listing without a row, whatever the recorder      *)
(* makes between ls and rm; and only deleteOld deletes where it was         *)
(* launched: checkdisk.cpp, checkdiskback.cpp and deleteOld.                *)
THEOREM FirstGoes == Spec => DeletesTheFirst
<1> DEFINE First ==
        /\ \/ mute \/ (program = "checkdiskback.cpp" /\ cwd = "home")
           \/ /\ \A n \in ToSet(dirs) \ ToSet(dirs') : listed = <<>> \/ n = Head(listed)
              /\ base /\ ~base' => listed = <<>>
        /\ home' # home => program = "deleteOld"
<1>1. ASSUME DeletingOK, Next PROVE DeletingOK' /\ First
  <2>1. CASE Elsewhere
    <3>1. StoreOK'
      <4>1. \A n \in Names : dirs \in Seq(Names) => Append(dirs, n) \in Seq(Names)
        OBVIOUS
      <4> QED BY <1>1, <2>1, <4>1, ElsewhereStep DEF DeletingOK, StoreOK
    <3>2. CutOK'
      BY <1>1, <2>1, ElsewhereStep DEF DeletingOK, CutOK, Exempt
    <3>3. \A n \in ToSet(dirs) : n \in ToSet(dirs')
      <4>1. CASE dirs' = dirs
        BY <4>1
      <4>2. ASSUME NEW n \in Names, dirs' = Append(dirs, n) PROVE \A m \in ToSet(dirs) : m \in ToSet(dirs')
        <5>1. dirs \in Seq(Names)
          BY <1>1 DEF DeletingOK, StoreOK
        <5>2. \A k \in 1 .. Len(dirs) : k \in 1 .. Len(dirs') /\ dirs'[k] = dirs[k]
          BY <4>2, <5>1
        <5> QED BY <5>1, <5>2 DEF ToSet
      <4> QED BY <1>1, <2>1, <4>1, <4>2, ElsewhereStep DEF DeletingOK
    <3>4. base' = base /\ home' = home
      BY <1>1, <2>1, ElsewhereStep DEF DeletingOK
    <3> QED BY <3>1, <3>2, <3>3, <3>4 DEF DeletingOK
  <2>2. CASE DeleteFromBase \/ DeleteFromHere \/ DeleteHere
    <3>1. UNCHANGED <<base, dirs, home>>
      BY <2>2 DEF DeleteFromBase, DeleteFromHere, DeleteHere, Listing
    <3> QED BY <1>1, <2>2, <3>1, ListingStep
  <2>3. CASE RmStart
    BY <1>1, <2>3, RmStartStep
  <2>4. CASE RmDirectory
    <3>1. base' = base
      BY <2>4 DEF RmDirectory
    <3> QED BY <1>1, <2>4, <3>1, RmDirectoryStep DEF Exempt
  <2>5. CASE RmEnds \/ RmKilled
    BY <1>1, <2>5, RmEndsStep DEF Exempt
  <2> QED BY <1>1, <2>1, <2>2, <2>3, <2>4, <2>5 DEF Next, DeleteOld, Elsewhere
<1>2. ASSUME DeletingOK, UNCHANGED vars PROVE DeletingOK'
  BY <1>2 DEF DeletingOK, StoreOK, CutOK, Exempt
<1>3. DeletingOK /\ [Next]_vars => DeletingOK' /\ [First]_vars
  BY <1>1, <1>2
<1> QED BY DeletingInit, <1>3, PTL DEF Spec, DeletesTheFirst

=============================================================================
