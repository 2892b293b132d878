--------------------------- MODULE RecorderProofs ---------------------------
(***************************************************************************)
(* Theorems about Recorder, for every value of its constants: type         *)
(* correctness, the inductive invariant, and that on a disk that is roomy  *)
(* for files the base directory is only lost to a misread listing.         *)
(***************************************************************************)
EXTENDS Recorder, FiniteSetTheorems, TLAPS

-----------------------------------------------------------------------------
(* Sequences without repetition: what appending and removing an element do  *)
(* to the set of elements, to the order of the elements under a relation,   *)
(* and to the first element.                                                *)

(* RemoveAt, element by element.                                            *)
LEMMA RemoveAtElements ==
    ASSUME NEW S, NEW s \in Seq(S), NEW p \in 1 .. Len(s)
    PROVE  /\ RemoveAt(s, p) \in Seq(S)
           /\ Len(RemoveAt(s, p)) = Len(s) - 1
           /\ \A k \in 1 .. Len(s) - 1 : RemoveAt(s, p)[k] = IF k < p THEN s[k] ELSE s[k + 1]
<1> DEFINE a == SubSeq(s, 1, p - 1)
           b == SubSeq(s, p + 1, Len(s))
<1>1. /\ a \in Seq(S) /\ Len(a) = p - 1
      /\ \A k \in 1 .. p - 1 : a[k] = s[k]
  OBVIOUS
<1>2. /\ b \in Seq(S) /\ Len(b) = Len(s) - p
      /\ \A k \in 1 .. Len(s) - p : b[k] = s[p + k]
  OBVIOUS
<1> HIDE DEF a, b
<1>3. /\ a \o b \in Seq(S) /\ Len(a \o b) = Len(s) - 1
      /\ \A k \in 1 .. Len(s) - 1 : (a \o b)[k] = IF k < p THEN a[k] ELSE b[k - (p - 1)]
  <2>1. a \o b \in Seq(S) /\ Len(a \o b) = Len(a) + Len(b)
    <3>1. a \in Seq(S) /\ b \in Seq(S)
      BY <1>1, <1>2
    <3>2. QED
      BY <3>1
  <2>2. Len(a) + Len(b) = Len(s) - 1
    BY <1>1, <1>2
  <2>3. \A k \in 1 .. Len(a) + Len(b) :
            (a \o b)[k] = IF k <= Len(a) THEN a[k] ELSE b[k - Len(a)]
    BY <1>1, <1>2
  <2>4. \A k \in 1 .. Len(s) - 1 : k < p <=> k <= Len(a)
    BY <1>1
  <2>5. QED
    BY <1>1, <2>1, <2>2, <2>3, <2>4
<1>4. \A k \in 1 .. Len(s) - 1 : (a \o b)[k] = IF k < p THEN s[k] ELSE s[k + 1]
  <2> SUFFICES ASSUME NEW k \in 1 .. Len(s) - 1
               PROVE  (a \o b)[k] = IF k < p THEN s[k] ELSE s[k + 1]
    OBVIOUS
  <2>1. CASE k < p
    BY <1>1, <1>3, <2>1
  <2>2. CASE ~(k < p)
    <3>1. k - (p - 1) \in 1 .. Len(s) - p /\ p + (k - (p - 1)) = k + 1
      BY <2>2
    <3>2. QED
      BY <1>2, <1>3, <2>2, <3>1
  <2>3. QED
    BY <2>1, <2>2
<1>5. RemoveAt(s, p) = a \o b
  BY DEF RemoveAt, a, b
<1>6. QED
  BY <1>3, <1>4, <1>5

(* Removing an element of a sequence without repetition takes exactly that  *)
(* element away.                                                            *)
LEMMA RemoveAtSet ==
    ASSUME NEW S, NEW s \in Seq(S), NEW p \in 1 .. Len(s), IsInjective(s)
    PROVE  /\ RemoveAt(s, p) \in Seq(S)
           /\ ToSet(RemoveAt(s, p)) = ToSet(s) \ {s[p]}
           /\ IsInjective(RemoveAt(s, p))
<1> DEFINE r == RemoveAt(s, p)
<1>1. /\ r \in Seq(S) /\ Len(r) = Len(s) - 1
      /\ \A k \in 1 .. Len(s) - 1 : r[k] = IF k < p THEN s[k] ELSE s[k + 1]
  BY RemoveAtElements
<1> HIDE DEF r
<1>2. ASSUME NEW k \in 1 .. Len(r)
      PROVE  r[k] \in ToSet(s) /\ r[k] # s[p]
  <2>1. CASE k < p
    BY <1>1, <2>1 DEF ToSet, IsInjective
  <2>2. CASE ~(k < p)
    <3>1. r[k] = s[k + 1] /\ k + 1 \in 1 .. Len(s) /\ k + 1 # p
      BY <1>1, <2>2
    <3>2. QED
      BY <3>1 DEF ToSet, IsInjective
  <2>3. QED
    BY <2>1, <2>2
<1>3. ASSUME NEW j \in 1 .. Len(s), j # p
      PROVE  s[j] \in ToSet(r)
  <2>1. CASE j < p
    <3>1. j \in 1 .. Len(r) /\ r[j] = s[j]
      BY <1>1, <2>1
    <3>2. QED
      BY <1>1, <3>1 DEF ToSet
  <2>2. CASE ~(j < p)
    <3>1. j - 1 \in 1 .. Len(r) /\ ~(j - 1 < p) /\ (j - 1) + 1 = j
      BY <1>1, <1>3, <2>2
    <3>2. r[j - 1] = s[j]
      BY <1>1, <3>1
    <3>3. QED
      BY <1>1, <3>1, <3>2 DEF ToSet
  <2>3. QED
    BY <2>1, <2>2
<1>4. ToSet(r) = ToSet(s) \ {s[p]}
  BY <1>1, <1>2, <1>3 DEF ToSet
<1>5. IsInjective(r)
  <2> SUFFICES ASSUME NEW i \in 1 .. Len(r), NEW j \in 1 .. Len(r), r[i] = r[j]
               PROVE  i = j
    BY <1>1 DEF IsInjective
  <2>1. PICK m \in 1 .. Len(s) : r[i] = s[m] /\ ((i < p /\ m = i) \/ (~(i < p) /\ m = i + 1))
    <3>1. Len(r) = Len(s) - 1 /\ i \in 1 .. Len(s) /\ i + 1 \in 1 .. Len(s)
      BY <1>1
    <3>2. r[i] = IF i < p THEN s[i] ELSE s[i + 1]
      BY <1>1, <3>1
    <3> QED BY <3>1, <3>2
  <2>2. PICK n \in 1 .. Len(s) : r[j] = s[n] /\ ((j < p /\ n = j) \/ (~(j < p) /\ n = j + 1))
    BY <1>1
  <2>3. m = n
    <3>1. s[m] = s[n]
      BY <2>1, <2>2
    <3>2. m \in DOMAIN s /\ n \in DOMAIN s
      OBVIOUS
    <3>3. QED
      BY <3>1, <3>2 DEF IsInjective
  <2>4. QED
    BY <2>1, <2>2, <2>3
<1>6. QED
  BY <1>1, <1>4, <1>5 DEF r

(* On a sequence without repetition RemoveFirst is RemoveAt at the         *)
(* element's one place.                                                     *)
LEMMA RemoveFirstPlace ==
    ASSUME NEW S, NEW s \in Seq(S), NEW e, IsInjective(s)
    PROVE  \/ RemoveFirst(s, e) = s /\ e \notin ToSet(s)
           \/ \E p \in 1 .. Len(s) : s[p] = e /\ RemoveFirst(s, e) = RemoveAt(s, p)
<1>1. CASE \E i \in 1 .. Len(s) : s[i] = e
  <2>1. PICK p \in 1 .. Len(s) : s[p] = e
    BY <1>1
  <2> DEFINE I == {i \in 1 .. Len(s) : s[i] = e}
  <2>2. I = {p}
    BY <2>1 DEF IsInjective
  <2>3. Min(I) = p
    BY <2>2 DEF Min
  <2>4. SelectInSeq(s, LAMBDA v : v = e) = p
    BY <2>2, <2>3 DEF SelectInSeq
  <2>5. RemoveFirst(s, e) = RemoveAt(s, p)
    BY <1>1, <2>4 DEF RemoveFirst
  <2>6. QED
    BY <2>1, <2>5
<1>2. CASE ~ \E i \in 1 .. Len(s) : s[i] = e
  BY <1>2 DEF RemoveFirst, ToSet
<1>3. QED
  BY <1>1, <1>2

LEMMA RemoveFirstSet ==
    ASSUME NEW S, NEW s \in Seq(S), NEW e, IsInjective(s)
    PROVE  /\ RemoveFirst(s, e) \in Seq(S)
           /\ ToSet(RemoveFirst(s, e)) = ToSet(s) \ {e}
           /\ IsInjective(RemoveFirst(s, e))
<1>1. CASE RemoveFirst(s, e) = s /\ e \notin ToSet(s)
  BY <1>1
<1>2. CASE \E p \in 1 .. Len(s) : s[p] = e /\ RemoveFirst(s, e) = RemoveAt(s, p)
  BY <1>2, RemoveAtSet
<1>3. QED
  BY <1>1, <1>2, RemoveFirstPlace

(* Appending an element that is not there yet adds exactly that element.    *)
LEMMA AppendSet ==
    ASSUME NEW S, NEW s \in Seq(S), NEW e \in S, e \notin ToSet(s), IsInjective(s)
    PROVE  /\ Append(s, e) \in Seq(S)
           /\ Append(s, e) # <<>>
           /\ ToSet(Append(s, e)) = ToSet(s) \cup {e}
           /\ IsInjective(Append(s, e))
<1> DEFINE r == Append(s, e)
<1>1. /\ r \in Seq(S) /\ Len(r) = Len(s) + 1 /\ r # <<>>
      /\ \A k \in 1 .. Len(s) : r[k] = s[k]
      /\ r[Len(s) + 1] = e
  OBVIOUS
<1> HIDE DEF r
<1>2. ToSet(r) = ToSet(s) \cup {e}
  <2>1. \A k \in 1 .. Len(r) : k \in 1 .. Len(s) \/ k = Len(s) + 1
    BY <1>1
  <2>2. ToSet(r) \subseteq ToSet(s) \cup {e}
    BY <1>1, <2>1 DEF ToSet
  <2>3. \A k \in 1 .. Len(s) : k \in 1 .. Len(r)
    BY <1>1
  <2>4. Len(s) + 1 \in 1 .. Len(r)
    BY <1>1
  <2>5. QED
    BY <1>1, <2>2, <2>3, <2>4 DEF ToSet
<1>3. IsInjective(r)
  BY <1>1 DEF ToSet, IsInjective
<1>4. QED
  BY <1>1, <1>2, <1>3 DEF r

-----------------------------------------------------------------------------
(* Order: a sequence is sorted by a relation when each element is related   *)
(* to every later one.                                                      *)

SortedBy(s, R) == \A i, j \in DOMAIN s : i < j => <<s[i], s[j]>> \in R

LEMMA RemoveAtSorted ==
    ASSUME NEW S, NEW s \in Seq(S), NEW p \in 1 .. Len(s), NEW R, SortedBy(s, R)
    PROVE  SortedBy(RemoveAt(s, p), R)
<1> DEFINE r == RemoveAt(s, p)
<1>1. /\ r \in Seq(S) /\ Len(r) = Len(s) - 1
      /\ \A k \in 1 .. Len(s) - 1 : r[k] = IF k < p THEN s[k] ELSE s[k + 1]
  BY RemoveAtElements
<1> HIDE DEF r
<1> SUFFICES ASSUME NEW i \in 1 .. Len(r), NEW j \in 1 .. Len(r), i < j
             PROVE  <<r[i], r[j]>> \in R
  BY <1>1 DEF SortedBy, r
<1> DEFINE m == IF i < p THEN i ELSE i + 1
           n == IF j < p THEN j ELSE j + 1
<1>2. m \in 1 .. Len(s) /\ n \in 1 .. Len(s) /\ m < n
  BY <1>1
<1>3. r[i] = s[m] /\ r[j] = s[n]
  BY <1>1
<1> HIDE DEF m, n
<1>4. m \in DOMAIN s /\ n \in DOMAIN s
  BY <1>2
<1>5. <<s[m], s[n]>> \in R
  BY <1>2, <1>4 DEF SortedBy
<1>6. QED
  BY <1>3, <1>5

LEMMA RemoveFirstSorted ==
    ASSUME NEW S, NEW s \in Seq(S), NEW e, IsInjective(s), NEW R, SortedBy(s, R)
    PROVE  SortedBy(RemoveFirst(s, e), R)
BY RemoveFirstPlace, RemoveAtSorted

(* Removing an element that is not the first leaves the first.              *)
LEMMA RemoveFirstHead ==
    ASSUME NEW S, NEW s \in Seq(S), NEW e, IsInjective(s), s # <<>>, e # Head(s)
    PROVE  RemoveFirst(s, e) # <<>> /\ Head(RemoveFirst(s, e)) = Head(s)
<1>1. CASE RemoveFirst(s, e) = s
  BY <1>1
<1>2. ASSUME NEW p \in 1 .. Len(s), s[p] = e, RemoveFirst(s, e) = RemoveAt(s, p)
      PROVE  RemoveFirst(s, e) # <<>> /\ Head(RemoveFirst(s, e)) = Head(s)
  <2> DEFINE r == RemoveAt(s, p)
  <2>1. /\ r \in Seq(S) /\ Len(r) = Len(s) - 1
        /\ \A k \in 1 .. Len(s) - 1 : r[k] = IF k < p THEN s[k] ELSE s[k + 1]
    BY RemoveAtElements
  <2> HIDE DEF r
  <2>2. p # 1 /\ Len(s) > 1
    BY <1>2
  <2>3. Len(r) \in Nat /\ Len(r) # 0 /\ r[1] = s[1]
    BY <2>1, <2>2
  <2>4. r # <<>> /\ Head(r) = r[1] /\ Head(s) = s[1]
    BY <2>1, <2>3
  <2>5. QED
    BY <1>2, <2>3, <2>4 DEF r
<1>3. QED
  BY <1>1, <1>2, RemoveFirstPlace

LEMMA AppendSorted ==
    ASSUME NEW S, NEW s \in Seq(S), NEW e \in S, NEW R, SortedBy(s, R),
           \A x \in ToSet(s) : <<x, e>> \in R
    PROVE  SortedBy(Append(s, e), R)
<1> DEFINE r == Append(s, e)
<1>1. /\ r \in Seq(S) /\ Len(r) = Len(s) + 1
      /\ \A k \in 1 .. Len(s) : r[k] = s[k]
      /\ r[Len(s) + 1] = e
  OBVIOUS
<1> HIDE DEF r
<1> SUFFICES ASSUME NEW i \in 1 .. Len(r), NEW j \in 1 .. Len(r), i < j
             PROVE  <<r[i], r[j]>> \in R
  BY <1>1 DEF SortedBy, r
<1>2. i \in 1 .. Len(s) /\ r[i] = s[i]
  BY <1>1
<1>3. CASE j \in 1 .. Len(s)
  <2>1. i \in DOMAIN s /\ j \in DOMAIN s
    BY <1>2, <1>3
  <2>2. QED
    BY <1>1, <1>2, <1>3, <2>1 DEF SortedBy
<1>4. CASE j = Len(s) + 1
  BY <1>1, <1>2, <1>4 DEF ToSet
<1>5. QED
  BY <1>1, <1>3, <1>4

(* The first element of a sorted sequence is related to all others.         *)
LEMMA HeadSorted ==
    ASSUME NEW S, NEW s \in Seq(S), s # <<>>, NEW R, SortedBy(s, R)
    PROVE  /\ Head(s) \in S /\ Head(s) \in ToSet(s)
           /\ \A x \in ToSet(s) : x = Head(s) \/ <<Head(s), x>> \in R
<1>1. Head(s) = s[1] /\ 1 \in DOMAIN s /\ 1 \in 1 .. Len(s)
  OBVIOUS
<1>2. ASSUME NEW x \in ToSet(s)
      PROVE  x = Head(s) \/ <<Head(s), x>> \in R
  <2>1. PICK k \in DOMAIN s : x = s[k]
    BY DEF ToSet
  <2>2. k = 1 \/ 1 < k
    BY <2>1
  <2>3. QED
    BY <1>1, <2>1, <2>2 DEF SortedBy
<1>3. QED
  BY <1>1, <1>2 DEF ToSet

-----------------------------------------------------------------------------

USE DEF vars, threadVars, saveVars, deleteVars, rmVars, diskVars,
        ParentThere, StillRaw, StillStarved, Released, FirstRow, RowName

-----------------------------------------------------------------------------
(* The numbers of the constants.                                            *)

LEMMA ConstantFacts ==
    /\ SecondsPerHour \in Nat \ {0}
    /\ MaxClock \in Nat /\ MaxRuns \in Nat /\ HandlerSeconds \in Nat
    /\ Total \in Nat \ {0} /\ MinuteFrames \in Nat \ {0}
    /\ 0 \in Seconds
    /\ \A t \in Seconds : DirOf(t) \in Names
<1>1. \A m, n \in Nat \ {0} : m * n \in Nat \ {0}
  OBVIOUS
<1>2. SecondsPerHour \in Nat \ {0}
  BY <1>1, ClockAssumption DEF SecondsPerHour
<1>3. 0 \in Seconds
  BY ClockAssumption DEF Seconds
<1>4. QED
  BY <1>2, <1>3, ClockAssumption, DiskAssumption DEF Names

(* Frames on disk are finitely many.                                        *)
LEMMA FootageFinite ==
    ASSUME NEW F \in SUBSET (Seconds \X (1 .. MinuteFrames))
    PROVE  IsFiniteSet(F) /\ Cardinality(F) \in Nat
<1>1. IsFiniteSet(Seconds)
  BY FS_Interval, ConstantFacts DEF Seconds
<1>2. IsFiniteSet(1 .. MinuteFrames)
  BY FS_Interval, ConstantFacts
<1>3. IsFiniteSet(Seconds \X (1 .. MinuteFrames))
  BY <1>1, <1>2, FS_Product
<1>4. QED
  BY <1>3, FS_Subset, FS_CardinalityType

(* A single file holds at most MinuteFrames frames.                         *)
LEMMA OneFileBound ==
    ASSUME NEW f, NEW F \in SUBSET ({f} \X (1 .. MinuteFrames))
    PROVE  Cardinality(F) \in Nat /\ Cardinality(F) <= MinuteFrames
<1>1. IsFiniteSet({f}) /\ Cardinality({f}) = 1
  BY FS_Singleton
<1>2. IsFiniteSet(1 .. MinuteFrames) /\ Cardinality(1 .. MinuteFrames) = MinuteFrames
  BY FS_Interval, ConstantFacts
<1>3. /\ IsFiniteSet({f} \X (1 .. MinuteFrames))
      /\ Cardinality({f} \X (1 .. MinuteFrames)) = 1 * MinuteFrames
  BY <1>1, <1>2, FS_Product
<1>4. QED
  BY <1>3, FS_Subset, FS_CardinalityType, ConstantFacts

(* Making a file moves its directory to the young end and changes nothing   *)
(* else.                                                                    *)
LEMMA TouchSet ==
    ASSUME TypeOK, DirOf(stamp) \in ToSet(dirs)
    PROVE  LET touched == Append(RemoveFirst(dirs, DirOf(stamp)), DirOf(stamp))
           IN  /\ touched \in Seq(Names) /\ IsInjective(touched)
               /\ touched # <<>>
               /\ ToSet(touched) = ToSet(dirs)
<1> DEFINE rest == RemoveFirst(dirs, DirOf(stamp))
<1>1. /\ rest \in Seq(Names) /\ IsInjective(rest)
      /\ ToSet(rest) = ToSet(dirs) \ {DirOf(stamp)}
  BY RemoveFirstSet DEF TypeOK
<1>2. DirOf(stamp) \in Names
  BY ConstantFacts DEF TypeOK
<1> HIDE DEF rest
<1>3. /\ Append(rest, DirOf(stamp)) \in Seq(Names) /\ IsInjective(Append(rest, DirOf(stamp)))
      /\ Append(rest, DirOf(stamp)) # <<>>
      /\ ToSet(Append(rest, DirOf(stamp))) = ToSet(rest) \cup {DirOf(stamp)}
  BY <1>1, <1>2, AppendSet
<1>4. QED
  BY <1>1, <1>3 DEF rest

-----------------------------------------------------------------------------
(* Type correctness.                                                        *)

LEMMA TypeInit == Init => TypeOK
<1> SUFFICES ASSUME Init PROVE TypeOK
  OBVIOUS
<1>1. dirs \in Seq(Names) /\ IsInjective(dirs)
  BY DEF Init, IsInjective
<1>2. 0 \in 0 .. MaxClock + HandlerSeconds /\ 0 \in 0 .. MaxRuns
  BY ConstantFacts
<1>3. cut \in Cuts \cup {NoName}
  BY DEF Init
<1>4. QED
  BY <1>1, <1>2, <1>3, ConstantFacts DEF Init, TypeOK

LEMMA RmIdleType ==
    ASSUME TypeOK, RmIdle \/ UNCHANGED rmVars
    PROVE  /\ rm' \in {"idle", "start", "walk"} /\ cut' \in Cuts \cup {NoName}
           /\ astray' \in BOOLEAN /\ doomed' \in SUBSET Names
           /\ inside' \in Names \cup {NoName} /\ victims' \in SUBSET Seconds
BY DEF TypeOK, RmIdle

LEMMA ProcessEndsType ==
    ASSUME TypeOK, ProcessEnds, RmIdle \/ UNCHANGED rmVars
    PROVE  TypeOK'
<1>1. 0 \in 0 .. MaxClock + HandlerSeconds
  BY ConstantFacts
<1>2. /\ rm' \in {"idle", "start", "walk"} /\ cut' \in Cuts \cup {NoName}
      /\ astray' \in BOOLEAN /\ doomed' \in SUBSET Names
      /\ inside' \in Names \cup {NoName} /\ victims' \in SUBSET Seconds
  BY RmIdleType
<1>3. QED
  BY <1>1, <1>2, ConstantFacts DEF TypeOK, ProcessEnds

LEMMA TypeMain == TypeOK /\ (Main \/ Launch) => TypeOK'
<1> SUFFICES ASSUME TypeOK, Main \/ Launch PROVE TypeOK'
  OBVIOUS
<1>1. CASE Launch
  <2>1. runs' \in 0 .. MaxRuns
    BY <1>1, ConstantFacts DEF TypeOK, Launch
  <2>2. QED
    BY <1>1, <2>1 DEF TypeOK, Launch
<1>2. CASE MakeDirectory
  BY <1>2 DEF TypeOK, MakeDirectory
<1>3. CASE CreateSave
  BY <1>3 DEF TypeOK, CreateSave
<1>4. CASE CreateDelete
  BY <1>4 DEF TypeOK, CreateDelete
<1>5. CASE InstallHandler
  BY <1>5 DEF TypeOK, InstallHandler
<1>6. QED
  BY <1>1, <1>2, <1>3, <1>4, <1>5 DEF Main

LEMMA TypeSave == TypeOK /\ Save => TypeOK'
<1> SUFFICES ASSUME TypeOK, Save PROVE TypeOK'
  OBVIOUS
<1> USE ConstantFacts
<1>1. CASE NameDirectory
  <2>1. dirs' \in Seq(Names) /\ IsInjective(dirs')
    <3>1. DirOf(clock) \in Names
      BY DEF TypeOK
    <3>2. CASE DirOf(clock) \notin ToSet(dirs) /\ dirs' = Append(dirs, DirOf(clock))
      BY <3>1, <3>2, AppendSet DEF TypeOK
    <3>3. CASE UNCHANGED dirs
      BY <3>3 DEF TypeOK
    <3>4. QED
      BY <1>1, <3>2, <3>3 DEF NameDirectory
  <2>2. QED
    BY <1>1, <2>1 DEF TypeOK, NameDirectory
<1>2. CASE OpenFile
  <2>1. dirs' \in Seq(Names) /\ IsInjective(dirs')
    BY <1>2, TouchSet DEF OpenFile, TypeOK
  <2>2. /\ files' \in SUBSET Seconds /\ raw' \in SUBSET Seconds /\ starved' \in SUBSET Seconds
        /\ footage' \in SUBSET (Seconds \X (1 .. MinuteFrames))
    BY <1>2 DEF OpenFile, TypeOK
  <2>3. QED
    BY <1>2, <2>1, <2>2 DEF TypeOK, OpenFile
<1>3. CASE OpenFails
  <2>1. /\ raw' \in SUBSET Seconds /\ starved' \in SUBSET Seconds
        /\ footage' \in SUBSET (Seconds \X (1 .. MinuteFrames))
    BY <1>3 DEF OpenFails, TypeOK
  <2>2. QED
    BY <1>3, <2>1 DEF TypeOK, OpenFails
<1>4. CASE GrabFrame
  <2> DEFINE n == Cardinality(UNION {FramesOf(f) : f \in writer})
  <2>1. n \in Nat
    BY FootageFinite DEF TypeOK, FramesOf
  <2>2. n + 1 \in 1 .. MinuteFrames
    BY <1>4, <2>1 DEF GrabFrame
  <2>3. footage' \in SUBSET (Seconds \X (1 .. MinuteFrames))
    BY <1>4, <2>2 DEF GrabFrame, TypeOK
  <2>4. savepc' \in {"name", "frame"}
    BY <1>4 DEF GrabFrame
  <2>5. QED
    BY <1>4, <2>3, <2>4 DEF TypeOK, GrabFrame
<1>5. CASE EmptyFrame
  BY <1>5 DEF TypeOK, EmptyFrame
<1>6. QED
  BY <1>1, <1>2, <1>3, <1>4, <1>5 DEF Save

LEMMA TypeDelete == TypeOK /\ Delete => TypeOK'
<1> SUFFICES ASSUME TypeOK, Delete PROVE TypeOK'
  OBVIOUS
<1> USE ConstantFacts
<1>1. CASE DfOpen
  BY <1>1 DEF TypeOK, DfOpen
<1>2. CASE DfOpenFails
  BY <1>2, ProcessEndsType DEF DfOpenFails
<1>3. ASSUME Sleep
      PROVE  wake' \in Seconds /\ delpc' = "sleep"
  BY <1>3 DEF TypeOK, Sleep, Seconds
<1>4. CASE Df
  BY <1>3, <1>4 DEF TypeOK, Df
<1>5. CASE List
  <2>1. cut' \in Cuts \cup {NoName}
    <3>1. CASE dirs = <<>>
      BY <1>5, <3>1 DEF List
    <3>2. CASE dirs # <<>>
      <4>1. Head(dirs) \in Names
        BY <3>2 DEF TypeOK
      <4>2. QED
        BY <1>5, <4>1 DEF List, Cuts
    <3>3. QED
      BY <3>1, <3>2
  <2>2. astray' \in BOOLEAN /\ overrun' \in BOOLEAN
    BY <1>5 DEF List, RowsShifted
  <2>3. QED
    BY <1>5, <2>1, <2>2 DEF TypeOK, List
<1>6. CASE ListFails
  BY <1>3, <1>6 DEF TypeOK, ListFails
<1>7. CASE Return
  BY <1>3, <1>7, ProcessEndsType DEF TypeOK, Return
<1>8. CASE Wake
  BY <1>8 DEF TypeOK, Wake
<1>9. CASE ListNothing
  BY <1>9 DEF TypeOK, ListNothing
<1>10. QED
  BY <1>1, <1>2, <1>4, <1>5, <1>6, <1>7, <1>8, <1>9 DEF Delete

LEMMA TypeRm == TypeOK /\ Rm => TypeOK'
<1> SUFFICES ASSUME TypeOK, Rm PROVE TypeOK'
  OBVIOUS
<1>1. CASE RmStart
  <2>1. doomed' \subseteq ToSet(dirs)
    BY <1>1 DEF RmStart
  <2>2. doomed' \in SUBSET Names
    BY <2>1 DEF TypeOK, ToSet
  <2>3. QED
    BY <1>1, <2>2 DEF TypeOK, RmStart
<1>2. CASE RmEnter
  BY <1>2 DEF TypeOK, RmEnter, FilesIn
<1>3. CASE RmUnlink
  <2>1. /\ files' \in SUBSET Seconds /\ victims' \in SUBSET Seconds
        /\ raw' \in SUBSET Seconds /\ starved' \in SUBSET Seconds
        /\ footage' \in SUBSET (Seconds \X (1 .. MinuteFrames))
    BY <1>3 DEF TypeOK, RmUnlink
  <2>2. QED
    BY <1>3, <2>1 DEF TypeOK, RmUnlink
<1>4. CASE RmDirectory
  <2>1. dirs' \in Seq(Names) /\ IsInjective(dirs')
    BY <1>4, RemoveFirstSet DEF TypeOK, RmDirectory
  <2>2. QED
    BY <1>4, <2>1 DEF TypeOK, RmDirectory
<1>5. CASE RmEnds
  BY <1>5 DEF TypeOK, RmEnds, RmIdle
<1>6. CASE RmKilled
  BY <1>6 DEF TypeOK, RmKilled, RmIdle
<1>7. QED
  BY <1>1, <1>2, <1>3, <1>4, <1>5, <1>6 DEF Rm

LEMMA TypeEnvironment == TypeOK /\ Environment => TypeOK'
<1> SUFFICES ASSUME TypeOK, Environment PROVE TypeOK'
  OBVIOUS
<1>1. CASE Launch
  BY <1>1, TypeMain
<1>2. CASE Tick
  BY <1>2, ConstantFacts DEF TypeOK, Tick, Seconds
<1>3. CASE InterruptEarly
  BY <1>3, ProcessEndsType DEF InterruptEarly
<1>4. CASE Interrupt
  BY <1>4, ConstantFacts DEF TypeOK, Interrupt, Seconds, Threads
<1>5. CASE Exit
  BY <1>5, ProcessEndsType DEF Exit
<1>6. CASE PowerLoss
  BY <1>6, ProcessEndsType DEF PowerLoss
<1>7. QED
  BY <1>1, <1>2, <1>3, <1>4, <1>5, <1>6 DEF Environment

(* Every variable of the recorder keeps its type, whatever the disk, the    *)
(* clock and the signals do.                                                *)
THEOREM TypeCorrect == Spec => []TypeOK
<1>1. TypeOK /\ [Next]_vars => TypeOK'
  <2>1. TypeOK /\ UNCHANGED vars => TypeOK'
    BY DEF TypeOK
  <2>2. QED
    BY <2>1, TypeMain, TypeSave, TypeDelete, TypeRm, TypeEnvironment DEF Next
<1>2. QED
  BY TypeInit, <1>1, PTL DEF Spec

-----------------------------------------------------------------------------
(* The inductive invariant.                                                 *)

Links == StoreOK /\ FootageOK /\ WriterOK /\ ListingOK

(* On a roomy disk low space means stored frames outside the open file, and *)
(* so a directory to list.                                                  *)
LEMMA LowMeansListed ==
    ASSUME RoomForFile, Inductive, NEW o \in OtherNow, Low(o)
    PROVE  dirs # <<>>
<1> USE ConstantFacts DEF Inductive
<1>1. Cardinality(footage) \in Nat
  BY FootageFinite DEF TypeOK
<1>2. o \in Nat /\ o + Cardinality(footage) <= Total /\ o \in OtherUse
  BY <1>1, DiskAssumption DEF OtherNow
<1>3. 100 * (Total - o - Cardinality(footage)) < 30 * Total
  BY DEF Low, LowReadings, Available
<1>4. 100 * (Total - o - MinuteFrames) >= 30 * Total
  BY <1>2 DEF RoomForFile
<1>5. Cardinality(footage) > MinuteFrames
  BY <1>1, <1>2, <1>3, <1>4
<1>6. PICK x \in footage : x[1] \notin writer
  <2> SUFFICES ASSUME \A x \in footage : x[1] \in writer
               PROVE  FALSE
    OBVIOUS
  <2>1. PICK f : writer \subseteq {f}
    BY DEF WriterOK
  <2>2. footage \in SUBSET ({f} \X (1 .. MinuteFrames))
    BY <2>1 DEF TypeOK
  <2>3. QED
    BY <1>1, <1>5, <2>2, OneFileBound
<1>7. DirOf(x[1]) \in ToSet(dirs)
  BY <1>6 DEF FootageOK, StoreOK
<1>8. QED
  BY <1>7 DEF ToSet

LEMMA LinksInit == Init => Links
BY DEF Init, Links, StoreOK, FootageOK, WriterOK, ListingOK, ToSet

LEMMA LinksProcessEnds ==
    ASSUME Inductive, ProcessEnds, RmIdle \/ UNCHANGED rmVars
    PROVE  Links'
<1> USE DEF Inductive, ProcessEnds
<1>1. StoreOK' /\ FootageOK' /\ WriterOK'
  BY DEF StoreOK, FootageOK, WriterOK
<1>2. ListingOK'
  BY DEF ListingOK, RmIdle
<1>3. QED
  BY <1>1, <1>2 DEF Links

LEMMA LinksMain == Inductive /\ (Main \/ Launch) => Links'
<1> SUFFICES ASSUME Inductive, Main \/ Launch PROVE Links'
  OBVIOUS
<1> USE DEF Inductive, Links, StoreOK, FootageOK, WriterOK, ListingOK
<1>1. CASE Launch
  BY <1>1 DEF Launch
<1>2. CASE MakeDirectory
  BY <1>2 DEF MakeDirectory
<1>3. CASE CreateSave
  BY <1>3 DEF CreateSave
<1>4. CASE CreateDelete
  BY <1>4 DEF CreateDelete, Live
<1>5. CASE InstallHandler
  BY <1>5 DEF InstallHandler
<1>6. QED
  BY <1>1, <1>2, <1>3, <1>4, <1>5 DEF Main

(* What a release leaves without an index are entries, whatever room there  *)
(* is.                                                                      *)
LEMMA ReleaseLists ==
    ASSUME NEW o, starved \subseteq raw, raw \subseteq files
    PROVE  StillStarved(o) \subseteq StillRaw(o) /\ StillRaw(o) \subseteq files
<1> DEFINE room == Available(o) > 0
<1>1. CASE room
  <2>1. StillRaw(o) = raw \ writer /\ StillStarved(o) = starved \ writer
    BY <1>1
  <2> QED BY <2>1
<1>2. CASE ~room
  <2>1. StillRaw(o) = raw /\ StillStarved(o) = starved \cup (raw \cap writer)
    BY <1>2
  <2> QED BY <2>1
<1> QED BY <1>1, <1>2

LEMMA OpenedLists ==
    ASSUME StoreOK, OpenFile
    PROVE  starved' \subseteq raw' /\ raw' \subseteq files'
<1> DEFINE old == {f \in files : PathOf(f) = PathOf(stamp)}
<1>1. PICK o \in OtherNow :
          /\ raw' = (StillRaw(o) \ old) \cup {stamp}
          /\ starved' = StillStarved(o) \ old
  BY DEF OpenFile
<1>2. files' = (files \ old) \cup {stamp}
  BY DEF OpenFile
<1>3. StillStarved(o) \subseteq StillRaw(o) /\ StillRaw(o) \subseteq files
  BY ReleaseLists DEF StoreOK
<1> HIDE DEF old
<1> QED BY <1>1, <1>2, <1>3

LEMMA RefusedLists ==
    ASSUME StoreOK, OpenFails
    PROVE  starved' \subseteq raw' /\ raw' \subseteq files'
<1>1. PICK o \in OtherNow : raw' = StillRaw(o) /\ starved' = StillStarved(o)
  BY DEF OpenFails
<1>2. StillStarved(o) \subseteq StillRaw(o) /\ StillRaw(o) \subseteq files /\ UNCHANGED files
  BY ReleaseLists DEF StoreOK, OpenFails
<1> QED BY <1>1, <1>2

LEMMA LinksSave == Inductive /\ Save => Links'
<1> SUFFICES ASSUME Inductive, Save PROVE Links'
  OBVIOUS
<1> USE ConstantFacts DEF Inductive, Links
<1>1. CASE NameDirectory
  <2>1. /\ ToSet(dirs) \subseteq ToSet(dirs')
        /\ dirs # <<>> => dirs' # <<>>
        /\ ~base => dirs' = dirs
    <3>1. DirOf(clock) \in Names
      BY DEF TypeOK
    <3>2. CASE base /\ DirOf(clock) \notin ToSet(dirs) /\ dirs' = Append(dirs, DirOf(clock))
      BY <3>1, <3>2, AppendSet DEF TypeOK
    <3>3. CASE UNCHANGED dirs
      BY <3>3
    <3>4. QED
      BY <1>1, <3>2, <3>3 DEF NameDirectory
  <2>2. QED
    BY <1>1, <2>1 DEF NameDirectory, StoreOK, FootageOK, WriterOK, ListingOK
<1>2. CASE OpenFile
  <2>1. /\ ToSet(dirs') = ToSet(dirs)
        /\ dirs # <<>> => dirs' # <<>>
        /\ DirOf(stamp) \in ToSet(dirs)
    BY <1>2, TouchSet DEF OpenFile
  <2>2. base /\ UNCHANGED base
    BY <1>2 DEF OpenFile, StoreOK, ToSet
  <2>3. StoreOK'
    BY <1>2, <2>1, <2>2, OpenedLists DEF OpenFile, StoreOK
  <2>4. FootageOK' /\ WriterOK'
    BY <1>2 DEF OpenFile, FootageOK, WriterOK
  <2>5. ListingOK'
    BY <1>2, <2>1 DEF OpenFile, ListingOK
  <2>6. QED
    BY <2>3, <2>4, <2>5
<1>3. CASE OpenFails
  <2>1. StoreOK'
    BY <1>3, RefusedLists DEF OpenFails, StoreOK
  <2>2. FootageOK' /\ WriterOK' /\ ListingOK'
    BY <1>3 DEF OpenFails, FootageOK, WriterOK, ListingOK
  <2>3. QED
    BY <2>1, <2>2
<1>4. CASE GrabFrame
  <2>1. StoreOK' /\ WriterOK' /\ ListingOK'
    BY <1>4 DEF GrabFrame, StoreOK, WriterOK, ListingOK
  <2>2. FootageOK'
    BY <1>4 DEF GrabFrame, FootageOK
  <2>3. QED
    BY <2>1, <2>2
<1>5. CASE EmptyFrame
  BY <1>5 DEF EmptyFrame, StoreOK, FootageOK, WriterOK, ListingOK
<1>6. QED
  BY <1>1, <1>2, <1>3, <1>4, <1>5 DEF Save

LEMMA LinksDelete == RoomForFile /\ Inductive /\ Delete => Links'
<1> SUFFICES ASSUME RoomForFile, Inductive, Delete PROVE Links'
  OBVIOUS
<1> USE DEF Inductive, Links
<1>1. CASE DfOpen
  BY <1>1 DEF DfOpen, StoreOK, FootageOK, WriterOK, ListingOK, Live
<1>2. CASE DfOpenFails
  BY <1>2, LinksProcessEnds DEF DfOpenFails
<1>3. CASE Df
  <2>1. delpc' = "ls" => dirs # <<>>
    BY <1>3, LowMeansListed DEF Df, Sleep
  <2>2. StoreOK' /\ FootageOK' /\ WriterOK'
    BY <1>3 DEF Df, StoreOK, FootageOK, WriterOK
  <2>3. ListingOK'
    BY <1>3, <2>1 DEF Df, Sleep, Live, ListingOK
  <2>4. QED
    BY <2>2, <2>3
<1>4. CASE List
  <2>1. StoreOK' /\ FootageOK' /\ WriterOK'
    BY <1>4 DEF List, StoreOK, FootageOK, WriterOK
  <2>2. cut' = NoName => astray'
    <3>1. Head(dirs) \in Names
      BY <1>4 DEF List, ListingOK, TypeOK
    <3>2. CutName(Head(dirs)) # NoName
      BY <3>1, NameAssumption DEF Cuts
    <3>3. QED
      BY <1>4, <3>2 DEF List, ListingOK
  <2>3. ListingOK'
    BY <1>4, <2>2 DEF List, Live, ListingOK
  <2>4. QED
    BY <2>1, <2>3
<1>5. CASE ListFails
  BY <1>5 DEF ListFails, Sleep, StoreOK, FootageOK, WriterOK, ListingOK, Live
<1>6. CASE Return
  <2>1. CASE ProcessEnds
    BY <1>6, <2>1, LinksProcessEnds DEF Return
  <2>2. CASE Sleep /\ UNCHANGED <<mainpc, writer, rmVars, diskVars>>
    BY <1>6, <2>2 DEF Return, Sleep, Live, StoreOK, FootageOK, WriterOK, ListingOK
  <2>3. QED
    BY <1>6, <2>1, <2>2 DEF Return
<1>7. CASE Wake
  BY <1>7 DEF Wake, StoreOK, FootageOK, WriterOK, ListingOK, Live
<1>8. CASE ListNothing
  BY <1>8 DEF ListNothing, Live, StoreOK, FootageOK, WriterOK, ListingOK
<1>9. QED
  BY <1>1, <1>2, <1>3, <1>4, <1>5, <1>6, <1>7, <1>8 DEF Delete

LEMMA NoNameUnlisted == TypeOK => NoName \notin ToSet(dirs)
BY NameAssumption DEF TypeOK, ToSet

(* Removing the directory rm is in, if it is empty, takes no other away.    *)
LEMMA RmDirectoryLists ==
    ASSUME TypeOK, RmDirectory
    PROVE  /\ ToSet(dirs') \subseteq ToSet(dirs)
           /\ ToSet(dirs) \ {inside} \subseteq ToSet(dirs')
           /\ FilesIn(inside) # {} => dirs' = dirs
           /\ inside \notin ToSet(dirs) => ToSet(dirs') = ToSet(dirs)
           /\ dirs = <<>> => dirs' = <<>>
<1>1. dirs' = IF FilesIn(inside) = {} THEN RemoveFirst(dirs, inside) ELSE dirs
  BY DEF RmDirectory
<1>2. ToSet(RemoveFirst(dirs, inside)) = ToSet(dirs) \ {inside}
  BY RemoveFirstSet DEF TypeOK
<1>3. dirs = <<>> => RemoveFirst(dirs, inside) = <<>>
  BY DEF RemoveFirst
<1>4. QED
  BY <1>1, <1>2, <1>3

LEMMA LinksRm == Inductive /\ Rm => Links'
<1> SUFFICES ASSUME Inductive, Rm PROVE Links'
  OBVIOUS
<1> USE DEF Inductive, Links
<1>0. NoName \notin ToSet(dirs)
  BY NoNameUnlisted
<1>1. CASE RmStart
  BY <1>0, <1>1 DEF RmStart, StoreOK, FootageOK, WriterOK, ListingOK
<1>2. CASE RmEnter
  BY <1>2 DEF RmEnter, FilesIn, StoreOK, FootageOK, WriterOK, ListingOK
<1>3. CASE RmUnlink
  <2>1. StoreOK' /\ FootageOK' /\ WriterOK'
    BY <1>3 DEF RmUnlink, StoreOK, FootageOK, WriterOK
  <2>2. ListingOK'
    BY <1>3 DEF RmUnlink, ListingOK
  <2>3. QED
    BY <2>1, <2>2
<1>4. CASE RmDirectory
  <2>1. /\ ToSet(dirs') \subseteq ToSet(dirs)
        /\ ToSet(dirs) \ {inside} \subseteq ToSet(dirs')
        /\ FilesIn(inside) # {} => dirs' = dirs
        /\ dirs = <<>> => dirs' = <<>>
    BY <1>4, RmDirectoryLists
  <2>2. StoreOK'
    BY <1>4, <2>1 DEF RmDirectory, StoreOK, FilesIn
  <2>3. FootageOK' /\ WriterOK'
    BY <1>4 DEF RmDirectory, FootageOK, WriterOK
  <2>4. inside \notin doomed
    BY <1>4 DEF RmDirectory, ListingOK
  <2>5. ListingOK'
    BY <1>0, <1>4, <2>1, <2>4 DEF RmDirectory, ListingOK
  <2>6. QED
    BY <2>2, <2>3, <2>5
<1>5. CASE RmEnds
  BY <1>5 DEF RmEnds, RmIdle, StoreOK, FootageOK, WriterOK, ListingOK
<1>6. CASE RmKilled
  BY <1>6 DEF RmKilled, RmIdle, StoreOK, FootageOK, WriterOK, ListingOK
<1>7. QED
  BY <1>1, <1>2, <1>3, <1>4, <1>5, <1>6 DEF Rm

LEMMA LinksEnvironment == Inductive /\ Environment => Links'
<1> SUFFICES ASSUME Inductive, Environment PROVE Links'
  OBVIOUS
<1>1. CASE Launch
  BY <1>1, LinksMain
<1>2. CASE Tick
  BY <1>2 DEF Tick, Inductive, Links, StoreOK, FootageOK, WriterOK, ListingOK
<1>3. CASE InterruptEarly
  BY <1>3, LinksProcessEnds DEF InterruptEarly
<1>4. CASE Interrupt
  BY <1>4 DEF Interrupt, Inductive, Links, StoreOK, FootageOK, WriterOK, ListingOK
<1>5. CASE Exit
  BY <1>5, LinksProcessEnds DEF Exit
<1>6. CASE PowerLoss
  BY <1>6, LinksProcessEnds DEF PowerLoss
<1>7. QED
  BY <1>1, <1>2, <1>3, <1>4, <1>5, <1>6 DEF Environment

LEMMA InductiveStep == RoomForFile /\ Inductive /\ [Next]_vars => Inductive'
<1> SUFFICES ASSUME RoomForFile, Inductive, [Next]_vars PROVE Inductive'
  OBVIOUS
<1>1. CASE UNCHANGED vars
  BY <1>1 DEF Inductive, TypeOK, StoreOK, FootageOK, WriterOK, ListingOK
<1>2. CASE Next
  <2>1. TypeOK'
    BY <1>2, TypeMain, TypeSave, TypeDelete, TypeRm, TypeEnvironment DEF Next, Inductive
  <2>2. Links'
    BY <1>2, LinksMain, LinksSave, LinksDelete, LinksRm, LinksEnvironment DEF Next
  <2>3. QED
    BY <2>1, <2>2 DEF Inductive, Links
<1>3. QED
  BY <1>1, <1>2

(* On a disk that is roomy for files the directory entries, the frames, the *)
(* open file and thread_delete's listing stay consistent in every           *)
(* interleaving of the threads, rm, signals, power losses and launches.     *)
THEOREM StoreConsistent == RoomForFile => (Spec => []Inductive)
<1> SUFFICES ASSUME RoomForFile PROVE Spec => []Inductive
  OBVIOUS
<1>1. Init => Inductive
  BY TypeInit, LinksInit DEF Inductive, Links
<1>2. Inductive /\ [Next]_vars => Inductive'
  BY InductiveStep
<1>3. QED
  BY <1>1, <1>2, PTL DEF Spec

(* On such a disk rm -rf removes the base directory only when the listing   *)
(* was misread, never because there was nothing to list.                    *)
THEOREM BaseSafe == RoomForFile => (Spec => BaseLostOnlyAstray)
<1> SUFFICES ASSUME RoomForFile PROVE Spec => BaseLostOnlyAstray
  OBVIOUS
<1>1. Inductive /\ [Next]_vars => [base /\ ~base' => astray]_vars
  <2> SUFFICES ASSUME Inductive, Next, base, ~base' PROVE astray
    OBVIOUS
  <2>1. RmEnds
    BY DEF Next, Main, Save, Delete, Rm, Environment, ProcessEnds, MakeDirectory, CreateSave,
           CreateDelete, InstallHandler, NameDirectory, OpenFile, OpenFails, GrabFrame,
           EmptyFrame, DfOpen, DfOpenFails, Df, List, ListNothing, ListFails, Return, Wake,
           RmStart, RmEnter, RmUnlink, RmDirectory, RmKilled, Launch, Tick, InterruptEarly,
           Interrupt, Exit, PowerLoss
  <2>2. QED
    BY <2>1 DEF RmEnds, Inductive, ListingOK
<1>2. QED
  BY <1>1, StoreConsistent, PTL DEF Spec, BaseLostOnlyAstray

-----------------------------------------------------------------------------
(* What holds on every disk: entries lie in listed directories, and a base  *)
(* directory that is lost stays lost until a launch.                        *)

LEMMA StoreStep == TypeOK /\ StoreOK /\ Next => StoreOK'
<1> SUFFICES ASSUME TypeOK, StoreOK, Next PROVE StoreOK'
  OBVIOUS
<1>1. CASE Main \/ Launch
  BY <1>1 DEF Main, MakeDirectory, CreateSave, CreateDelete, InstallHandler, Launch, StoreOK
<1>2. CASE Save
  <2>1. CASE NameDirectory
    <3>1. ToSet(dirs) \subseteq ToSet(dirs') /\ (~base => dirs' = dirs)
      <4>1. DirOf(clock) \in Names
        BY ConstantFacts DEF TypeOK
      <4>2. CASE base /\ DirOf(clock) \notin ToSet(dirs) /\ dirs' = Append(dirs, DirOf(clock))
        BY <4>1, <4>2, AppendSet DEF TypeOK
      <4>3. CASE UNCHANGED dirs
        BY <4>3
      <4>4. QED
        BY <2>1, <4>2, <4>3 DEF NameDirectory
    <3>2. QED
      BY <2>1, <3>1 DEF NameDirectory, StoreOK
  <2>2. CASE OpenFile
    <3>1. ToSet(dirs') = ToSet(dirs) /\ DirOf(stamp) \in ToSet(dirs)
      BY <2>2, TouchSet DEF OpenFile
    <3>2. base /\ UNCHANGED base
      BY <2>2 DEF OpenFile, StoreOK, ToSet
    <3>3. QED
      BY <2>2, <3>1, <3>2, OpenedLists DEF OpenFile, StoreOK
  <2>3. CASE OpenFails
    BY <2>3, RefusedLists DEF OpenFails, StoreOK
  <2>4. CASE GrabFrame \/ EmptyFrame
    BY <2>4 DEF GrabFrame, EmptyFrame, StoreOK
  <2>5. QED
    BY <1>2, <2>1, <2>2, <2>3, <2>4 DEF Save
<1>3. CASE Delete
  BY <1>3 DEF Delete, DfOpen, DfOpenFails, Df, List, ListNothing, ListFails, Return, Wake, ProcessEnds, StoreOK
<1>4. CASE Rm
  <2>1. CASE RmStart \/ RmEnter \/ RmUnlink \/ RmEnds \/ RmKilled
    BY <2>1 DEF RmStart, RmEnter, RmUnlink, RmEnds, RmKilled, StoreOK
  <2>2. CASE RmDirectory
    BY <2>2, RmDirectoryLists DEF RmDirectory, StoreOK, FilesIn
  <2>3. QED
    BY <1>4, <2>1, <2>2 DEF Rm
<1>5. CASE Environment
  BY <1>1, <1>5 DEF Environment, Tick, InterruptEarly, Interrupt, Exit, PowerLoss, ProcessEnds,
                    StoreOK
<1>6. QED
  BY <1>1, <1>2, <1>3, <1>4, <1>5 DEF Next

(* Once the base directory is gone no recording gets a directory entry, and *)
(* only main makes the base directory again: for every disk, naming and     *)
(* interleaving.                                                            *)
THEOREM NoRecovery == Spec => NoRecoveryInRun
<1>1. Init => StoreOK
  BY LinksInit DEF Links
<1>2. TypeOK /\ StoreOK /\ [Next]_vars => StoreOK'
  <2>1. TypeOK /\ StoreOK /\ UNCHANGED vars => StoreOK'
    BY DEF StoreOK
  <2>2. QED
    BY <2>1, StoreStep
<1>3. StoreOK /\ StoreOK' /\ [Next]_vars
      => [~base => files' = {} /\ (base' => mainpc = "mkdirs")]_vars
  <2> SUFFICES ASSUME StoreOK, StoreOK', Next, ~base
               PROVE  files' = {} /\ (base' => mainpc = "mkdirs")
    OBVIOUS
  <2>1. files = {}
    BY DEF StoreOK, ToSet
  <2>2. CASE ~base'
    BY <2>2 DEF StoreOK, ToSet
  <2>3. CASE base'
    <3>1. MakeDirectory
      BY <2>3 DEF Next, Main, Save, Delete, Rm, Environment, ProcessEnds, CreateSave,
           CreateDelete, InstallHandler, NameDirectory, OpenFile, OpenFails, GrabFrame,
           EmptyFrame, DfOpen, DfOpenFails, Df, List, ListNothing, ListFails, Return, Wake,
           RmStart, RmEnter, RmUnlink, RmDirectory, RmEnds, RmKilled, Launch, Tick,
           InterruptEarly, Interrupt, Exit, PowerLoss
    <3>2. QED
      BY <2>1, <3>1 DEF MakeDirectory
  <2>4. QED
    BY <2>2, <2>3
<1>4. QED
  BY <1>1, <1>2, <1>3, TypeCorrect, PTL DEF Spec, NoRecoveryInRun

-----------------------------------------------------------------------------
(* Files without an index.                                                  *)

LEMMA RawFinite ==
    ASSUME NEW F \in SUBSET Seconds
    PROVE  IsFiniteSet(F) /\ Cardinality(F) \in Nat
<1>1. IsFiniteSet(Seconds)
  BY FS_Interval, ConstantFacts DEF Seconds
<1>2. QED
  BY <1>1, FS_Subset, FS_CardinalityType

(* Fewer files are not more of them.                                        *)
LEMMA FewerRaw ==
    ASSUME NEW F \in SUBSET Seconds, NEW G \in SUBSET F
    PROVE  Cardinality(G) \in Nat /\ Cardinality(F) \in Nat /\ Cardinality(G) <= Cardinality(F)
BY RawFinite, FS_Subset

(* Those that were not closed on a full disk.                               *)
Torn == raw \ starved

(* The open file is at most one of them.                                    *)
LEMMA OneOpen ==
    ASSUME TypeOK, WriterOK
    PROVE  /\ Cardinality(Torn) \in Nat /\ Cardinality(Torn \ writer) \in Nat
           /\ Cardinality(Torn) <= Cardinality(Torn \ writer) + 1
<1> DEFINE kept == Torn \ writer
<1>1. Torn \in SUBSET Seconds /\ kept \in SUBSET Seconds
  BY DEF TypeOK, Torn
<1>2. IsFiniteSet(kept) /\ Cardinality(kept) \in Nat
  BY <1>1, RawFinite
<1>3. PICK f : Torn \subseteq kept \cup {f}
  BY DEF WriterOK
<1> HIDE DEF kept
<1>4. /\ IsFiniteSet(kept \cup {f})
      /\ Cardinality(kept \cup {f}) = IF f \in kept THEN Cardinality(kept) ELSE Cardinality(kept) + 1
  BY <1>2, FS_AddElement
<1>5. Cardinality(Torn) \in Nat /\ Cardinality(Torn) <= Cardinality(kept \cup {f})
  BY <1>1, <1>3, <1>4, FS_Subset, RawFinite
<1>6. Cardinality(Torn) <= Cardinality(kept) + 1
  BY <1>2, <1>4, <1>5
<1>7. QED
  BY <1>2, <1>5, <1>6 DEF kept

(* What makes TornFilesBound inductive: besides the file that is open, a    *)
(* run under way has only the files that earlier runs left.                 *)
TornOK ==
    /\ mainpc = "off" => writer = {} /\ Cardinality(Torn) <= runs
    /\ mainpc # "off" => Cardinality(Torn \ writer) + 1 <= runs

LEMMA TornProcessEnds ==
    ASSUME TypeOK, WriterOK, TornOK, mainpc # "off", ProcessEnds
    PROVE  TornOK'
<1>1. runs \in Nat
  BY ConstantFacts DEF TypeOK
<1>2. Cardinality(Torn) <= runs
  BY <1>1, OneOpen DEF TornOK
<1>3. QED
  BY <1>2 DEF ProcessEnds, TornOK, Torn

LEMMA TornStep == TypeOK /\ WriterOK /\ TornOK /\ Next => WriterOK' /\ TornOK'
<1> SUFFICES ASSUME TypeOK, WriterOK, TornOK, Next PROVE WriterOK' /\ TornOK'
  OBVIOUS
<1>1. Torn \in SUBSET Seconds /\ runs \in Nat
  BY ConstantFacts DEF TypeOK, Torn
<1>2. WriterOK'
  BY DEF Next, Main, Save, Delete, Rm, Environment, ProcessEnds, MakeDirectory, CreateSave,
         CreateDelete, InstallHandler, NameDirectory, OpenFile, OpenFails, GrabFrame,
         EmptyFrame, DfOpen, DfOpenFails, Df, List, ListNothing, ListFails, Return, Wake,
         RmStart, RmEnter, RmUnlink, RmDirectory, RmEnds, RmKilled, Launch, Tick,
         InterruptEarly, Interrupt, Exit, PowerLoss, WriterOK
<1>3. SUFFICES TornOK'
  BY <1>2
<1>4. CASE ProcessEnds
  <2>1. CASE mainpc # "off"
    BY <1>4, <2>1, TornProcessEnds
  <2>2. CASE mainpc = "off"
    <3>1. UNCHANGED <<Torn, runs>> /\ writer' = {} /\ mainpc' = "off"
      BY <1>4 DEF ProcessEnds, Torn
    <3>2. QED
      BY <2>2, <3>1 DEF TornOK
  <2>3. QED
    BY <2>1, <2>2
<1>5. CASE Launch
  <2>1. /\ Cardinality(Torn) \in Nat /\ Torn \ writer = Torn
        /\ UNCHANGED <<Torn, writer>>
    BY <1>1, <1>5, RawFinite DEF Launch, TornOK, Torn
  <2>2. QED
    BY <1>1, <1>5, <2>1 DEF Launch, TornOK
<1>6. ASSUME Torn' \ writer' \subseteq Torn \ writer, UNCHANGED runs,
             mainpc # "off" /\ mainpc' # "off"
      PROVE  TornOK'
  <2>1. /\ Cardinality(Torn' \ writer') \in Nat /\ Cardinality(Torn \ writer) \in Nat
        /\ Cardinality(Torn' \ writer') <= Cardinality(Torn \ writer)
    BY <1>1, <1>6, FewerRaw
  <2>2. QED
    BY <1>1, <1>6, <2>1 DEF TornOK
<1>7. CASE OpenFile
  <2>1. Torn' \ writer' \subseteq Torn \ writer
    BY <1>7 DEF OpenFile, Torn
  <2>2. QED
    BY <1>6, <1>7, <2>1 DEF OpenFile, Live
<1>8. CASE OpenFails
  <2>1. Torn' \ writer' \subseteq Torn \ writer
    BY <1>8 DEF OpenFails, Torn
  <2>2. QED
    BY <1>6, <1>8, <2>1 DEF OpenFails, Live
<1>9. CASE RmUnlink
  <2>0. Torn' \subseteq Torn /\ UNCHANGED <<writer, mainpc, runs>>
    BY <1>9 DEF RmUnlink, Torn
  <2>1. CASE mainpc # "off"
    BY <1>6, <2>0, <2>1
  <2>2. CASE mainpc = "off"
    <3>1. Cardinality(Torn') \in Nat /\ Cardinality(Torn) \in Nat /\ Cardinality(Torn') <= Cardinality(Torn)
      BY <1>1, <2>0, FewerRaw
    <3>2. QED
      BY <1>1, <2>0, <2>2, <3>1 DEF TornOK
  <2>3. QED
    BY <2>1, <2>2
<1>10. CASE UNCHANGED <<raw, starved, writer, runs>> /\ mainpc # "off" /\ mainpc' # "off"
  BY <1>6, <1>10 DEF Torn
<1>11. CASE UNCHANGED <<raw, starved, writer, runs, mainpc>>
  BY <1>11 DEF TornOK, Torn
<1>12. QED
  BY <1>4, <1>5, <1>7, <1>8, <1>9, <1>10, <1>11
     DEF Next, Main, Save, Delete, Rm, Environment, MakeDirectory, CreateSave, CreateDelete,
         InstallHandler, NameDirectory, GrabFrame, EmptyFrame, DfOpen, DfOpenFails, Df, List,
         ListNothing, ListFails, Return, Wake, RmStart, RmEnter, RmDirectory, RmEnds, RmKilled,
         Tick, InterruptEarly, Interrupt, Exit, PowerLoss, Live

(* Each launch leaves at most one file without an index, besides those      *)
(* closed on a full disk, for every number of launches, disk and            *)
(* interleaving of interrupts, crashes and power losses.                    *)
THEOREM TornFiles == Spec => []TornFilesBound
<1>1. Init => WriterOK /\ TornOK
  <2>1. Init => Torn = {} /\ writer = {} /\ runs = 0 /\ mainpc = "off"
    BY DEF Init, Torn
  <2>2. QED
    BY <2>1, FS_EmptySet DEF WriterOK, TornOK
<1>2. TypeOK /\ WriterOK /\ TornOK /\ [Next]_vars => WriterOK' /\ TornOK'
  <2>1. WriterOK /\ TornOK /\ UNCHANGED vars => WriterOK' /\ TornOK'
    BY DEF WriterOK, TornOK, Torn
  <2>2. QED
    BY <2>1, TornStep
<1>3. TypeOK /\ WriterOK /\ TornOK => TornFilesBound
  <2> SUFFICES ASSUME TypeOK, WriterOK, TornOK PROVE TornFilesBound
    OBVIOUS
  <2>1. runs \in Nat
    BY ConstantFacts DEF TypeOK
  <2>2. QED
    BY <2>1, OneOpen DEF TornOK, TornFilesBound, Torn
<1>4. QED
  BY <1>1, <1>2, <1>3, TypeCorrect, PTL DEF Spec

=============================================================================
