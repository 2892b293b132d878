--------------------------- MODULE HourNameProofs ---------------------------
(***************************************************************************)
(* What the names of HourName say: the digits that %d prints, where the    *)
(* parts of a name lie, and how far apart two dates with the same digits   *)
(* are.                                                                    *)
(***************************************************************************)
EXTENDS HourName, Integers, FiniteSetTheorems, SequenceTheorems, WellFoundedInduction, TLAPS

-----------------------------------------------------------------------------
(* Decimal is a recursive function: it has a value for every number because *)
(* there is one up to every bound, and two such agree where both are.       *)

Printed(f, n) == IF n < 10 THEN <<n>> ELSE Append(f[n \div 10], n % 10)

PrintsTo(g, k) == g = [n \in 0 .. k |-> Printed(g, n)]

LEMMA LeastNumber ==
    ASSUME NEW T, T \subseteq Nat, T # {}
    PROVE  \E x \in T : \A y \in T : x <= y
<1> DEFINE R == OpToRel(<, Nat)
<1>1. IsWellFoundedOn(R, Nat)
  BY NatLessThanWellFounded
<1> HIDE DEF R
<1>2. PICK x \in T : \A y \in T : ~(<<y, x>> \in R)
  BY <1>1, WFMin
<1>3. \A y \in T : ~(y < x)
  BY <1>2 DEF R, OpToRel
<1> QED BY <1>3

LEMMA PrintsToAgree ==
    ASSUME NEW g, NEW k \in Nat, PrintsTo(g, k), NEW h, NEW l \in Nat, PrintsTo(h, l),
           NEW n \in Nat, n <= k, n <= l
    PROVE  g[n] = h[n]
<1> DEFINE T == {m \in Nat : m <= k /\ m <= l /\ g[m] # h[m]}
<1> SUFFICES ASSUME T # {} PROVE FALSE
  OBVIOUS
<1>1. PICK x \in T : \A y \in T : x <= y
  BY LeastNumber
<1>2. g[x] = Printed(g, x) /\ h[x] = Printed(h, x)
  <2>1. x \in 0 .. k /\ x \in 0 .. l
    BY <1>1
  <2>2. \A i \in 0 .. k : g[i] = Printed(g, i)
    BY DEF PrintsTo
  <2>3. \A i \in 0 .. l : h[i] = Printed(h, i)
    BY DEF PrintsTo
  <2> QED BY <2>1, <2>2, <2>3
<1>3. CASE x < 10
  BY <1>2, <1>3 DEF Printed
<1>4. CASE x >= 10
  <2>1. x \div 10 \in Nat /\ x \div 10 < x
    BY <1>4
  <2>2. g[x \div 10] = h[x \div 10]
    BY <1>1, <2>1
  <2> QED BY <1>2, <1>4, <2>2 DEF Printed
<1> QED BY <1>3, <1>4

LEMMA PrintsToNext ==
    ASSUME NEW g, NEW k \in Nat, PrintsTo(g, k)
    PROVE  \E h : PrintsTo(h, k + 1)
<1> DEFINE h == [n \in 0 .. k + 1 |-> Printed(g, n)]
<1>1. \A n \in 0 .. k : h[n] = g[n]
  BY DEF PrintsTo
<1>2. ASSUME NEW n \in 0 .. k + 1 PROVE Printed(g, n) = Printed(h, n)
  <2>1. CASE n < 10
    BY <2>1 DEF Printed
  <2>2. CASE n >= 10
    <3>1. n \div 10 \in 0 .. k
      BY <2>2
    <3>2. h[n \div 10] = g[n \div 10]
      BY <1>1, <3>1
    <3> HIDE DEF h
    <3> QED BY <3>2 DEF Printed
  <2> QED BY <2>1, <2>2
<1>3. h = [n \in 0 .. k + 1 |-> Printed(h, n)]
  BY <1>2
<1> QED BY <1>3 DEF PrintsTo

LEMMA PrintsToAll == \A k \in Nat : \E g : PrintsTo(g, k)
<1> DEFINE T == {k \in Nat : ~ \E g : PrintsTo(g, k)}
<1> SUFFICES ASSUME T # {} PROVE FALSE
  OBVIOUS
<1>1. PICK x \in T : \A y \in T : x <= y
  BY LeastNumber
<1>2. PrintsTo([n \in 0 .. 0 |-> <<n>>], 0)
  BY DEF PrintsTo, Printed
<1>3. x # 0
  BY <1>2
<1>4. PICK g : PrintsTo(g, x - 1)
  BY <1>1, <1>3
<1>5. \E h : PrintsTo(h, x - 1 + 1)
  BY <1>3, <1>4, PrintsToNext
<1> QED BY <1>3, <1>5

LEMMA DecimalEquation == Decimal = [n \in Nat |-> Printed(Decimal, n)]
<1> DEFINE upto(n) == CHOOSE g : PrintsTo(g, n)
           G == [n \in Nat |-> upto(n)[n]]
<1>1. \A n \in Nat : PrintsTo(upto(n), n)
  BY PrintsToAll
<1> HIDE DEF upto
<1>2. ASSUME NEW n \in Nat PROVE G[n] = Printed(G, n)
  <2>1. G[n] = Printed(upto(n), n)
    BY <1>1 DEF PrintsTo
  <2>2. CASE n < 10
    BY <2>1, <2>2 DEF Printed
  <2>3. CASE n >= 10
    <3>1. n \div 10 \in Nat /\ n \div 10 <= n
      BY <2>3
    <3>2. upto(n)[n \div 10] = upto(n \div 10)[n \div 10]
      BY <1>1, <3>1, PrintsToAgree
    <3>3. G[n \div 10] = upto(n)[n \div 10]
      BY <3>1, <3>2
    <3> HIDE DEF G
    <3> QED BY <2>1, <3>3 DEF Printed
  <2> QED BY <2>2, <2>3
<1>3. G = [n \in Nat |-> Printed(G, n)]
  BY <1>2
<1> QED BY <1>3 DEF Decimal, Printed

LEMMA OneDigit ==
    ASSUME NEW n \in 0 .. 9
    PROVE  <<n>> \in Seq(0 .. 9) /\ Len(<<n>>) = 1 /\ <<n>>[1] = n
OBVIOUS

LEMMA DecimalDigit ==
    \A n \in 0 .. 9 : Decimal[n] \in Seq(0 .. 9) /\ Len(Decimal[n]) = 1 /\ Decimal[n][1] = n
<1> SUFFICES ASSUME NEW n \in 0 .. 9
             PROVE  Decimal[n] \in Seq(0 .. 9) /\ Len(Decimal[n]) = 1 /\ Decimal[n][1] = n
  OBVIOUS
<1>1. Decimal[n] = <<n>>
  BY DecimalEquation DEF Printed
<1> QED BY <1>1, OneDigit, Zenon

LEMMA DecimalLonger == \A n \in Nat : n >= 10 => Decimal[n] = Append(Decimal[n \div 10], n % 10)
BY DecimalEquation DEF Printed

LEMMA DecimalType == \A n \in Nat : Decimal[n] \in Seq(0 .. 9) /\ Len(Decimal[n]) >= 1
<1> DEFINE Good(n) == Decimal[n] \in Seq(0 .. 9) /\ Len(Decimal[n]) >= 1
           T == {n \in Nat : ~Good(n)}
<1> SUFFICES ASSUME T # {} PROVE FALSE
  OBVIOUS
<1>1. PICK x \in T : \A y \in T : x <= y
  BY LeastNumber
<1>2. x \in Nat /\ ~Good(x) /\ \A y \in Nat : y < x => Good(y)
  BY <1>1
<1>3. CASE x < 10
  <2>1. x \in 0 .. 9
    BY <1>2, <1>3
  <2> QED BY <1>2, <2>1, DecimalDigit
<1>4. CASE x >= 10
  <2>1. x \div 10 \in Nat /\ x \div 10 < x /\ x % 10 \in 0 .. 9
    BY <1>2, <1>4
  <2>2. Good(x \div 10)
    BY <1>2, <2>1
  <2>3. Decimal[x] = Append(Decimal[x \div 10], x % 10)
    BY <1>2, <1>4, DecimalLonger
  <2>4. Append(Decimal[x \div 10], x % 10) \in Seq(0 .. 9) /\ Len(Append(Decimal[x \div 10], x % 10)) >= 1
    BY <2>1, <2>2
  <2> QED BY <1>2, <2>3, <2>4
<1> QED BY <1>2, <1>3, <1>4

LEMMA AppendEqual ==
    \A s, t \in Seq(0 .. 9) : \A x, y \in 0 .. 9 : Append(s, x) = Append(t, y) => s = t /\ x = y
OBVIOUS

(* Different numbers have different digits.                                 *)
LEMMA DecimalLength == \A n \in Nat : n < 10 <=> Len(Decimal[n]) = 1
<1> SUFFICES ASSUME NEW n \in Nat, n >= 10 PROVE Len(Decimal[n]) # 1
  BY DecimalDigit
<1>1. n \div 10 \in Nat /\ Decimal[n] = Append(Decimal[n \div 10], n % 10)
  BY DecimalLonger
<1>2. Decimal[n \div 10] \in Seq(0 .. 9) /\ Len(Decimal[n \div 10]) >= 1
  BY <1>1, DecimalType
<1> QED BY <1>1, <1>2

LEMMA DecimalInjective == \A n, m \in Nat : Decimal[n] = Decimal[m] => n = m
<1> DEFINE Shared(n) == \E m \in Nat : Decimal[n] = Decimal[m] /\ n # m
           T == {n \in Nat : Shared(n)}
<1> SUFFICES ASSUME T # {} PROVE FALSE
  OBVIOUS
<1>1. PICK x \in T : \A y \in T : x <= y
  BY LeastNumber
<1>2. x \in Nat /\ Shared(x) /\ \A y \in Nat : y < x => ~Shared(y)
  BY <1>1
<1>3. PICK m \in Nat : Decimal[x] = Decimal[m] /\ x # m
  BY <1>2
<1>4. CASE x < 10
  <2>1. m < 10
    BY <1>2, <1>3, <1>4, DecimalLength
  <2>2. x \in 0 .. 9 /\ m \in 0 .. 9
    BY <1>2, <1>4, <2>1
  <2> QED BY <1>3, <2>2, DecimalDigit
<1>5. CASE x >= 10
  <2>1. m >= 10
    BY <1>2, <1>3, <1>5, DecimalLength
  <2>2. /\ x \div 10 \in Nat /\ x \div 10 < x /\ m \div 10 \in Nat
    BY <1>2, <1>5, <2>1
  <2>3. /\ Decimal[x \div 10] \in Seq(0 .. 9) /\ Decimal[m \div 10] \in Seq(0 .. 9)
        /\ x % 10 \in 0 .. 9 /\ m % 10 \in 0 .. 9
    BY <1>2, <2>2, DecimalType
  <2>4. Append(Decimal[x \div 10], x % 10) = Append(Decimal[m \div 10], m % 10)
    BY <1>2, <1>3, <1>5, <2>1, DecimalLonger
  <2>5. Decimal[x \div 10] = Decimal[m \div 10] /\ x % 10 = m % 10
    <3> DEFINE q == Decimal[x \div 10]
               r == Decimal[m \div 10]
               i == x % 10
               j == m % 10
    <3>1. q \in Seq(0 .. 9) /\ r \in Seq(0 .. 9) /\ i \in 0 .. 9 /\ j \in 0 .. 9
          /\ Append(q, i) = Append(r, j)
      BY <2>3, <2>4
    <3> HIDE DEF q, r, i, j
    <3>2. q = r /\ i = j
      BY <3>1, AppendEqual
    <3> QED BY <3>2 DEF q, r, i, j
  <2>6. x \div 10 = m \div 10
    BY <1>2, <2>2, <2>5
  <2> QED BY <1>2, <1>3, <2>5, <2>6
<1> QED BY <1>2, <1>4, <1>5

LEMMA DecimalTwo ==
    ASSUME NEW n \in Nat, 10 <= n, n <= 99
    PROVE  /\ Decimal[n] \in Seq(0 .. 9) /\ Len(Decimal[n]) = 2
           /\ Decimal[n][1] = n \div 10 /\ Decimal[n][2] = n % 10
<1>1. n \div 10 \in 0 .. 9 /\ n % 10 \in 0 .. 9
  OBVIOUS
<1>2. Decimal[n] = Append(Decimal[n \div 10], n % 10)
  BY DecimalLonger
<1>3. /\ Decimal[n \div 10] \in Seq(0 .. 9) /\ Len(Decimal[n \div 10]) = 1
      /\ Decimal[n \div 10][1] = n \div 10
  BY <1>1, DecimalDigit
<1> QED BY <1>1, <1>2, <1>3

(* A year has four digits.                                                  *)
LEMMA DecimalYear == \A y \in Nat : 1000 <= y /\ y <= 9999 => Len(Decimal[y]) = 4
<1> SUFFICES ASSUME NEW y \in Nat, 1000 <= y, y <= 9999 PROVE Len(Decimal[y]) = 4
  OBVIOUS
<1> DEFINE z == y \div 10
<1>1. y \in Nat /\ y >= 10 /\ z \in Nat /\ z >= 10 /\ z \div 10 \in Nat /\ 10 <= z \div 10 /\ z \div 10 <= 99
  OBVIOUS
<1>2. Decimal[y] = Append(Decimal[z], y % 10)
  BY <1>1, DecimalLonger
<1> HIDE DEF z
<1>3. Len(Decimal[z \div 10]) = 2 /\ Decimal[z \div 10] \in Seq(0 .. 9)
  BY <1>1, DecimalTwo
<1>4. z \in Nat /\ z >= 10
  BY <1>1
<1>5. Decimal[z] = Append(Decimal[z \div 10], z % 10) /\ Decimal[z] \in Seq(0 .. 9)
  BY <1>4, DecimalLonger, DecimalType
<1>6. Len(Decimal[z]) = 3
  BY <1>3, <1>5
<1> QED BY <1>2, <1>5, <1>6

-----------------------------------------------------------------------------
(* The parts of a name.                                                     *)

FourDigits(y) == 1000 <= y /\ y <= 9999

LEMMA FourDigitYear == \A y \in Nat : FourDigits(y) => Len(Decimal[y]) = 4
BY DecimalYear DEF FourDigits

LEMMA SamePrefix ==
    \A a, b, c, d \in Seq(Int) : Len(a) = Len(b) /\ a \o c = b \o d => a = b /\ c = d
<1> SUFFICES ASSUME NEW a \in Seq(Int), NEW b \in Seq(Int), NEW c \in Seq(Int), NEW d \in Seq(Int),
                    Len(a) = Len(b), a \o c = b \o d
             PROVE  a = b /\ c = d
  OBVIOUS
<1>1. Len(c) = Len(d)
  OBVIOUS
<1>2. \A i \in 1 .. Len(a) + Len(c) :
         /\ (a \o c)[i] = IF i <= Len(a) THEN a[i] ELSE c[i - Len(a)]
         /\ (a \o c)[i] = IF i <= Len(a) THEN b[i] ELSE d[i - Len(a)]
  BY <1>1, ConcatProperties
<1>3. ASSUME NEW i \in 1 .. Len(a) PROVE a[i] = b[i]
  BY <1>2
<1>4. ASSUME NEW i \in 1 .. Len(c) PROVE c[i] = d[i]
  <2> DEFINE k == Len(a) + i
  <2>1. Len(a) \in Nat /\ i \in Nat
    OBVIOUS
  <2>2. k \in 1 .. Len(a) + Len(c) /\ ~(k <= Len(a)) /\ k - Len(a) = i
    BY <2>1
  <2> HIDE DEF k
  <2> QED BY <1>2, <2>2
<1> QED BY <1>1, <1>3, <1>4, SeqEqual

Joined(a, c) == a \o <<10>> \o c

LEMMA SeparatorPlace ==
    ASSUME NEW a \in Seq(Int), NEW c \in Seq(Int)
    PROVE  /\ Len(a) \in Nat /\ Len(c) \in Nat /\ Len(Joined(a, c)) = Len(a) + 1 + Len(c)
           /\ \A i \in 1 .. Len(a) : Joined(a, c)[i] = a[i]
           /\ Joined(a, c)[Len(a) + 1] = 10
           /\ \A i \in 1 .. Len(c) : Joined(a, c)[Len(a) + 1 + i] = c[i]
BY DEF Joined

(* The separator is no digit, so that it divides a name.                    *)
LEMMA SameParts ==
    ASSUME NEW a \in Seq(Int), NEW b \in Seq(Int), NEW c \in Seq(Int), NEW d \in Seq(Int),
           \A i \in 1 .. Len(a) : a[i] # 10, \A i \in 1 .. Len(b) : b[i] # 10,
           Joined(a, c) = Joined(b, d)
    PROVE  a = b /\ c = d
<1> DEFINE l == Joined(a, c)
<1>1. /\ Len(a) \in Nat /\ Len(c) \in Nat /\ Len(l) = Len(a) + 1 + Len(c)
      /\ \A i \in 1 .. Len(a) : l[i] = a[i]
      /\ l[Len(a) + 1] = 10
      /\ \A i \in 1 .. Len(c) : l[Len(a) + 1 + i] = c[i]
  BY SeparatorPlace
<1>2. /\ Len(b) \in Nat /\ Len(d) \in Nat /\ Len(l) = Len(b) + 1 + Len(d)
      /\ \A i \in 1 .. Len(b) : l[i] = b[i]
      /\ l[Len(b) + 1] = 10
      /\ \A i \in 1 .. Len(d) : l[Len(b) + 1 + i] = d[i]
  <2> DEFINE r == Joined(b, d)
  <2>1. /\ Len(b) \in Nat /\ Len(d) \in Nat /\ Len(r) = Len(b) + 1 + Len(d)
        /\ \A i \in 1 .. Len(b) : r[i] = b[i]
        /\ r[Len(b) + 1] = 10
        /\ \A i \in 1 .. Len(d) : r[Len(b) + 1 + i] = d[i]
    BY SeparatorPlace
  <2>2. l = r
    OBVIOUS
  <2> HIDE DEF l, r
  <2> QED BY <2>1, <2>2
<1>3. Len(a) = Len(b)
  <2>1. CASE Len(a) < Len(b)
    <3>1. Len(a) + 1 \in 1 .. Len(b)
      BY <1>1, <1>2, <2>1
    <3> QED BY <1>1, <1>2, <3>1
  <2>2. CASE Len(b) < Len(a)
    <3>1. Len(b) + 1 \in 1 .. Len(a)
      BY <1>1, <1>2, <2>2
    <3> QED BY <1>1, <1>2, <3>1
  <2> QED BY <1>1, <1>2, <2>1, <2>2
<1>4. Len(c) = Len(d)
  BY <1>1, <1>2, <1>3
<1>5. \A i \in 1 .. Len(a) : a[i] = b[i]
  BY <1>1, <1>2, <1>3
<1>6. \A i \in 1 .. Len(c) : c[i] = d[i]
  BY <1>1, <1>2, <1>3, <1>4
<1> QED BY <1>3, <1>4, <1>5, <1>6, SeqEqual

LEMMA DigitsOfDate ==
    ASSUME NEW m \in Nat, NEW d \in Nat
    PROVE  Date(m, d) \in Seq(0 .. 9)
<1>1. Decimal[m] \in Seq(0 .. 9) /\ Decimal[d] \in Seq(0 .. 9)
  BY DecimalType
<1> QED BY <1>1 DEF Date

LEMMA DigitsAreNumbers ==
    ASSUME NEW s \in Seq(0 .. 9)
    PROVE  s \in Seq(Int) /\ \A i \in 1 .. Len(s) : s[i] # 10
OBVIOUS

LEMMA YearAndDate ==
    ASSUME NEW y \in Nat, NEW m \in Nat, NEW d \in Nat
    PROVE  /\ Decimal[y] \o Date(m, d) \in Seq(0 .. 9)
           /\ Decimal[y] \in Seq(Int) /\ Date(m, d) \in Seq(Int)
           /\ Decimal[y] \o Date(m, d) \in Seq(Int)
           /\ \A i \in 1 .. Len(Decimal[y] \o Date(m, d)) : (Decimal[y] \o Date(m, d))[i] # 10
<1> DEFINE s == Decimal[y]
           t == Date(m, d)
<1>1. s \in Seq(0 .. 9) /\ t \in Seq(0 .. 9)
  BY DecimalType, DigitsOfDate
<1> HIDE DEF s, t
<1>2. s \o t \in Seq(0 .. 9)
  BY <1>1
<1>3. s \in Seq(Int) /\ t \in Seq(Int) /\ s \o t \in Seq(Int)
      /\ \A i \in 1 .. Len(s \o t) : (s \o t)[i] # 10
  BY <1>1, <1>2, DigitsAreNumbers
<1> QED BY <1>2, <1>3 DEF s, t

Dated(y, m, d) == Decimal[y] \o Date(m, d)

LEMMA NameJoined ==
    \A y, m, d, h : HourDir(y, m, d, h) = Joined(Dated(y, m, d), Decimal[h])
BY DEF HourDir, Joined, Dated, Underscore

LEMMA SameJoined ==
    \A a, b, c, d :
        /\ a \in Seq(Int) /\ \A i \in 1 .. Len(a) : a[i] # 10
        /\ b \in Seq(Int) /\ \A i \in 1 .. Len(b) : b[i] # 10
        /\ c \in Seq(Int) /\ d \in Seq(Int)
        /\ Joined(a, c) = Joined(b, d)
        => a = b /\ c = d
BY SameParts

LEMMA DatedDigits ==
    \A y, m, d \in Nat :
        Dated(y, m, d) \in Seq(Int) /\ \A i \in 1 .. Len(Dated(y, m, d)) : Dated(y, m, d)[i] # 10
<1> TAKE y, m, d \in Nat
<1> QED BY YearAndDate DEF Dated

LEMMA DecimalNumbers == \A n \in Nat : Decimal[n] \in Seq(Int)
<1> TAKE n \in Nat
<1>1. Decimal[n] \in Seq(0 .. 9)
  BY DecimalType
<1> QED BY <1>1, DigitsAreNumbers

LEMMA SameDated ==
    \A y1, m1, d1, y2, m2, d2 \in Nat :
        /\ FourDigits(y1) /\ FourDigits(y2)
        /\ Dated(y1, m1, d1) = Dated(y2, m2, d2)
        => y1 = y2 /\ Date(m1, d1) = Date(m2, d2)
<1> TAKE y1, m1, d1, y2, m2, d2 \in Nat
<1> HAVE /\ FourDigits(y1) /\ FourDigits(y2)
         /\ Dated(y1, m1, d1) = Dated(y2, m2, d2)
<1> DEFINE f == Decimal[y1]
           g == Decimal[y2]
           s == Date(m1, d1)
           t == Date(m2, d2)
<1>1. f \in Seq(Int) /\ s \in Seq(Int)
  BY YearAndDate
<1>2. g \in Seq(Int) /\ t \in Seq(Int)
  BY YearAndDate
<1>3. Len(f) = Len(g)
  <2>1. Len(Decimal[y1]) = 4
    BY FourDigitYear
  <2>2. Len(Decimal[y2]) = 4
    BY FourDigitYear
  <2> QED BY <2>1, <2>2
<1>4. f \o s = g \o t
  BY DEF Dated
<1>5. f = g /\ s = t
  <2> HIDE DEF f, g, s, t
  <2> QED BY <1>1, <1>2, <1>3, <1>4, SamePrefix
<1> QED BY <1>5, DecimalInjective

(* What a name tells of the hour it was made from.                          *)
THEOREM SameName ==
    \A y1, m1, d1, h1, y2, m2, d2, h2 :
        /\ y1 \in Nat /\ m1 \in Nat /\ d1 \in Nat /\ h1 \in Nat /\ FourDigits(y1)
        /\ y2 \in Nat /\ m2 \in Nat /\ d2 \in Nat /\ h2 \in Nat /\ FourDigits(y2)
        /\ HourDir(y1, m1, d1, h1) = HourDir(y2, m2, d2, h2)
        => y1 = y2 /\ Date(m1, d1) = Date(m2, d2) /\ h1 = h2
<1> TAKE y1, m1, d1, h1, y2, m2, d2, h2
<1> HAVE /\ y1 \in Nat /\ m1 \in Nat /\ d1 \in Nat /\ h1 \in Nat /\ FourDigits(y1)
         /\ y2 \in Nat /\ m2 \in Nat /\ d2 \in Nat /\ h2 \in Nat /\ FourDigits(y2)
         /\ HourDir(y1, m1, d1, h1) = HourDir(y2, m2, d2, h2)
<1>1. Dated(y1, m1, d1) \in Seq(Int) /\ \A i \in 1 .. Len(Dated(y1, m1, d1)) : Dated(y1, m1, d1)[i] # 10
  BY DatedDigits, Zenon
<1>2. Dated(y2, m2, d2) \in Seq(Int) /\ \A i \in 1 .. Len(Dated(y2, m2, d2)) : Dated(y2, m2, d2)[i] # 10
  BY DatedDigits, Zenon
<1>3. Decimal[h1] \in Seq(Int) /\ Decimal[h2] \in Seq(Int)
  BY DecimalNumbers, Zenon
<1>4. HourDir(y1, m1, d1, h1) = Joined(Dated(y1, m1, d1), Decimal[h1])
  BY NameJoined, Zenon
<1>5. HourDir(y2, m2, d2, h2) = Joined(Dated(y2, m2, d2), Decimal[h2])
  BY NameJoined, Zenon
<1>6. Joined(Dated(y1, m1, d1), Decimal[h1]) = Joined(Dated(y2, m2, d2), Decimal[h2])
  BY <1>4, <1>5, Zenon
<1>7. Dated(y1, m1, d1) = Dated(y2, m2, d2) /\ Decimal[h1] = Decimal[h2]
  BY ONLY <1>1, <1>2, <1>3, <1>6, SameJoined, Zenon
<1>8. y1 = y2 /\ Date(m1, d1) = Date(m2, d2)
  BY <1>7, SameDated
<1>9. h1 = h2
  BY <1>7, DecimalInjective
<1> QED BY <1>8, <1>9

-----------------------------------------------------------------------------
(* Two dates with the same digits.                                          *)

LEMMA DigitsOfOne ==
    \A n \in Nat : n < 10 => Decimal[n] \in Seq(Int) /\ Len(Decimal[n]) = 1 /\ Decimal[n][1] = n
<1> TAKE n \in Nat
<1> HAVE n < 10
<1>1. n \in 0 .. 9
  OBVIOUS
<1> QED BY <1>1, DecimalDigit, DecimalNumbers

LEMMA DigitsOfTwo ==
    \A n \in Nat : 10 <= n /\ n <= 31 =>
        /\ Decimal[n] \in Seq(Int) /\ Len(Decimal[n]) = 2
        /\ Decimal[n][1] = n \div 10 /\ Decimal[n][2] = n % 10
<1> TAKE n \in Nat
<1> HAVE 10 <= n /\ n <= 31
<1>1. n <= 99
  OBVIOUS
<1>2. Len(Decimal[n]) = 2 /\ Decimal[n][1] = n \div 10 /\ Decimal[n][2] = n % 10
  BY <1>1, DecimalTwo
<1> QED BY <1>2, DecimalNumbers

LEMMA Concatenated ==
    \A a, c \in Seq(Int) :
        /\ Len(a \o c) = Len(a) + Len(c)
        /\ \A i \in 1 .. Len(a) + Len(c) :
              (a \o c)[i] = IF i <= Len(a) THEN a[i] ELSE c[i - Len(a)]
OBVIOUS

LEMMA Shifted ==
    \A a, b, c, d \in Seq(Int) :
        /\ Len(a) = 1 /\ Len(b) = 2 /\ Len(c) \in {1, 2} /\ Len(d) \in {1, 2}
        /\ a \o c = b \o d
        => Len(c) = 2 /\ Len(d) = 1 /\ a[1] = b[1] /\ c[1] = b[2] /\ c[2] = d[1]
<1> TAKE a, b, c, d \in Seq(Int)
<1> HAVE /\ Len(a) = 1 /\ Len(b) = 2 /\ Len(c) \in {1, 2} /\ Len(d) \in {1, 2}
         /\ a \o c = b \o d
<1>1. /\ Len(a \o c) = Len(a) + Len(c)
      /\ \A i \in 1 .. Len(a) + Len(c) : (a \o c)[i] = IF i <= Len(a) THEN a[i] ELSE c[i - Len(a)]
  BY Concatenated
<1>2. /\ Len(b \o d) = Len(b) + Len(d)
      /\ \A i \in 1 .. Len(b) + Len(d) : (b \o d)[i] = IF i <= Len(b) THEN b[i] ELSE d[i - Len(b)]
  BY Concatenated
<1>3. Len(c) = 2 /\ Len(d) = 1
  BY <1>1, <1>2
<1>4. (a \o c)[1] = a[1] /\ (a \o c)[2] = c[1] /\ (a \o c)[3] = c[2]
  BY <1>1, <1>3
<1>5. (b \o d)[1] = b[1] /\ (b \o d)[2] = b[2] /\ (b \o d)[3] = d[1]
  BY <1>2, <1>3
<1> QED BY <1>3, <1>4, <1>5

LEMMA TensAndOnes == \A n \in Nat : \A q, r : q = n \div 10 /\ r = n % 10 => n = 10 * q + r
OBVIOUS

Day(m, d) == m \in Nat /\ d \in Nat /\ 1 <= m /\ m <= 12 /\ 1 <= d /\ d <= 31

(* Of a date of January and one of November or December: 1/1d and 11/d,     *)
(* 1/2d and 12/d.                                                           *)
Mistaken(m1, d1, m2, d2) == m1 = 1 /\ m2 \in {11, 12} /\ d1 = 10 * (m2 - 10) + d2

LEMMA LongerMonth ==
    ASSUME NEW m1 \in Nat, NEW d1 \in Nat, NEW m2 \in Nat, NEW d2 \in Nat,
           Day(m1, d1), Day(m2, d2), m1 < 10, 10 <= m2, Date(m1, d1) = Date(m2, d2)
    PROVE  Mistaken(m1, d1, m2, d2)
<1> DEFINE a == Decimal[m1]
           b == Decimal[m2]
           c == Decimal[d1]
           d == Decimal[d2]
<1>1. a \in Seq(Int) /\ Len(a) = 1 /\ a[1] = m1
  BY DigitsOfOne
<1>2. b \in Seq(Int) /\ Len(b) = 2 /\ b[1] = m2 \div 10 /\ b[2] = m2 % 10
  BY DigitsOfTwo DEF Day
<1>3. c \in Seq(Int) /\ Len(c) \in {1, 2} /\ (Len(c) = 2 => 10 <= d1 /\ c[1] = d1 \div 10 /\ c[2] = d1 % 10)
  <2>1. CASE d1 < 10
    <3>1. Decimal[d1] \in Seq(Int) /\ Len(Decimal[d1]) = 1
      BY <2>1, DigitsOfOne
    <3> QED BY <3>1
  <2>2. CASE 10 <= d1
    <3>1. /\ Decimal[d1] \in Seq(Int) /\ Len(Decimal[d1]) = 2
          /\ Decimal[d1][1] = d1 \div 10 /\ Decimal[d1][2] = d1 % 10
      BY <2>2, DigitsOfTwo DEF Day
    <3> QED BY <2>2, <3>1
  <2> QED BY <2>1, <2>2
<1>4. d \in Seq(Int) /\ Len(d) \in {1, 2} /\ (Len(d) = 1 => d[1] = d2)
  <2>1. CASE d2 < 10
    <3>1. Decimal[d2] \in Seq(Int) /\ Len(Decimal[d2]) = 1 /\ Decimal[d2][1] = d2
      BY <2>1, DigitsOfOne
    <3> QED BY <3>1
  <2>2. CASE 10 <= d2
    <3>1. Decimal[d2] \in Seq(Int) /\ Len(Decimal[d2]) = 2
      BY <2>2, DigitsOfTwo DEF Day
    <3> QED BY <3>1
  <2> QED BY <2>1, <2>2
<1>5. a \o c = b \o d
  BY DEF Date
<1> HIDE DEF a, b, c, d
<1>6. Len(c) = 2 /\ Len(d) = 1 /\ a[1] = b[1] /\ c[1] = b[2] /\ c[2] = d[1]
  BY <1>1, <1>2, <1>3, <1>4, <1>5, Shifted
<1>7. m1 = m2 \div 10 /\ d1 \div 10 = m2 % 10 /\ d1 % 10 = d2
  BY <1>1, <1>2, <1>3, <1>4, <1>6
<1>8. m2 \div 10 = 1 /\ m2 % 10 = m2 - 10
  BY DEF Day
<1>9. 10 <= d1
  BY <1>3, <1>6
<1>10. d1 = 10 * (m2 - 10) + d2
  BY <1>7, <1>8, TensAndOnes
<1>12. m2 # 10
  BY <1>7, <1>8, <1>9 DEF Day
<1> QED BY <1>7, <1>8, <1>10, <1>12 DEF Mistaken, Day

LEMMA SameDigits ==
    ASSUME NEW m1 \in Nat, NEW d1 \in Nat, NEW m2 \in Nat, NEW d2 \in Nat,
           Day(m1, d1), Day(m2, d2), Date(m1, d1) = Date(m2, d2)
    PROVE  \/ m1 = m2 /\ d1 = d2
           \/ Mistaken(m1, d1, m2, d2)
           \/ Mistaken(m2, d2, m1, d1)
<1>1. CASE m1 < 10 /\ 10 <= m2
  BY <1>1, LongerMonth
<1>2. CASE m2 < 10 /\ 10 <= m1
  BY <1>2, LongerMonth
<1>3. CASE (m1 < 10 /\ m2 < 10) \/ (10 <= m1 /\ 10 <= m2)
  <2> DEFINE a == Decimal[m1]
             b == Decimal[m2]
             c == Decimal[d1]
             d == Decimal[d2]
  <2>1. a \in Seq(Int) /\ b \in Seq(Int) /\ c \in Seq(Int) /\ d \in Seq(Int)
    BY DecimalNumbers
  <2>2. Len(Decimal[m1]) = Len(Decimal[m2])
    <3>1. CASE m1 < 10 /\ m2 < 10
      <4>1. Len(Decimal[m1]) = 1 /\ Len(Decimal[m2]) = 1
        BY <3>1, DigitsOfOne
      <4> QED BY <4>1
    <3>2. CASE 10 <= m1 /\ 10 <= m2
      <4>1. Len(Decimal[m1]) = 2
        BY <3>2, DigitsOfTwo DEF Day
      <4>2. Len(Decimal[m2]) = 2
        BY <3>2, DigitsOfTwo DEF Day
      <4> QED BY <4>1, <4>2
    <3> QED BY <1>3, <3>1, <3>2
  <2>3. a \o c = b \o d
    BY DEF Date
  <2> HIDE DEF a, b, c, d
  <2>4. Len(a) = Len(b)
    BY <2>2 DEF a, b
  <2>5. a = b /\ c = d
    BY <2>1, <2>3, <2>4, SamePrefix
  <2>6. m1 = m2
    BY <2>5, DecimalInjective DEF a, b
  <2>7. d1 = d2
    BY <2>5, DecimalInjective DEF c, d
  <2> QED BY <2>6, <2>7
<1> QED BY <1>1, <1>2, <1>3

-----------------------------------------------------------------------------
(* The days of a year.                                                      *)

Before(y, m) == {md \in Dates(y) : md[1] < m}

LEMMA MonthLength ==
    \A y : /\ DaysOf(y, 1) = 31 /\ DaysOf(y, 2) \in {28, 29} /\ DaysOf(y, 3) = 31 /\ DaysOf(y, 4) = 30
           /\ DaysOf(y, 5) = 31 /\ DaysOf(y, 6) = 30 /\ DaysOf(y, 7) = 31 /\ DaysOf(y, 8) = 31
           /\ DaysOf(y, 9) = 30 /\ DaysOf(y, 10) = 31 /\ DaysOf(y, 11) = 30 /\ DaysOf(y, 12) = 31
BY DEF DaysOf

LEMMA MonthType == \A y, m : DaysOf(y, m) \in Nat /\ DaysOf(y, m) <= 31
BY DEF DaysOf

LEMMA OneMonth ==
    ASSUME NEW y, NEW m \in Nat
    PROVE  /\ IsFiniteSet({m} \X (1 .. DaysOf(y, m)))
           /\ Cardinality({m} \X (1 .. DaysOf(y, m))) = DaysOf(y, m)
<1> DEFINE n == DaysOf(y, m)
<1>1. n \in Nat
  BY MonthType
<1> HIDE DEF n
<1>2. IsFiniteSet(1 .. n) /\ Cardinality(1 .. n) = n
  BY <1>1, FS_Interval
<1>3. IsFiniteSet({m}) /\ Cardinality({m}) = 1
  BY FS_Singleton
<1>4. IsFiniteSet({m} \X (1 .. n)) /\ Cardinality({m} \X (1 .. n)) = Cardinality({m}) * Cardinality(1 .. n)
  BY <1>2, <1>3, FS_Product
<1>5. Cardinality({m} \X (1 .. n)) = n
  BY <1>1, <1>2, <1>3, <1>4
<1> QED BY <1>4, <1>5 DEF n

LEMMA MonthAfterMonth ==
    \A y : \A m \in Nat :
        /\ 1 <= m /\ m <= 12
        /\ IsFiniteSet(Before(y, m))
        => /\ IsFiniteSet(Before(y, m + 1))
           /\ Cardinality(Before(y, m + 1)) = Cardinality(Before(y, m)) + DaysOf(y, m)
<1> TAKE y
<1> TAKE m \in Nat
<1> HAVE 1 <= m /\ m <= 12 /\ IsFiniteSet(Before(y, m))
<1> DEFINE M == {m} \X (1 .. DaysOf(y, m))
<1>1. IsFiniteSet(M) /\ Cardinality(M) = DaysOf(y, m)
  BY OneMonth
<1>2. Before(y, m + 1) = Before(y, m) \cup M
  <2>1. ASSUME NEW md \in Before(y, m + 1) PROVE md \in Before(y, m) \cup M
    BY DEF Before, Dates
  <2>2. ASSUME NEW md \in M PROVE md \in Before(y, m + 1)
    <3>1. DaysOf(y, m) \in Nat /\ DaysOf(y, m) <= 31
      BY MonthType
    <3>2. md[1] = m /\ md[2] \in 1 .. DaysOf(y, m) /\ md = <<md[1], md[2]>>
      OBVIOUS
    <3> QED BY <3>1, <3>2 DEF Before, Dates
  <2>3. ASSUME NEW md \in Before(y, m) PROVE md \in Before(y, m + 1)
    BY DEF Before, Dates
  <2> QED BY <2>1, <2>2, <2>3
<1>3. Before(y, m) \cap M = {}
  BY DEF Before
<1> HIDE DEF M
<1>4. /\ IsFiniteSet(Before(y, m) \cup M)
      /\ Cardinality(Before(y, m) \cup M)
           = Cardinality(Before(y, m)) + Cardinality(M) - Cardinality(Before(y, m) \cap M)
  BY <1>1, FS_Union
<1>5. Cardinality(Before(y, m) \cap M) = 0
  BY <1>3, FS_EmptySet
<1>6. Cardinality(Before(y, m)) \in Nat /\ Cardinality(M) \in Nat
  BY <1>1, FS_CardinalityType
<1>7. Cardinality(Before(y, m + 1)) = Cardinality(Before(y, m)) + Cardinality(M) - 0
  BY <1>2, <1>4, <1>5, Zenon
<1>8. Cardinality(Before(y, m + 1)) = Cardinality(Before(y, m)) + DaysOf(y, m)
  BY <1>1, <1>6, <1>7
<1>9. IsFiniteSet(Before(y, m + 1))
  BY <1>2, <1>4, Zenon
<1> QED BY <1>8, <1>9

(* The days before January, November and December.                          *)
LEMMA DaysBefore ==
    ASSUME NEW y
    PROVE  /\ Cardinality(Before(y, 1)) = 0
           /\ Cardinality(Before(y, 11)) \in {304, 305}
           /\ Cardinality(Before(y, 12)) \in {334, 335}
<1> DEFINE Days(m, S) == IsFiniteSet(Before(y, m)) /\ Cardinality(Before(y, m)) \in S
<1>1. Days(1, {0})
  <2>1. Before(y, 1) = {}
    BY DEF Before, Dates
  <2> QED BY <2>1, FS_EmptySet
<1>2. Days(2, {31})
  BY <1>1, MonthAfterMonth, MonthLength
<1>3. Days(3, {59, 60})
  BY <1>2, MonthAfterMonth, MonthLength
<1>4. Days(4, {90, 91})
  BY <1>3, MonthAfterMonth, MonthLength
<1>5. Days(5, {120, 121})
  BY <1>4, MonthAfterMonth, MonthLength
<1>6. Days(6, {151, 152})
  BY <1>5, MonthAfterMonth, MonthLength
<1>7. Days(7, {181, 182})
  BY <1>6, MonthAfterMonth, MonthLength
<1>8. Days(8, {212, 213})
  BY <1>7, MonthAfterMonth, MonthLength
<1>9. Days(9, {243, 244})
  BY <1>8, MonthAfterMonth, MonthLength
<1>10. Days(10, {273, 274})
  BY <1>9, MonthAfterMonth, MonthLength
<1>11. Days(11, {304, 305})
  BY <1>10, MonthAfterMonth, MonthLength
<1>12. Days(12, {334, 335})
  BY <1>11, MonthAfterMonth, MonthLength
<1> QED BY <1>1, <1>11, <1>12

LEMMA DayNumberType ==
    \A y : \A m, d \in Nat : DayNumber(y, m, d) \in Nat
<1> TAKE y
<1>1. IsFiniteSet(Dates(y))
  <2>1. \A n \in Nat : IsFiniteSet(1 .. n)
    BY FS_Interval
  <2>2. \A n, k \in Nat : IsFiniteSet((1 .. n) \X (1 .. k))
    BY <2>1, FS_Product
  <2>3. IsFiniteSet((1 .. 12) \X (1 .. 31))
    BY <2>2
  <2>4. Dates(y) \subseteq (1 .. 12) \X (1 .. 31)
    BY DEF Dates
  <2> QED BY <2>3, <2>4, FS_Subset
<1>2. \A m : Cardinality({md \in Dates(y) : md[1] < m}) \in Nat
  <2> TAKE m
  <2>1. {md \in Dates(y) : md[1] < m} \subseteq Dates(y)
    OBVIOUS
  <2>2. IsFiniteSet({md \in Dates(y) : md[1] < m})
    BY <1>1, <2>1, FS_Subset
  <2> QED BY <2>2, FS_CardinalityType
<1> TAKE m, d \in Nat
<1>3. DayNumber(y, m, d) = d + Cardinality({md \in Dates(y) : md[1] < m})
  BY DEF DayNumber
<1> QED BY <1>2, <1>3

(* Two dates of a year with the same digits are at least 294 days apart.    *)
THEOREM DatesFarApart ==
    ASSUME NEW y, NEW m1 \in Nat, NEW d1 \in Nat, NEW m2 \in Nat, NEW d2 \in Nat,
           Day(m1, d1), Day(m2, d2), Date(m1, d1) = Date(m2, d2)
    PROVE  \/ m1 = m2 /\ d1 = d2
           \/ DayNumber(y, m1, d1) >= DayNumber(y, m2, d2) + 294
           \/ DayNumber(y, m2, d2) >= DayNumber(y, m1, d1) + 294
<1>1. \A i, j, k, l \in Nat : Mistaken(i, j, k, l) => DayNumber(y, k, l) >= DayNumber(y, i, j) + 294
  <2> TAKE i, j, k, l \in Nat
  <2> HAVE Mistaken(i, j, k, l)
  <2> DEFINE a == Cardinality(Before(y, 1))
             b == Cardinality(Before(y, 11))
             c == Cardinality(Before(y, 12))
  <2>1. DayNumber(y, i, j) = j + a
    BY DEF Mistaken, DayNumber, Before
  <2>2. a = 0 /\ b \in {304, 305} /\ c \in {334, 335}
    BY DaysBefore
  <2>3. CASE k = 11
    <3>1. DayNumber(y, k, l) = l + b /\ j = 10 + l
      BY <2>3 DEF Mistaken, DayNumber, Before
    <3> HIDE DEF a, b, c
    <3> QED BY <2>1, <2>2, <3>1
  <2>4. CASE k = 12
    <3>1. DayNumber(y, k, l) = l + c /\ j = 20 + l
      BY <2>4 DEF Mistaken, DayNumber, Before
    <3> HIDE DEF a, b, c
    <3> QED BY <2>1, <2>2, <3>1
  <2> QED BY <2>3, <2>4 DEF Mistaken
<1> QED BY <1>1, SameDigits

-----------------------------------------------------------------------------
(* The ten bytes deleteold cuts out of a listing.                           *)

LEMMA LastDropped ==
    \A s \in Seq(Int) : \A x \in Int :
        /\ Len(Append(s, x)) = Len(s) + 1
        /\ SubSeq(Append(s, x), 1, Len(s)) = s
OBVIOUS

LEMMA AppendedName ==
    \A a \in Seq(Int) : \A c \in Seq(Int) : \A x \in Int :
        Joined(a, Append(c, x)) = Append(Joined(a, c), x)
<1> TAKE a \in Seq(Int)
<1> TAKE c \in Seq(Int)
<1> TAKE x \in Int
<1>1. Append(c, x) = c \o <<x>>
  BY AppendIsConcat
<1>2. Joined(a, c) \in Seq(Int)
  BY DEF Joined
<1>3. Append(Joined(a, c), x) = Joined(a, c) \o <<x>>
  BY <1>2, AppendIsConcat
<1>4. (a \o <<10>>) \in Seq(Int) /\ <<x>> \in Seq(Int)
  OBVIOUS
<1> DEFINE b == a \o <<10>>
           e == <<x>>
<1>5. b \in Seq(Int) /\ e \in Seq(Int)
  BY <1>4
<1> HIDE DEF b, e
<1>6. (b \o c) \o e = b \o (c \o e)
  BY <1>5, ConcatAssociative
<1> QED BY <1>1, <1>3, <1>6 DEF b, e, Joined

LEMMA LengthOfPart ==
    \A n \in Nat : n <= 31 => Len(Decimal[n]) = IF n < 10 THEN 1 ELSE 2
<1> TAKE n \in Nat
<1> HAVE n <= 31
<1>1. CASE n < 10
  <2>1. Len(Decimal[n]) = 1
    BY <1>1, DigitsOfOne
  <2> QED BY <1>1, <2>1
<1>2. CASE 10 <= n
  <2>1. Len(Decimal[n]) = 2
    BY <1>2, DigitsOfTwo
  <2> QED BY <1>2, <2>1
<1> QED BY <1>1, <1>2

LEMMA JoinedLength ==
    \A a, c \in Seq(Int) : Len(Joined(a, c)) = Len(a) + 1 + Len(c) /\ Joined(a, c) \in Seq(Int)
BY DEF Joined

LEMMA LengthOfName ==
    ASSUME NEW y \in Nat, FourDigits(y), NEW m \in Nat, m <= 12, NEW d \in Nat, d <= 31,
           NEW h \in Nat, h <= 23
    PROVE  /\ HourDir(y, m, d, h) \in Seq(Int)
           /\ Len(HourDir(y, m, d, h))
                = 5 + (IF m < 10 THEN 1 ELSE 2) + (IF d < 10 THEN 1 ELSE 2) + (IF h < 10 THEN 1 ELSE 2)
<1>1. /\ Decimal[y] \in Seq(Int) /\ Decimal[m] \in Seq(Int) /\ Decimal[d] \in Seq(Int)
      /\ Decimal[h] \in Seq(Int) /\ Dated(y, m, d) \in Seq(Int) /\ Date(m, d) \in Seq(Int)
  BY DecimalNumbers, DatedDigits, YearAndDate
<1>2. Len(Date(m, d)) = Len(Decimal[m]) + Len(Decimal[d])
  BY <1>1, Concatenated DEF Date
<1>3. Len(Dated(y, m, d)) = Len(Decimal[y]) + Len(Date(m, d))
  BY <1>1, Concatenated DEF Dated
<1>4. HourDir(y, m, d, h) = Joined(Dated(y, m, d), Decimal[h])
  BY NameJoined
<1>5. Len(HourDir(y, m, d, h)) = Len(Dated(y, m, d)) + 1 + Len(Decimal[h]) /\ HourDir(y, m, d, h) \in Seq(Int)
  BY <1>1, <1>4, JoinedLength
<1>6. Len(Decimal[y]) = 4
  BY FourDigitYear
<1>7. Len(Decimal[m]) = IF m < 10 THEN 1 ELSE 2
  BY LengthOfPart
<1>8. Len(Decimal[d]) = IF d < 10 THEN 1 ELSE 2
  BY LengthOfPart
<1>9. Len(Decimal[h]) = IF h < 10 THEN 1 ELSE 2
  BY LengthOfPart
<1> QED BY <1>2, <1>3, <1>5, <1>6, <1>7, <1>8, <1>9

(* What the cut makes of a name: an earlier hour's when month, day and hour *)
(* have two digits each, else the name itself.                              *)
THEOREM CutOfName ==
    ASSUME NEW y \in Nat, FourDigits(y), NEW m \in Nat, m <= 12, NEW d \in Nat, d <= 31,
           NEW h \in Nat, h <= 23
    PROVE  CutOut(HourDir(y, m, d, h)) =
               IF m >= 10 /\ d >= 10 /\ h >= 10
               THEN HourDir(y, m, d, h \div 10)
               ELSE HourDir(y, m, d, h)
<1> DEFINE name == HourDir(y, m, d, h)
           short == HourDir(y, m, d, h \div 10)
<1>1. name \in Seq(Int)
      /\ Len(name) = 5 + (IF m < 10 THEN 1 ELSE 2) + (IF d < 10 THEN 1 ELSE 2) + (IF h < 10 THEN 1 ELSE 2)
  BY LengthOfName
<1>2. CASE m >= 10 /\ d >= 10 /\ h >= 10
  <2>1. h \div 10 \in Nat /\ h \div 10 < 10 /\ h % 10 \in Int
    OBVIOUS
  <2>2. short \in Seq(Int) /\ Len(short) = 10
    <3>1. h \div 10 <= 23
      BY <2>1
    <3>2. short \in Seq(Int)
          /\ Len(short) = 5 + (IF m < 10 THEN 1 ELSE 2) + (IF d < 10 THEN 1 ELSE 2)
                            + (IF h \div 10 < 10 THEN 1 ELSE 2)
      BY <2>1, <3>1, LengthOfName
    <3>3. (IF m < 10 THEN 1 ELSE 2) = 2 /\ (IF d < 10 THEN 1 ELSE 2) = 2
      BY <1>2
    <3>4. (IF h \div 10 < 10 THEN 1 ELSE 2) = 1
      BY <2>1
    <3> HIDE DEF short
    <3>5. short \in Seq(Int) /\ Len(short) = 5 + 2 + 2 + 1
      BY <3>2, <3>3, <3>4, Zenon
    <3>6. 5 + 2 + 2 + 1 = 10
      OBVIOUS
    <3> QED BY ONLY <3>5, <3>6
  <2>3. name = Append(short, h % 10)
    <3>1. Decimal[h] = Append(Decimal[h \div 10], h % 10)
      BY <1>2, DecimalLonger
    <3>2. Dated(y, m, d) \in Seq(Int) /\ Decimal[h \div 10] \in Seq(Int)
      BY <2>1, DatedDigits, DecimalNumbers
    <3>3. Joined(Dated(y, m, d), Append(Decimal[h \div 10], h % 10))
             = Append(Joined(Dated(y, m, d), Decimal[h \div 10]), h % 10)
      BY <2>1, <3>2, AppendedName
    <3> QED BY <3>1, <3>3, NameJoined
  <2> HIDE DEF name, short
  <2>4. CutOut(name) = SubSeq(name, 1, 10)
    BY <1>1, <1>2 DEF CutOut, SliceLength
  <2>5. SubSeq(name, 1, 10) = short
    BY <2>1, <2>2, <2>3, LastDropped
  <2> QED BY <1>2, <2>4, <2>5 DEF name, short
<1>3. CASE ~(m >= 10 /\ d >= 10 /\ h >= 10)
  <2>1. Len(name) <= 10
    BY <1>1, <1>3
  <2> HIDE DEF name
  <2>2. CutOut(name) = name
    BY <2>1 DEF CutOut, SliceLength
  <2> QED BY <1>3, <2>2 DEF name
<1> QED BY <1>2, <1>3

=============================================================================
