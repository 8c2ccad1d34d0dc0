------------------------------ MODULE CurveProofs ------------------------------
(***************************************************************************)
(* Proofs about the fan curves: what Interpolate returns is the polyline,  *)
(* within the curve, and rises with the temperature, for every curve that  *)
(* Config.Validate accepts and every temperature.                          *)
(***************************************************************************)
EXTENDS MCFanCurve, WellFoundedInduction, TLAPS

Point == [tempC : Int, fanPct : Int]
IsCurve(c) == c \in Seq(Point) /\ ValidCurve(c)

-----------------------------------------------------------------------------
(* Indices.  Neighbours in order are enough for all to be: of two out of   *)
(* order take the nearest, and the first with the second's predecessor is  *)
(* nearer.                                                                 *)

LEMMA LeastNumber ==
    ASSUME NEW T, T \subseteq Nat, T # {}
    PROVE  \E x \in T : \A y \in T : x <= y
  <1> DEFINE R == OpToRel(<, Nat)
  <1>1. IsWellFoundedOn(R, Nat)
    BY NatLessThanWellFounded
  <1>2. \A x, y \in Nat : y < x => <<y, x>> \in R
    BY DEF OpToRel
  <1> HIDE DEF R
  <1>3. PICK x \in T : \A y \in T : ~(<<y, x>> \in R)
    BY <1>1, WFMin
  <1>4. ASSUME NEW y \in T PROVE x <= y
    <2>1. x \in Nat /\ y \in Nat /\ ~(y < x)
      BY <1>2, <1>3
    <2> QED
      BY <2>1
  <1> QED
    BY <1>4

LEMMA GreatestIndex ==
    ASSUME NEW n \in Nat, NEW I \in SUBSET (1 .. n), I # {}
    PROVE  \E x \in I : \A y \in I : y <= x
  <1> DEFINE T == {n - i : i \in I}
  <1>1. T \subseteq Nat /\ T # {}
    <2>1. \A i \in I : n - i \in Nat
      OBVIOUS
    <2> QED
      BY <2>1
  <1>2. PICK d \in T : \A e \in T : d <= e
    BY <1>1, LeastNumber
  <1>3. PICK x \in I : d = n - x
    OBVIOUS
  <1>4. ASSUME NEW y \in I PROVE y <= x
    <2>1. n - y \in T
      OBVIOUS
    <2>2. n - x <= n - y
      BY <1>2, <1>3, <2>1
    <2> QED
      BY <2>2
  <1> QED
    BY <1>4

LEMMA NeighboursInOrder ==
    ASSUME NEW n \in Nat, NEW f, \A i \in 1 .. n : f[i] \in Int,
           \A i \in 1 .. n - 1 : f[i] <= f[i+1]
    PROVE  \A i, j \in 1 .. n : i <= j => f[i] <= f[j]
  <1> DEFINE Wrong == {d \in Nat : \E i, j \in 1 .. n : j = i + d /\ f[j] < f[i]}
  <1>1. ASSUME Wrong # {} PROVE FALSE
    <2>1. PICK d \in Wrong : \A e \in Wrong : d <= e
      BY <1>1, LeastNumber
    <2>2. PICK i \in 1 .. n, j \in 1 .. n : j = i + d /\ f[j] < f[i]
      OBVIOUS
    <2>3. d # 0
      BY <2>2
    <2>4. j - 1 \in 1 .. n /\ j - 1 = i + (d - 1) /\ d - 1 \in Nat
      BY <2>2, <2>3
    <2>5. ~(f[j-1] < f[i])
      <3>1. CASE d - 1 \in Wrong
        <4>1. d <= d - 1
          BY <2>1, <3>1
        <4> QED
          BY <4>1
      <3>2. CASE d - 1 \notin Wrong
        BY <2>4, <3>2
      <3> QED
        BY <3>1, <3>2
    <2>6. f[j-1] <= f[j]
      <3>1. j - 1 \in 1 .. n - 1 /\ (j - 1) + 1 = j
        BY <2>4
      <3>2. f[j-1] <= f[(j-1)+1]
        BY <3>1
      <3> QED
        BY <3>1, <3>2
    <2> QED
      BY <2>2, <2>4, <2>5, <2>6
  <1> SUFFICES ASSUME NEW i \in 1 .. n, NEW j \in 1 .. n, i <= j, ~(f[i] <= f[j])
               PROVE  FALSE
    OBVIOUS
  <1>2. j - i \in Nat /\ j = i + (j - i) /\ f[j] < f[i]
    OBVIOUS
  <1>3. j - i \in Wrong
    BY <1>2
  <1> QED
    BY <1>1, <1>3

LEMMA CurveFields ==
    ASSUME NEW c, IsCurve(c)
    PROVE  /\ Len(c) \in Nat \ {0} /\ DOMAIN c = 1 .. Len(c)
           /\ \A i \in 1 .. Len(c) : c[i].tempC \in Int /\ c[i].fanPct \in Int
  <1>1. c \in Seq(Point) /\ Len(c) >= 1
    BY DEF IsCurve, ValidCurve
  <1>2. Len(c) \in Nat \ {0} /\ DOMAIN c = 1 .. Len(c) /\ \A i \in 1 .. Len(c) : c[i] \in Point
    BY <1>1
  <1>3. \A p \in Point : p.tempC \in Int /\ p.fanPct \in Int
    BY DEF Point
  <1> QED
    BY <1>2, <1>3

LEMMA TemperaturesAscend ==
    ASSUME NEW c, IsCurve(c)
    PROVE  \A i, j \in 1 .. Len(c) : i <= j => c[i].tempC <= c[j].tempC
  <1> DEFINE f == [i \in 1 .. Len(c) |-> c[i].tempC]
  <1>1. /\ \A i \in 1 .. Len(c) : f[i] \in Int
        /\ \A i \in 1 .. Len(c) - 1 : f[i] <= f[i+1]
    BY CurveFields DEF IsCurve, ValidCurve
  <1>2. \A i, j \in 1 .. Len(c) : i <= j => f[i] <= f[j]
    <2> HIDE DEF f
    <2> QED
      BY <1>1, CurveFields, NeighboursInOrder
  <1> QED
    BY <1>2

LEMMA PercentsAscend ==
    ASSUME NEW c, IsCurve(c), \A i \in 1 .. Len(c) - 1 : c[i].fanPct <= c[i+1].fanPct
    PROVE  \A i, j \in 1 .. Len(c) : i <= j => c[i].fanPct <= c[j].fanPct
  <1> DEFINE f == [i \in 1 .. Len(c) |-> c[i].fanPct]
  <1>1. /\ \A i \in 1 .. Len(c) : f[i] \in Int
        /\ \A i \in 1 .. Len(c) - 1 : f[i] <= f[i+1]
    BY CurveFields
  <1>2. \A i, j \in 1 .. Len(c) : i <= j => f[i] <= f[j]
    <2> HIDE DEF f
    <2> QED
      BY <1>1, CurveFields, NeighboursInOrder
  <1> QED
    BY <1>2

(* In a curve the coolest point is the first, and the hottest the first    *)
(* of the last temperature.                                                *)
LEMMA CoolestIsFirst ==
    ASSUME NEW c, IsCurve(c), NEW I \in SUBSET (1 .. Len(c)), I # {}
    PROVE  Coolest(c, I) \in I /\ \A j \in I : Coolest(c, I) <= j
  <1> DEFINE Cool(i) == \A j \in I : \/ c[i].tempC < c[j].tempC
                                     \/ c[i].tempC = c[j].tempC /\ i <= j
  <1>1. PICK m \in I : \A j \in I : m <= j
    <2>1. I \subseteq Nat
      BY CurveFields
    <2> QED
      BY <2>1, LeastNumber
  <1>2. Cool(m)
    BY <1>1, CurveFields, TemperaturesAscend
  <1>3. Coolest(c, I) \in I /\ Cool(Coolest(c, I))
    BY <1>2 DEF Coolest
  <1>4. ASSUME NEW x \in I, Cool(x) PROVE x = m
    <2>1. m <= x /\ c[m].tempC <= c[x].tempC
      BY <1>1, CurveFields, TemperaturesAscend
    <2>2. \/ c[x].tempC < c[m].tempC
          \/ c[x].tempC = c[m].tempC /\ x <= m
      BY <1>4
    <2> QED
      BY <2>1, <2>2, CurveFields
  <1> HIDE DEF Cool
  <1> QED
    BY <1>1, <1>3, <1>4

LEMMA HottestIsFirstOfLast ==
    ASSUME NEW c, IsCurve(c), NEW I \in SUBSET (1 .. Len(c)), I # {}
    PROVE  /\ Hottest(c, I) \in I
           /\ \A j \in I : /\ c[j].tempC <= c[Hottest(c, I)].tempC
                           /\ c[j].tempC = c[Hottest(c, I)].tempC => Hottest(c, I) <= j
  <1> DEFINE Hot(i) == \A j \in I : \/ c[i].tempC > c[j].tempC
                                    \/ c[i].tempC = c[j].tempC /\ i <= j
  <1>1. PICK g \in I : \A j \in I : j <= g
    BY CurveFields, GreatestIndex
  <1>2. \A j \in I : c[j].tempC <= c[g].tempC
    BY <1>1, CurveFields, TemperaturesAscend
  <1> DEFINE E == {i \in I : c[i].tempC = c[g].tempC}
  <1>3. PICK m \in E : \A j \in E : m <= j
    <2>1. g \in E /\ E \subseteq I /\ I \subseteq Nat
      BY CurveFields
    <2> HIDE DEF E
    <2> QED
      BY <2>1, LeastNumber
  <1>4. m \in I /\ Hot(m)
    BY <1>2, <1>3, CurveFields
  <1>5. Hottest(c, I) \in I /\ Hot(Hottest(c, I))
    BY <1>4 DEF Hottest
  <1>6. ASSUME NEW x \in I, Hot(x), NEW j \in I
        PROVE  c[j].tempC <= c[x].tempC /\ (c[j].tempC = c[x].tempC => x <= j)
    <2>1. c[j].tempC \in Int /\ c[x].tempC \in Int
      BY CurveFields
    <2>2. \/ c[x].tempC > c[j].tempC
          \/ c[x].tempC = c[j].tempC /\ x <= j
      BY <1>6
    <2> QED
      BY <2>1, <2>2
  <1> HIDE DEF Hot
  <1> QED
    BY <1>5, <1>6

-----------------------------------------------------------------------------
(* A segment *)

LEMMA Division ==
    ASSUME NEW a \in Int, NEW b \in Int, b > 0
    PROVE  a \div b \in Int /\ (a \div b) * b <= a /\ a < (a \div b + 1) * b
  OBVIOUS

LEMMA Scaled ==
    ASSUME NEW x \in Int, NEW y \in Int, NEW b \in Int, b >= 0, x <= y
    PROVE  x * b <= y * b
  OBVIOUS

LEMMA Unscaled ==
    ASSUME NEW x \in Int, NEW y \in Int, NEW b \in Int, b > 0, x * b < (y + 1) * b
    PROVE  x <= y
  <1> SUFFICES ASSUME y + 1 <= x PROVE FALSE
    OBVIOUS
  <1>1. (y + 1) * b <= x * b
    BY Scaled
  <1>2. (y + 1) * b \in Int /\ x * b \in Int
    OBVIOUS
  <1> QED
    BY <1>1, <1>2

LEMMA QuotientsAscend ==
    ASSUME NEW a \in Int, NEW d \in Int, NEW b \in Int, b > 0, a <= d
    PROVE  a \div b <= d \div b
  <1>1. /\ a \div b \in Int /\ (a \div b) * b <= a
        /\ d \div b \in Int /\ d < (d \div b + 1) * b
    BY Division
  <1>2. (a \div b) * b \in Int /\ (d \div b + 1) * b \in Int
    BY <1>1
  <1>3. (a \div b) * b < (d \div b + 1) * b
    BY <1>1, <1>2
  <1> QED
    BY <1>1, <1>3, Unscaled

(* The product of a distance and a rise, over the run, is a part of the    *)
(* rise.                                                                   *)
LEMMA PartOfTheRise ==
    ASSUME NEW x \in Int, NEW run \in Int, NEW rise \in Int, 0 <= x, x <= run, 0 < run
    PROVE  /\ rise >= 0 => (x * rise) \div run \in 0 .. rise
           /\ rise <= 0 => (x * rise) \div run \in rise .. 0
  <1>1. x * rise \in Int /\ 0 * run = 0 /\ rise * run \in Int /\ run * rise = rise * run
    OBVIOUS
  <1>2. (0 * run) \div run = 0 /\ (rise * run) \div run = rise
    <2>1. ASSUME NEW q \in Int PROVE (q * run) \div run = q
      <3> DEFINE d == (q * run) \div run
      <3>1. q * run \in Int
        OBVIOUS
      <3>2. d \in Int /\ d * run <= q * run /\ q * run < (d + 1) * run
        BY <3>1, Division
      <3> HIDE DEF d
      <3>3. d * run \in Int /\ (q + 1) * run \in Int /\ q * run < (q + 1) * run
        BY <3>1, <3>2
      <3>4. d <= q
        <4>1. d * run < (q + 1) * run
          BY <3>1, <3>2, <3>3
        <4> QED
          BY <3>2, <4>1, Unscaled
      <3>5. q <= d
        BY <3>2, Unscaled
      <3> QED
        BY <3>2, <3>4, <3>5 DEF d
    <2> QED
      BY <2>1
  <1>3. ASSUME rise >= 0 PROVE (x * rise) \div run \in 0 .. rise
    <2>1. 0 <= x * rise /\ x * rise <= rise * run
      BY <1>1, <1>3, Scaled
    <2>2. /\ (0 * run) \div run <= (x * rise) \div run
          /\ (x * rise) \div run <= (rise * run) \div run
      BY <1>1, <2>1, QuotientsAscend
    <2>3. (x * rise) \div run \in Int
      BY <1>1, Division
    <2> QED
      BY <1>2, <2>2, <2>3
  <1>4. ASSUME rise <= 0 PROVE (x * rise) \div run \in rise .. 0
    <2>1. x * rise <= 0 /\ rise * run <= x * rise
      <3>1. x * (-rise) <= run * (-rise) /\ 0 * (-rise) <= x * (-rise)
        BY <1>4, Scaled
      <3>2. x * (-rise) = -(x * rise) /\ run * (-rise) = -(rise * run) /\ 0 * (-rise) = 0
        OBVIOUS
      <3> QED
        BY <1>1, <3>1, <3>2
    <2>2. /\ (x * rise) \div run <= (0 * run) \div run
          /\ (rise * run) \div run <= (x * rise) \div run
      BY <1>1, <2>1, QuotientsAscend
    <2>3. (x * rise) \div run \in Int
      BY <1>1, Division
    <2> QED
      BY <1>2, <2>2, <2>3
  <1> QED
    BY <1>3, <1>4

LEMMA BetweenItsEnds ==
    ASSUME NEW l \in Point, NEW r \in Point, NEW t \in Int, l.tempC <= t, t <= r.tempC
    PROVE  /\ l.fanPct <= r.fanPct => Between(l, r, t) \in l.fanPct .. r.fanPct
           /\ r.fanPct <= l.fanPct => Between(l, r, t) \in r.fanPct .. l.fanPct
  <1>1. l.tempC \in Int /\ r.tempC \in Int /\ l.fanPct \in Int /\ r.fanPct \in Int
    BY DEF Point
  <1>2. CASE l.tempC = r.tempC
    <2>1. Between(l, r, t) = l.fanPct
      BY <1>2 DEF Between
    <2> QED
      BY <1>1, <2>1
  <1>3. CASE l.tempC # r.tempC
    <2> DEFINE x == t - l.tempC
               run == r.tempC - l.tempC
               rise == r.fanPct - l.fanPct
    <2>1. x \in Int /\ run \in Int /\ rise \in Int /\ 0 <= x /\ x <= run /\ 0 < run
      BY <1>1, <1>3
    <2>2. Between(l, r, t) = l.fanPct + (x * rise) \div run
      BY <1>3 DEF Between
    <2>3. /\ rise >= 0 => (x * rise) \div run \in 0 .. rise
          /\ rise <= 0 => (x * rise) \div run \in rise .. 0
      <3> HIDE DEF x, run, rise
      <3> QED
        BY <2>1, PartOfTheRise
    <2> DEFINE part == (x * rise) \div run
    <2>4. /\ rise >= 0 => part \in 0 .. rise
          /\ rise <= 0 => part \in rise .. 0
          /\ Between(l, r, t) = l.fanPct + part
      BY <2>2, <2>3
    <2> HIDE DEF part
    <2> QED
      BY <1>1, <2>4
  <1> QED
    BY <1>2, <1>3

LEMMA SegmentsRise ==
    ASSUME NEW l \in Point, NEW r \in Point, NEW t \in Int, NEW u \in Int, t <= u,
           l.tempC < r.tempC, l.fanPct <= r.fanPct
    PROVE  Between(l, r, t) <= Between(l, r, u)
  <1>1. l.tempC \in Int /\ r.tempC \in Int /\ l.fanPct \in Int /\ r.fanPct \in Int
    BY DEF Point
  <1> DEFINE run == r.tempC - l.tempC
             rise == r.fanPct - l.fanPct
             a == (t - l.tempC) * rise
             b == (u - l.tempC) * rise
  <1>2. /\ Between(l, r, t) = l.fanPct + a \div run
        /\ Between(l, r, u) = l.fanPct + b \div run
    BY <1>1 DEF Between
  <1>3. run \in Int /\ run > 0 /\ rise \in Int /\ rise >= 0
    BY <1>1
  <1>4. a \in Int /\ b \in Int /\ a <= b
    <2>1. t - l.tempC \in Int /\ u - l.tempC \in Int /\ t - l.tempC <= u - l.tempC
      BY <1>1
    <2> HIDE DEF rise
    <2> QED
      BY <1>3, <2>1, Scaled
  <1> HIDE DEF a, b, run
  <1>5. a \div run <= b \div run /\ a \div run \in Int /\ b \div run \in Int
    BY <1>3, <1>4, QuotientsAscend, Division
  <1> QED
    BY <1>1, <1>2, <1>5

-----------------------------------------------------------------------------
(* What Interpolate returns: the percent of an end, or of the segment      *)
(* between the first point of the highest temperature up to t and the      *)
(* first point from t on.                                                  *)
IsLeft(c, t, l) ==
    /\ l \in 1 .. Len(c) /\ c[l].tempC <= t
    /\ \A j \in 1 .. Len(c) : c[j].tempC <= t =>
          /\ c[j].tempC <= c[l].tempC
          /\ c[j].tempC = c[l].tempC => l <= j

IsRight(c, t, r) ==
    /\ r \in 1 .. Len(c) /\ t <= c[r].tempC
    /\ \A j \in 1 .. Len(c) : t <= c[j].tempC => r <= j

IsTop(c, h) ==
    /\ h \in 1 .. Len(c) /\ c[h].tempC = c[Len(c)].tempC
    /\ \A j \in 1 .. Len(c) : c[j].tempC = c[h].tempC => h <= j

AtBottom(c, t) == t <= c[1].tempC /\ Interpolate(c, t) = c[1].fanPct
AtTop(c, t, h) == c[Len(c)].tempC <= t /\ IsTop(c, h) /\ Interpolate(c, t) = c[h].fanPct
Inside(c, t, l, r) ==
    /\ c[1].tempC < t /\ t < c[Len(c)].tempC
    /\ IsLeft(c, t, l) /\ IsRight(c, t, r)
    /\ Interpolate(c, t) = Between(c[l], c[r], t)

LEMMA WhatItReturns ==
    ASSUME NEW c, IsCurve(c), NEW t \in Int
    PROVE  \/ AtBottom(c, t)
           \/ \E h : AtTop(c, t, h)
           \/ \E l, r : Inside(c, t, l, r)
  <1> DEFINE n == Len(c)
             I == 1 .. n
             h == Hottest(c, I)
             l == Hottest(c, {i \in I : c[i].tempC <= t})
             r == Coolest(c, {i \in I : c[i].tempC >= t})
  <1>1. n \in Nat \ {0} /\ DOMAIN c = I /\ 1 \in I /\ n \in I /\ c # <<>>
    BY CurveFields
  <1>2. \A i \in I : c[i].tempC \in Int
    BY CurveFields
  <1>3. Coolest(c, I) = 1
    <2>1. Coolest(c, I) \in I /\ Coolest(c, I) <= 1
      BY <1>1, CoolestIsFirst
    <2> QED
      BY <1>1, <2>1
  <1>4. IsTop(c, h)
    <2>1. h \in I /\ \A j \in I : /\ c[j].tempC <= c[h].tempC
                                  /\ c[j].tempC = c[h].tempC => h <= j
      BY <1>1, HottestIsFirstOfLast
    <2> HIDE DEF h
    <2>2. c[h].tempC <= c[n].tempC
      BY <1>1, <2>1, TemperaturesAscend
    <2>3. c[n].tempC <= c[h].tempC
      BY <1>1, <2>1
    <2> QED
      BY <1>1, <1>2, <2>1, <2>2, <2>3 DEF IsTop
  <1>5. Interpolate(c, t) = IF t <= c[1].tempC THEN c[1].fanPct
                            ELSE IF t >= c[h].tempC THEN c[h].fanPct
                            ELSE Between(c[l], c[r], t)
    BY <1>1, <1>3 DEF Interpolate
  <1>6. ASSUME c[1].tempC < t, t < c[n].tempC
        PROVE  IsLeft(c, t, l) /\ IsRight(c, t, r)
    <2> DEFINE L == {i \in I : c[i].tempC <= t}
               R == {i \in I : c[i].tempC >= t}
    <2>1. 1 \in L /\ n \in R /\ L \subseteq I /\ R \subseteq I
      BY <1>1, <1>2, <1>6
    <2>2. l \in L /\ \A j \in L : /\ c[j].tempC <= c[l].tempC
                                  /\ c[j].tempC = c[l].tempC => l <= j
      BY <2>1, HottestIsFirstOfLast
    <2>3. r \in R /\ \A j \in R : r <= j
      BY <2>1, CoolestIsFirst
    <2> HIDE DEF l, r
    <2>4. \A i \in I : i \in R <=> t <= c[i].tempC
      BY <1>2
    <2>5. IsLeft(c, t, l)
      BY <2>2 DEF IsLeft
    <2>6. IsRight(c, t, r)
      <3> HIDE DEF R
      <3> QED
        BY <2>1, <2>3, <2>4 DEF IsRight
    <2> QED
      BY <2>5, <2>6
  <1> HIDE DEF h, l, r
  <1>7. c[h].tempC = c[n].tempC
    BY <1>4 DEF IsTop
  <1>8. CASE t <= c[1].tempC
    BY <1>5, <1>8 DEF AtBottom
  <1>9. CASE c[1].tempC < t /\ c[n].tempC <= t
    <2>1. ~(t <= c[1].tempC) /\ t >= c[h].tempC
      BY <1>1, <1>2, <1>7, <1>9
    <2> QED
      BY <1>4, <1>5, <1>9, <2>1 DEF AtTop
  <1>10. CASE c[1].tempC < t /\ t < c[n].tempC
    <2>1. ~(t <= c[1].tempC) /\ ~(t >= c[h].tempC)
      BY <1>1, <1>2, <1>7, <1>10
    <2> QED
      BY <1>5, <1>6, <1>10, <2>1 DEF Inside
  <1> QED
    BY <1>1, <1>2, <1>8, <1>9, <1>10

LEMMA SegmentPoints ==
    ASSUME NEW c, IsCurve(c), NEW t \in Int, NEW l, NEW r, Inside(c, t, l, r)
    PROVE  /\ l \in 1 .. Len(c) /\ r \in 1 .. Len(c)
           /\ c[l] \in Point /\ c[r] \in Point
           /\ c[l].tempC <= t /\ t <= c[r].tempC
           /\ Interpolate(c, t) = Between(c[l], c[r], t)
  BY DEF Inside, IsLeft, IsRight, IsCurve

(* The percent is between those of two points.                             *)
LEMMA Within ==
    ASSUME NEW c, IsCurve(c), NEW t \in Int
    PROVE  \E i, j \in DOMAIN c : Interpolate(c, t) \in c[i].fanPct .. c[j].fanPct
  <1>1. DOMAIN c = 1 .. Len(c) /\ 1 \in DOMAIN c
    BY CurveFields
  <1>2. ASSUME NEW i \in DOMAIN c, Interpolate(c, t) = c[i].fanPct
        PROVE  Interpolate(c, t) \in c[i].fanPct .. c[i].fanPct
    BY <1>1, <1>2, CurveFields
  <1>3. ASSUME NEW l, NEW r, Inside(c, t, l, r)
        PROVE  \E i, j \in DOMAIN c : Interpolate(c, t) \in c[i].fanPct .. c[j].fanPct
    <2>1. /\ l \in DOMAIN c /\ r \in DOMAIN c
          /\ c[l] \in Point /\ c[r] \in Point
          /\ c[l].tempC <= t /\ t <= c[r].tempC
          /\ Interpolate(c, t) = Between(c[l], c[r], t)
      BY <1>1, <1>3, SegmentPoints
    <2>2. \/ Interpolate(c, t) \in c[l].fanPct .. c[r].fanPct
          \/ Interpolate(c, t) \in c[r].fanPct .. c[l].fanPct
      <3>1. c[l].fanPct \in Int /\ c[r].fanPct \in Int
        BY <1>1, <2>1, CurveFields
      <3>2. c[l].fanPct <= c[r].fanPct \/ c[r].fanPct <= c[l].fanPct
        BY <3>1
      <3> QED
        BY <2>1, <3>2, BetweenItsEnds
    <2> QED
      BY <2>1, <2>2
  <1>4. \/ Interpolate(c, t) = c[1].fanPct
        \/ \E h \in DOMAIN c : Interpolate(c, t) = c[h].fanPct
        \/ \E l, r : Inside(c, t, l, r)
    BY <1>1, WhatItReturns DEF AtBottom, AtTop, IsTop
  <1> QED
    BY <1>1, <1>2, <1>3, <1>4

(* The percents of a rising curve rise with the temperature.  Of two       *)
(* temperatures either no point is between, and both are on one segment,   *)
(* or the point that ends the segment of the lower is not above the one    *)
(* that starts the segment of the higher.                                  *)
LEMMA SegmentsInOrder ==
    ASSUME NEW c, IsCurve(c), NEW t \in Int, NEW u \in Int, t < u,
           NEW l, NEW r, NEW k, NEW m, IsLeft(c, t, l), IsRight(c, t, r),
           IsLeft(c, u, k), IsRight(c, u, m)
    PROVE  r <= k \/ (l = k /\ r = m /\ c[l].tempC < c[r].tempC)
  <1>1. Len(c) \in Nat /\ \A i \in 1 .. Len(c) : c[i].tempC \in Int
    BY CurveFields
  <1>2. {l, r, k, m} \subseteq 1 .. Len(c)
    BY DEF IsLeft, IsRight
  <1>3. CASE c[r].tempC <= u
    <2>1. c[r].tempC <= c[k].tempC /\ (c[r].tempC = c[k].tempC => k <= r)
      BY <1>2, <1>3 DEF IsLeft
    <2>2. t <= c[r].tempC
      BY DEF IsRight
    <2>3. t <= c[k].tempC
      BY <1>1, <1>2, <2>1, <2>2
    <2> QED
      BY <1>2, <2>3 DEF IsRight
  <1>4. CASE ~(c[r].tempC <= u)
    <2>1. u < c[r].tempC
      BY <1>1, <1>2, <1>4
    <2>2. \A j \in 1 .. Len(c) : t <= c[j].tempC => u < c[j].tempC
      <3> SUFFICES ASSUME NEW j \in 1 .. Len(c), t <= c[j].tempC PROVE u < c[j].tempC
        OBVIOUS
      <3>1. r <= j
        BY DEF IsRight
      <3>2. c[r].tempC <= c[j].tempC
        BY <1>2, <3>1, TemperaturesAscend
      <3> QED
        BY <1>1, <1>2, <2>1, <3>2
    <2>3. \A j \in 1 .. Len(c) : c[j].tempC <= u <=> c[j].tempC <= t
      BY <1>1, <2>2
    <2>4. \A j \in 1 .. Len(c) : u <= c[j].tempC <=> t <= c[j].tempC
      BY <1>1, <2>2
    <2>5. l = k
      <3>1. c[l].tempC <= u /\ c[k].tempC <= t
        BY <1>2, <2>3 DEF IsLeft
      <3>2. /\ c[l].tempC <= c[k].tempC /\ (c[l].tempC = c[k].tempC => k <= l)
            /\ c[k].tempC <= c[l].tempC /\ (c[k].tempC = c[l].tempC => l <= k)
        BY <1>2, <3>1 DEF IsLeft
      <3> QED
        BY <1>1, <1>2, <3>2
    <2>6. r = m
      <3>1. u <= c[r].tempC /\ t <= c[m].tempC
        BY <1>2, <2>4 DEF IsRight
      <3>2. r <= m /\ m <= r
        BY <1>2, <3>1 DEF IsRight
      <3> QED
        BY <1>2, <3>2
    <2>7. c[l].tempC < c[r].tempC
      <3>1. c[l].tempC <= t
        BY DEF IsLeft
      <3> QED
        BY <1>1, <1>2, <2>1, <3>1
    <2> QED
      BY <2>5, <2>6, <2>7
  <1> QED
    BY <1>3, <1>4

LEMMA Rising ==
    ASSUME NEW c, IsCurve(c), NEW t \in Int, NEW u \in Int, t < u,
           \A i \in 1 .. Len(c) - 1 : c[i].fanPct <= c[i+1].fanPct
    PROVE  Interpolate(c, t) <= Interpolate(c, u)
  <1> DEFINE n == Len(c)
  <1>1. /\ n \in Nat \ {0} /\ DOMAIN c = 1 .. n
        /\ \A i \in 1 .. n : c[i].tempC \in Int /\ c[i].fanPct \in Int
    BY CurveFields
  <1>2. \A i, j \in 1 .. n : i <= j => c[i].fanPct <= c[j].fanPct
    BY PercentsAscend
  <1>3. \A i \in 1 .. n : c[1].fanPct <= c[i].fanPct
    BY <1>1, <1>2
  <1> HIDE DEF n
  <1>4. ASSUME NEW x \in Int, NEW l, NEW r, Inside(c, x, l, r)
        PROVE  /\ l \in 1 .. n /\ r \in 1 .. n
               /\ c[l].fanPct <= Interpolate(c, x) /\ Interpolate(c, x) <= c[r].fanPct
               /\ Interpolate(c, x) \in Int /\ c[l].fanPct <= c[r].fanPct
    <2>1. /\ l \in 1 .. n /\ r \in 1 .. n
          /\ c[l] \in Point /\ c[r] \in Point
          /\ c[l].tempC <= x /\ x <= c[r].tempC
          /\ Interpolate(c, x) = Between(c[l], c[r], x)
      BY <1>4, SegmentPoints DEF n
    <2>2. c[l].fanPct <= c[r].fanPct
      <3>1. CASE l <= r
        BY <1>2, <2>1, <3>1
      <3>2. CASE ~(l <= r)
        <4>1. r <= l
          BY <1>1, <2>1, <3>2
        <4>2. c[r].tempC <= c[l].tempC
          BY <2>1, <4>1, TemperaturesAscend DEF n
        <4>3. c[l].tempC <= c[l].tempC /\ x <= c[l].tempC
          BY <1>1, <2>1, <4>2
        <4>4. x <= c[r].tempC /\ c[l].tempC <= c[r].tempC
          BY <1>1, <2>1
        <4>5. c[r].tempC = c[l].tempC
          BY <1>1, <2>1, <4>2, <4>4
        <4>6. l <= r
          BY <1>4, <2>1, <4>5 DEF Inside, IsLeft, n
        <4> QED
          BY <3>2, <4>6
      <3> QED
        BY <3>1, <3>2
    <2>3. Interpolate(c, x) \in c[l].fanPct .. c[r].fanPct
      BY <2>1, <2>2, BetweenItsEnds
    <2> QED
      BY <1>1, <2>1, <2>2, <2>3
  <1>5. CASE AtBottom(c, t)
    <2>1. CASE AtBottom(c, u)
      BY <1>1, <1>5, <2>1 DEF AtBottom
    <2>2. ASSUME NEW h, AtTop(c, u, h) PROVE Interpolate(c, t) <= Interpolate(c, u)
      BY <1>3, <1>5, <2>2 DEF AtBottom, AtTop, IsTop, n
    <2>3. ASSUME NEW l, NEW r, Inside(c, u, l, r) PROVE Interpolate(c, t) <= Interpolate(c, u)
      <3>1. l \in 1 .. n /\ c[l].fanPct <= Interpolate(c, u) /\ Interpolate(c, u) \in Int
        BY <1>4, <2>3
      <3>2. Interpolate(c, t) = c[1].fanPct /\ c[1].fanPct <= c[l].fanPct
        BY <1>3, <1>5, <3>1 DEF AtBottom
      <3> QED
        BY <1>1, <3>1, <3>2
    <2> QED
      BY <2>1, <2>2, <2>3, WhatItReturns
  <1>6. ASSUME NEW g, AtTop(c, t, g) PROVE Interpolate(c, t) <= Interpolate(c, u)
    <2>1. /\ c[n].tempC <= t /\ g \in 1 .. n /\ c[g].tempC = c[n].tempC
          /\ Interpolate(c, t) = c[g].fanPct
      BY <1>6 DEF AtTop, IsTop, n
    <2>2. c[1].tempC <= c[n].tempC
      BY <1>1, TemperaturesAscend DEF n
    <2>3. c[n].tempC < u /\ c[1].tempC < u
      BY <1>1, <2>1, <2>2
    <2>4. PICK h : AtTop(c, u, h)
      BY <1>1, <2>3, WhatItReturns, SMTT(30) DEF AtBottom, Inside, n
    <2>5. /\ h \in 1 .. n /\ c[h].tempC = c[n].tempC /\ Interpolate(c, u) = c[h].fanPct
          /\ g <= h
      BY <1>6, <2>4 DEF AtTop, IsTop, n
    <2> QED
      BY <1>2, <2>1, <2>5
  <1>7. ASSUME NEW l, NEW r, Inside(c, t, l, r) PROVE Interpolate(c, t) <= Interpolate(c, u)
    <2>1. /\ l \in 1 .. n /\ r \in 1 .. n /\ Interpolate(c, t) <= c[r].fanPct
          /\ Interpolate(c, t) \in Int /\ c[l].fanPct <= c[r].fanPct
      BY <1>7, <1>4
    <2>2. ~AtBottom(c, u)
      BY <1>1, <1>7 DEF AtBottom, Inside
    <2>3. ASSUME NEW h, AtTop(c, u, h) PROVE Interpolate(c, t) <= Interpolate(c, u)
      <3>1. h \in 1 .. n /\ c[h].tempC = c[n].tempC /\ Interpolate(c, u) = c[h].fanPct
        BY <2>3 DEF AtTop, IsTop, n
      <3>2. t <= c[h].tempC
        BY <1>1, <1>7, <3>1 DEF Inside, n
      <3>3. r <= h
        BY <1>7, <3>1, <3>2 DEF Inside, IsRight, n
      <3>4. c[r].fanPct <= c[h].fanPct
        BY <1>2, <2>1, <3>1, <3>3
      <3> QED
        BY <1>1, <2>1, <3>1, <3>4
    <2>4. ASSUME NEW k, NEW m, Inside(c, u, k, m) PROVE Interpolate(c, t) <= Interpolate(c, u)
      <3>1. /\ k \in 1 .. n /\ m \in 1 .. n /\ c[k].fanPct <= Interpolate(c, u)
            /\ Interpolate(c, u) \in Int
        BY <2>4, <1>4
      <3>2. CASE r <= k
        <4>1. c[r].fanPct <= c[k].fanPct
          BY <1>2, <2>1, <3>1, <3>2
        <4> QED
          BY <1>1, <2>1, <3>1, <4>1
      <3>3. CASE l = k /\ r = m /\ c[l].tempC < c[r].tempC
        BY <1>7, <2>1, <2>4, <3>3, SegmentPoints, SegmentsRise
      <3> QED
        BY <1>7, <2>4, <3>2, <3>3, SegmentsInOrder DEF Inside
    <2> QED
      BY <2>2, <2>3, <2>4, WhatItReturns
  <1> QED
    BY <1>5, <1>6, <1>7, WhatItReturns

(* On a curve of distinct temperatures the segment joins neighbours.       *)
OnTheChord(c, t, i) ==
    LET run  == c[i+1].tempC - c[i].tempC
        rise == (t - c[i].tempC) * (c[i+1].fanPct - c[i].fanPct)
        pct  == Interpolate(c, t)
    IN  /\ t \in c[i].tempC .. c[i+1].tempC
        /\ (pct - c[i].fanPct) * run <= rise
        /\ rise < (pct - c[i].fanPct + 1) * run

LEMMA Polyline ==
    ASSUME NEW c, IsCurve(c), NEW t \in Int,
           \A i \in 1 .. Len(c) - 1 : c[i].tempC < c[i+1].tempC
    PROVE  \/ AtBottom(c, t)
           \/ c[Len(c)].tempC <= t /\ Interpolate(c, t) = c[Len(c)].fanPct
           \/ \E i \in 1 .. Len(c) - 1 : OnTheChord(c, t, i)
  <1> DEFINE n == Len(c)
  <1>1. n \in Nat \ {0} /\ \A i \in 1 .. n : c[i].tempC \in Int /\ c[i].fanPct \in Int
    BY CurveFields
  <1>2. \A i, j \in 1 .. n : i < j => c[i].tempC < c[j].tempC
    <2> SUFFICES ASSUME NEW i \in 1 .. n, NEW j \in 1 .. n, i < j PROVE c[i].tempC < c[j].tempC
      OBVIOUS
    <2>1. i \in 1 .. n - 1 /\ i + 1 \in 1 .. n /\ i + 1 <= j
      BY <1>1
    <2>2. c[i].tempC < c[i+1].tempC /\ c[i+1].tempC <= c[j].tempC
      BY <2>1, TemperaturesAscend
    <2> QED
      BY <1>1, <2>1, <2>2
  <1> HIDE DEF n
  <1>3. ASSUME NEW h, AtTop(c, t, h)
        PROVE  c[n].tempC <= t /\ Interpolate(c, t) = c[n].fanPct
    <2>1. h \in 1 .. n /\ c[h].tempC = c[n].tempC
      BY <1>3 DEF AtTop, IsTop, n
    <2>2. h = n
      BY <1>1, <1>2, <2>1
    <2> QED
      BY <1>3, <2>2 DEF AtTop, n
  <1>4. ASSUME NEW l, NEW r, Inside(c, t, l, r)
        PROVE  l \in 1 .. n - 1 /\ OnTheChord(c, t, l)
    <2>1. /\ l \in 1 .. n /\ r \in 1 .. n /\ c[l].tempC <= t /\ t <= c[r].tempC
          /\ Interpolate(c, t) = Between(c[l], c[r], t)
      BY <1>4, SegmentPoints DEF n
    <2>2. l \in 1 .. n - 1 /\ l + 1 \in 1 .. n
      <3>1. t < c[n].tempC
        BY <1>4 DEF Inside, n
      <3>2. l # n
        BY <1>1, <2>1, <3>1
      <3> QED
        BY <1>1, <2>1, <3>2
    <2>3. c[l].tempC < c[l+1].tempC /\ t <= c[l+1].tempC
      <3>1. c[l].tempC < c[l+1].tempC
        BY <2>2 DEF n
      <3>2. ~(c[l+1].tempC <= t)
        <4>1. c[l+1].tempC <= t => c[l+1].tempC <= c[l].tempC
          BY <1>4, <2>2 DEF Inside, IsLeft, n
        <4> QED
          BY <1>1, <2>2, <3>1, <4>1
      <3> QED
        BY <1>1, <2>2, <3>1, <3>2
    <2> DEFINE run  == c[l+1].tempC - c[l].tempC
               rise == (t - c[l].tempC) * (c[l+1].fanPct - c[l].fanPct)
               pct  == Interpolate(c, t)
    <2>4. run \in Int /\ run > 0 /\ rise \in Int
      <3>1. /\ c[l].tempC \in Int /\ c[l+1].tempC \in Int
            /\ c[l].fanPct \in Int /\ c[l+1].fanPct \in Int
        BY <1>1, <2>2
      <3>2. run \in Int /\ run > 0
        BY <2>3, <3>1
      <3>3. t - c[l].tempC \in Int /\ c[l+1].fanPct - c[l].fanPct \in Int
        BY <3>1
      <3>4. \A x, y \in Int : x * y \in Int
        OBVIOUS
      <3> QED
        BY <3>2, <3>3, <3>4
    <2>5. CASE c[l].tempC = t
      <3>1. r <= l
        BY <1>4, <2>1, <2>5 DEF Inside, IsRight, n
      <3>2. c[r].tempC = c[l].tempC
        <4>1. c[r].tempC <= c[l].tempC
          BY <2>1, <3>1, TemperaturesAscend DEF n
        <4> QED
          BY <1>1, <2>1, <2>5, <4>1
      <3>3. pct = c[l].fanPct
        BY <2>1, <3>2 DEF Between
      <3>4. rise = 0 /\ pct - c[l].fanPct = 0
        BY <1>1, <2>1, <2>2, <2>5, <3>3
      <3> HIDE DEF run, rise, pct
      <3>5. (pct - c[l].fanPct) * run <= rise /\ rise < (pct - c[l].fanPct + 1) * run
        BY <2>4, <3>4
      <3> QED
        BY <1>1, <2>1, <2>2, <2>3, <3>5 DEF OnTheChord, run, rise, pct
    <2>6. CASE c[l].tempC # t
      <3>1. c[l].tempC < t
        BY <1>1, <2>1, <2>6
      <3>2. r <= l + 1
        BY <1>4, <2>2, <2>3 DEF Inside, IsRight, n
      <3>3. ~(r <= l)
        <4>1. r <= l => c[r].tempC <= c[l].tempC
          BY <2>1, TemperaturesAscend DEF n
        <4> QED
          BY <1>1, <2>1, <3>1, <4>1
      <3>4. r = l + 1
        BY <1>1, <2>1, <3>2, <3>3
      <3>5. pct = c[l].fanPct + rise \div run
        BY <2>1, <2>3, <3>4, <1>1, <2>2 DEF Between
      <3> HIDE DEF run, rise, pct
      <3>6. pct - c[l].fanPct = rise \div run /\ rise \div run \in Int
        BY <1>1, <2>1, <2>4, <3>5, Division
      <3>7. (pct - c[l].fanPct) * run <= rise /\ rise < (pct - c[l].fanPct + 1) * run
        BY <2>4, <3>6, Division
      <3> QED
        BY <1>1, <2>1, <2>2, <2>3, <3>7 DEF OnTheChord, run, rise, pct
    <2> QED
      BY <2>2, <2>5, <2>6
  <1> QED
    BY <1>3, <1>4, WhatItReturns DEF n

-----------------------------------------------------------------------------
(* The specification that TLC runs: any curve and temperature are a curve  *)
(* and a temperature.                                                      *)
CurveInv == IsCurve(curve) /\ temp \in Int

LEMMA CurvesAreCurves == \A c \in Curves : IsCurve(c)
  <1> SUFFICES ASSUME NEW c \in Curves PROVE IsCurve(c)
    OBVIOUS
  <1>1. PICK n \in 1 .. MaxPoints : c \in [1 .. n -> [tempC : Temps, fanPct : Percents]]
    BY DEF Curves
  <1>2. n \in Nat /\ [tempC : Temps, fanPct : Percents] \subseteq Point
    <2>1. Temps \subseteq Int /\ Percents \subseteq Int
      BY CurveAssumption
    <2>2. [tempC : Temps, fanPct : Percents] \subseteq Point
      BY <2>1 DEF Point
    <2>3. n \in Nat
      BY <1>1, CurveAssumption
    <2> QED
      BY <2>2, <2>3
  <1>3. c \in [1 .. n -> Point]
    BY <1>1, <1>2
  <1>4. c \in Seq(Point)
    BY <1>2, <1>3
  <1>5. ValidCurve(c)
    BY DEF Curves
  <1> QED
    BY <1>4, <1>5 DEF IsCurve

LEMMA CurveInvHolds == CSpec => []CurveInv
  <1>1. CInit => CurveInv
    BY CurvesAreCurves DEF CInit, CurveInv, Probe
  <1>2. CurveInv /\ [CNext]_<<curve, temp>> => CurveInv'
    BY DEF CurveInv, CNext, Probe
  <1> QED
    BY <1>1, <1>2, PTL DEF CSpec

\* On every curve of distinct temperatures that Validate accepts, and at every
\* temperature, Interpolate (curve.go) returns the polyline's percent, rounded
\* down.
THEOREM InterpolatesThePolyline == CSpec => []OnThePolyline
  <1>1. CurveInv => OnThePolyline
    <2> SUFFICES ASSUME CurveInv,
                        \A i \in 1 .. Len(curve) - 1 : curve[i].tempC < curve[i+1].tempC
                 PROVE  \/ temp <= curve[1].tempC /\ Pct = curve[1].fanPct
                        \/ temp >= curve[Len(curve)].tempC /\ Pct = curve[Len(curve)].fanPct
                        \/ \E i \in 1 .. Len(curve) - 1 : OnTheChord(curve, temp, i)
      BY DEF OnThePolyline, OnTheChord, Pct
    <2>1. \/ AtBottom(curve, temp)
          \/ curve[Len(curve)].tempC <= temp /\ Interpolate(curve, temp) = curve[Len(curve)].fanPct
          \/ \E i \in 1 .. Len(curve) - 1 : OnTheChord(curve, temp, i)
      <3>1. \A c, t : /\ IsCurve(c) /\ t \in Int
                      /\ \A i \in 1 .. Len(c) - 1 : c[i].tempC < c[i+1].tempC
                      => \/ AtBottom(c, t)
                         \/ c[Len(c)].tempC <= t /\ Interpolate(c, t) = c[Len(c)].fanPct
                         \/ \E i \in 1 .. Len(c) - 1 : OnTheChord(c, t, i)
        BY Polyline
      <3> QED
        BY <3>1 DEF CurveInv
    <2>2. curve[Len(curve)].tempC \in Int /\ temp \in Int
      BY CurveFields DEF CurveInv
    <2> QED
      BY <2>1, <2>2 DEF AtBottom, Pct
  <1> QED
    BY <1>1, CurveInvHolds, PTL

\* A curve never asks for more or less than its points do, however they lie,
\* duplicate temperatures included (curve.Interpolate).
THEOREM NeverBeyondTheCurve == CSpec => []WithinTheCurve
  <1>1. CurveInv => WithinTheCurve
    <2>1. \A c, t : IsCurve(c) /\ t \in Int =>
              \E i, j \in DOMAIN c : Interpolate(c, t) \in c[i].fanPct .. c[j].fanPct
      BY Within
    <2> QED
      BY <2>1 DEF CurveInv, WithinTheCurve, Pct
  <1> QED
    BY <1>1, CurveInvHolds, PTL

\* On a curve whose percents do not fall a hotter reading never asks for less
\* than a cooler one, duplicate temperatures included (curve.Interpolate).
THEOREM HotterIsNeverSlower == CSpec => HotterNeverSlower
  <1>1. CurveInv /\ CurveInv' /\ [CNext]_<<curve, temp>>
        => [(\A i \in 1 .. Len(curve) - 1 : curve[i].fanPct <= curve[i+1].fanPct)
              /\ temp < temp' => Pct <= Pct']_<<curve, temp>>
    <2> SUFFICES ASSUME CurveInv, CurveInv', CNext, temp < temp',
                        \A i \in 1 .. Len(curve) - 1 : curve[i].fanPct <= curve[i+1].fanPct
                 PROVE  Pct <= Pct'
      OBVIOUS
    <2>1. \A c, t, u : /\ IsCurve(c) /\ t \in Int /\ u \in Int /\ t < u
                       /\ \A i \in 1 .. Len(c) - 1 : c[i].fanPct <= c[i+1].fanPct
                       => Interpolate(c, t) <= Interpolate(c, u)
      BY Rising
    <2>2. curve' = curve /\ Pct' = Interpolate(curve, temp')
      BY DEF CNext, Pct
    <2>3. IsCurve(curve) /\ temp \in Int /\ temp' \in Int
      BY DEF CurveInv
    <2> QED
      BY <2>1, <2>2, <2>3 DEF Pct
  <1> QED
    BY <1>1, CurveInvHolds, PTL DEF CSpec, HotterNeverSlower
=============================================================================
