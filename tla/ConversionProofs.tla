-------------------------- MODULE ConversionProofs --------------------------
(***************************************************************************)
(* Dates, the encodings and utf8: what they do to every date and text.     *)
(***************************************************************************)
EXTENDS Conversions, Induction, SequenceTheorems, FiniteSetTheorems

-----------------------------------------------------------------------------
(* Dates                                                                   *)

(* The day that mktime makes of a date.                                    *)
Fields(d) == [tm_year |-> d.year - 1900, tm_mon |-> d.month - 1, tm_mday |-> d.day]
DayNumber(d) == mktime(Fields(d))

(* Whichever way a date is written, the code takes it apart correctly.     *)
LEMMA WrittenIsRead ==
  ASSUME NEW d, IsDate(d), NEW w \in Written(d)
  PROVE  tm(FullDate(w)) = Fields(d)
<1> DEFINE y == d.year
           m == d.month
           a == d.day
<1>1. y \in Nat /\ m \in 1 .. 12 /\ a \in 1 .. 31
  BY DEF IsDate
<1>2. \/ y \in 100 .. 9999 /\ w = 10000 * y + 100 * m + a
      \/ y \in 2000 .. 2099 /\ w = 10000 * (y % 100) + 100 * m + a
  BY DEF Written
<1> HIDE DEF y, m, a
<1>3. FullDate(w) = 10000 * y + 100 * m + a
  <2>1. CASE y \in 100 .. 9999 /\ w = 10000 * y + 100 * m + a
    <3>1. ~ (w < 1000000)
      BY <1>1, <2>1
    <3> QED
      BY <2>1, <3>1 DEF FullDate
  <2>2. CASE y \in 2000 .. 2099 /\ w = 10000 * (y % 100) + 100 * m + a
    <3>1. y % 100 = y - 2000
      BY <2>2
    <3>2. w < 1000000 /\ w + 20000000 = 10000 * y + 100 * m + a
      BY <1>1, <2>2, <3>1
    <3> QED
      BY <3>2 DEF FullDate
  <2> QED
    BY <1>2, <2>1, <2>2
<1>4. ASSUME NEW f \in Int, f = 10000 * y + 100 * m + a
      PROVE  f \div 10000 = y /\ (f \div 100) % 100 = m /\ f % 100 = a
  <2>1. f \div 100 = 100 * y + m
    BY <1>1, <1>4
  <2> QED
    BY <1>1, <1>4, <2>1
<1>5. 10000 * y + 100 * m + a \in Int
  BY <1>1
<1> QED
  BY <1>3, <1>4, <1>5 DEF tm, Fields, y, m, a

(* The day of a date, with the years that begin in March written out.      *)
DaysBefore(year) == 365 * year + year \div 4 - year \div 100 + year \div 400

LEMMA YearIsLong ==
  ASSUME NEW y \in Int
  PROVE  DaysBefore(y) = DaysBefore(y - 1) + (IF Leap(y) THEN 366 ELSE 365)
<1>1. y \div 4 = (y - 1) \div 4 + (IF y % 4 = 0 THEN 1 ELSE 0)
  OBVIOUS
<1>2. y \div 100 = (y - 1) \div 100 + (IF y % 100 = 0 THEN 1 ELSE 0)
  OBVIOUS
<1>3. y \div 400 = (y - 1) \div 400 + (IF y % 400 = 0 THEN 1 ELSE 0)
  OBVIOUS
<1>4. (y % 400 = 0 => y % 100 = 0) /\ (y % 100 = 0 => y % 4 = 0)
  OBVIOUS
<1> QED
  BY <1>1, <1>2, <1>3, <1>4 DEF DaysBefore, Leap

(* The days from the beginning of March to that of a month.                *)
DaysInto(month) == (153 * ((month + 9) % 12) + 2) \div 5

LEMMA MonthsAre ==
  ASSUME NEW m \in 1 .. 12, NEW y \in Nat
  PROVE  /\ DaysInto(m) \in Nat /\ DaysOf(y, m) \in 28 .. 31
         /\ DaysOf(y, 12) = 31 /\ DaysInto(1) = DaysInto(12) + 31
         /\ DaysOf(y, 2) = IF Leap(y) THEN 29 ELSE 28
         /\ DaysInto(2) = 337 /\ DaysInto(3) = 0
         /\ m \notin {2, 12} => DaysInto(m + 1) = DaysInto(m) + DaysOf(y, m)
<1>1. \/ m = 1 \/ m = 2 \/ m = 3 \/ m = 4 \/ m = 5 \/ m = 6
      \/ m = 7 \/ m = 8 \/ m = 9 \/ m = 10 \/ m = 11 \/ m = 12
  OBVIOUS
<1>2. /\ DaysInto(1) = 306 /\ DaysInto(2) = 337 /\ DaysInto(3) = 0 /\ DaysInto(4) = 31
      /\ DaysInto(5) = 61 /\ DaysInto(6) = 92 /\ DaysInto(7) = 122 /\ DaysInto(8) = 153
      /\ DaysInto(9) = 184 /\ DaysInto(10) = 214 /\ DaysInto(11) = 245 /\ DaysInto(12) = 275
  BY DEF DaysInto
<1> QED
  BY <1>1, <1>2 DEF DaysOf

LEMMA DayNumberIs ==
  ASSUME NEW y \in Nat, NEW m \in 1 .. 12, NEW a \in 1 .. 31
  PROVE  DayNumber([year |-> y, month |-> m, day |-> a])
           = DaysBefore(IF m <= 2 THEN y - 1 ELSE y) + DaysInto(m) + a - 1
<1> DEFINE t == [tm_year |-> y - 1900, tm_mon |-> m - 1, tm_mday |-> a]
           year == t.tm_year + 1900 - (IF t.tm_mon < 2 THEN 1 ELSE 0)
<1>1. year = (IF m <= 2 THEN y - 1 ELSE y) /\ t.tm_mon + 10 = m + 9 /\ t.tm_mday = a
  OBVIOUS
<1>2. Fields([year |-> y, month |-> m, day |-> a]) = t
  BY DEF Fields
<1>3. mktime(t) = DaysBefore(year) + (153 * ((t.tm_mon + 10) % 12) + 2) \div 5 + t.tm_mday - 1
  BY DEF mktime, DaysBefore
<1> HIDE DEF t, year
<1> QED
  BY <1>1, <1>2, <1>3 DEF DayNumber, DaysInto

(* The day after a date is a date, and mktime counts one day more.         *)
LEMMA TomorrowCounts ==
  ASSUME NEW d, IsDate(d)
  PROVE  IsDate(Tomorrow(d)) /\ DayNumber(Tomorrow(d)) = DayNumber(d) + 1
<1>1. PICK y \in Nat, m \in 1 .. 12, a \in 1 .. 31 :
        d = [year |-> y, month |-> m, day |-> a] /\ a <= DaysOf(y, m)
  <2>1. d = [year |-> d.year, month |-> d.month, day |-> d.day]
    BY DEF IsDate
  <2> QED
    BY <2>1 DEF IsDate
<1>2. DayNumber(d) = DaysBefore(IF m <= 2 THEN y - 1 ELSE y) + DaysInto(m) + a - 1
  BY <1>1, DayNumberIs
<1>3. \A k \in Int : DaysBefore(k) \in Int
  BY DEF DaysBefore
<1>4. \A k \in 1 .. 31 : k <= DaysOf(y, m) => IsDate([year |-> y, month |-> m, day |-> k])
  BY DEF IsDate
<1>5. CASE a < DaysOf(y, m)
  <2>1. Tomorrow(d) = [year |-> y, month |-> m, day |-> a + 1]
    BY <1>1, <1>5 DEF Tomorrow
  <2>2. a + 1 \in 1 .. 31 /\ a + 1 <= DaysOf(y, m)
    BY <1>5, MonthsAre
  <2>3. DayNumber(Tomorrow(d)) = DaysBefore(IF m <= 2 THEN y - 1 ELSE y) + DaysInto(m) + (a + 1) - 1
    BY <2>1, <2>2, DayNumberIs
  <2>4. DaysInto(m) \in Nat
    BY MonthsAre
  <2> QED
    BY <1>2, <1>3, <1>4, <2>1, <2>2, <2>3, <2>4
<1>6. CASE ~ (a < DaysOf(y, m)) /\ m < 12
  <2>1. Tomorrow(d) = [year |-> y, month |-> m + 1, day |-> 1]
    BY <1>1, <1>6 DEF Tomorrow
  <2>2. m + 1 \in 1 .. 12 /\ 1 \in 1 .. 31 /\ a = DaysOf(y, m) /\ 1 <= DaysOf(y, m + 1)
    <3>1. m + 1 \in 1 .. 12
      BY <1>6
    <3> QED
      BY <1>1, <1>6, <3>1, MonthsAre
  <2>3. IsDate(Tomorrow(d))
    BY <2>1, <2>2 DEF IsDate
  <2>4. DayNumber(Tomorrow(d)) = DaysBefore(IF m + 1 <= 2 THEN y - 1 ELSE y) + DaysInto(m + 1) + 1 - 1
    BY <2>1, <2>2, DayNumberIs
  <2>5. CASE m = 2
    <3>1. DaysInto(2) = 337 /\ DaysInto(3) = 0 /\ DaysOf(y, 2) = IF Leap(y) THEN 29 ELSE 28
      BY MonthsAre
    <3>2. DaysBefore(y) = DaysBefore(y - 1) + (IF Leap(y) THEN 366 ELSE 365)
      BY YearIsLong
    <3> QED
      BY <1>2, <1>3, <2>2, <2>3, <2>4, <2>5, <3>1, <3>2
  <2>6. CASE m # 2
    <3>1. DaysInto(m + 1) = DaysInto(m) + DaysOf(y, m) /\ DaysInto(m) \in Nat
      BY <1>6, <2>6, MonthsAre
    <3>2. m + 1 <= 2 <=> m <= 2
      BY <2>6
    <3> QED
      BY <1>2, <1>3, <2>2, <2>3, <2>4, <3>1, <3>2
  <2> QED
    BY <2>5, <2>6
<1>7. CASE ~ (a < DaysOf(y, m)) /\ ~ (m < 12)
  <2>1. m = 12 /\ a = 31
    BY <1>1, <1>7, MonthsAre
  <2>2. Tomorrow(d) = [year |-> y + 1, month |-> 1, day |-> 1]
    BY <1>1, <1>7 DEF Tomorrow
  <2>3. 1 \in 1 .. 12 /\ 1 \in 1 .. 31 /\ 1 <= DaysOf(y + 1, 1)
    BY MonthsAre
  <2>4. IsDate(Tomorrow(d))
    BY <2>2, <2>3 DEF IsDate
  <2>5. DayNumber(Tomorrow(d)) = DaysBefore((y + 1) - 1) + DaysInto(1) + 1 - 1
    <3>1. y + 1 \in Nat /\ 1 <= 2
      OBVIOUS
    <3>2. DayNumber([year |-> y + 1, month |-> 1, day |-> 1])
            = DaysBefore(IF 1 <= 2 THEN (y + 1) - 1 ELSE y + 1) + DaysInto(1) + 1 - 1
      BY ONLY <2>3, <3>1, DayNumberIs
    <3> QED
      BY <2>2, <3>1, <3>2
  <2>6. DaysInto(1) = DaysInto(12) + 31 /\ DaysInto(12) \in Nat /\ (y + 1) - 1 = y
    BY MonthsAre
  <2> QED
    BY <1>2, <1>3, <2>1, <2>4, <2>5, <2>6
<1> QED
  BY <1>5, <1>6, <1>7

(* mktime counts the days that have passed.                                *)
DaysCounted ==
  /\ IsDate(first) /\ IsDate(today) /\ days \in Nat
  /\ DayNumber(today) = DayNumber(first) + days

LEMMA DatesSubtractDaily == DateSpec => []DatesSubtract
<1>1. DateStart => DaysCounted
  <2> SUFFICES ASSUME DateStart PROVE DaysCounted
    OBVIOUS
  <2>1. IsDate(first) /\ today = first /\ days = 0
    BY CalendarAssumption DEF DateStart
  <2>2. DayNumber(first) \in Int
    BY <2>1 DEF IsDate, DayNumber, Fields, mktime
  <2> QED
    BY <2>1, <2>2 DEF DaysCounted
<1>2. DaysCounted /\ [NextDay]_datevars => DaysCounted'
  <2> SUFFICES ASSUME DaysCounted, [NextDay]_datevars PROVE DaysCounted'
    OBVIOUS
  <2>1. CASE NextDay
    <3>1. first' = first /\ today' = Tomorrow(today) /\ days' = days + 1
      BY <2>1 DEF NextDay
    <3>2. IsDate(Tomorrow(today)) /\ DayNumber(Tomorrow(today)) = DayNumber(today) + 1
      BY TomorrowCounts DEF DaysCounted
    <3>3. DayNumber(first) \in Int
      BY DEF DaysCounted, IsDate, DayNumber, Fields, mktime
    <3> QED
      BY <3>1, <3>2, <3>3 DEF DaysCounted
  <2>2. CASE UNCHANGED datevars
    BY <2>2 DEF DaysCounted, datevars
  <2> QED
    BY <2>1, <2>2
<1>3. DaysCounted => DatesSubtract
  <2> SUFFICES ASSUME DaysCounted, NEW l \in Written(today), NEW e \in Written(first)
               PROVE  wa_datediff(l, e) = days /\ wa_datediff(e, l) = -days
    BY DEF DatesSubtract
  <2>1. tm(FullDate(l)) = Fields(today) /\ tm(FullDate(e)) = Fields(first)
    BY WrittenIsRead DEF DaysCounted
  <2>2. DayNumber(first) \in Int
    BY DEF DaysCounted, IsDate, DayNumber, Fields, mktime
  <2>3. /\ wa_datediff(l, e) = DayNumber(today) - DayNumber(first)
        /\ wa_datediff(e, l) = DayNumber(first) - DayNumber(today)
    BY <2>1 DEF wa_datediff, DayNumber
  <2> QED
    BY <2>2, <2>3 DEF DaysCounted
<1> QED
  BY <1>1, <1>2, <1>3, PTL DEF DateSpec

(* Dates written either way differ by the days between them, from any      *)
(* first day on (wa_datediff).                                             *)
THEOREM DatesSubtractAlways == Spec => []DatesSubtract
<1>1. Init => DateStart
  BY DEF Init
<1>2. [Next]_vars => [NextDay]_datevars
  BY DEF Next, vars, datevars, CallMd5, CallSha1, LongerText, CallDate
<1> QED
  BY <1>1, <1>2, DatesSubtractDaily, PTL DEF Spec, DateSpec

-----------------------------------------------------------------------------
(* Sequences of sequences                                                  *)

(* r consists of the pieces ss[1] to ss[n], whose elements are in S, and    *)
(* ends[i] is where the i-th one ends.                                     *)
Consists(r, ss, n, ends, S) ==
  /\ n \in Nat /\ r \in Seq(S) /\ ss \in [1 .. n -> Seq(S)]
  /\ ends[0] = 0 /\ ends[n] = Len(r)
  /\ \A i \in 1 .. n :
       /\ ends[i] \in 0 .. Len(r) /\ ends[i] = ends[i - 1] + Len(ss[i])
       /\ \A j \in 1 .. Len(ss[i]) : r[ends[i - 1] + j] = ss[i][j]

Then(s, t) == s \o t

LEMMA PieceAdded ==
  ASSUME NEW S, NEW n, NEW ss, NEW r, NEW ends, Consists(r, ss, n, ends, S)
  PROVE  \A i \in 1 .. n : SubSeq(r, 1, ends[i]) = Then(SubSeq(r, 1, ends[i - 1]), ss[i])
<1> SUFFICES ASSUME NEW i \in 1 .. n
             PROVE  SubSeq(r, 1, ends[i]) = Then(SubSeq(r, 1, ends[i - 1]), ss[i])
  OBVIOUS
<1>0. n \in Nat /\ r \in Seq(S) /\ ss \in [1 .. n -> Seq(S)]
  BY DEF Consists
<1> DEFINE a == ends[i - 1]
           b == ends[i]
           k == Len(ss[i])
<1>1. k \in Nat /\ b = a + k /\ b \in 0 .. Len(r) /\ ss[i] \in Seq(S)
  BY <1>0 DEF Consists
<1>2. a \in 0 .. Len(r)
  <2>1. CASE i = 1
    BY <2>1 DEF Consists
  <2>2. CASE i # 1
    <3>1. i - 1 \in 1 .. n
      BY <1>0, <2>2
    <3> QED
      BY <3>1 DEF Consists
  <2> QED
    BY <2>1, <2>2
<1>3. \A j \in 1 .. k : r[a + j] = ss[i][j]
  BY DEF Consists
<1>4. Len(r) \in Nat
  BY <1>0
<1> HIDE DEF a, b, k
<1>5. /\ SubSeq(r, 1, a) \in Seq(S) /\ Len(SubSeq(r, 1, a)) = a
      /\ \A j \in 1 .. a : SubSeq(r, 1, a)[j] = r[j]
  BY <1>0, <1>2, <1>4
<1>6. /\ SubSeq(r, 1, b) \in Seq(S) /\ Len(SubSeq(r, 1, b)) = b
      /\ \A j \in 1 .. b : SubSeq(r, 1, b)[j] = r[j]
  BY <1>0, <1>1, <1>4
<1> DEFINE u == SubSeq(r, 1, a)
           w == ss[i]
           v == u \o w
<1>10. w \in Seq(S) /\ u \in Seq(S) /\ Len(w) = k /\ Len(u) = a
  BY <1>1, <1>5 DEF k
<1> HIDE DEF u, w
<1>7. /\ v \in Seq(S) /\ Len(v) = a + k
      /\ \A j \in 1 .. a + k : v[j] = IF j <= a THEN u[j] ELSE w[j - a]
  BY <1>10, ConcatProperties
<1>8. ASSUME NEW j \in 1 .. b PROVE SubSeq(r, 1, b)[j] = v[j]
  <2>1. CASE j <= a
    <3>1. j \in 1 .. a /\ j \in 1 .. a + k
      BY <1>1, <1>2, <1>8, <2>1
    <3> QED
      BY <1>5, <1>6, <1>7, <2>1, <3>1 DEF u
  <2>2. CASE ~ (j <= a)
    <3>1. j - a \in 1 .. k /\ j \in 1 .. a + k /\ a + (j - a) = j
      BY <1>1, <1>2, <1>8, <2>2
    <3>2. r[a + (j - a)] = ss[i][j - a]
      BY <1>3, <3>1
    <3> QED
      BY <1>6, <1>7, <2>2, <3>1, <3>2 DEF w
  <2> QED
    BY <2>1, <2>2
<1>9. SubSeq(r, 1, b) = v
  <2> HIDE DEF v
  <2> QED
    BY <1>1, <1>6, <1>7, <1>8, SeqEqual
<1> QED
  BY <1>9 DEF a, b, u, w, Then

(* FlattenSeq puts one piece behind the other.                             *)
LEMMA FlattenSteps ==
  ASSUME NEW S, NEW n \in Nat, NEW ss \in [1 .. n -> Seq(S)]
  PROVE  \E g \in [0 .. n -> Seq(S)] :
           /\ g[0] = << >> /\ FlattenSeq(ss) = g[n]
           /\ \A i \in 1 .. n : g[i] = Then(g[i - 1], ss[i])
<1> DEFINE step == [i \in 1 .. n |-> [s \in Seq(S) |-> Then(s, ss[i])]]
<1>1. step \in Steps(n, Seq(S))
  <2>1. \A i \in 1 .. n : \A s \in Seq(S) : Then(s, ss[i]) \in Seq(S)
    BY ConcatProperties DEF Then
  <2> QED
    BY <2>1 DEF Steps
<1>2. << >> \in Seq(S) /\ Len(ss) = n
  OBVIOUS
<1>3. \A i \in 1 .. n : \A s \in Seq(S) : step[i][s] = Then(s, ss[i])
  OBVIOUS
<1> HIDE DEF step
<1>4. \E g : Follows(g, n, Seq(S), << >>, step)
  BY <1>1, <1>2, Recursion
<1>5. PICK g \in [0 .. n -> Seq(S)] :
        g[0] = << >> /\ \A i \in 1 .. n : g[i] = step[i][g[i - 1]]
  BY <1>4 DEF Follows
<1>6. ASSUME NEW i \in 1 .. n PROVE g[i] = Then(g[i - 1], ss[i])
  <2>1. i - 1 \in 0 .. n
    OBVIOUS
  <2>2. g[i - 1] \in Seq(S)
    BY <1>5, <2>1
  <2> QED
    BY <1>3, <1>5, <2>2
<1>7. FlattenSeq(ss) = g[n]
  <2>1. CASE n = 0
    <3>1. ss = << >> /\ Len(ss) = 0
      BY <1>2, <2>1
    <3> QED
      BY <1>5, <2>1, <3>1 DEF FlattenSeq
  <2>2. CASE n # 0
    <3> DEFINE Eq(f) == f = [i \in 1 .. n |-> IF i = 1 THEN ss[i] ELSE Then(f[i - 1], ss[i])]
               h == [i \in 1 .. n |-> g[i]]
    <3>1. g[1] = ss[1]
      <4>1. 1 \in 1 .. n /\ 1 - 1 = 0
        BY <2>2
      <4>2. g[1] = Then(<< >>, ss[1]) /\ ss[1] \in Seq(S)
        BY <1>5, <1>6, <4>1
      <4> QED
        BY <4>2, ConcatEmptySeq DEF Then
    <3>2. ASSUME NEW i \in 1 .. n PROVE h[i] = IF i = 1 THEN ss[i] ELSE Then(h[i - 1], ss[i])
      <4>1. CASE i = 1
        BY <3>1, <4>1
      <4>2. CASE i # 1
        <5>1. i - 1 \in 1 .. n
          BY <4>2
        <5> QED
          BY <1>6, <4>2, <5>1
      <4> QED
        BY <4>1, <4>2
    <3>3. Eq(h)
      BY <3>2
    <3> DEFINE f == CHOOSE f_ : Eq(f_)
    <3>4. Eq(f)
      <4> HIDE DEF h
      <4> QED
        BY <3>3
    <3>5. FlattenSeq(ss) = f[n]
      BY <1>2, <2>2 DEF FlattenSeq, Then
    <3> HIDE DEF f, h
    <3> DEFINE T == {i \in 0 .. n : i = 0 \/ f[i] = g[i]}
    <3>6. ASSUME NEW i \in 1 .. n, i - 1 \in T PROVE i \in T
      <4>1. f[i] = IF i = 1 THEN ss[i] ELSE Then(f[i - 1], ss[i])
        BY <3>4
      <4>2. CASE i = 1
        BY <3>1, <4>1, <4>2
      <4>3. CASE i # 1
        <5>1. i - 1 # 0 /\ i \in 0 .. n
          BY <4>3
        <5>2. f[i - 1] = g[i - 1]
          BY <3>6, <5>1
        <5> QED
          BY <1>6, <4>1, <4>3, <5>1, <5>2
      <4> QED
        BY <4>2, <4>3
    <3>7. 0 \in T
      OBVIOUS
    <3> HIDE DEF T
    <3>8. \A i \in 0 .. n : i \in T
      BY <3>6, <3>7, UpTo
    <3>9. n \in T
      BY <3>8
    <3> QED
      BY <2>2, <3>5, <3>9 DEF T
  <2> QED
    BY <2>1, <2>2
<1> QED
  BY <1>5, <1>6, <1>7

(* To flatten ss is to find a sequence that consists of its members.       *)
LEMMA Flattened ==
  ASSUME NEW S, NEW n, NEW ss, NEW r, NEW ends, Consists(r, ss, n, ends, S)
  PROVE  FlattenSeq(ss) = r
<1>1. n \in Nat /\ r \in Seq(S) /\ ss \in [1 .. n -> Seq(S)]
  BY DEF Consists
<1>2. \A i \in 1 .. n : SubSeq(r, 1, ends[i]) = Then(SubSeq(r, 1, ends[i - 1]), ss[i])
  BY PieceAdded
<1>3. PICK g \in [0 .. n -> Seq(S)] :
        /\ g[0] = << >> /\ FlattenSeq(ss) = g[n]
        /\ \A i \in 1 .. n : g[i] = Then(g[i - 1], ss[i])
  BY <1>1, FlattenSteps
<1> DEFINE T == {i \in 0 .. n : g[i] = SubSeq(r, 1, ends[i])}
<1>4. 0 \in T
  <2>1. ends[0] = 0 /\ SubSeq(r, 1, 0) = << >>
    BY <1>1 DEF Consists
  <2> QED
    BY <1>1, <1>3, <2>1
<1>5. ASSUME NEW i \in 1 .. n, i - 1 \in T PROVE i \in T
  <2>1. i \in 0 .. n
    BY <1>1
  <2> QED
    BY <1>2, <1>3, <1>5, <2>1
<1> HIDE DEF T
<1>6. \A i \in 0 .. n : i \in T
  BY <1>1, <1>4, <1>5, UpTo
<1>7. n \in T /\ ends[n] = Len(r) /\ SubSeq(r, 1, Len(r)) = r
  BY <1>1, <1>6, SubSeqFull DEF Consists
<1> QED
  BY <1>3, <1>7 DEF T

-----------------------------------------------------------------------------
(* base16                                                                  *)

ByteRange == 0 .. 255

LEMMA BytesAre ==
  ASSUME NEW s \in Seq(ByteRange), NEW i \in 1 .. Len(s)
  PROVE  s[i] \in 0 .. 255 /\ s[i] \div 16 \in 0 .. 15 /\ s[i] % 16 \in 0 .. 15
<1>1. s[i] \in ByteRange
  OBVIOUS
<1>2. \A b \in 0 .. 255 : b \div 16 \in 0 .. 15 /\ b % 16 \in 0 .. 15
  OBVIOUS
<1> QED
  BY <1>1, <1>2 DEF ByteRange

(* A byte is read back from its two digits, however they are written.      *)
LEMMA DigitsRead ==
  ASSUME NEW n \in 0 .. 15
  PROVE  /\ tohex(n) \in 48 .. 102 /\ chtonum(tohex(n)) = n
         /\ chtonum(IF tohex(n) >= 97 THEN tohex(n) - 32 ELSE tohex(n)) = n
<1>1. CASE n < 10
  BY <1>1 DEF tohex, chtonum
<1>2. CASE ~ (n < 10)
  BY <1>2 DEF tohex, chtonum
<1> QED
  BY <1>1, <1>2

LEMMA HexIs ==
  ASSUME NEW s \in Seq(ByteRange)
  PROVE  wa_base16enc(s) =
           [x \in 1 .. 2 * Len(s) |->
              tohex(IF x % 2 = 1 THEN s[(x + 1) \div 2] \div 16 ELSE s[x \div 2] % 16)]
<1> DEFINE n == Len(s)
           ss == [i \in DOMAIN s |-> <<tohex(s[i] \div 16), tohex(s[i] % 16)>>]
           r == [x \in 1 .. 2 * n |->
                   tohex(IF x % 2 = 1 THEN s[(x + 1) \div 2] \div 16 ELSE s[x \div 2] % 16)]
           ends == [i \in 0 .. n |-> 2 * i]
<1>1. n \in Nat /\ DOMAIN s = 1 .. n
  OBVIOUS
<1>2. \A i \in 1 .. n : s[i] \div 16 \in 0 .. 15 /\ s[i] % 16 \in 0 .. 15
  BY BytesAre
<1>4. ASSUME NEW k \in 0 .. 15 PROVE tohex(k) \in ByteRange
  <2>1. tohex(k) \in 48 .. 102
    BY DigitsRead
  <2> QED
    BY <2>1 DEF ByteRange
<1> HIDE DEF n
<1>5. \A i \in 1 .. n : tohex(s[i] \div 16) \in ByteRange /\ tohex(s[i] % 16) \in ByteRange
  BY <1>2, <1>4
<1>6. /\ ss \in [1 .. n -> Seq(ByteRange)]
      /\ \A i \in 1 .. n : /\ ss[i] = <<tohex(s[i] \div 16), tohex(s[i] % 16)>>
                           /\ Len(ss[i]) = 2
  BY <1>1, <1>5
<1>7. r \in Seq(ByteRange) /\ Len(r) = 2 * n
  <2>1. ASSUME NEW x \in 1 .. 2 * n PROVE r[x] \in ByteRange
    <3>1. CASE x % 2 = 1
      <4>1. (x + 1) \div 2 \in 1 .. n
        BY <1>1, <3>1
      <4> QED
        BY <1>5, <3>1, <4>1
    <3>2. CASE x % 2 # 1
      <4>1. x \div 2 \in 1 .. n
        BY <1>1, <3>2
      <4> QED
        BY <1>5, <3>2, <4>1
    <3> QED
      BY <3>1, <3>2
  <2> QED
    BY <1>1, <2>1
<1>8. ASSUME NEW i \in 1 .. n
      PROVE  /\ r[2 * i - 1] = tohex(s[i] \div 16) /\ r[2 * i] = tohex(s[i] % 16)
             /\ ends[i - 1] + 1 = 2 * i - 1 /\ ends[i - 1] + 2 = 2 * i /\ ends[i] = 2 * i
  <2>1. /\ 2 * i - 1 \in 1 .. 2 * n /\ (2 * i - 1) % 2 = 1 /\ ((2 * i - 1) + 1) \div 2 = i
        /\ 2 * i \in 1 .. 2 * n /\ (2 * i) % 2 # 1 /\ (2 * i) \div 2 = i
        /\ i \in 0 .. n /\ i - 1 \in 0 .. n
    BY <1>1
  <2> QED
    BY <2>1
<1> HIDE DEF ss, r
<1>9. Consists(r, ss, n, ends, ByteRange)
  <2>1. ends[0] = 0 /\ ends[n] = 2 * n
    BY <1>1
  <2>2. ASSUME NEW i \in 1 .. n
        PROVE  /\ ends[i] \in 0 .. Len(r) /\ ends[i] = ends[i - 1] + Len(ss[i])
               /\ \A j \in 1 .. Len(ss[i]) : r[ends[i - 1] + j] = ss[i][j]
    <3>1. ends[i] \in 0 .. Len(r) /\ ends[i] = ends[i - 1] + Len(ss[i])
      <4>1. ends[i] = 2 * i /\ ends[i - 1] + 2 = 2 * i /\ Len(ss[i]) = 2
        BY <1>6, <1>8
      <4>2. ends[i - 1] = 2 * (i - 1)
        BY <1>1
      <4> HIDE DEF ends
      <4> QED
        BY <1>1, <1>7, <4>1, <4>2
    <3>2. ASSUME NEW j \in 1 .. 2 PROVE r[ends[i - 1] + j] = ss[i][j]
      <4>1. j = 1 \/ j = 2
        OBVIOUS
      <4> HIDE DEF ends
      <4> QED
        BY <1>6, <1>8, <4>1
    <3> QED
      BY <1>6, <3>1, <3>2
  <2> HIDE DEF ends
  <2> QED
    BY <1>1, <1>6, <1>7, <2>1, <2>2 DEF Consists
<1> HIDE DEF ends
<1>10. FlattenSeq(ss) = r
  BY <1>9, Flattened
<1> QED
  BY <1>10 DEF wa_base16enc, ss, r, n

(* What has the digits of s is decoded to s.                               *)
LEMMA HexRead ==
  ASSUME NEW s \in Seq(ByteRange), NEW h, DOMAIN h = 1 .. 2 * Len(s), Len(h) = 2 * Len(s),
         \A i \in 1 .. Len(s) : /\ chtonum(h[2 * i - 1]) = s[i] \div 16
                                /\ chtonum(h[2 * i]) = s[i] % 16
  PROVE  wa_base16dec(h) = s
<1>1. Len(s) \in Nat /\ (2 * Len(s)) % 2 = 0 /\ (2 * Len(s)) \div 2 = Len(s)
  OBVIOUS
<1>2. wa_base16dec(h) = [i \in 1 .. Len(s) |-> chtonum(h[2 * i - 1]) * 16 + chtonum(h[2 * i])]
  BY <1>1 DEF wa_base16dec
<1>3. ASSUME NEW i \in 1 .. Len(s)
      PROVE  chtonum(h[2 * i - 1]) * 16 + chtonum(h[2 * i]) = s[i]
  <2>1. s[i] \in 0 .. 255
    BY BytesAre
  <2>2. ASSUME NEW b \in 0 .. 255 PROVE (b \div 16) * 16 + (b % 16) = b
    OBVIOUS
  <2> QED
    BY <2>1, <2>2
<1>4. s = [i \in 1 .. Len(s) |-> s[i]]
  OBVIOUS
<1> QED
  BY <1>2, <1>3, <1>4

(* base16 gives back every text, and whatever the case of the digits.      *)
LEMMA HexInverts ==
  ASSUME NEW s \in Seq(ByteRange)
  PROVE  LET hex == wa_base16enc(s)
             UpperCase == [i \in DOMAIN hex |-> IF hex[i] >= 97 THEN hex[i] - 32 ELSE hex[i]]
         IN wa_base16dec(hex) = s /\ wa_base16dec(UpperCase) = s
<1> DEFINE hex == wa_base16enc(s)
           upper == [i \in DOMAIN hex |-> IF hex[i] >= 97 THEN hex[i] - 32 ELSE hex[i]]
           n == Len(s)
<1>0. n \in Nat
  OBVIOUS
<1>1. /\ DOMAIN hex = 1 .. 2 * n /\ Len(hex) = 2 * n
      /\ \A x \in 1 .. 2 * n :
           hex[x] = tohex(IF x % 2 = 1 THEN s[(x + 1) \div 2] \div 16 ELSE s[x \div 2] % 16)
  BY <1>0, HexIs
<1> HIDE DEF hex, n
<1>2. /\ DOMAIN upper = 1 .. 2 * n /\ Len(upper) = 2 * n
      /\ \A x \in 1 .. 2 * n : upper[x] = IF hex[x] >= 97 THEN hex[x] - 32 ELSE hex[x]
  BY <1>0, <1>1
<1> HIDE DEF upper
<1>3. ASSUME NEW i \in 1 .. n
      PROVE  /\ chtonum(hex[2 * i - 1]) = s[i] \div 16 /\ chtonum(hex[2 * i]) = s[i] % 16
             /\ chtonum(upper[2 * i - 1]) = s[i] \div 16 /\ chtonum(upper[2 * i]) = s[i] % 16
  <2>1. /\ 2 * i - 1 \in 1 .. 2 * n /\ (2 * i - 1) % 2 = 1 /\ ((2 * i - 1) + 1) \div 2 = i
        /\ 2 * i \in 1 .. 2 * n /\ (2 * i) % 2 # 1 /\ (2 * i) \div 2 = i
    BY <1>0
  <2>2. hex[2 * i - 1] = tohex(s[i] \div 16) /\ hex[2 * i] = tohex(s[i] % 16)
    BY <1>1, <2>1
  <2>4. s[i] \div 16 \in 0 .. 15 /\ s[i] % 16 \in 0 .. 15
    BY BytesAre DEF n
  <2> QED
    BY <1>2, <2>1, <2>2, <2>4, DigitsRead
<1> QED
  BY <1>1, <1>2, <1>3, HexRead DEF hex, upper, n

-----------------------------------------------------------------------------
(* base64                                                                  *)

(* strlen's text is the beginning of the text.                             *)
LEMMA CStringIs ==
  ASSUME NEW text_ \in Seq(ByteRange)
  PROVE  CString(text_) \in Seq(ByteRange) /\ Len(CString(text_)) <= Len(text_)
<1> DEFINE I == {i \in 1 .. Len(text_) : text_[i] = 0}
           zero == SelectInSeq(text_, LAMBDA b : b = 0)
<1>1. zero = IF I # {} THEN Min(I) ELSE 0
  BY DEF SelectInSeq
<1>2. zero \in 0 .. Len(text_)
  <2>1. CASE I = {}
    BY <1>1, <2>1
  <2>2. CASE I # {}
    <3>1. I \subseteq Nat /\ I \subseteq 0 .. Len(text_)
      OBVIOUS
    <3> HIDE DEF I
    <3>2. \E m \in I : \A k \in I : m <= k
      BY <2>2, <3>1, LeastNumber
    <3>3. Min(I) \in I
      BY <3>2 DEF Min
    <3> QED
      BY <1>1, <2>2, <3>1, <3>3
  <2> QED
    BY <2>1, <2>2
<1> HIDE DEF I, zero
<1>3. CString(text_) = IF zero = 0 THEN text_ ELSE SubSeq(text_, 1, zero - 1)
  BY DEF CString, zero
<1>4. CASE zero = 0
  BY <1>3, <1>4
<1>5. CASE zero # 0
  <2>1. zero - 1 \in 0 .. Len(text_)
    BY <1>2, <1>5
  <2>2. SubSeq(text_, 1, zero - 1) \in Seq(ByteRange) /\ Len(SubSeq(text_, 1, zero - 1)) = zero - 1
    BY <2>1
  <2> QED
    BY <1>3, <1>5, <2>1, <2>2
<1> QED
  BY <1>4, <1>5

(* The four characters for the bytes that follow the first i ones of c.    *)
ByteAt(c, i) == IF i < Len(c) THEN c[i + 1] ELSE 0
GroupAt(c, i) ==
  << ByteAt(c, i) \div 4,
     (ByteAt(c, i) % 4) * 16 + ByteAt(c, i + 1) \div 16,
     IF i + 1 < Len(c) THEN (ByteAt(c, i + 1) % 16) * 4 + ByteAt(c, i + 2) \div 64 ELSE Pad,
     IF i + 2 < Len(c) THEN ByteAt(c, i + 2) % 64 ELSE Pad >>

LEMMA GroupTyped ==
  ASSUME NEW c \in Seq(ByteRange), NEW i \in Nat
  PROVE  /\ ByteAt(c, i) \in 0 .. 255
         /\ GroupAt(c, i) \in Seq(ByteRange) /\ Len(GroupAt(c, i)) = 4
         /\ \A j \in 1 .. 4 : GroupAt(c, i)[j] \in 0 .. 64
<1>1. ASSUME NEW k \in Nat PROVE ByteAt(c, k) \in 0 .. 255
  <2>1. CASE k < Len(c)
    <3>1. k + 1 \in 1 .. Len(c)
      BY <2>1
    <3> QED
      BY <2>1, <3>1, BytesAre DEF ByteAt
  <2>2. CASE ~ (k < Len(c))
    BY <2>2 DEF ByteAt
  <2> QED
    BY <2>1, <2>2
<1>2. ByteAt(c, i) \in 0 .. 255 /\ ByteAt(c, i + 1) \in 0 .. 255 /\ ByteAt(c, i + 2) \in 0 .. 255
  BY <1>1
<1>4. Pad \in 0 .. 64
  BY DEF Pad
<1>5. \E p, q, u, v \in 0 .. 64 : GroupAt(c, i) = <<p, q, u, v>>
  <2> DEFINE a == ByteAt(c, i)
             b == ByteAt(c, i + 1)
             d == ByteAt(c, i + 2)
             p == a \div 4
             q == (a % 4) * 16 + b \div 16
             u == IF i + 1 < Len(c) THEN (b % 16) * 4 + d \div 64 ELSE Pad
             v == IF i + 2 < Len(c) THEN d % 64 ELSE Pad
  <2>1. GroupAt(c, i) = <<p, q, u, v>>
    BY DEF GroupAt
  <2>2. a \in 0 .. 255 /\ b \in 0 .. 255 /\ d \in 0 .. 255
    BY <1>2
  <2> HIDE DEF a, b, d
  <2>3. p \in 0 .. 64 /\ q \in 0 .. 64 /\ (b % 16) * 4 + d \div 64 \in 0 .. 64 /\ d % 64 \in 0 .. 64
    BY <2>2
  <2>4. u \in 0 .. 64 /\ v \in 0 .. 64
    BY <1>4, <2>3
  <2> HIDE DEF p, q, u, v
  <2> QED
    BY <2>1, <2>3, <2>4
<1>6. PICK p, q, u, v \in 0 .. 64 : GroupAt(c, i) = <<p, q, u, v>>
  BY <1>5
<1>7. p \in ByteRange /\ q \in ByteRange /\ u \in ByteRange /\ v \in ByteRange
  BY DEF ByteRange
<1>8. \A j \in 1 .. 4 : j = 1 \/ j = 2 \/ j = 3 \/ j = 4
  OBVIOUS
<1> QED
  BY <1>2, <1>6, <1>7, <1>8

LEMMA Base64Is ==
  ASSUME NEW text_ \in Seq(ByteRange), NEW c, c = CString(text_), NEW n, n = (Len(c) + 2) \div 3
  PROVE  wa_base64enc(text_) = [x \in 1 .. 4 * n |-> GroupAt(c, 3 * ((x - 1) \div 4))[((x - 1) % 4) + 1]]
<1> DEFINE ss == [g \in 1 .. n |-> GroupAt(c, 3 * (g - 1))]
           r == [x \in 1 .. 4 * n |-> GroupAt(c, 3 * ((x - 1) \div 4))[((x - 1) % 4) + 1]]
           ends == [g \in 0 .. n |-> 4 * g]
<1>1. c \in Seq(ByteRange) /\ n \in Nat
  <2>1. c \in Seq(ByteRange)
    BY CStringIs
  <2>2. Len(c) \in Nat
    BY <2>1
  <2> QED
    BY <2>1, <2>2
<1>2. wa_base64enc(text_) = FlattenSeq(ss)
  BY DEF wa_base64enc, GroupAt, ByteAt
<1>3. /\ ss \in [1 .. n -> Seq(ByteRange)]
      /\ \A g \in 1 .. n : ss[g] = GroupAt(c, 3 * (g - 1)) /\ Len(ss[g]) = 4
  <2>1. \A g \in 1 .. n : 3 * (g - 1) \in Nat
    BY <1>1
  <2> QED
    BY <1>1, <2>1, GroupTyped
<1>4. r \in Seq(ByteRange) /\ Len(r) = 4 * n
  <2>1. ASSUME NEW x \in 1 .. 4 * n PROVE r[x] \in ByteRange
    <3>1. 3 * ((x - 1) \div 4) \in Nat /\ ((x - 1) % 4) + 1 \in 1 .. 4
      BY <1>1
    <3>2. GroupAt(c, 3 * ((x - 1) \div 4))[((x - 1) % 4) + 1] \in 0 .. 64
      BY <1>1, <3>1, GroupTyped
    <3> QED
      BY <3>2 DEF ByteRange
  <2> QED
    BY <1>1, <2>1
<1>5. ASSUME NEW g \in 1 .. n, NEW j \in 1 .. 4
      PROVE  r[4 * (g - 1) + j] = ss[g][j]
  <2>1. /\ 4 * (g - 1) + j \in 1 .. 4 * n
        /\ ((4 * (g - 1) + j) - 1) \div 4 = g - 1 /\ ((4 * (g - 1) + j) - 1) % 4 = j - 1
        /\ (j - 1) + 1 = j
    BY <1>1
  <2> QED
    BY <1>3, <2>1
<1> HIDE DEF ss, r
<1>6. ends[0] = 0 /\ ends[n] = 4 * n
  BY <1>1
<1>7. ASSUME NEW g \in 1 .. n
      PROVE  ends[g] = 4 * g /\ ends[g - 1] = 4 * (g - 1) /\ ends[g] \in 0 .. 4 * n
  <2>1. g \in 0 .. n /\ g - 1 \in 0 .. n
    BY <1>1
  <2> QED
    BY <1>1, <2>1
<1> HIDE DEF ends
<1>8. Consists(r, ss, n, ends, ByteRange)
  <2>1. ASSUME NEW g \in 1 .. n
        PROVE  /\ ends[g] \in 0 .. Len(r) /\ ends[g] = ends[g - 1] + Len(ss[g])
               /\ \A j \in 1 .. Len(ss[g]) : r[ends[g - 1] + j] = ss[g][j]
    <3>1. Len(ss[g]) = 4
      BY <1>3
    <3>2. ends[g] = ends[g - 1] + Len(ss[g])
      BY <1>1, <1>7, <3>1
    <3>3. \A j \in 1 .. 4 : r[ends[g - 1] + j] = ss[g][j]
      BY <1>5, <1>7
    <3> QED
      BY <1>4, <1>7, <3>1, <3>2, <3>3
  <2> QED
    BY <1>1, <1>3, <1>4, <1>6, <2>1 DEF Consists
<1>9. FlattenSeq(ss) = r
  BY <1>8, Flattened
<1> QED
  BY <1>2, <1>9 DEF r

(* Four characters are taken apart to the bytes they were made of.         *)
SixBits(n) == num_strchr(n) % 64

LEMMA SixBitsAre ==
  ASSUME NEW n \in 0 .. 65
  PROVE  SixBits(n) \in 0 .. 63 /\ (n # Pad /\ n < 64 => SixBits(n) = n)
  BY DEF SixBits, num_strchr, Pad

BytesOf(p, q, u, v) ==
  LET a == SixBits(p) * 4 + SixBits(q) \div 16
      b == (SixBits(q) % 16) * 16 + SixBits(u) \div 4
      d == (SixBits(u) % 4) * 64 + SixBits(v)
  IN IF u = Pad THEN <<a>> ELSE IF v = Pad THEN <<a, b>> ELSE <<a, b, d>>

LEMMA UngroupedIs ==
  ASSUME NEW p \in 0 .. 65, NEW q \in 0 .. 65, NEW u \in 0 .. 65, NEW v \in 0 .. 65
  PROVE  /\ Ungrouped(<<p, q, u, v>>) = BytesOf(p, q, u, v)
         /\ BytesOf(p, q, u, v) \in Seq(ByteRange)
         /\ Len(BytesOf(p, q, u, v)) \in 1 .. 3
<1> DEFINE trans == [k \in 1 .. 4 |-> num_strchr(<<p, q, u, v>>[k]) % 64]
<1>1. /\ trans[1] = SixBits(p) /\ trans[2] = SixBits(q)
      /\ trans[3] = SixBits(u) /\ trans[4] = SixBits(v)
  BY DEF SixBits
<1>2. /\ SixBits(p) \in 0 .. 63 /\ SixBits(q) \in 0 .. 63
      /\ SixBits(u) \in 0 .. 63 /\ SixBits(v) \in 0 .. 63
  BY SixBitsAre
<1>3. Ungrouped(<<p, q, u, v>>) =
        LET first_ == trans[1] * 4 + trans[2] \div 16
            second == (trans[2] % 16) * 16 + trans[3] \div 4
            third == (trans[3] % 4) * 64 + trans[4]
        IN IF u = Pad THEN <<first_>> ELSE IF v = Pad THEN <<first_, second>>
           ELSE <<first_, second, third>>
  BY DEF Ungrouped
<1> HIDE DEF trans
<1>4. /\ SixBits(p) * 4 + SixBits(q) \div 16 \in 0 .. 255
      /\ (SixBits(q) % 16) * 16 + SixBits(u) \div 4 \in 0 .. 255
      /\ (SixBits(u) % 4) * 64 + SixBits(v) \in 0 .. 255
  BY <1>2
<1>5. PICK a, b, d \in ByteRange :
        /\ a = SixBits(p) * 4 + SixBits(q) \div 16
        /\ b = (SixBits(q) % 16) * 16 + SixBits(u) \div 4
        /\ d = (SixBits(u) % 4) * 64 + SixBits(v)
  BY <1>4 DEF ByteRange
<1>6. BytesOf(p, q, u, v) = IF u = Pad THEN <<a>> ELSE IF v = Pad THEN <<a, b>> ELSE <<a, b, d>>
  BY <1>5 DEF BytesOf
<1>7. Ungrouped(<<p, q, u, v>>) = BytesOf(p, q, u, v)
  BY <1>1, <1>3, <1>5, <1>6
<1>8. BytesOf(p, q, u, v) \in Seq(ByteRange) /\ Len(BytesOf(p, q, u, v)) \in 1 .. 3
  BY <1>5, <1>6
<1> QED
  BY <1>7, <1>8

LEMMA GroupRead ==
  ASSUME NEW c \in Seq(ByteRange), NEW i \in Nat, i < Len(c)
  PROVE  Ungrouped(GroupAt(c, i)) =
           IF i + 1 < Len(c) THEN IF i + 2 < Len(c) THEN <<c[i + 1], c[i + 2], c[i + 3]>>
                                  ELSE <<c[i + 1], c[i + 2]>>
           ELSE <<c[i + 1]>>
<1> DEFINE a == ByteAt(c, i)
           b == ByteAt(c, i + 1)
           d == ByteAt(c, i + 2)
           p == a \div 4
           q == (a % 4) * 16 + b \div 16
           u == IF i + 1 < Len(c) THEN (b % 16) * 4 + d \div 64 ELSE Pad
           v == IF i + 2 < Len(c) THEN d % 64 ELSE Pad
<1>0. i + 1 \in Nat /\ i + 2 \in Nat
  OBVIOUS
<1>1. GroupAt(c, i) = <<p, q, u, v>>
  BY DEF GroupAt
<1>2. a \in 0 .. 255 /\ b \in 0 .. 255 /\ d \in 0 .. 255
  BY <1>0, GroupTyped
<1>3. /\ a = c[i + 1] /\ (i + 1 < Len(c) => b = c[i + 2]) /\ (i + 2 < Len(c) => d = c[i + 3])
      /\ (~ (i + 1 < Len(c)) => b = 0) /\ (~ (i + 2 < Len(c)) => d = 0)
  BY DEF ByteAt
<1>4. /\ p = a \div 4 /\ q = (a % 4) * 16 + b \div 16
      /\ i + 1 < Len(c) => u = (b % 16) * 4 + d \div 64
      /\ ~ (i + 1 < Len(c)) => u = 64
      /\ i + 2 < Len(c) => v = d % 64
      /\ ~ (i + 2 < Len(c)) => v = 64
  BY DEF Pad
<1> HIDE DEF a, b, d, p, q, u, v
<1>5. p \in 0 .. 63 /\ q \in 0 .. 63 /\ SixBits(p) = p /\ SixBits(q) = q
  <2>1. p \in 0 .. 63 /\ q \in 0 .. 63
    BY <1>2, <1>4
  <2>2. p \in 0 .. 65 /\ q \in 0 .. 65 /\ p # Pad /\ q # Pad /\ p < 64 /\ q < 64
    BY <2>1 DEF Pad
  <2> QED
    BY <2>1, <2>2, SixBitsAre
<1>6. p * 4 + q \div 16 = a
  BY <1>2, <1>4
<1>9. \A k \in 0 .. 63 : k \in 0 .. 65
  OBVIOUS
<1>10. ASSUME u \in 0 .. 65, v \in 0 .. 65
      PROVE  Ungrouped(<<p, q, u, v>>) = BytesOf(p, q, u, v)
  <2>1. p \in 0 .. 65 /\ q \in 0 .. 65
    BY <1>5, <1>9
  <2> QED
    BY <1>10, <2>1, UngroupedIs
<1>7. CASE i + 1 < Len(c)
  <2>1. u = (b % 16) * 4 + d \div 64
    BY <1>4, <1>7
  <2>2. u \in 0 .. 63
    BY <1>2, <2>1
  <2>3. (q % 16) * 16 + u \div 4 = b
    BY <1>2, <1>4, <2>1
  <2>4. u \in 0 .. 65 /\ u # Pad /\ u < 64 /\ p \in 0 .. 65 /\ q \in 0 .. 65
    BY <1>5, <2>2 DEF Pad
  <2>5. SixBits(u) = u
    BY <2>4, SixBitsAre
  <2>6. CASE i + 2 < Len(c)
    <3>1. v = d % 64
      BY <1>4, <2>6
    <3>2. v \in 0 .. 63 /\ (u % 4) * 64 + v = d
      BY <1>2, <2>1, <3>1
    <3>3. v \in 0 .. 65 /\ v # Pad /\ v < 64
      BY <3>2 DEF Pad
    <3>4. SixBits(v) = v
      BY <3>3, SixBitsAre
    <3>5. Ungrouped(<<p, q, u, v>>) = <<a, b, d>>
      BY <1>5, <1>6, <1>10, <2>3, <2>4, <2>5, <3>2, <3>3, <3>4 DEF BytesOf
    <3> QED
      BY <1>1, <1>3, <1>7, <2>6, <3>5
  <2>7. CASE ~ (i + 2 < Len(c))
    <3>1. v = Pad /\ v \in 0 .. 65
      BY <1>4, <2>7 DEF Pad
    <3>2. Ungrouped(<<p, q, u, v>>) = <<a, b>>
      BY <1>5, <1>6, <1>10, <2>3, <2>4, <2>5, <3>1 DEF BytesOf
    <3> QED
      BY <1>1, <1>3, <1>7, <2>7, <3>2
  <2> QED
    BY <2>6, <2>7
<1>8. CASE ~ (i + 1 < Len(c))
  <2>1. ~ (i + 2 < Len(c))
    BY <1>8
  <2>2. u = 64 /\ v = 64
    BY <1>4, <1>8, <2>1
  <2>3. u = Pad /\ u \in 0 .. 65 /\ v \in 0 .. 65
    BY <2>2 DEF Pad
  <2>4. Ungrouped(<<p, q, u, v>>) = <<a>>
    BY <1>5, <1>6, <1>10, <2>3 DEF BytesOf
  <2> QED
    BY <1>1, <1>3, <1>8, <2>4
<1> QED
  BY <1>7, <1>8

(* What base64 makes of a text gives it back, up to its first zero, and    *)
(* has room where Lua writes it.                                           *)
LEMMA Base64Inverts ==
  ASSUME NEW text_ \in Seq(ByteRange)
  PROVE  /\ wa_base64dec(wa_base64enc(text_)) = CString(text_)
         /\ Len(wa_base64enc(text_)) < b64encRoom(Len(text_))
         /\ Len(wa_base64enc(text_)) % 4 = 0
<1> DEFINE c == CString(text_)
           n == (Len(c) + 2) \div 3
           r == wa_base64enc(text_)
           ss == [g \in 1 .. n |-> Ungrouped(SubSeq(r, 4 * g - 3, 4 * g))]
           ends == [g \in 0 .. n |-> IF 3 * g <= Len(c) THEN 3 * g ELSE Len(c)]
<1>1. c \in Seq(ByteRange) /\ Len(c) \in Nat /\ Len(c) <= Len(text_)
  BY CStringIs
<1>2. r = [x \in 1 .. 4 * n |-> GroupAt(c, 3 * ((x - 1) \div 4))[((x - 1) % 4) + 1]]
  BY Base64Is
<1> HIDE DEF c, r
<1>3. n \in Nat /\ Len(c) <= 3 * n /\ 3 * n < Len(c) + 3
  BY <1>1
<1> HIDE DEF n
<1>4. Len(r) = 4 * n /\ r \in Seq(ByteRange)
  <2>1. ASSUME NEW x \in 1 .. 4 * n PROVE r[x] \in ByteRange
    <3>1. 3 * ((x - 1) \div 4) \in Nat /\ ((x - 1) % 4) + 1 \in 1 .. 4
      BY <1>3
    <3>2. GroupAt(c, 3 * ((x - 1) \div 4))[((x - 1) % 4) + 1] \in 0 .. 64
      BY <1>1, <3>1, GroupTyped
    <3> QED
      BY <1>2, <3>2 DEF ByteRange
  <2> QED
    BY <1>2, <1>3, <2>1
<1>5. Len(r) % 4 = 0 /\ Len(r) \div 4 = n /\ Len(r) < b64encRoom(Len(text_))
  <2>1. Len(text_) \in Nat
    OBVIOUS
  <2> QED
    BY <1>1, <1>3, <1>4, <2>1 DEF b64encRoom
<1>6. wa_base64dec(r) = FlattenSeq(ss)
  BY <1>5 DEF wa_base64dec
<1>7. ASSUME NEW g \in 1 .. n PROVE SubSeq(r, 4 * g - 3, 4 * g) = GroupAt(c, 3 * (g - 1))
  <2> DEFINE s == SubSeq(r, 4 * g - 3, 4 * g)
             t == GroupAt(c, 3 * (g - 1))
  <2>0. /\ 4 * g - 3 \in 1 .. Len(r) /\ 4 * g \in 1 .. Len(r) /\ 4 * g - (4 * g - 3) + 1 = 4
        /\ 3 * (g - 1) \in Nat
    BY <1>3, <1>4
  <2>1. s \in Seq(ByteRange) /\ Len(s) = 4 /\ \A j \in 1 .. 4 : s[j] = r[4 * g - 3 + j - 1]
    BY <1>4, <2>0
  <2>2. t \in Seq(ByteRange) /\ Len(t) = 4
    BY <1>1, <2>0, GroupTyped
  <2> HIDE DEF s
  <2>3. ASSUME NEW j \in 1 .. 4 PROVE s[j] = t[j]
    <3>1. /\ 4 * g - 3 + j - 1 \in 1 .. 4 * n /\ ((4 * g - 3 + j - 1) - 1) \div 4 = g - 1
          /\ ((4 * g - 3 + j - 1) - 1) % 4 = j - 1 /\ (j - 1) + 1 = j
      BY <1>3
    <3> QED
      BY <1>2, <2>1, <3>1
  <2> HIDE DEF t
  <2>4. s = t
    BY <2>1, <2>2, <2>3, SeqEqual
  <2> QED
    BY <2>4 DEF s, t
<1>8. ASSUME NEW g \in 1 .. n
      PROVE  LET i == 3 * (g - 1)
             IN ss[g] = IF i + 1 < Len(c)
                        THEN IF i + 2 < Len(c) THEN <<c[i + 1], c[i + 2], c[i + 3]>>
                             ELSE <<c[i + 1], c[i + 2]>>
                        ELSE <<c[i + 1]>>
  <2> DEFINE i == 3 * (g - 1)
  <2>1. i \in Nat /\ i < Len(c)
    BY <1>1, <1>3
  <2>2. ss[g] = Ungrouped(GroupAt(c, i))
    BY <1>7
  <2> HIDE DEF i, ss
  <2>3. ss[g] = IF i + 1 < Len(c)
                THEN IF i + 2 < Len(c) THEN <<c[i + 1], c[i + 2], c[i + 3]>>
                     ELSE <<c[i + 1], c[i + 2]>>
                ELSE <<c[i + 1]>>
    BY <1>1, <2>1, <2>2, GroupRead
  <2> QED
    BY <2>3 DEF i
<1>9. DOMAIN ss = 1 .. n /\ ss = [g \in 1 .. n |-> ss[g]]
  OBVIOUS
<1> HIDE DEF ss
<1>10. ASSUME NEW g \in 1 .. n
       PROVE  /\ ss[g] \in Seq(ByteRange) /\ ends[g] \in 0 .. Len(c)
              /\ ends[g] = ends[g - 1] + Len(ss[g])
              /\ \A j \in 1 .. Len(ss[g]) : c[ends[g - 1] + j] = ss[g][j]
  <2> DEFINE i == 3 * (g - 1)
  <2>1. i \in Nat /\ i < Len(c) /\ g \in 0 .. n /\ g - 1 \in 0 .. n
    BY <1>1, <1>3
  <2>2. ends[g - 1] = i /\ ends[g] = IF i + 3 <= Len(c) THEN i + 3 ELSE Len(c)
    BY <1>1, <2>1
  <2>3. ss[g] = IF i + 1 < Len(c)
                THEN IF i + 2 < Len(c) THEN <<c[i + 1], c[i + 2], c[i + 3]>>
                     ELSE <<c[i + 1], c[i + 2]>>
                ELSE <<c[i + 1]>>
    BY <1>8
  <2> HIDE DEF i, ends
  <2>4. c[i + 1] \in ByteRange
    <3>1. i + 1 \in 1 .. Len(c)
      BY <1>1, <2>1
    <3> QED
      BY <1>1, <3>1
  <2>5. CASE i + 2 < Len(c)
    <3>1. i + 2 \in 1 .. Len(c) /\ i + 3 \in 1 .. Len(c) /\ i + 1 < Len(c) /\ i + 3 <= Len(c)
      BY <1>1, <2>1, <2>5
    <3>2. ss[g] = <<c[i + 1], c[i + 2], c[i + 3]>> /\ ends[g] = i + 3
      BY <2>2, <2>3, <2>5, <3>1
    <3>3. c[i + 2] \in ByteRange /\ c[i + 3] \in ByteRange
      BY <1>1, <3>1
    <3>4. \A j \in 1 .. 3 : j = 1 \/ j = 2 \/ j = 3
      OBVIOUS
    <3> QED
      BY <1>1, <2>1, <2>2, <2>4, <3>1, <3>2, <3>3, <3>4
  <2>6. CASE ~ (i + 2 < Len(c)) /\ i + 1 < Len(c)
    <3>1. i + 2 \in 1 .. Len(c) /\ ~ (i + 3 <= Len(c)) /\ Len(c) = i + 2
      BY <1>1, <2>1, <2>6
    <3>2. ss[g] = <<c[i + 1], c[i + 2]>> /\ ends[g] = i + 2
      BY <2>2, <2>3, <2>6, <3>1
    <3>3. c[i + 2] \in ByteRange
      BY <1>1, <3>1
    <3>4. \A j \in 1 .. 2 : j = 1 \/ j = 2
      OBVIOUS
    <3> QED
      BY <1>1, <2>1, <2>2, <2>4, <3>1, <3>2, <3>3, <3>4
  <2>7. CASE ~ (i + 1 < Len(c))
    <3>1. ~ (i + 3 <= Len(c)) /\ Len(c) = i + 1
      BY <1>1, <2>1, <2>7
    <3>2. ss[g] = <<c[i + 1]>> /\ ends[g] = i + 1
      BY <2>2, <2>3, <2>7, <3>1
    <3>3. \A j \in 1 .. 1 : j = 1
      OBVIOUS
    <3> QED
      BY <1>1, <2>1, <2>2, <2>4, <3>1, <3>2, <3>3
  <2> QED
    BY <2>5, <2>6, <2>7
<1>11. ends[0] = 0 /\ ends[n] = Len(c)
  BY <1>1, <1>3
<1> HIDE DEF ends
<1>12. Consists(c, ss, n, ends, ByteRange)
  BY <1>1, <1>3, <1>9, <1>10, <1>11 DEF Consists
<1>13. FlattenSeq(ss) = c
  BY <1>12, Flattened
<1> QED
  BY <1>5, <1>6, <1>13 DEF c, r

(* The pieces of at most three bytes are together at most three times as   *)
(* long as there are pieces.                                               *)
LEMMA FlattenAtMost ==
  ASSUME NEW S, NEW n \in Nat, NEW ss \in [1 .. n -> Seq(S)], \A i \in 1 .. n : Len(ss[i]) <= 3
  PROVE  FlattenSeq(ss) \in Seq(S) /\ Len(FlattenSeq(ss)) <= 3 * n
<1>1. PICK g \in [0 .. n -> Seq(S)] :
        /\ g[0] = << >> /\ FlattenSeq(ss) = g[n]
        /\ \A i \in 1 .. n : g[i] = Then(g[i - 1], ss[i])
  BY FlattenSteps
<1> DEFINE T == {i \in 0 .. n : Len(g[i]) <= 3 * i}
<1>2. 0 \in T
  BY <1>1
<1>3. ASSUME NEW i \in 1 .. n, i - 1 \in T PROVE i \in T
  <2>1. i - 1 \in 0 .. n /\ i \in 0 .. n
    OBVIOUS
  <2> DEFINE s == g[i - 1]
             t == ss[i]
  <2>2. s \in Seq(S) /\ t \in Seq(S) /\ Len(s) <= 3 * (i - 1) /\ Len(t) <= 3
    BY <1>1, <1>3, <2>1
  <2>3. g[i] = Then(s, t)
    BY <1>1
  <2> HIDE DEF s, t
  <2>4. Len(s \o t) = Len(s) + Len(t) /\ Len(s) \in Nat /\ Len(t) \in Nat
    BY <2>2, ConcatProperties
  <2>5. Len(g[i]) = Len(s) + Len(t)
    BY <2>3, <2>4 DEF Then
  <2>6. Len(g[i]) <= 3 * i
    BY <2>2, <2>4, <2>5
  <2> QED
    BY <2>1, <2>6
<1> HIDE DEF T
<1>4. \A i \in 0 .. n : i \in T
  BY <1>2, <1>3, UpTo
<1>5. n \in T
  BY <1>4
<1> QED
  BY <1>1, <1>5 DEF T

(* Whatever is decoded, foreign characters and padding in odd places too,  *)
(* there is room for the result where Lua asks for it.                     *)
CodeRange == 0 .. 65

LEMMA DecodedHasRoom ==
  ASSUME NEW w \in Seq(CodeRange), wa_base64dec(w) # Failed
  PROVE  Len(wa_base64dec(w)) < b64decRoom(Len(w))
<1> DEFINE n == Len(w) \div 4
           ss == [g \in 1 .. n |-> Ungrouped(SubSeq(w, 4 * g - 3, 4 * g))]
<1>1. Len(w) \in Nat
  OBVIOUS
<1>2. Len(w) = 4 * n /\ n \in Nat
  <2>1. Len(w) % 4 = 0
    BY DEF wa_base64dec
  <2> QED
    BY <1>1, <2>1
<1>3. wa_base64dec(w) = FlattenSeq(ss)
  BY DEF wa_base64dec
<1> HIDE DEF n
<1>4. ASSUME NEW g \in 1 .. n PROVE ss[g] \in Seq(ByteRange) /\ Len(ss[g]) <= 3
  <2>1. /\ 4 * g - 3 \in 1 .. Len(w) /\ 4 * g - 2 \in 1 .. Len(w)
        /\ 4 * g - 1 \in 1 .. Len(w) /\ 4 * g \in 1 .. Len(w)
        /\ 4 * g - (4 * g - 3) + 1 = 4
    BY <1>2
  <2> DEFINE s == SubSeq(w, 4 * g - 3, 4 * g)
  <2>2. PICK p, q, u, v \in 0 .. 65 :
          w[4 * g - 3] = p /\ w[4 * g - 2] = q /\ w[4 * g - 1] = u /\ w[4 * g] = v
    <3>1. \A k \in 1 .. Len(w) : w[k] \in CodeRange
      OBVIOUS
    <3> QED
      BY <2>1, <3>1 DEF CodeRange
  <2>3. s \in Seq(CodeRange) /\ Len(s) = 4 /\ \A j \in 1 .. 4 : s[j] = w[4 * g - 3 + j - 1]
    <3>1. SubSeq(w, 4 * g - 3, 4 * g) = [j \in 1 .. 4 |-> w[4 * g - 3 + j - 1]]
      BY <2>1
    <3>2. \A j \in 1 .. 4 : 4 * g - 3 + j - 1 \in 1 .. Len(w)
      BY <1>2
    <3> QED
      BY <3>1, <3>2
  <2>4. /\ 4 * g - 3 + 1 - 1 = 4 * g - 3 /\ 4 * g - 3 + 2 - 1 = 4 * g - 2
        /\ 4 * g - 3 + 3 - 1 = 4 * g - 1 /\ 4 * g - 3 + 4 - 1 = 4 * g
    OBVIOUS
  <2> HIDE DEF s
  <2>5. s[1] = p /\ s[2] = q /\ s[3] = u /\ s[4] = v
    BY <2>2, <2>3, <2>4
  <2> DEFINE t == <<p, q, u, v>>
  <2>6. s = t
    <3>0. p \in CodeRange /\ q \in CodeRange /\ u \in CodeRange /\ v \in CodeRange
      BY DEF CodeRange
    <3>1. t \in Seq(CodeRange) /\ Len(t) = 4 /\ \A j \in 1 .. 4 : j = 1 \/ j = 2 \/ j = 3 \/ j = 4
      BY <3>0
    <3>2. t[1] = p /\ t[2] = q /\ t[3] = u /\ t[4] = v
      OBVIOUS
    <3> HIDE DEF t
    <3>3. \A j \in 1 .. 4 : s[j] = t[j]
      BY <2>5, <3>1, <3>2
    <3>4. /\ s \in Seq(CodeRange) /\ t \in Seq(CodeRange) /\ Len(s) = Len(t)
          /\ \A j \in 1 .. Len(s) : s[j] = t[j]
      BY <2>3, <3>1, <3>3
    <3> QED
      BY ONLY <3>4, SeqEqual
  <2>7. ss[g] = Ungrouped(<<p, q, u, v>>)
    BY <2>6 DEF s
  <2>8. ss[g] = BytesOf(p, q, u, v)
    BY <2>7, UngroupedIs
  <2>9. BytesOf(p, q, u, v) \in Seq(ByteRange) /\ Len(BytesOf(p, q, u, v)) \in 1 .. 3
    BY UngroupedIs
  <2> HIDE DEF ss
  <2>10. ASSUME NEW k \in 1 .. 3 PROVE k <= 3
    OBVIOUS
  <2> QED
    BY <2>8, <2>9, <2>10
<1>5. ss \in [1 .. n -> Seq(ByteRange)]
  BY <1>4
<1> HIDE DEF ss
<1>6. FlattenSeq(ss) \in Seq(ByteRange) /\ Len(FlattenSeq(ss)) <= 3 * n
  BY <1>2, <1>4, <1>5, FlattenAtMost
<1>7. b64decRoom(Len(w)) = (n + 1) * 3 + 1
  BY <1>2 DEF b64decRoom
<1> QED
  BY <1>2, <1>3, <1>6, <1>7

-----------------------------------------------------------------------------
(* C arrays: a line is a mark and sixteen numbers.                         *)

CellsFor(n) == n + (n + 15) \div 16

LEMMA CellsAre ==
  ASSUME NEW n \in Nat, NEW x \in 1 .. CellsFor(n), (x - 1) % 17 # 0
  PROVE  16 * ((x - 1) \div 17) + ((x - 1) % 17) \in 1 .. n
<1> DEFINE q == (x - 1) \div 17
           p == (x - 1) % 17
           a == n \div 16
           b == n % 16
<1>1. x \in Int /\ 1 <= x /\ x <= n + (n + 15) \div 16
  BY DEF CellsFor
<1>2. q \in Int /\ p \in 1 .. 16 /\ x - 1 = 17 * q + p /\ 0 <= q
  BY <1>1
<1>3. a \in Int /\ b \in 0 .. 15 /\ n = 16 * a + b /\ (n + 15) \div 16 = IF b = 0 THEN a ELSE a + 1
  OBVIOUS
<1> HIDE DEF q, p, a, b
<1>4. 17 * q + p + 1 <= IF b = 0 THEN 17 * a ELSE 17 * a + b + 1
  BY <1>1, <1>2, <1>3
<1>5. 16 * q + p \in 1 .. n
  BY <1>2, <1>3, <1>4
<1> QED
  BY <1>5 DEF q, p

LEMMA BytesCount ==
  ASSUME NEW s \in Seq(ByteRange), NEW n, n = Len(s)
  PROVE  \A i \in 1 .. n : s[i] \in Nat /\ s[i] + 1 \in Nat
<1> SUFFICES ASSUME NEW i \in 1 .. n PROVE s[i] \in Nat /\ s[i] + 1 \in Nat
  OBVIOUS
<1>1. s[i] \in 0 .. 255
  <2>1. i \in 1 .. Len(s)
    OBVIOUS
  <2> QED
    BY <2>1, BytesAre
<1>2. \A b \in 0 .. 255 : b \in Nat /\ b + 1 \in Nat
  OBVIOUS
<1> QED
  BY ONLY <1>1, <1>2

(* Where the i-th byte of a line is, if a lines and b bytes come before it. *)
LEMMA CellPlaces ==
  ASSUME NEW n \in Nat, NEW i \in 1 .. n, NEW a \in Nat, NEW b \in 0 .. 15, i = 16 * a + b + 1,
         NEW e, e = CellsFor(i - 1)
  PROVE  /\ CellsFor(i) \in 0 .. CellsFor(n)
         /\ b = 0 => /\ e \in Nat /\ CellsFor(i) = e + 2
                    /\ e + 1 \in 1 .. CellsFor(n) /\ e + 2 \in 1 .. CellsFor(n)
                    /\ (e + 1 - 1) % 17 = 0
                    /\ (e + 2 - 1) % 17 = 1 /\ 16 * ((e + 2 - 1) \div 17) + 1 = i
         /\ b # 0 => /\ e \in Nat /\ CellsFor(i) = e + 1 /\ e + 1 \in 1 .. CellsFor(n)
                    /\ (e + 1 - 1) % 17 # 0
                    /\ 16 * ((e + 1 - 1) \div 17) + ((e + 1 - 1) % 17) = i
<1>1. CellsFor(i) = 17 * a + b + 2 /\ e = IF b = 0 THEN 17 * a ELSE 17 * a + b + 1
  BY DEF CellsFor
<1>2. CellsFor(i) \in 0 .. CellsFor(n) /\ CellsFor(n) \in Nat
  BY DEF CellsFor
<1> DEFINE m == CellsFor(n)
           c == CellsFor(i)
<1> HIDE DEF m, c
<1>3. c \in 0 .. m /\ m \in Nat /\ c = 17 * a + b + 2 /\ e = IF b = 0 THEN 17 * a ELSE 17 * a + b + 1
  BY <1>1, <1>2 DEF m, c
<1>4. i \in Nat /\ a \in Nat /\ b \in 0 .. 15 /\ i = 16 * a + b + 1
  OBVIOUS
<1>5. CASE b = 0
  <2>1. e = 17 * a /\ c = e + 2 /\ e \in Nat /\ e + 1 \in 1 .. m /\ e + 2 \in 1 .. m
    BY ONLY <1>3, <1>4, <1>5
  <2>2. (17 * a + 1 - 1) % 17 = 0 /\ (17 * a + 2 - 1) % 17 = 1 /\ (17 * a + 2 - 1) \div 17 = a
    BY ONLY <1>4
  <2> QED
    BY <1>2, <1>4, <1>5, <2>1, <2>2 DEF m, c
<1>6. CASE b # 0
  <2>1. e = 17 * a + b + 1 /\ c = e + 1 /\ e \in Nat /\ e + 1 \in 1 .. m
    BY ONLY <1>3, <1>4, <1>6
  <2>2. (17 * a + b + 1 + 1 - 1) % 17 = b + 1 /\ (17 * a + b + 1 + 1 - 1) \div 17 = a
    BY ONLY <1>4
  <2> QED
    BY <1>2, <1>4, <1>6, <2>1, <2>2 DEF m, c
<1> QED
  BY <1>2, <1>4, <1>5, <1>6

LEMMA ArrayIs ==
  ASSUME NEW s \in Seq(ByteRange), NEW n, n = Len(s), NEW r,
         r = [x \in 1 .. CellsFor(n) |->
                IF (x - 1) % 17 = 0 THEN 0 ELSE s[16 * ((x - 1) \div 17) + ((x - 1) % 17)] + 1]
  PROVE  convFile(s) = r /\ r \in Seq(Nat)
<1> DEFINE ss == [i \in 1 .. n |-> IF i % 16 = 1 THEN <<0, s[i] + 1>> ELSE <<s[i] + 1>>]
           ends == [i \in 0 .. n |-> CellsFor(i)]
<1>1. n \in Nat /\ DOMAIN s = 1 .. n
  OBVIOUS
<1>2. \A i \in 1 .. n : s[i] + 1 \in Nat
  BY BytesCount
<1>3. convFile(s) = FlattenSeq(ss)
  BY <1>1 DEF convFile, NewLine
<1>4. CellsFor(n) \in Nat /\ CellsFor(0) = 0
  BY <1>1 DEF CellsFor
<1>5. r \in Seq(Nat) /\ Len(r) = CellsFor(n)
  <2>1. ASSUME NEW x \in 1 .. CellsFor(n) PROVE r[x] \in Nat
    <3>1. CASE (x - 1) % 17 = 0
      BY <3>1
    <3>2. CASE (x - 1) % 17 # 0
      <4>1. 16 * ((x - 1) \div 17) + ((x - 1) % 17) \in 1 .. n
        BY <1>1, <3>2, CellsAre
      <4> QED
        BY <1>2, <3>2, <4>1
    <3> QED
      BY <3>1, <3>2
  <2> QED
    BY <1>4, <2>1
<1>6. ASSUME NEW i \in 1 .. n
      PROVE  /\ ss[i] \in Seq(Nat) /\ CellsFor(i) \in 0 .. Len(r)
             /\ CellsFor(i) = CellsFor(i - 1) + Len(ss[i])
             /\ \A j \in 1 .. Len(ss[i]) : r[CellsFor(i - 1) + j] = ss[i][j]
  <2> DEFINE a == (i - 1) \div 16
             b == (i - 1) % 16
             e == CellsFor(i - 1)
             m == CellsFor(n)
             v == s[i] + 1
  <2>1. a \in Nat /\ b \in 0 .. 15 /\ i = 16 * a + b + 1 /\ (i % 16 = 1 <=> b = 0)
    BY <1>1
  <2>2. v \in Nat
    BY <1>2
  <2>3. \A x \in 1 .. m : (x - 1) % 17 = 0 => r[x] = 0
    OBVIOUS
  <2>7. \A x \in 1 .. m : (x - 1) % 17 # 0 => r[x] = s[16 * ((x - 1) \div 17) + ((x - 1) % 17)] + 1
    OBVIOUS
  <2> HIDE DEF a, b, e
  <2>4. e = CellsFor(i - 1)
    BY DEF e
  <2>5. CASE b = 0
    <3>1. ss[i] = <<0, v>>
      BY <2>1, <2>5
    <3>2. /\ CellsFor(i) \in 0 .. m /\ e \in Nat /\ CellsFor(i) = e + 2
          /\ e + 1 \in 1 .. m /\ e + 2 \in 1 .. m
          /\ (e + 1 - 1) % 17 = 0
          /\ (e + 2 - 1) % 17 = 1 /\ 16 * ((e + 2 - 1) \div 17) + 1 = i
      BY <1>1, <2>1, <2>4, <2>5, CellPlaces
    <3> HIDE DEF m, v, ss
    <3>3. r[e + 1] = 0
      BY <2>3, <3>2
    <3>4. r[e + 2] = v
      <4>1. (e + 2 - 1) % 17 # 0
        BY ONLY <3>2
      <4>2. r[e + 2] = s[16 * ((e + 2 - 1) \div 17) + ((e + 2 - 1) % 17)] + 1
        BY ONLY <2>7, <3>2, <4>1
      <4> QED
        BY ONLY <3>2, <4>2 DEF v
    <3>5. Len(r) = m
      BY <1>5 DEF m
    <3>6. \A j \in 1 .. 2 : j = 1 \/ j = 2
      OBVIOUS
    <3>7. <<0, v>> \in Seq(Nat) /\ Len(<<0, v>>) = 2 /\ <<0, v>>[1] = 0 /\ <<0, v>>[2] = v
      BY ONLY <2>2
    <3> QED
      BY ONLY <2>4, <3>1, <3>2, <3>3, <3>4, <3>5, <3>6, <3>7
  <2>6. CASE b # 0
    <3>1. ss[i] = <<v>>
      BY <2>1, <2>6
    <3>2. /\ CellsFor(i) \in 0 .. m /\ e \in Nat /\ CellsFor(i) = e + 1 /\ e + 1 \in 1 .. m
          /\ (e + 1 - 1) % 17 # 0
          /\ 16 * ((e + 1 - 1) \div 17) + ((e + 1 - 1) % 17) = i
      BY <1>1, <2>1, <2>4, <2>6, CellPlaces
    <3> HIDE DEF m, v, ss
    <3>3. r[e + 1] = v
      <4>1. r[e + 1] = s[16 * ((e + 1 - 1) \div 17) + ((e + 1 - 1) % 17)] + 1
        BY ONLY <2>7, <3>2
      <4> QED
        BY ONLY <3>2, <4>1 DEF v
    <3>5. Len(r) = m
      BY <1>5 DEF m
    <3>6. \A j \in 1 .. 1 : j = 1
      OBVIOUS
    <3>7. <<v>> \in Seq(Nat) /\ Len(<<v>>) = 1 /\ <<v>>[1] = v
      BY ONLY <2>2
    <3> QED
      BY ONLY <2>4, <3>1, <3>2, <3>3, <3>5, <3>6, <3>7
  <2> QED
    BY <2>5, <2>6
<1>7. ss = [i \in 1 .. n |-> ss[i]]
  OBVIOUS
<1>8. ends[0] = 0 /\ ends[n] = Len(r) /\ \A i \in 1 .. n : ends[i] = CellsFor(i) /\ ends[i - 1] = CellsFor(i - 1)
  <2>1. 0 \in 0 .. n /\ n \in 0 .. n /\ \A i \in 1 .. n : i \in 0 .. n /\ i - 1 \in 0 .. n
    BY <1>1
  <2> QED
    BY <1>4, <1>5, <2>1
<1> HIDE DEF ss, ends
<1>9. Consists(r, ss, n, ends, Nat)
  <2>1. ss \in [1 .. n -> Seq(Nat)]
    BY <1>6, <1>7
  <2> QED
    BY <1>1, <1>5, <1>6, <1>8, <2>1 DEF Consists
<1>10. FlattenSeq(ss) = r
  BY <1>9, Flattened
<1> QED
  BY <1>3, <1>5, <1>10

LEMMA EndedArray ==
  ASSUME NEW r \in Seq(Nat), NEW m, m = Len(r), NEW t, t = r \o << 1 >>
  PROVE  t \in Seq(Nat) /\ Len(t) = m + 1 /\ t[m + 1] = 1 /\ \A x \in 1 .. m : t[x] = r[x]
<1> QED
  OBVIOUS

(* The compiler finds in the array the file's bytes and a zero.            *)
LEMMA ArrayHolds ==
  ASSUME NEW s \in Seq(ByteRange)
  PROVE  Compiled(dyn2str(s)) = Append(s, 0)
<1> DEFINE n == Len(s)
           m == CellsFor(n)
           r == [x \in 1 .. m |->
                   IF (x - 1) % 17 = 0 THEN 0 ELSE s[16 * ((x - 1) \div 17) + ((x - 1) % 17)] + 1]
           t == r \o << 1 >>
           ss == [k \in 1 .. m + 1 |-> IF t[k] = 0 THEN << >> ELSE <<t[k] - 1>>]
           u == Append(s, 0)
           ends == [x \in 0 .. m + 1 |-> IF x <= m THEN x - ((x + 16) \div 17) ELSE n + 1]
<1>1. n \in Nat
  OBVIOUS
<1>2. convFile(s) = r /\ r \in Seq(Nat)
  BY ArrayIs
<1>3. u \in Seq(Nat) /\ Len(u) = n + 1 /\ u[n + 1] = 0 /\ \A i \in 1 .. n : u[i] = s[i] /\ s[i] \in Nat
  <2>1. \A i \in 1 .. n : s[i] \in Nat
    BY BytesCount
  <2> QED
    BY <2>1
<1> HIDE DEF u
<1>4. m \in Nat /\ m = n + (n + 15) \div 16
  BY <1>1 DEF CellsFor
<1>5. Len(r) = m /\ \A x \in 1 .. m :
        r[x] = IF (x - 1) % 17 = 0 THEN 0 ELSE s[16 * ((x - 1) \div 17) + ((x - 1) % 17)] + 1
  BY <1>4
<1> HIDE DEF r
<1>6. t \in Seq(Nat) /\ Len(t) = m + 1 /\ t[m + 1] = 1 /\ \A x \in 1 .. m : t[x] = r[x]
  <2>1. r \in Seq(Nat) /\ m = Len(r)
    BY <1>2, <1>5
  <2>2. t = r \o << 1 >>
    OBVIOUS
  <2> HIDE DEF t, m
  <2> QED
    BY ONLY <2>1, <2>2, EndedArray
<1>7. dyn2str(s) = t
  BY <1>2 DEF dyn2str, Zero
<1> HIDE DEF t
<1>8. Compiled(t) = FlattenSeq(ss)
  <2>1. DOMAIN t = 1 .. m + 1
    BY <1>4, <1>6
  <2> QED
    BY <2>1 DEF Compiled, NewLine
<1>9. ASSUME NEW x \in 1 .. m
      PROVE  LET i == 16 * ((x - 1) \div 17) + ((x - 1) % 17)
             IN IF (x - 1) % 17 = 0 THEN ss[x] = << >> ELSE i \in 1 .. n /\ ss[x] = <<s[i]>>
  <2> DEFINE i == 16 * ((x - 1) \div 17) + ((x - 1) % 17)
  <2>0. x \in 1 .. m + 1
    BY <1>4
  <2>1. t[x] = r[x]
    BY <1>6
  <2>2. CASE (x - 1) % 17 = 0
    <3>1. t[x] = 0
      BY <1>5, <2>1, <2>2
    <3> QED
      BY <2>0, <2>2, <3>1
  <2>3. CASE (x - 1) % 17 # 0
    <3>1. i \in 1 .. n
      BY <1>1, <2>3, CellsAre
    <3>2. t[x] = s[i] + 1
      BY <1>5, <2>1, <2>3
    <3> HIDE DEF i
    <3>3. s[i] \in Nat
      BY <1>3, <3>1
    <3>4. ss[x] = <<s[i]>>
      BY <2>0, <3>2, <3>3
    <3> QED
      BY <2>3, <3>1, <3>4 DEF i
  <2> QED
    BY <2>2, <2>3
<1>10. ss[m + 1] = <<0>>
  BY <1>4, <1>6
<1>11. DOMAIN ss = 1 .. m + 1 /\ ss = [k \in 1 .. m + 1 |-> ss[k]]
  OBVIOUS
<1>12. /\ ends[0] = 0 /\ ends[m + 1] = n + 1 /\ ends[m] = n
       /\ \A x \in 1 .. m : ends[x] = x - ((x + 16) \div 17) /\ ends[x - 1] = (x - 1) - ((x + 15) \div 17)
  <2>1. /\ 0 \in 0 .. m + 1 /\ 0 <= m /\ m \in 0 .. m + 1 /\ m <= m /\ m + 1 \in 0 .. m + 1 /\ ~ (m + 1 <= m)
        /\ \A x \in 1 .. m : x \in 0 .. m + 1 /\ x <= m /\ x - 1 \in 0 .. m + 1 /\ x - 1 <= m /\ (x - 1) + 16 = x + 15
    BY <1>4
  <2>2. m - ((m + 16) \div 17) = n
    <3> DEFINE a == n \div 16
               b == n % 16
    <3>1. a \in Int /\ b \in 0 .. 15 /\ n = 16 * a + b /\ (n + 15) \div 16 = IF b = 0 THEN a ELSE a + 1
      BY <1>1
    <3> HIDE DEF a, b, m
    <3>2. m = IF b = 0 THEN 17 * a ELSE 17 * a + b + 1
      BY <1>4, <3>1
    <3>3. (m + 16) \div 17 = IF b = 0 THEN a ELSE a + 1
      BY <3>1, <3>2
    <3> QED
      BY <3>1, <3>2, <3>3
  <2> HIDE DEF m
  <2> QED
    BY <2>1, <2>2
<1> HIDE DEF ss, ends, m, n
<1>13. ASSUME NEW x \in 1 .. m + 1
       PROVE  /\ ss[x] \in Seq(Nat) /\ ends[x] \in 0 .. Len(u) /\ ends[x] = ends[x - 1] + Len(ss[x])
              /\ \A j \in 1 .. Len(ss[x]) : u[ends[x - 1] + j] = ss[x][j]
  <2>1. CASE x = m + 1
    <3>1. ends[x] = n + 1 /\ ends[x - 1] = n
      BY <1>4, <1>12, <2>1
    <3>2. ss[x] = <<0>> /\ \A j \in 1 .. 1 : j = 1
      BY <1>10, <2>1
    <3> QED
      BY <1>1, <1>3, <3>1, <3>2
  <2>2. CASE x # m + 1
    <3> DEFINE q == (x - 1) \div 17
               p == (x - 1) % 17
    <3>1. x \in 1 .. m
      BY <1>4, <2>2
    <3>2. q \in Int /\ 0 <= q /\ p \in 0 .. 16 /\ x - 1 = 17 * q + p
      BY <3>1
    <3>3. /\ ends[x] = x - ((x + 16) \div 17) /\ ends[x - 1] = (x - 1) - ((x + 15) \div 17)
          /\ IF p = 0 THEN ss[x] = << >> ELSE 16 * q + p \in 1 .. n /\ ss[x] = <<s[16 * q + p]>>
      BY <1>9, <1>12, <3>1
    <3> HIDE DEF q, p
    <3>4. (x + 16) \div 17 = q + 1 /\ (x + 15) \div 17 = IF p = 0 THEN q ELSE q + 1
      BY <3>2
    <3>5. CASE p = 0
      <4>1. ends[x] = 16 * q /\ ends[x - 1] = 16 * q /\ ss[x] = << >>
        BY <3>2, <3>3, <3>4, <3>5
      <4>2. 16 * q \in 0 .. n + 1
        BY <1>1, <1>4, <3>1, <3>2, <3>5
      <4> QED
        BY <1>3, <4>1, <4>2
    <3>6. CASE p # 0
      <4> DEFINE i == 16 * q + p
      <4>1. i \in 1 .. n /\ ends[x] = i /\ ends[x - 1] = i - 1 /\ ss[x] = <<s[i]>>
        BY <3>2, <3>3, <3>4, <3>6
      <4> HIDE DEF i
      <4>2. s[i] \in Nat /\ u[i] = s[i] /\ i - 1 + 1 = i /\ \A j \in 1 .. 1 : j = 1
        BY <1>3, <4>1
      <4> QED
        BY <1>1, <1>3, <4>1, <4>2
    <3> QED
      BY <3>5, <3>6
  <2> QED
    BY <2>1, <2>2
<1>14. Consists(u, ss, m + 1, ends, Nat)
  <2>1. \A k \in 1 .. m + 1 : ss[k] \in Seq(Nat)
    BY <1>13
  <2>2. ss \in [1 .. m + 1 -> Seq(Nat)]
    BY ONLY <1>11, <2>1
  <2>3. m + 1 \in Nat
    BY <1>4
  <2> QED
    BY <1>3, <1>12, <1>13, <2>2, <2>3 DEF Consists
<1>15. FlattenSeq(ss) = u
  BY <1>14, Flattened
<1> QED
  BY <1>7, <1>8, <1>15 DEF u

-----------------------------------------------------------------------------
(* The encodings, on every text                                            *)

LEMMA TextInverts ==
  ASSUME NEW s \in Seq(ByteRange)
  PROVE  Inverts(s)
<1> DEFINE w == [i \in DOMAIN s |-> s[i] % 66]
<1>1. w \in Seq(CodeRange)
  <2>1. ASSUME NEW i \in 1 .. Len(s) PROVE s[i] % 66 \in CodeRange
    <3>1. s[i] \in 0 .. 255
      BY BytesAre
    <3>2. \A b \in 0 .. 255 : b % 66 \in 0 .. 65
      OBVIOUS
    <3> QED
      BY ONLY <3>1, <3>2 DEF CodeRange
  <2>2. DOMAIN s = 1 .. Len(s) /\ Len(s) \in Nat
    OBVIOUS
  <2> QED
    BY <2>1, <2>2
<1> HIDE DEF w
<1>2. wa_base64dec(w) = Failed \/ Len(wa_base64dec(w)) < b64decRoom(Len(w))
  BY <1>1, DecodedHasRoom
<1>3. /\ wa_base64dec(wa_base64enc(s)) = CString(s)
      /\ Len(wa_base64enc(s)) < b64encRoom(Len(s)) /\ Len(wa_base64enc(s)) % 4 = 0
  BY Base64Inverts
<1>4. Compiled(dyn2str(s)) = Append(s, 0)
  BY ArrayHolds
<1> QED
  BY <1>2, <1>3, <1>4, HexInverts DEF w, Inverts

TextOfBytes == text \in Seq(ByteRange)

LEMMA TextsAreBytes == Spec => []TextOfBytes
<1>1. Init => TextOfBytes
  BY DEF Init, TextOfBytes
<1>2. TextOfBytes /\ [Next]_vars => TextOfBytes'
  <2> SUFFICES ASSUME TextOfBytes, [Next]_vars PROVE TextOfBytes'
    OBVIOUS
  <2>1. CASE LongerText
    <3>1. PICK b \in Bytes \union Codes : text' = Append(text, b)
      BY <2>1 DEF LongerText
    <3>2. b \in ByteRange
      BY ConversionsAssumption DEF ByteRange
    <3> QED
      BY <3>1, <3>2 DEF TextOfBytes
  <2>2. CASE UNCHANGED text
    BY <2>2 DEF TextOfBytes
  <2> QED
    BY <2>1, <2>2 DEF Next, vars, CallMd5, CallSha1, CallDate
<1> QED
  BY <1>1, <1>2, PTL DEF Spec

(* Decoding gives back every text that base64, base16 or a C array         *)
(* encoded, and what Lua allocates for base64 has room for it, whatever    *)
(* the bytes and the length of the text.                                   *)
THEOREM EncodingsInvertAlways == Spec => []EncodingsInvert
<1>1. TextOfBytes => EncodingsInvert
  BY TextInverts DEF TextOfBytes, EncodingsInvert
<1> QED
  BY <1>1, TextsAreBytes, PTL

-----------------------------------------------------------------------------
(* utf8: what is decoded at the beginning of a text                        *)

LEMMA ByteTyped ==
  ASSUME NEW s \in Seq(ByteRange), NEW k \in Nat
  PROVE  Byte(s, k) \in 0 .. 255 /\ (Byte(s, k) # 0 => k < Len(s) /\ Byte(s, k) = s[k + 1])
<1>1. CASE k < Len(s)
  <2>1. k + 1 \in 1 .. Len(s)
    BY <1>1
  <2>2. s[k + 1] \in 0 .. 255
    BY <2>1, BytesAre
  <2> QED
    BY <1>1, <2>2 DEF Byte
<1>2. CASE ~ (k < Len(s))
  BY <1>2 DEF Byte
<1> QED
  BY <1>1, <1>2

LEMMA ContIs ==
  ASSUME NEW b \in 0 .. 255
  PROVE  iscont(b) <=> b \in 128 .. 191
BY DEF iscont

(* The continuation bytes that a first byte asks for.                      *)
AskedFor(c) ==
  IF c < 192 THEN 0 ELSE IF c < 224 THEN 1 ELSE IF c < 240 THEN 2 ELSE IF c < 248 THEN 3
  ELSE IF c < 252 THEN 4 ELSE IF c < 254 THEN 5 ELSE IF c < 255 THEN 6 ELSE 7

LEMMA ContinuationsAre ==
  ASSUME NEW c \in 128 .. 255
  PROVE  Continuations(c) = AskedFor(c) /\ AskedFor(c) \in 0 .. 7
<1>1. AskedFor(c) \in 0 .. 7
  BY DEF AskedFor
<1>2. c % 128 = c - 128
  OBVIOUS
<1>3. ASSUME NEW n \in 1 .. 7 PROVE c % 128 >= 128 - 2 ^ (7 - n) <=> n <= AskedFor(c)
  <2> DEFINE m == 7 - n
             p == 2 ^ m
  <2>1. m \in 0 .. 6 /\ n = 7 - m
    OBVIOUS
  <2> HIDE DEF m
  <2>2. m = 0 \/ m = 1 \/ m = 2 \/ m = 3 \/ m = 4 \/ m = 5 \/ m = 6
    BY <2>1
  <2>3. 2 ^ 0 = 1 /\ 2 ^ 1 = 2 /\ 2 ^ 2 = 4 /\ 2 ^ 3 = 8 /\ 2 ^ 4 = 16 /\ 2 ^ 5 = 32 /\ 2 ^ 6 = 64
    OBVIOUS
  <2>4. \/ (m = 0 /\ p = 1) \/ (m = 1 /\ p = 2) \/ (m = 2 /\ p = 4) \/ (m = 3 /\ p = 8)
        \/ (m = 4 /\ p = 16) \/ (m = 5 /\ p = 32) \/ (m = 6 /\ p = 64)
    BY <2>2, <2>3
  <2> HIDE DEF p
  <2>5. c % 128 >= 128 - p <=> n <= AskedFor(c)
    BY <1>2, <2>1, <2>4 DEF AskedFor
  <2> QED
    BY <2>5 DEF m, p
<1>4. {n \in 1 .. 7 : c % 128 >= 128 - 2 ^ (7 - n)} = 1 .. AskedFor(c)
  <2> DEFINE E == {n \in 1 .. 7 : c % 128 >= 128 - 2 ^ (7 - n)}
             k == AskedFor(c)
  <2>1. \A n \in 1 .. 7 : n \in E <=> n <= k
    BY <1>3
  <2>2. \A n \in E : n \in 1 .. 7
    OBVIOUS
  <2>3. k \in 0 .. 7
    BY <1>1
  <2> HIDE DEF E, k
  <2>4. \A n : n \in 1 .. k => n \in 1 .. 7 /\ n <= k
    BY ONLY <2>3
  <2>5. \A n : n \in 1 .. 7 /\ n <= k => n \in 1 .. k
    BY ONLY <2>3
  <2>6. \A n : n \in E <=> n \in 1 .. k
    BY ONLY <2>1, <2>2, <2>4, <2>5
  <2>7. E = 1 .. k
    BY ONLY <2>6
  <2> QED
    BY <2>7 DEF E, k
<1>5. Cardinality(1 .. AskedFor(c)) = AskedFor(c)
  <2> DEFINE k == AskedFor(c)
  <2>2. k \in Int /\ 0 <= k
    BY <1>1
  <2> HIDE DEF k
  <2>3. Cardinality(1 .. k) = IF 1 > k THEN 0 ELSE k - 1 + 1
    BY <2>2, FS_Interval
  <2>4. Cardinality(1 .. k) = k
    BY <2>2, <2>3
  <2> QED
    BY <2>4 DEF k
<1> QED
  BY <1>1, <1>4, <1>5 DEF Continuations

(* The bits of the continuation bytes, as the decoder gathers them.        *)
LowBits(s, at, count) ==
  LET cc(k) == Byte(s, at + k)
      low[k \in 0 .. count] == IF k = 0 THEN 0 ELSE 64 * low[k - 1] + (cc(k) % 64)
  IN low

LEMMA LowBitsFrom ==
  ASSUME NEW s \in Seq(ByteRange), NEW at \in Nat, NEW n \in 0 .. 7
  PROVE  /\ LowBits(s, at, n)[0] = 0
         /\ \A k \in 1 .. n :
              LowBits(s, at, n)[k] = 64 * LowBits(s, at, n)[k - 1] + (Byte(s, at + k) % 64)
         /\ \A k \in 0 .. n : LowBits(s, at, n)[k] \in Nat
<1> DEFINE Eq(f) == f = [k \in 0 .. n |-> IF k = 0 THEN 0 ELSE 64 * f[k - 1] + (Byte(s, at + k) % 64)]
           step == [k \in 1 .. n |-> [x \in Nat |-> 64 * x + (Byte(s, at + k) % 64)]]
           f == CHOOSE f_ : Eq(f_)
<1>1. \A k \in 1 .. n : Byte(s, at + k) % 64 \in Nat
  <2> SUFFICES ASSUME NEW k \in 1 .. n PROVE Byte(s, at + k) % 64 \in Nat
    OBVIOUS
  <2>1. at + k \in Nat
    OBVIOUS
  <2>2. Byte(s, at + k) \in 0 .. 255
    BY <2>1, ByteTyped
  <2>3. \A b \in 0 .. 255 : b % 64 \in Nat
    OBVIOUS
  <2> QED
    BY ONLY <2>2, <2>3
<1>2. step \in Steps(n, Nat)
  <2>1. ASSUME NEW k \in 1 .. n, NEW x \in Nat PROVE 64 * x + (Byte(s, at + k) % 64) \in Nat
    <3> DEFINE y == Byte(s, at + k) % 64
    <3>1. y \in Nat /\ x \in Nat
      BY <1>1
    <3> HIDE DEF y
    <3>2. 64 * x + y \in Nat
      BY ONLY <3>1
    <3> QED
      BY <3>2 DEF y
  <2> QED
    BY <2>1 DEF Steps
<1>3. \A k \in 1 .. n, x \in Nat : step[k][x] = 64 * x + (Byte(s, at + k) % 64)
  OBVIOUS
<1> HIDE DEF step
<1>4. \E g : Follows(g, n, Nat, 0, step)
  <2>1. n \in Nat /\ 0 \in Nat
    OBVIOUS
  <2> QED
    BY <1>2, <2>1, Recursion
<1>5. PICK g \in [0 .. n -> Nat] : g[0] = 0 /\ \A k \in 1 .. n : g[k] = step[k][g[k - 1]]
  BY <1>4 DEF Follows
<1>6. Eq(g)
  <2>1. ASSUME NEW k \in 0 .. n
        PROVE  g[k] = IF k = 0 THEN 0 ELSE 64 * g[k - 1] + (Byte(s, at + k) % 64)
    <3>1. CASE k = 0
      BY <1>5, <3>1
    <3>2. CASE k # 0
      <4>1. k \in 1 .. n /\ k - 1 \in 0 .. n
        BY <3>2
      <4>2. g[k - 1] \in Nat
        BY <4>1
      <4> QED
        BY <1>3, <1>5, <3>2, <4>1, <4>2
    <3> QED
      BY <3>1, <3>2
  <2> QED
    BY <2>1
<1>7. Eq(f)
  BY <1>6
<1>8. LowBits(s, at, n) = f
  BY DEF LowBits
<1> HIDE DEF f
<1>9. f[0] = 0 /\ \A k \in 1 .. n : f[k] = 64 * f[k - 1] + (Byte(s, at + k) % 64)
  <2>1. 0 \in 0 .. n /\ \A k \in 1 .. n : k \in 0 .. n /\ k # 0
    OBVIOUS
  <2> QED
    BY <1>7, <2>1
<1> DEFINE T == {k \in 0 .. n : f[k] \in Nat}
<1>10. ASSUME NEW k \in 1 .. n, k - 1 \in T PROVE k \in T
  <2> DEFINE x == f[k - 1]
             y == Byte(s, at + k) % 64
  <2>1. x \in Nat /\ k \in 0 .. n
    BY <1>10
  <2>2. y \in Nat
    BY <1>1
  <2>3. f[k] = 64 * x + y
    BY <1>9
  <2> HIDE DEF x, y
  <2>4. f[k] \in Nat
    BY ONLY <2>1, <2>2, <2>3
  <2> QED
    BY <2>1, <2>4
<1>11. 0 \in T
  BY <1>9
<1>12. \A k \in 0 .. n : k \in T
  <2>1. n \in Nat
    OBVIOUS
  <2> HIDE DEF T
  <2> QED
    BY <1>10, <1>11, <2>1, UpTo
<1> QED
  BY <1>1, <1>8, <1>9, <1>12 DEF T

LEMMA LowBitsAre ==
  ASSUME NEW s \in Seq(ByteRange), NEW n \in 0 .. 7
  PROVE  /\ LowBits(s, 0, n)[0] = 0
         /\ \A k \in 1 .. n :
              LowBits(s, 0, n)[k] = 64 * LowBits(s, 0, n)[k - 1] + (Byte(s, k) % 64)
         /\ \A k \in 0 .. n : LowBits(s, 0, n)[k] \in Nat
<1> DEFINE low == LowBits(s, 0, n)
<1>1. /\ low[0] = 0
      /\ \A k \in 1 .. n : low[k] = 64 * low[k - 1] + (Byte(s, 0 + k) % 64)
      /\ \A k \in 0 .. n : low[k] \in Nat
  BY LowBitsFrom
<1> HIDE DEF low
<1>2. \A k \in 1 .. n : Byte(s, 0 + k) = Byte(s, k)
  <2>1. \A k \in 1 .. n : 0 + k = k
    OBVIOUS
  <2> QED
    BY <2>1
<1>3. \A k \in 1 .. n : low[k] = 64 * low[k - 1] + (Byte(s, k) % 64)
  BY <1>1, <1>2
<1> QED
  BY <1>1, <1>3 DEF low

(* The code point, and whether the decoder refuses it.                     *)
CodePoint(s, n) == LowBits(s, 0, n)[n] + (((Byte(s, 0) * 2 ^ n) % 128) * 2 ^ (5 * n))

Refused(s, n, strict) ==
  \/ n > 5 \/ \E k \in 1 .. n : ~ (Byte(s, k) \in 128 .. 191)
  \/ n = 0 \/ CodePoint(s, n) < limits[n]
  \/ strict /\ (CodePoint(s, n) > MAXUNICODE \/ CodePoint(s, n) \in Surrogates)

LEMMA DecodeIs ==
  ASSUME NEW s \in Seq(ByteRange), NEW strict \in BOOLEAN, NEW n, n = AskedFor(Byte(s, 0))
  PROVE  /\ Byte(s, 0) < 128 => utf8_decode(s, 0, strict) = [val |-> Byte(s, 0), next |-> 1]
         /\ Byte(s, 0) >= 128 =>
              utf8_decode(s, 0, strict) =
                IF Refused(s, n, strict) THEN Invalid ELSE [val |-> CodePoint(s, n), next |-> n + 1]
<1>1. Byte(s, 0) \in 0 .. 255
  BY ByteTyped
<1>2. Byte(s, 0) < 128 => utf8_decode(s, 0, strict) = [val |-> Byte(s, 0), next |-> 1]
  <2>1. 0 + 1 = 1
    OBVIOUS
  <2> QED
    BY ONLY <2>1 DEF utf8_decode
<1>3. ASSUME Byte(s, 0) >= 128
      PROVE  utf8_decode(s, 0, strict) =
               IF Refused(s, n, strict) THEN Invalid ELSE [val |-> CodePoint(s, n), next |-> n + 1]
  <2>1. Byte(s, 0) \in 128 .. 255 /\ ~ (Byte(s, 0) < 128)
    <3>1. \A b \in 0 .. 255 : b >= 128 => b \in 128 .. 255 /\ ~ (b < 128)
      OBVIOUS
    <3> QED
      BY ONLY <1>1, <1>3, <3>1
  <2>2. n = Continuations(Byte(s, 0)) /\ n \in 0 .. 7
    BY ONLY <2>1, ContinuationsAre, n = AskedFor(Byte(s, 0))
  <2>3. \A k \in 1 .. n : iscont(Byte(s, 0 + k)) <=> Byte(s, k) \in 128 .. 191
    <3> SUFFICES ASSUME NEW k \in 1 .. n
                 PROVE  iscont(Byte(s, 0 + k)) <=> Byte(s, k) \in 128 .. 191
      OBVIOUS
    <3>1. 0 + k = k /\ k \in Nat
      BY ONLY <2>2, k \in 1 .. n
    <3>2. Byte(s, k) \in 0 .. 255
      BY <3>1, ByteTyped
    <3>3. \A b \in 0 .. 255 : iscont(b) <=> b \in 128 .. 191
      BY ContIs
    <3>4. Byte(s, 0 + k) = Byte(s, k)
      BY ONLY <3>1
    <3> DEFINE b_ == Byte(s, k)
    <3> HIDE DEF b_
    <3>5. b_ \in 0 .. 255 /\ (iscont(b_) <=> b_ \in 128 .. 191)
      BY ONLY <3>2, <3>3 DEF b_
    <3> QED
      BY ONLY <3>4, <3>5 DEF b_
  <2> DEFINE res == LowBits(s, 0, n)[n] + (((Byte(s, 0) * 2 ^ n) % 128) * 2 ^ (5 * n))
             bad == \/ n > 5 \/ \E k \in 1 .. n : ~ iscont(Byte(s, 0 + k))
                    \/ TooLong(res, n)
                    \/ strict /\ (res > MAXUNICODE \/ res \in Surrogates)
  <2>4. utf8_decode(s, 0, strict) = IF bad THEN Invalid ELSE [val |-> res, next |-> 0 + n + 1]
    BY ONLY <2>1, <2>2 DEF utf8_decode, LowBits
  <2>5. bad <=> Refused(s, n, strict)
    BY ONLY <2>3 DEF Refused, TooLong, CodePoint
  <2>6. res = CodePoint(s, n)
    BY DEF CodePoint
  <2>7. 0 + n + 1 = n + 1
    BY ONLY <2>2
  <2> HIDE DEF res, bad
  <2> QED
    BY ONLY <2>4, <2>5, <2>6, <2>7
<1> QED
  BY ONLY <1>2, <1>3

(* What the code points of two, three and four bytes are made of.          *)
LEMMA AskedForIs ==
  ASSUME NEW c \in Nat, 192 <= c, c <= 255
  PROVE  /\ AskedFor(c) \in 1 .. 7
         /\ c <= 223 => AskedFor(c) = 1 /\ (c * 2) % 128 = 2 * (c - 192)
         /\ 224 <= c /\ c <= 239 => AskedFor(c) = 2 /\ (c * 4) % 128 = 4 * (c - 224)
         /\ 240 <= c /\ c <= 247 => AskedFor(c) = 3 /\ (c * 8) % 128 = 8 * (c - 240)
         /\ 248 <= c => AskedFor(c) >= 4
<1>1. c <= 223 => (c * 2) % 128 = 2 * (c - 192)
  OBVIOUS
<1>2. 224 <= c /\ c <= 239 => (c * 4) % 128 = 4 * (c - 224)
  OBVIOUS
<1>3. 240 <= c /\ c <= 247 => (c * 8) % 128 = 8 * (c - 240)
  OBVIOUS
<1> QED
  BY <1>1, <1>2, <1>3 DEF AskedFor

(* The bits of a code point, by how many bytes they come in.               *)
ThreeBytes(u, x, y) == 4096 * u + 64 * x + y
FourBytes(u, x, y, z) == 262144 * u + 4096 * x + 64 * y + z

LEMMA CodePointIs ==
  ASSUME NEW s \in Seq(ByteRange), NEW c, c = Byte(s, 0), c \in Nat, 192 <= c, c <= 255,
         NEW x, x = Byte(s, 1) % 64, NEW y, y = Byte(s, 2) % 64, NEW z, z = Byte(s, 3) % 64,
         NEW n, n = AskedFor(c)
  PROVE  /\ x \in 0 .. 63 /\ y \in 0 .. 63 /\ z \in 0 .. 63 /\ (n <= 5 => CodePoint(s, n) \in Nat)
         /\ c <= 223 => n = 1 /\ CodePoint(s, n) = 64 * (c - 192) + x
         /\ 224 <= c /\ c <= 239 => n = 2 /\ CodePoint(s, n) = ThreeBytes(c - 224, x, y)
         /\ 240 <= c /\ c <= 247 => n = 3 /\ CodePoint(s, n) = FourBytes(c - 240, x, y, z)
         /\ 248 <= c => n >= 4
<1>1. x \in 0 .. 63 /\ y \in 0 .. 63 /\ z \in 0 .. 63
  <2>1. Byte(s, 1) \in 0 .. 255 /\ Byte(s, 2) \in 0 .. 255 /\ Byte(s, 3) \in 0 .. 255
    BY ByteTyped
  <2>2. \A b \in 0 .. 255 : b % 64 \in 0 .. 63
    OBVIOUS
  <2> QED
    BY ONLY <2>1, <2>2, x = Byte(s, 1) % 64, y = Byte(s, 2) % 64, z = Byte(s, 3) % 64
<1>2. /\ n \in 1 .. 7 /\ n \in 0 .. 7
      /\ c <= 223 => n = 1 /\ (c * 2) % 128 = 2 * (c - 192)
      /\ 224 <= c /\ c <= 239 => n = 2 /\ (c * 4) % 128 = 4 * (c - 224)
      /\ 240 <= c /\ c <= 247 => n = 3 /\ (c * 8) % 128 = 8 * (c - 240)
      /\ 248 <= c => n >= 4
  <2>1. \A a \in 1 .. 7 : a \in 0 .. 7
    OBVIOUS
  <2>2. n = AskedFor(c) /\ c \in Nat /\ 192 <= c /\ c <= 255
    OBVIOUS
  <2>3. /\ AskedFor(c) \in 1 .. 7
        /\ c <= 223 => AskedFor(c) = 1 /\ (c * 2) % 128 = 2 * (c - 192)
        /\ 224 <= c /\ c <= 239 => AskedFor(c) = 2 /\ (c * 4) % 128 = 4 * (c - 224)
        /\ 240 <= c /\ c <= 247 => AskedFor(c) = 3 /\ (c * 8) % 128 = 8 * (c - 240)
        /\ 248 <= c => AskedFor(c) >= 4
    BY ONLY <2>2, AskedForIs
  <2>4. AskedFor(c) \in 0 .. 7
    BY ONLY <2>1, <2>3
  <2> QED
    BY ONLY <2>2, <2>3, <2>4
<1> DEFINE low == LowBits(s, 0, n)
<1>3. low[0] = 0 /\ \A k \in 1 .. n : low[k] = 64 * low[k - 1] + (Byte(s, k) % 64)
  BY ONLY <1>2, LowBitsAre, s \in Seq(ByteRange)
<1>4. \A k \in 0 .. n : low[k] \in Nat
  BY ONLY <1>2, LowBitsAre, s \in Seq(ByteRange)
<1>5. CodePoint(s, n) = low[n] + (((c * 2 ^ n) % 128) * 2 ^ (5 * n))
  BY DEF CodePoint
<1> HIDE DEF low
<1>6. low[1] = x
  <2>1. 1 \in 1 .. n /\ 1 - 1 = 0
    BY ONLY <1>2
  <2>2. low[1] = 64 * low[1 - 1] + (Byte(s, 1) % 64)
    BY <1>3, <2>1
  <2> QED
    BY <1>1, <1>3, <2>1, <2>2
<1>7. n >= 2 => low[2] = 64 * x + y
  <2>1. n >= 2 => 2 \in 1 .. n /\ 2 - 1 = 1
    BY <1>2
  <2>2. n >= 2 => low[2] = 64 * low[2 - 1] + (Byte(s, 2) % 64)
    BY <1>3, <2>1
  <2> QED
    BY <1>1, <1>6, <2>1, <2>2
<1>8. n >= 3 => low[3] = 64 * (64 * x + y) + z
  <2>1. n >= 3 => 3 \in 1 .. n /\ 3 - 1 = 2 /\ n >= 2
    BY <1>2
  <2>2. n >= 3 => low[3] = 64 * low[3 - 1] + (Byte(s, 3) % 64)
    BY <1>3, <2>1
  <2> QED
    BY <1>1, <1>7, <2>1, <2>2
<1>9. c <= 223 => n = 1 /\ CodePoint(s, n) = 64 * (c - 192) + x
  <2> SUFFICES ASSUME c <= 223 PROVE n = 1 /\ CodePoint(s, n) = 64 * (c - 192) + x
    OBVIOUS
  <2>1. n = 1 /\ (c * 2) % 128 = 2 * (c - 192)
    BY <1>2
  <2>2. 2 ^ 1 = 2 /\ 2 ^ (5 * 1) = 32
    OBVIOUS
  <2>3. CodePoint(s, n) = x + (2 * (c - 192)) * 32
    BY ONLY <1>5, <1>6, <2>1, <2>2
  <2>4. c \in Nat /\ 192 <= c /\ c <= 223
    OBVIOUS
  <2> QED
    BY ONLY <1>1, <2>1, <2>3, <2>4
<1>10. 224 <= c /\ c <= 239 => n = 2 /\ CodePoint(s, n) = ThreeBytes(c - 224, x, y)
  <2> SUFFICES ASSUME 224 <= c /\ c <= 239 PROVE n = 2 /\ CodePoint(s, n) = ThreeBytes(c - 224, x, y)
    OBVIOUS
  <2>1. n = 2 /\ (c * 4) % 128 = 4 * (c - 224)
    BY <1>2
  <2>2. 2 ^ 2 = 4 /\ 2 ^ (5 * 2) = 1024
    OBVIOUS
  <2>3. CodePoint(s, n) = 64 * x + y + (4 * (c - 224)) * 1024
    BY ONLY <1>5, <1>7, <2>1, <2>2
  <2>4. c \in Nat /\ 224 <= c /\ c <= 239
    OBVIOUS
  <2> QED
    BY ONLY <1>1, <2>1, <2>3, <2>4 DEF ThreeBytes
<1>11. 240 <= c /\ c <= 247 => n = 3 /\ CodePoint(s, n) = FourBytes(c - 240, x, y, z)
  <2> SUFFICES ASSUME 240 <= c /\ c <= 247
               PROVE  n = 3 /\ CodePoint(s, n) = FourBytes(c - 240, x, y, z)
    OBVIOUS
  <2>1. n = 3 /\ (c * 8) % 128 = 8 * (c - 240)
    BY <1>2
  <2>2. 2 ^ 3 = 8 /\ 2 ^ (5 * 3) = 32768
    OBVIOUS
  <2>3. CodePoint(s, n) = 64 * (64 * x + y) + z + (8 * (c - 240)) * 32768
    BY ONLY <1>5, <1>8, <2>1, <2>2
  <2>4. c \in Nat /\ 240 <= c /\ c <= 247
    OBVIOUS
  <2> QED
    BY ONLY <1>1, <2>1, <2>3, <2>4 DEF FourBytes
<1>12. 248 <= c => n >= 4
  BY <1>2
<1>13. n <= 5 => CodePoint(s, n) \in Nat
  <2> DEFINE l == low[n]
             q == 2 ^ n
             r == 5 * n
             p == 2 ^ r
  <2>1. n \in 0 .. n /\ n \in 1 .. 7
    BY ONLY <1>2
  <2>2. l \in Nat
    BY ONLY <1>4, <2>1
  <2>3. c \in Nat
    OBVIOUS
  <2>4. 2 ^ 1 = 2 /\ 2 ^ 2 = 4 /\ 2 ^ 3 = 8 /\ 2 ^ 4 = 16 /\ 2 ^ 5 = 32
    OBVIOUS
  <2>5. 2 ^ 5 = 32 /\ 2 ^ 10 = 1024 /\ 2 ^ 15 = 32768 /\ 2 ^ 20 = 1048576 /\ 2 ^ 25 = 33554432
    OBVIOUS
  <2>6. n > 5 \/ n = 1 \/ n = 2 \/ n = 3 \/ n = 4 \/ n = 5
    BY ONLY <2>1
  <2>7. n > 5 \/ q = 2 \/ q = 4 \/ q = 8 \/ q = 16 \/ q = 32
    BY ONLY <2>4, <2>6
  <2>8. n > 5 \/ p = 32 \/ p = 1024 \/ p = 32768 \/ p = 1048576 \/ p = 33554432
    <3>1. n > 5 \/ r = 5 \/ r = 10 \/ r = 15 \/ r = 20 \/ r = 25
      BY ONLY <2>6
    <3> HIDE DEF r
    <3>2. r = 5 => p = 32
      BY ONLY <2>5
    <3>3. r = 10 => p = 1024
      BY ONLY <2>5
    <3>4. r = 15 => p = 32768
      BY ONLY <2>5
    <3>5. r = 20 => p = 1048576
      BY ONLY <2>5
    <3>6. r = 25 => p = 33554432
      BY ONLY <2>5
    <3> HIDE DEF p
    <3> QED
      BY ONLY <3>1, <3>2, <3>3, <3>4, <3>5, <3>6
  <2>9. CodePoint(s, n) = l + (((c * q) % 128) * p)
    BY <1>5
  <2> HIDE DEF l, p, q, r
  <2>10. (n > 5 \/ q \in Nat) /\ (n > 5 \/ p \in Nat)
    BY ONLY <2>7, <2>8
  <2>11. q \in Nat => (c * q) % 128 \in Nat
    <3>1. q \in Nat => c * q \in Nat
      BY ONLY <2>3
    <3> QED
      BY ONLY <3>1
  <2>12. q \in Nat /\ p \in Nat => CodePoint(s, n) \in Nat
    BY ONLY <2>2, <2>9, <2>11
  <2>13. n <= 5 => ~ (n > 5)
    BY ONLY <2>1
  <2> QED
    BY ONLY <2>10, <2>12, <2>13
<1> QED
  BY <1>1, <1>9, <1>10, <1>11, <1>12, <1>13

(* A number in a range, which the provers need not enumerate.              *)
Between(x, lo, hi) == x \in lo .. hi

LEMMA Within ==
  ASSUME NEW x \in Int, NEW lo \in Int, NEW hi \in Int
  PROVE  Between(x, lo, hi) <=> lo <= x /\ x <= hi
BY DEF Between

(* What is written for a code point of one, two, three and four bytes.     *)
LEMMA Writes ==
  ASSUME NEW cp \in Nat
  PROVE  /\ cp <= 127 => codepoint_to_utf8(cp) = <<cp>>
         /\ 128 <= cp /\ cp <= 2047 =>
              codepoint_to_utf8(cp) = <<192 + cp \div 64, 128 + (cp % 64)>>
         /\ 2048 <= cp /\ cp <= 65535 =>
              codepoint_to_utf8(cp) = <<224 + cp \div 4096, 128 + ((cp \div 64) % 64), 128 + (cp % 64)>>
         /\ 65536 <= cp /\ cp <= MAXUNICODE =>
              codepoint_to_utf8(cp) =
                <<240 + cp \div 262144, 128 + ((cp \div 4096) % 64), 128 + ((cp \div 64) % 64), 128 + (cp % 64)>>
<1> DEFINE Six(k) == 128 + ((cp \div 2 ^ k) % 64)
           one == <<cp>>
           two == <<192 + cp \div 64, Six(0)>>
           three == <<224 + cp \div 4096, Six(6), Six(0)>>
           four == <<240 + cp \div 262144, Six(12), Six(6), Six(0)>>
           max == MAXUNICODE
<1>1. codepoint_to_utf8(cp) = CASE cp <= 127 -> one [] Between(cp, 128, 2047) -> two
                                [] Between(cp, 2048, 65535) -> three
                                [] Between(cp, 65536, max) -> four [] OTHER -> << >>
  BY DEF codepoint_to_utf8, Between
<1>2. 2 ^ 0 = 1 /\ 2 ^ 6 = 64 /\ 2 ^ 12 = 4096 /\ cp \div 1 = cp
  OBVIOUS
<1>3. max \in Int
  BY SMT DEF MAXUNICODE
<1> HIDE DEF one, two, three, four, max
<1>4. /\ Between(cp, 128, 2047) <=> 128 <= cp /\ cp <= 2047
      /\ Between(cp, 2048, 65535) <=> 2048 <= cp /\ cp <= 65535
      /\ Between(cp, 65536, max) <=> 65536 <= cp /\ cp <= max
  BY <1>3, Within, SMT
<1>5. cp <= 127 => codepoint_to_utf8(cp) = one
  BY <1>1, <1>3, <1>4, SMT
<1>6. 128 <= cp /\ cp <= 2047 => codepoint_to_utf8(cp) = two
  BY <1>1, <1>4, SMT
<1>7. 2048 <= cp /\ cp <= 65535 => codepoint_to_utf8(cp) = three
  BY <1>1, <1>4, SMT
<1>8. 65536 <= cp /\ cp <= max => codepoint_to_utf8(cp) = four
  BY <1>1, <1>3, <1>4, SMT
<1>9. /\ two = <<192 + cp \div 64, 128 + (cp % 64)>>
      /\ three = <<224 + cp \div 4096, 128 + ((cp \div 64) % 64), 128 + (cp % 64)>>
      /\ four = <<240 + cp \div 262144, 128 + ((cp \div 4096) % 64), 128 + ((cp \div 64) % 64), 128 + (cp % 64)>>
  BY <1>2 DEF two, three, four
<1> QED
  BY <1>5, <1>6, <1>7, <1>8, <1>9 DEF one, max

LEMMA WritesTwo ==
  ASSUME NEW u \in 2 .. 31, NEW x \in 0 .. 63, NEW cp, cp = 64 * u + x
  PROVE  cp \in Nat /\ codepoint_to_utf8(cp) = <<192 + u, 128 + x>>
<1>1. u \in Nat /\ 2 <= u /\ u <= 31 /\ x \in Nat /\ x <= 63 /\ cp \in Nat /\ cp = 64 * u + x
  OBVIOUS
<1>2. cp \div 64 = u /\ cp % 64 = x /\ 128 <= cp /\ cp <= 2047
  BY ONLY <1>1, SMT
<1> QED
  BY ONLY <1>1, <1>2, Writes

AskThree(t) == t >= 2048
Three_(u, x, y) == <<224 + u, 128 + x, 128 + y>>

LEMMA WritesThree ==
  ASSUME NEW u \in 0 .. 15, NEW x \in 0 .. 63, NEW y \in 0 .. 63, AskThree(ThreeBytes(u, x, y))
  PROVE  codepoint_to_utf8(ThreeBytes(u, x, y)) = Three_(u, x, y)
<1> DEFINE cp == ThreeBytes(u, x, y)
<1>1. /\ u \in Nat /\ u <= 15 /\ x \in Nat /\ x <= 63 /\ y \in Nat /\ y <= 63
      /\ cp \in Nat /\ cp = 4096 * u + 64 * x + y
  BY DEF ThreeBytes
<1> HIDE DEF cp
<1> DEFINE r == 64 * x + y
           t == 64 * u + x
<1>2. r \in Nat /\ r <= 4095 /\ cp = 4096 * u + r /\ t \in Nat /\ cp = 64 * t + y /\ t = 64 * u + x
  BY ONLY <1>1, SMT
<1> HIDE DEF r, t
<1>3. cp \div 4096 = u /\ cp \div 64 = t /\ t % 64 = x /\ cp % 64 = y
  BY ONLY <1>1, <1>2, SMT
<1>4. 2048 <= cp /\ cp <= 65535
  BY <1>1, <1>2, SMT DEF AskThree, cp
<1>5. codepoint_to_utf8(cp) = <<224 + cp \div 4096, 128 + ((cp \div 64) % 64), 128 + (cp % 64)>>
  BY ONLY <1>1, <1>4, Writes
<1> QED
  BY ONLY <1>1, <1>3, <1>5 DEF cp, Three_

AskFour(t) == t >= 65536 /\ t <= MAXUNICODE
Four_(u, x, y, z) == <<240 + u, 128 + x, 128 + y, 128 + z>>

LEMMA WritesFour ==
  ASSUME NEW u \in 0 .. 4, NEW x \in 0 .. 63, NEW y \in 0 .. 63, NEW z \in 0 .. 63,
         AskFour(FourBytes(u, x, y, z))
  PROVE  codepoint_to_utf8(FourBytes(u, x, y, z)) = Four_(u, x, y, z)
<1> DEFINE cp == FourBytes(u, x, y, z)
<1>1. /\ u \in Nat /\ u <= 4 /\ x \in Nat /\ x <= 63 /\ y \in Nat /\ y <= 63 /\ z \in Nat /\ z <= 63
      /\ cp \in Nat /\ cp = 262144 * u + 4096 * x + 64 * y + z
  BY SMT DEF FourBytes
<1> HIDE DEF cp
<1> DEFINE r == 4096 * x + 64 * y + z
           q == 64 * y + z
           t == 64 * u + x
           v == 4096 * u + 64 * x + y
<1>2. /\ r \in Nat /\ r <= 262143 /\ cp = 262144 * u + r /\ q \in Nat /\ q <= 4095 /\ cp = 4096 * t + q
      /\ t \in Nat /\ v \in Nat /\ cp = 64 * v + z /\ t = 64 * u + x /\ v = 64 * t + y
  BY ONLY <1>1, SMT
<1> HIDE DEF r, q, t, v
<1>3. cp \div 262144 = u
  BY ONLY <1>1, <1>2, SMT
<1>4. cp \div 4096 = t /\ t % 64 = x
  BY ONLY <1>1, <1>2, SMT
<1>5. cp \div 64 = v /\ v % 64 = y /\ cp % 64 = z
  BY ONLY <1>1, <1>2, SMT
<1>6. 65536 <= cp /\ cp <= MAXUNICODE
  BY <1>1, SMT DEF MAXUNICODE, AskFour, cp
<1>7. codepoint_to_utf8(cp) =
        <<240 + cp \div 262144, 128 + ((cp \div 4096) % 64), 128 + ((cp \div 64) % 64), 128 + (cp % 64)>>
  BY ONLY <1>1, <1>6, Writes
<1> QED
  BY ONLY <1>1, <1>3, <1>4, <1>5, <1>7 DEF cp, Four_

(* The table of the well-formed sequences, by the first byte.              *)
Cont(b) == 128 <= b /\ b <= 191
Two(s) == Cont(Byte(s, 1))
Three(s) ==
  /\ Cont(Byte(s, 1)) /\ Cont(Byte(s, 2))
  /\ Byte(s, 0) = 224 => 160 <= Byte(s, 1)
  /\ Byte(s, 0) = 237 => Byte(s, 1) <= 159
Four(s) ==
  /\ Cont(Byte(s, 1)) /\ Cont(Byte(s, 2)) /\ Cont(Byte(s, 3))
  /\ Byte(s, 0) = 240 => 144 <= Byte(s, 1)
  /\ Byte(s, 0) = 244 => Byte(s, 1) <= 143

LEMMA ByteIs ==
  ASSUME NEW s \in Seq(ByteRange), NEW k \in Nat
  PROVE  Byte(s, k) \in Nat /\ Byte(s, k) <= 255 /\ (iscont(Byte(s, k)) <=> Cont(Byte(s, k)))
<1>1. Byte(s, k) \in 0 .. 255
  BY ByteTyped
<1>2. \A b \in 0 .. 255 : b \in Nat /\ b <= 255 /\ (iscont(b) <=> Cont(b))
  BY DEF iscont, Cont
<1> QED
  BY ONLY <1>1, <1>2

SecondBytes(a) ==
  CASE a = 224 -> 160 .. 191 [] a = 237 -> 128 .. 159
    [] a = 240 -> 144 .. 191 [] a = 244 -> 128 .. 143 [] OTHER -> 128 .. 191
SizeFor(a) ==
  CASE a < 128 -> 1 [] a \in 194 .. 223 -> 2 [] a \in 224 .. 239 -> 3
    [] a \in 240 .. 244 -> 4 [] OTHER -> 0

LEMMA TableRow ==
  ASSUME NEW a \in Nat, a <= 255, NEW b \in Nat
  PROVE  /\ a < 128 => SizeFor(a) = 1
         /\ (128 <= a /\ a <= 193) \/ 245 <= a => SizeFor(a) = 0
         /\ 194 <= a /\ a <= 223 => SizeFor(a) = 2
         /\ 224 <= a /\ a <= 239 => SizeFor(a) = 3
         /\ 240 <= a /\ a <= 244 => SizeFor(a) = 4
         /\ b \in SecondBytes(a) <=> /\ Cont(b)
                                     /\ a = 224 => 160 <= b
                                     /\ a = 237 => b <= 159
                                     /\ a = 240 => 144 <= b
                                     /\ a = 244 => b <= 143
BY SMT DEF Cont, SizeFor, SecondBytes

LEMMA WellFormedIs ==
  ASSUME NEW s \in Seq(ByteRange), NEW a, a = Byte(s, 0)
  PROVE  /\ a < 128 => WellFormed(s) = 1
         /\ (128 <= a /\ a <= 193) \/ 245 <= a => WellFormed(s) = 0
         /\ 194 <= a /\ a <= 223 => WellFormed(s) = IF Two(s) THEN 2 ELSE 0
         /\ 224 <= a /\ a <= 239 => WellFormed(s) = IF Three(s) THEN 3 ELSE 0
         /\ 240 <= a /\ a <= 244 => WellFormed(s) = IF Four(s) THEN 4 ELSE 0
<1> DEFINE b == Byte(s, 1)
           size == SizeFor(a)
           second == b \in SecondBytes(a)
           rest == \A k \in 2 .. size - 1 : iscontp(s, k)
<1>1. WellFormed(s) = IF size <= 1 \/ (second /\ rest) THEN size ELSE 0
  BY ONLY a = Byte(s, 0) DEF WellFormed, SizeFor, SecondBytes
<1>2. a \in Nat /\ a <= 255 /\ b \in Nat
  BY ByteIs
<1>3. (iscontp(s, 2) <=> Cont(Byte(s, 2))) /\ (iscontp(s, 3) <=> Cont(Byte(s, 3)))
  BY ByteIs DEF iscontp
<1>4. /\ a < 128 => size = 1
      /\ (128 <= a /\ a <= 193) \/ 245 <= a => size = 0
      /\ 194 <= a /\ a <= 223 => size = 2
      /\ 224 <= a /\ a <= 239 => size = 3
      /\ 240 <= a /\ a <= 244 => size = 4
      /\ second <=> /\ Cont(b)
                    /\ a = 224 => 160 <= b
                    /\ a = 237 => b <= 159
                    /\ a = 240 => 144 <= b
                    /\ a = 244 => b <= 143
  BY <1>2, TableRow
<1> HIDE DEF size, second
<1>5. /\ size = 2 => rest
      /\ size = 3 => (rest <=> Cont(Byte(s, 2)))
      /\ size = 4 => (rest <=> Cont(Byte(s, 2)) /\ Cont(Byte(s, 3)))
  <2>1. (\A k \in 2 .. 2 - 1 : FALSE) /\ (\A k \in 2 .. 3 - 1 : k = 2) /\ \A k \in 2 .. 4 - 1 : k = 2 \/ k = 3
    OBVIOUS
  <2>2. 2 \in 2 .. 3 - 1 /\ 2 \in 2 .. 4 - 1 /\ 3 \in 2 .. 4 - 1
    OBVIOUS
  <2> QED
    BY ONLY <1>3, <2>1, <2>2
<1>6. /\ Two(s) <=> Cont(b)
      /\ Three(s) <=> Cont(b) /\ Cont(Byte(s, 2)) /\ (a = 224 => 160 <= b) /\ (a = 237 => b <= 159)
      /\ Four(s) <=> /\ Cont(b) /\ Cont(Byte(s, 2)) /\ Cont(Byte(s, 3))
                     /\ (a = 240 => 144 <= b) /\ (a = 244 => b <= 143)
  BY ONLY a = Byte(s, 0) DEF Two, Three, Four, b
<1> HIDE DEF rest, b
<1>7. ~ (2 <= 1) /\ ~ (3 <= 1) /\ ~ (4 <= 1) /\ 0 <= 1
  OBVIOUS
<1>8. a < 128 => WellFormed(s) = 1
  BY ONLY <1>1, <1>4
<1>9. (128 <= a /\ a <= 193) \/ 245 <= a => WellFormed(s) = 0
  BY ONLY <1>1, <1>4
<1>10. 194 <= a /\ a <= 223 => WellFormed(s) = IF Two(s) THEN 2 ELSE 0
  <2>1. 194 <= a /\ a <= 223 => a # 224 /\ a # 237 /\ a # 240 /\ a # 244
    BY ONLY <1>2
  <2> QED
    BY ONLY <1>1, <1>4, <1>5, <1>6, <1>7, <2>1
<1>11. 224 <= a /\ a <= 239 => WellFormed(s) = IF Three(s) THEN 3 ELSE 0
  <2>1. 224 <= a /\ a <= 239 => a # 240 /\ a # 244
    BY ONLY <1>2
  <2> QED
    BY ONLY <1>1, <1>4, <1>5, <1>6, <1>7, <2>1
<1>12. 240 <= a /\ a <= 244 => WellFormed(s) = IF Four(s) THEN 4 ELSE 0
  <2>1. 240 <= a /\ a <= 244 => a # 224 /\ a # 237
    BY ONLY <1>2
  <2> QED
    BY ONLY <1>1, <1>4, <1>5, <1>6, <1>7, <2>1
<1> QED
  BY ONLY <1>8, <1>9, <1>10, <1>11, <1>12

(* What the decoder refuses, in numbers.                                   *)
Cut(s, n) == \E k \in 1 .. n : ~ Cont(Byte(s, k))
Half(p) == 55296 <= p /\ p <= 57343

LEMMA RefusedIs ==
  ASSUME NEW s \in Seq(ByteRange), NEW n \in Nat, NEW p, p = CodePoint(s, n)
  PROVE  /\ n = 0 \/ n > 5 => Refused(s, n, TRUE)
         /\ 1 <= n /\ n <= 5 => (Refused(s, n, FALSE) <=> p < limits[n] \/ Cut(s, n))
         /\ p \in Nat => (Refused(s, n, TRUE) <=> Refused(s, n, FALSE) \/ p > MAXUNICODE \/ Half(p))
<1>1. Cut(s, n) <=> \E k \in 1 .. n : ~ (Byte(s, k) \in 128 .. 191)
  <2> SUFFICES ASSUME NEW k \in 1 .. n PROVE Byte(s, k) \in 128 .. 191 <=> Cont(Byte(s, k))
    BY DEF Cut
  <2>1. k \in Nat
    OBVIOUS
  <2>2. Byte(s, k) \in Nat
    BY <2>1, ByteIs
  <2>3. \A b \in Nat : b \in 128 .. 191 <=> Cont(b)
    BY DEF Cont
  <2> QED
    BY ONLY <2>2, <2>3
<1>2. 1 <= n /\ n <= 5 => ~ (n > 5) /\ n # 0
  OBVIOUS
<1>3. p \in Nat => (p \in Surrogates <=> Half(p))
  <2> DEFINE lo == 55296
             hi == 57343
  <2>1. lo \in Int /\ hi \in Int
    OBVIOUS
  <2>2. Surrogates = lo .. hi /\ (Half(p) <=> lo <= p /\ p <= hi)
    BY ONLY DEF Surrogates, Half
  <2> HIDE DEF lo, hi
  <2>3. p \in Nat => (p \in lo .. hi <=> lo <= p /\ p <= hi)
    BY ONLY <2>1
  <2> QED
    BY ONLY <2>2, <2>3
<1>4. n = 0 \/ n > 5 => Refused(s, n, TRUE)
  BY DEF Refused
<1> DEFINE cut == \E k \in 1 .. n : ~ (Byte(s, k) \in 128 .. 191)
<1>5. 1 <= n /\ n <= 5 => (Refused(s, n, FALSE) <=> p < limits[n] \/ Cut(s, n))
  <2>1. Refused(s, n, FALSE) <=> n > 5 \/ cut \/ n = 0 \/ p < limits[n]
    BY ONLY p = CodePoint(s, n) DEF Refused
  <2> HIDE DEF cut
  <2>2. Cut(s, n) <=> cut
    BY ONLY <1>1 DEF cut
  <2> QED
    BY ONLY <1>2, <2>1, <2>2
<1>6. Refused(s, n, TRUE) <=> Refused(s, n, FALSE) \/ p > MAXUNICODE \/ p \in Surrogates
  BY ONLY p = CodePoint(s, n) DEF Refused
<1>7. p \in Nat => (Refused(s, n, TRUE) <=> Refused(s, n, FALSE) \/ p > MAXUNICODE \/ Half(p))
  BY ONLY <1>3, <1>6
<1> QED
  BY ONLY <1>4, <1>5, <1>7

LEMMA LimitsAre ==
  /\ limits[1] = 128 /\ limits[2] = 2048 /\ limits[3] = 65536
  /\ limits[4] = 2097152 /\ limits[5] = 67108864
BY SMT DEF limits

(* s begins with the m + 1 bytes that Byte finds there.                    *)
LEMMA BeginsWith ==
  ASSUME NEW s \in Seq(ByteRange), NEW m \in Nat, Byte(s, m) # 0
  PROVE  /\ SubSeq(s, 1, m + 1) \in Seq(ByteRange) /\ Len(SubSeq(s, 1, m + 1)) = m + 1
         /\ \A k \in 0 .. m : SubSeq(s, 1, m + 1)[k + 1] = Byte(s, k)
<1>1. m < Len(s) /\ m + 1 \in 1 .. Len(s)
  <2>1. m < Len(s)
    BY ByteTyped
  <2> QED
    BY <2>1
<1>2. SubSeq(s, 1, m + 1) \in Seq(ByteRange) /\ Len(SubSeq(s, 1, m + 1)) = m + 1
  BY <1>1
<1>3. ASSUME NEW k \in 0 .. m PROVE SubSeq(s, 1, m + 1)[k + 1] = Byte(s, k)
  <2>1. k < Len(s) /\ k + 1 \in 1 .. m + 1
    BY <1>1
  <2>2. SubSeq(s, 1, m + 1)[k + 1] = s[k + 1]
    BY <1>1, <2>1
  <2> QED
    BY <2>1, <2>2 DEF Byte
<1> QED
  BY <1>2, <1>3

LEMMA TwoOf ==
  ASSUME NEW r \in Seq(Nat), NEW a \in Nat, NEW b \in Nat, Len(r) = 2, r[1] = a, r[2] = b
  PROVE  r = <<a, b>>
<1> DEFINE t == <<a, b>>
<1>1. t \in Seq(Nat) /\ Len(t) = 2 /\ t[1] = a /\ t[2] = b
  OBVIOUS
<1>2. \A k \in 1 .. 2 : k = 1 \/ k = 2
  OBVIOUS
<1> HIDE DEF t
<1>3. Len(r) = Len(t) /\ \A k \in 1 .. Len(r) : r[k] = t[k]
  BY <1>1, <1>2
<1>4. r = t
  BY ONLY <1>1, <1>3, r \in Seq(Nat), SeqEqual
<1> QED
  BY <1>4 DEF t

LEMMA ThreeOf ==
  ASSUME NEW r \in Seq(Nat), NEW a \in Nat, NEW b \in Nat, NEW c \in Nat,
         Len(r) = 3, r[1] = a, r[2] = b, r[3] = c
  PROVE  r = <<a, b, c>>
<1> DEFINE t == <<a, b, c>>
<1>1. t \in Seq(Nat) /\ Len(t) = 3 /\ t[1] = a /\ t[2] = b /\ t[3] = c
  OBVIOUS
<1>2. \A k \in 1 .. 3 : k = 1 \/ k = 2 \/ k = 3
  OBVIOUS
<1> HIDE DEF t
<1>3. Len(r) = Len(t) /\ \A k \in 1 .. Len(r) : r[k] = t[k]
  BY <1>1, <1>2
<1>4. r = t
  BY ONLY <1>1, <1>3, r \in Seq(Nat), SeqEqual
<1> QED
  BY <1>4 DEF t

LEMMA FourOf ==
  ASSUME NEW r \in Seq(Nat), NEW a \in Nat, NEW b \in Nat, NEW c \in Nat, NEW d \in Nat,
         Len(r) = 4, r[1] = a, r[2] = b, r[3] = c, r[4] = d
  PROVE  r = <<a, b, c, d>>
<1> DEFINE t == <<a, b, c, d>>
<1>1. t \in Seq(Nat) /\ Len(t) = 4 /\ t[1] = a /\ t[2] = b /\ t[3] = c /\ t[4] = d
  OBVIOUS
<1>2. \A k \in 1 .. 4 : k = 1 \/ k = 2 \/ k = 3 \/ k = 4
  OBVIOUS
<1> HIDE DEF t
<1>3. Len(r) = Len(t) /\ \A k \in 1 .. Len(r) : r[k] = t[k]
  BY <1>1, <1>2
<1>4. r = t
  BY ONLY <1>1, <1>3, r \in Seq(Nat), SeqEqual
<1> QED
  BY <1>4 DEF t

LEMMA BytesBehind ==
  ASSUME NEW s \in Seq(ByteRange)
  PROVE  /\ Byte(s, 1) # 0 => SubSeq(s, 1, 2) = <<Byte(s, 0), Byte(s, 1)>>
         /\ Byte(s, 2) # 0 => SubSeq(s, 1, 3) = <<Byte(s, 0), Byte(s, 1), Byte(s, 2)>>
         /\ Byte(s, 3) # 0 => SubSeq(s, 1, 4) = <<Byte(s, 0), Byte(s, 1), Byte(s, 2), Byte(s, 3)>>
<1> DEFINE a == Byte(s, 0)
           b == Byte(s, 1)
           c == Byte(s, 2)
           d == Byte(s, 3)
<1>1. a \in Nat /\ b \in Nat /\ c \in Nat /\ d \in Nat
  BY ByteIs
<1>2. \A r \in Seq(ByteRange) : r \in Seq(Nat)
  <2>1. \A b_ \in ByteRange : b_ \in Nat
    BY DEF ByteRange
  <2> QED
    BY ONLY <2>1
<1>3. b # 0 => SubSeq(s, 1, 2) = <<a, b>>
  <2> SUFFICES ASSUME b # 0 PROVE SubSeq(s, 1, 2) = <<a, b>>
    OBVIOUS
  <2> DEFINE r == SubSeq(s, 1, 2)
  <2>1. r \in Seq(ByteRange) /\ Len(r) = 1 + 1 /\ \A k \in 0 .. 1 : r[k + 1] = Byte(s, k)
    <3>1. 1 \in Nat /\ 1 + 1 = 2
      OBVIOUS
    <3> QED
      BY <3>1, BeginsWith
  <2>2. r[0 + 1] = a /\ r[1 + 1] = b
    BY ONLY <2>1 DEF a, b
  <2> HIDE DEF r, a, b
  <2>3. r \in Seq(Nat) /\ Len(r) = 2
    BY ONLY <1>2, <2>1
  <2>4. r[1] = a /\ r[2] = b
    BY ONLY <2>2
  <2>5. r = <<a, b>>
    BY ONLY <1>1, <2>3, <2>4, TwoOf
  <2> QED
    BY <2>5 DEF r
<1>4. c # 0 => SubSeq(s, 1, 3) = <<a, b, c>>
  <2> SUFFICES ASSUME c # 0 PROVE SubSeq(s, 1, 3) = <<a, b, c>>
    OBVIOUS
  <2> DEFINE r == SubSeq(s, 1, 3)
  <2>1. r \in Seq(ByteRange) /\ Len(r) = 2 + 1 /\ \A k \in 0 .. 2 : r[k + 1] = Byte(s, k)
    <3>1. 2 \in Nat /\ 2 + 1 = 3
      OBVIOUS
    <3> QED
      BY <3>1, BeginsWith
  <2>2. r[0 + 1] = a /\ r[1 + 1] = b /\ r[2 + 1] = c
    BY ONLY <2>1 DEF a, b, c
  <2> HIDE DEF r, a, b, c
  <2>3. r \in Seq(Nat) /\ Len(r) = 3
    BY ONLY <1>2, <2>1
  <2>4. r[1] = a /\ r[2] = b /\ r[3] = c
    BY ONLY <2>2
  <2>5. r = <<a, b, c>>
    BY ONLY <1>1, <2>3, <2>4, ThreeOf
  <2> QED
    BY <2>5 DEF r
<1>5. d # 0 => SubSeq(s, 1, 4) = <<a, b, c, d>>
  <2> SUFFICES ASSUME d # 0 PROVE SubSeq(s, 1, 4) = <<a, b, c, d>>
    OBVIOUS
  <2> DEFINE r == SubSeq(s, 1, 4)
  <2>1. r \in Seq(ByteRange) /\ Len(r) = 3 + 1 /\ \A k \in 0 .. 3 : r[k + 1] = Byte(s, k)
    <3>1. 3 \in Nat /\ 3 + 1 = 4
      OBVIOUS
    <3> QED
      BY <3>1, BeginsWith
  <2>2. r[0 + 1] = a /\ r[1 + 1] = b /\ r[2 + 1] = c /\ r[3 + 1] = d
    BY ONLY <2>1 DEF a, b, c, d
  <2> HIDE DEF r, a, b, c, d
  <2>3. r \in Seq(Nat) /\ Len(r) = 4
    BY ONLY <1>2, <2>1
  <2>4. r[1] = a /\ r[2] = b /\ r[3] = c /\ r[4] = d
    BY ONLY <2>2
  <2>5. r = <<a, b, c, d>>
    BY ONLY <1>1, <2>3, <2>4, FourOf
  <2> QED
    BY <2>5 DEF r
<1> QED
  BY <1>3, <1>4, <1>5

LEMMA DecodesAscii ==
  ASSUME NEW s \in Seq(ByteRange), Byte(s, 0) < 128
  PROVE  DecodesWell(s)
<1> DEFINE c == Byte(s, 0)
           d == [val |-> c, next |-> 1]
<1>1. utf8_decode(s, 0, TRUE) = d /\ utf8_decode(s, 0, FALSE) = d
  <2>1. TRUE \in BOOLEAN /\ FALSE \in BOOLEAN
    OBVIOUS
  <2> QED
    BY <2>1, DecodeIs
<1>2. WellFormed(s) = 1
  BY WellFormedIs
<1>3. c \in Nat /\ c <= 127
  <2>1. c \in Nat
    BY ByteIs
  <2> QED
    BY <2>1
<1>4. codepoint_to_utf8(c) = <<c>>
  BY ONLY <1>3, Writes
<1>5. s # << >> => SubSeq(s, 1, 1) = <<c>>
  <2> SUFFICES ASSUME s # << >> PROVE SubSeq(s, 1, 1) = <<c>>
    OBVIOUS
  <2>1. Len(s) \in Nat /\ Len(s) # 0
    OBVIOUS
  <2>2. 0 < Len(s) /\ 1 <= Len(s)
    BY ONLY <2>1
  <2>3. c = s[1]
    BY <2>2 DEF Byte
  <2> DEFINE r == SubSeq(s, 1, 1)
             t == <<c>>
  <2>4. r \in Seq(ByteRange) /\ Len(r) = 1 /\ r[1] = s[1]
    BY <2>2
  <2>5. c \in ByteRange
    BY ByteTyped DEF ByteRange
  <2> HIDE DEF c, r
  <2>6. t \in Seq(ByteRange) /\ Len(t) = 1 /\ t[1] = c
    BY <2>5
  <2> HIDE DEF t
  <2>7. \A k \in 1 .. 1 : k = 1
    OBVIOUS
  <2>8. Len(r) = Len(t) /\ \A k \in 1 .. Len(r) : r[k] = t[k]
    BY ONLY <2>3, <2>4, <2>6, <2>7
  <2>9. r = t
    BY ONLY <2>4, <2>6, <2>8, SeqEqual
  <2> QED
    BY <2>9 DEF r, t
<1>6. d.val = c /\ d.next = 1
  OBVIOUS
<1> HIDE DEF c, d
<1>7. 1 # 0
  OBVIOUS
<1> QED
  BY ONLY <1>1, <1>2, <1>4, <1>5, <1>6, <1>7 DEF DecodesWell

LEMMA DecodesOthers ==
  ASSUME NEW s \in Seq(ByteRange), Byte(s, 0) >= 128, NEW n \in Nat, n = AskedFor(Byte(s, 0)),
         NEW p, p = CodePoint(s, n),
         \/ WellFormed(s) = 0 /\ Refused(s, n, TRUE)
         \/ /\ WellFormed(s) = n + 1 /\ ~ Refused(s, n, TRUE) /\ ~ Refused(s, n, FALSE)
            /\ codepoint_to_utf8(p) = SubSeq(s, 1, n + 1)
  PROVE  DecodesWell(s)
<1> DEFINE d == [val |-> p, next |-> n + 1]
<1>1. TRUE \in BOOLEAN /\ FALSE \in BOOLEAN
  OBVIOUS
<1>2. utf8_decode(s, 0, TRUE) = IF Refused(s, n, TRUE) THEN Invalid ELSE d
  BY <1>1, DecodeIs
<1>3. utf8_decode(s, 0, FALSE) = IF Refused(s, n, FALSE) THEN Invalid ELSE d
  BY <1>1, DecodeIs
<1>4. d.val = p /\ d.next = n + 1 /\ n + 1 # 0
  OBVIOUS
<1> HIDE DEF d
<1>5. CASE WellFormed(s) = 0 /\ Refused(s, n, TRUE)
  BY ONLY <1>2, <1>5 DEF DecodesWell
<1>6. CASE /\ WellFormed(s) = n + 1 /\ ~ Refused(s, n, TRUE) /\ ~ Refused(s, n, FALSE)
           /\ codepoint_to_utf8(p) = SubSeq(s, 1, n + 1)
  <2>1. utf8_decode(s, 0, TRUE) = d /\ utf8_decode(s, 0, FALSE) = d
    BY ONLY <1>2, <1>3, <1>6
  <2> QED
    BY ONLY <1>4, <1>6, <2>1 DEF DecodesWell
<1> QED
  BY <1>5, <1>6

LEMMA ContBits ==
  ASSUME NEW b \in Nat, b <= 255, Cont(b)
  PROVE  b = 128 + (b % 64) /\ b % 64 \in 0 .. 63 /\ b # 0
BY SMT DEF Cont

LEMMA CutIs ==
  ASSUME NEW s
  PROVE  /\ Cut(s, 1) <=> ~ Cont(Byte(s, 1))
         /\ Cut(s, 2) <=> ~ (Cont(Byte(s, 1)) /\ Cont(Byte(s, 2)))
         /\ Cut(s, 3) <=> ~ (Cont(Byte(s, 1)) /\ Cont(Byte(s, 2)) /\ Cont(Byte(s, 3)))
<1>1. (\A k \in 1 .. 1 : k = 1) /\ 1 \in 1 .. 1
  OBVIOUS
<1>2. (\A k \in 1 .. 2 : k = 1 \/ k = 2) /\ 1 \in 1 .. 2 /\ 2 \in 1 .. 2
  OBVIOUS
<1>3. (\A k \in 1 .. 3 : k = 1 \/ k = 2 \/ k = 3) /\ 1 \in 1 .. 3 /\ 2 \in 1 .. 3 /\ 3 \in 1 .. 3
  OBVIOUS
<1>4. Cut(s, 1) <=> ~ Cont(Byte(s, 1))
  BY ONLY <1>1 DEF Cut
<1>5. Cut(s, 2) <=> ~ (Cont(Byte(s, 1)) /\ Cont(Byte(s, 2)))
  BY ONLY <1>2 DEF Cut
<1>6. Cut(s, 3) <=> ~ (Cont(Byte(s, 1)) /\ Cont(Byte(s, 2)) /\ Cont(Byte(s, 3)))
  BY ONLY <1>3 DEF Cut
<1> QED
  BY ONLY <1>4, <1>5, <1>6

LEMMA DecodesTwo ==
  ASSUME NEW s \in Seq(ByteRange), 192 <= Byte(s, 0), Byte(s, 0) <= 223
  PROVE  DecodesWell(s)
<1> DEFINE c == Byte(s, 0)
           b == Byte(s, 1)
           x == b % 64
           p == CodePoint(s, 1)
<1>1. c \in Nat /\ b \in Nat /\ c <= 255 /\ b <= 255
  BY ByteIs
<1>2. x \in 0 .. 63 /\ p = 64 * (c - 192) + x /\ AskedFor(c) = 1
  <2>1. c = Byte(s, 0) /\ 192 <= c /\ c <= 223 /\ x = Byte(s, 1) % 64
    OBVIOUS
  <2> HIDE DEF c, b, x
  <2>2. x \in 0 .. 63 /\ (c <= 223 => AskedFor(c) = 1 /\ CodePoint(s, AskedFor(c)) = 64 * (c - 192) + x)
    BY <1>1, <2>1, CodePointIs, SMT
  <2> QED
    BY ONLY <2>1, <2>2 DEF p
<1>3. /\ Refused(s, 1, FALSE) <=> p < 128 \/ ~ Cont(b)
      /\ p \in Nat => (Refused(s, 1, TRUE) <=> Refused(s, 1, FALSE) \/ p > MAXUNICODE \/ Half(p))
  <2>1. 1 \in Nat /\ 1 <= 1 /\ 1 <= 5
    OBVIOUS
  <2>2. Refused(s, 1, FALSE) <=> p < limits[1] \/ Cut(s, 1)
    BY <2>1, RefusedIs
  <2>3. p \in Nat => (Refused(s, 1, TRUE) <=> Refused(s, 1, FALSE) \/ p > MAXUNICODE \/ Half(p))
    BY <2>1, RefusedIs
  <2>4. limits[1] = 128
    BY ONLY LimitsAre, SMT
  <2>5. Cut(s, 1) <=> ~ Cont(b)
    BY CutIs
  <2> HIDE DEF p, b
  <2>6. Refused(s, 1, FALSE) <=> p < 128 \/ ~ Cont(b)
    BY ONLY <2>2, <2>4, <2>5
  <2> QED
    BY ONLY <2>3, <2>6
<1>4. Two(s) <=> Cont(b)
  BY DEF Two
<1>5. /\ c <= 193 => WellFormed(s) = 0
      /\ 194 <= c => WellFormed(s) = IF Two(s) THEN 2 ELSE 0
  BY <1>1, WellFormedIs
<1>6. 192 <= c /\ c <= 223 /\ c >= 128
  BY <1>1
<1>7. Cont(b) => b = 128 + x /\ b # 0
  BY <1>1, ContBits
<1>8. b # 0 => SubSeq(s, 1, 2) = <<c, b>>
  BY BytesBehind
<1> HIDE DEF c, b, x, p
<1>9. p \in Nat /\ ~ (p > MAXUNICODE) /\ ~ Half(p) /\ (p < 128 <=> c <= 193)
  BY ONLY <1>1, <1>2, <1>6, SMT DEF MAXUNICODE, Half
<1>10. 194 <= c /\ Cont(b) => codepoint_to_utf8(p) = SubSeq(s, 1, 2)
  <2> SUFFICES ASSUME 194 <= c, Cont(b) PROVE codepoint_to_utf8(p) = SubSeq(s, 1, 2)
    OBVIOUS
  <2> DEFINE u == c - 192
  <2>1. u \in 2 .. 31 /\ c = 192 + u
    BY <1>1, <1>6
  <2>2. p = 64 * u + x
    BY <1>2
  <2> HIDE DEF u
  <2>3. codepoint_to_utf8(p) = <<192 + u, 128 + x>>
    BY ONLY <1>2, <2>1, <2>2, WritesTwo
  <2> QED
    BY <1>7, <1>8, <2>1, <2>3
<1>11. c <= 193 \/ 194 <= c
  BY ONLY <1>1
<1>12. 1 + 1 = 2 /\ 1 \in Nat
  OBVIOUS
<1>13. CASE 194 <= c /\ Cont(b)
  <2>1. /\ WellFormed(s) = 1 + 1 /\ ~ Refused(s, 1, TRUE) /\ ~ Refused(s, 1, FALSE)
        /\ codepoint_to_utf8(p) = SubSeq(s, 1, 1 + 1)
    <3>1. ~ (p < 128)
      BY ONLY <1>1, <1>9, <1>13
    <3> QED
      BY ONLY <1>3, <1>4, <1>5, <1>9, <1>10, <1>12, <1>13, <3>1
  <2> QED
    BY <1>2, <1>6, <1>12, <2>1, DecodesOthers DEF c, p
<1>14. CASE ~ (194 <= c /\ Cont(b))
  <2>1. WellFormed(s) = 0 /\ Refused(s, 1, TRUE)
    BY ONLY <1>3, <1>4, <1>5, <1>9, <1>11, <1>14
  <2> QED
    BY <1>2, <1>6, <1>12, <2>1, DecodesOthers DEF c, p
<1> QED
  BY <1>13, <1>14

LEMMA DecodesThree ==
  ASSUME NEW s \in Seq(ByteRange), 224 <= Byte(s, 0), Byte(s, 0) <= 239
  PROVE  DecodesWell(s)
<1> DEFINE c == Byte(s, 0)
           b == Byte(s, 1)
           e == Byte(s, 2)
           x == b % 64
           y == e % 64
           p == CodePoint(s, 2)
<1>1. c \in Nat /\ b \in Nat /\ e \in Nat /\ c <= 255 /\ b <= 255 /\ e <= 255
  <2>0. 0 \in Nat /\ 1 \in Nat /\ 2 \in Nat
    OBVIOUS
  <2>1. c \in Nat /\ c <= 255
    BY ONLY <2>0, s \in Seq(ByteRange), ByteIs
  <2>2. b \in Nat /\ b <= 255
    BY ONLY <2>0, s \in Seq(ByteRange), ByteIs
  <2>3. e \in Nat /\ e <= 255
    BY ONLY <2>0, s \in Seq(ByteRange), ByteIs
  <2> QED
    BY <2>1, <2>2, <2>3
<1>2. x \in 0 .. 63 /\ y \in 0 .. 63 /\ p = 4096 * (c - 224) + 64 * x + y /\ AskedFor(c) = 2
  <2>1. c = Byte(s, 0) /\ 224 <= c /\ c <= 239 /\ x = Byte(s, 1) % 64 /\ y = Byte(s, 2) % 64
    OBVIOUS
  <2> HIDE DEF c, b, e, x, y
  <2>2. 192 <= c
    BY ONLY <1>1, <2>1
  <2>3. /\ x \in 0 .. 63 /\ y \in 0 .. 63
        /\ 224 <= c /\ c <= 239 =>
             AskedFor(c) = 2 /\ CodePoint(s, AskedFor(c)) = ThreeBytes(c - 224, x, y)
    BY <1>1, <2>1, <2>2, CodePointIs, SMT
  <2> QED
    BY ONLY <2>1, <2>3 DEF p, ThreeBytes
<1> DEFINE both == Cont(b) /\ Cont(e)
           short == p < 2048
           half == Half(p)
<1>3. /\ Refused(s, 2, FALSE) <=> short \/ ~ both
      /\ p \in Nat => (Refused(s, 2, TRUE) <=> Refused(s, 2, FALSE) \/ p > MAXUNICODE \/ half)
  <2>1. 2 \in Nat /\ 1 <= 2 /\ 2 <= 5
    OBVIOUS
  <2>2. Refused(s, 2, FALSE) <=> p < limits[2] \/ Cut(s, 2)
    BY <2>1, RefusedIs
  <2>3. p \in Nat => (Refused(s, 2, TRUE) <=> Refused(s, 2, FALSE) \/ p > MAXUNICODE \/ half)
    BY <2>1, RefusedIs
  <2>4. limits[2] = 2048
    BY ONLY LimitsAre, SMT
  <2>5. Cut(s, 2) <=> ~ both
    BY CutIs
  <2>7. p < limits[2] <=> short
    BY ONLY <2>4
  <2> HIDE DEF p, b, e, both, short, half
  <2>6. Refused(s, 2, FALSE) <=> short \/ ~ both
    BY ONLY <2>2, <2>5, <2>7
  <2> QED
    BY ONLY <2>3, <2>6
<1>4. Three(s) <=> both /\ (c = 224 => 160 <= b) /\ (c = 237 => b <= 159)
  BY DEF Three
<1>5. WellFormed(s) = IF Three(s) THEN 3 ELSE 0
  BY <1>1, WellFormedIs
<1>6. 224 <= c /\ c <= 239 /\ c >= 128
  BY <1>1
<1>7. (Cont(b) => b = 128 + x /\ b # 0) /\ (Cont(e) => e = 128 + y /\ e # 0)
  BY <1>1, ContBits
<1>8. e # 0 => SubSeq(s, 1, 3) = <<c, b, e>>
  BY BytesBehind
<1> HIDE DEF c, b, e, x, y, p
<1>9. p \in Nat /\ ~ (p > MAXUNICODE)
  BY ONLY <1>1, <1>2, <1>6, SMT DEF MAXUNICODE
<1>10. both => (Three(s) <=> ~ short /\ ~ half)
  <2> SUFFICES ASSUME both PROVE Three(s) <=> ~ short /\ ~ half
    OBVIOUS
  <2>1. x \in Nat /\ x <= 63 /\ y \in Nat /\ y <= 63
    BY ONLY <1>2
  <2>2. 160 <= b <=> 32 <= x
    BY ONLY <1>7, <2>1, both
  <2>3. b <= 159 <=> x <= 31
    BY ONLY <1>7, <2>1, both
  <2>4. p < 2048 <=> c = 224 /\ x <= 31
    BY ONLY <1>1, <1>2, <1>6, <2>1, SMT
  <2>5. Half(p) <=> c = 237 /\ 32 <= x
    BY ONLY <1>1, <1>2, <1>6, <2>1, SMT DEF Half
  <2>6. 32 <= x <=> ~ (x <= 31)
    BY ONLY <2>1
  <2>7. Three(s) <=> (c = 224 => 160 <= b) /\ (c = 237 => b <= 159)
    BY <1>4
  <2> HIDE DEF short, half
  <2>8. 224 # 237
    OBVIOUS
  <2> QED
    BY ONLY <2>2, <2>3, <2>4, <2>5, <2>6, <2>7, <2>8 DEF short, half
<1>11. Three(s) => codepoint_to_utf8(p) = SubSeq(s, 1, 3)
  <2> SUFFICES ASSUME Three(s) PROVE codepoint_to_utf8(p) = SubSeq(s, 1, 3)
    OBVIOUS
  <2> DEFINE u == c - 224
  <2>1. u \in 0 .. 15 /\ c = 224 + u
    BY <1>1, <1>6
  <2>2. p = ThreeBytes(u, x, y)
    BY <1>2 DEF ThreeBytes
  <2> HIDE DEF u
  <2>3. Cont(b) /\ Cont(e) /\ ~ (p < 2048)
    BY <1>4, <1>10
  <2>4. p >= 2048
    BY ONLY <1>9, <2>3
  <2>7. u \in 0 .. 15 /\ x \in 0 .. 63 /\ y \in 0 .. 63
    BY ONLY <1>2, <2>1
  <2>5. codepoint_to_utf8(p) = <<224 + u, 128 + x, 128 + y>>
    <3> DEFINE t == ThreeBytes(u, x, y)
    <3>1. AskThree(t)
      BY <2>2, <2>4 DEF AskThree
    <3>2. codepoint_to_utf8(t) = Three_(u, x, y)
      BY ONLY <2>7, <3>1, WritesThree, Zenon
    <3> QED
      BY ONLY <2>2, <3>2 DEF Three_
  <2>6. SubSeq(s, 1, 3) = <<c, b, e>> /\ b = 128 + x /\ e = 128 + y
    BY ONLY <1>7, <1>8, <2>3
  <2> QED
    BY ONLY <2>1, <2>5, <2>6
<1> HIDE DEF both, short, half
<1>12. 2 + 1 = 3 /\ 2 \in Nat
  OBVIOUS
<1>13. (Refused(s, 2, TRUE) <=> ~ Three(s)) /\ (Refused(s, 2, FALSE) => Refused(s, 2, TRUE))
  <2>1. Refused(s, 2, TRUE) <=> Refused(s, 2, FALSE) \/ half
    BY ONLY <1>3, <1>9
  <2>2. Three(s) => both
    BY ONLY <1>4
  <2> QED
    BY ONLY <1>3, <1>10, <2>1, <2>2
<1>16. Byte(s, 0) >= 128 /\ 2 = AskedFor(Byte(s, 0)) /\ p = CodePoint(s, 2)
  <2>1. c >= 128 /\ 2 = AskedFor(c)
    BY ONLY <1>2, <1>6
  <2> QED
    BY ONLY <2>1 DEF c, p
<1>14. CASE Three(s)
  <2>1. /\ WellFormed(s) = 2 + 1 /\ ~ Refused(s, 2, TRUE) /\ ~ Refused(s, 2, FALSE)
        /\ codepoint_to_utf8(p) = SubSeq(s, 1, 2 + 1)
    BY ONLY <1>5, <1>11, <1>12, <1>13, <1>14
  <2> QED
    BY ONLY <1>12, <1>16, <2>1, DecodesOthers, s \in Seq(ByteRange)
<1>15. CASE ~ Three(s)
  <2>1. WellFormed(s) = 0 /\ Refused(s, 2, TRUE)
    BY ONLY <1>5, <1>13, <1>15
  <2> QED
    BY ONLY <1>12, <1>16, <2>1, DecodesOthers, s \in Seq(ByteRange)
<1> QED
  BY <1>14, <1>15

LEMMA DecodesFour ==
  ASSUME NEW s \in Seq(ByteRange), 240 <= Byte(s, 0), Byte(s, 0) <= 247
  PROVE  DecodesWell(s)
<1> DEFINE c == Byte(s, 0)
           b == Byte(s, 1)
           e == Byte(s, 2)
           g == Byte(s, 3)
           x == b % 64
           y == e % 64
           z == g % 64
           p == CodePoint(s, 3)
<1>1. c \in Nat /\ b \in Nat /\ e \in Nat /\ g \in Nat /\ c <= 255 /\ b <= 255 /\ e <= 255 /\ g <= 255
  <2>0. 0 \in Nat /\ 1 \in Nat /\ 2 \in Nat /\ 3 \in Nat
    OBVIOUS
  <2>1. c \in Nat /\ c <= 255
    BY ONLY <2>0, s \in Seq(ByteRange), ByteIs
  <2>2. b \in Nat /\ b <= 255
    BY ONLY <2>0, s \in Seq(ByteRange), ByteIs
  <2>3. e \in Nat /\ e <= 255
    BY ONLY <2>0, s \in Seq(ByteRange), ByteIs
  <2>4. g \in Nat /\ g <= 255
    BY ONLY <2>0, s \in Seq(ByteRange), ByteIs
  <2> QED
    BY ONLY <2>1, <2>2, <2>3, <2>4
<1>2. /\ x \in 0 .. 63 /\ y \in 0 .. 63 /\ z \in 0 .. 63
      /\ p = FourBytes(c - 240, x, y, z) /\ AskedFor(c) = 3
  <2>1. c = Byte(s, 0) /\ 240 <= c /\ c <= 247 /\ x = Byte(s, 1) % 64 /\ y = Byte(s, 2) % 64 /\ z = Byte(s, 3) % 64
    OBVIOUS
  <2> HIDE DEF c, b, e, g, x, y, z
  <2> DEFINE n == AskedFor(c)
  <2>2. n = AskedFor(c)
    OBVIOUS
  <2> HIDE DEF n
  <2>3. 192 <= c
    BY ONLY <1>1, <2>1
  <2>4. /\ x \in 0 .. 63 /\ y \in 0 .. 63 /\ z \in 0 .. 63
        /\ 240 <= c /\ c <= 247 => n = 3 /\ CodePoint(s, n) = FourBytes(c - 240, x, y, z)
    BY ONLY <1>1, <2>1, <2>2, <2>3, s \in Seq(ByteRange), CodePointIs, SMT
  <2> QED
    BY ONLY <2>1, <2>2, <2>4 DEF p
<1> DEFINE all == Cont(b) /\ Cont(e) /\ Cont(g)
           short == p < 65536
           large == p > MAXUNICODE
           half == Half(p)
<1>3. /\ Refused(s, 3, FALSE) <=> short \/ ~ all
      /\ p \in Nat => (Refused(s, 3, TRUE) <=> Refused(s, 3, FALSE) \/ large \/ half)
  <2>1. 3 \in Nat /\ 1 <= 3 /\ 3 <= 5
    OBVIOUS
  <2>2. Refused(s, 3, FALSE) <=> p < limits[3] \/ Cut(s, 3)
    BY <2>1, RefusedIs
  <2>3. p \in Nat => (Refused(s, 3, TRUE) <=> Refused(s, 3, FALSE) \/ large \/ half)
    BY <2>1, RefusedIs
  <2>4. limits[3] = 65536
    BY ONLY LimitsAre, SMT
  <2>5. Cut(s, 3) <=> ~ all
    BY CutIs
  <2> DEFINE lt == p < limits[3]
  <2>6. lt <=> short
    BY ONLY <2>4
  <2> HIDE DEF all, short, large, half, lt
  <2>7. Refused(s, 3, FALSE) <=> short \/ ~ all
    BY ONLY <2>2, <2>5, <2>6 DEF lt
  <2> QED
    BY ONLY <2>3, <2>7
<1>4. Four(s) <=> all /\ (c = 240 => 144 <= b) /\ (c = 244 => b <= 143)
  BY DEF Four
<1>5. /\ 240 <= c /\ c <= 244 => WellFormed(s) = IF Four(s) THEN 4 ELSE 0
      /\ 245 <= c => WellFormed(s) = 0
  BY <1>1, WellFormedIs
<1>6. 240 <= c /\ c <= 247
  OBVIOUS
<1>7. /\ Cont(b) => b = 128 + x /\ b # 0
      /\ Cont(e) => e = 128 + y /\ e # 0
      /\ Cont(g) => g = 128 + z /\ g # 0
  <2>1. Cont(b) => b = 128 + x /\ b # 0
    BY <1>1, ContBits
  <2>2. Cont(e) => e = 128 + y /\ e # 0
    BY <1>1, ContBits
  <2>3. Cont(g) => g = 128 + z /\ g # 0
    BY <1>1, ContBits
  <2> QED
    BY ONLY <2>1, <2>2, <2>3
<1>8. g # 0 => SubSeq(s, 1, 4) = <<c, b, e, g>>
  BY BytesBehind
<1> HIDE DEF c, b, e, g, x, y, z, p
<1>9. x \in Nat /\ x <= 63 /\ y \in Nat /\ y <= 63 /\ z \in Nat /\ z <= 63
  BY ONLY <1>2, SMT
<1> DEFINE early == c = 240 /\ x <= 15
           late == 245 <= c \/ (c = 244 /\ 16 <= x)
<1>10. p \in Nat /\ (short <=> early) /\ (large <=> late) /\ (half => short)
  <2> DEFINE r == 64 * y + z
             v == 4096 * x + r
             h == 262144
  <2>1. r \in Nat /\ r <= 4095
    BY ONLY <1>9, SMT
  <2>2. v \in Nat /\ v <= 262143 /\ (v < 65536 <=> x <= 15) /\ (v >= 65536 <=> 16 <= x)
    BY ONLY <1>9, <2>1, SMT
  <2>3. p = 262144 * (c - 240) + v
    BY ONLY <1>1, <1>2, <1>6, <1>9, SMT DEF FourBytes
  <2> HIDE DEF r, v
  <2>4. /\ p \in Nat /\ (p < 65536 <=> c = 240 /\ v < 65536)
        /\ (p > 1114111 <=> 245 <= c \/ (c = 244 /\ v >= 65536))
    BY ONLY <1>1, <1>6, <2>2, <2>3, SMT
  <2>5. short <=> early
    BY ONLY <2>2, <2>4, SMT
  <2>6. large <=> late
    BY ONLY <2>2, <2>4, SMT DEF MAXUNICODE
  <2>7. half => short
    BY ONLY <2>4, SMT DEF Half
  <2> QED
    BY ONLY <2>4, <2>5, <2>6, <2>7
<1>11. all => (144 <= b <=> ~ (x <= 15)) /\ (b <= 143 <=> ~ (16 <= x)) /\ g # 0
  BY ONLY <1>1, <1>7, <1>9
<1> DEFINE four == Four(s)
           low == x <= 15
           far == 245 <= c
<1>12. four <=> all /\ (c = 240 => ~ low) /\ (c = 244 => low)
  <2>1. 16 <= x <=> ~ low
    BY ONLY <1>9
  <2> HIDE DEF all
  <2> QED
    BY ONLY <1>4, <1>11, <2>1 DEF four, low
<1>13. (early <=> c = 240 /\ low) /\ (late <=> far \/ (c = 244 /\ ~ low)) /\ ~ (c = 240 /\ c = 244)
       /\ (far => c # 240 /\ c # 244)
  BY ONLY <1>1, <1>9
<1> DEFINE refused == Refused(s, 3, TRUE)
           laxly == Refused(s, 3, FALSE)
<1> HIDE DEF all, short, large, half, early, late, four, low, far, refused, laxly
<1>14. (laxly <=> short \/ ~ all) /\ (refused <=> laxly \/ large \/ half)
  BY ONLY <1>3, <1>10 DEF refused, laxly
<1>15. (refused <=> ~ four \/ far) /\ (laxly => refused)
  BY ONLY <1>10, <1>12, <1>13, <1>14
<1>16. four => all
  BY ONLY <1>12
<1>17. ~ far => c <= 244
  BY ONLY <1>1 DEF far
<1>18. four /\ ~ far => codepoint_to_utf8(p) = SubSeq(s, 1, 4)
  <2> SUFFICES ASSUME four, ~ far PROVE codepoint_to_utf8(p) = SubSeq(s, 1, 4)
    OBVIOUS
  <2>1. all /\ (~ short) /\ ~ large
    BY ONLY <1>10, <1>12, <1>13, four, ~ far
  <2>2. p >= 65536 /\ p <= MAXUNICODE
    BY ONLY <1>10, <2>1, SMT DEF short, large, MAXUNICODE
  <2> DEFINE u == c - 240
             t == FourBytes(u, x, y, z)
  <2>3. u \in 0 .. 4 /\ c = 240 + u
    BY <1>1, <1>6, <1>17
  <2>4. p = t
    BY ONLY <1>2
  <2> HIDE DEF u
  <2>5. AskFour(t)
    BY ONLY <2>2, <2>4 DEF AskFour
  <2>6. codepoint_to_utf8(t) = Four_(u, x, y, z)
    BY ONLY <1>2, <2>3, <2>5, WritesFour, Zenon
  <2>7. codepoint_to_utf8(p) = <<240 + u, 128 + x, 128 + y, 128 + z>>
    BY ONLY <2>4, <2>6 DEF Four_
  <2>8. SubSeq(s, 1, 4) = <<c, b, e, g>> /\ b = 128 + x /\ e = 128 + y /\ g = 128 + z
    BY ONLY <1>7, <1>8, <2>1 DEF all
  <2> QED
    BY ONLY <2>3, <2>7, <2>8
<1>19. 3 + 1 = 4 /\ 3 \in Nat
  OBVIOUS
<1>20. Byte(s, 0) >= 128 /\ 3 = AskedFor(Byte(s, 0)) /\ p = CodePoint(s, 3)
  <2>1. c >= 128 /\ 3 = AskedFor(c)
    BY ONLY <1>1, <1>2, <1>6
  <2> QED
    BY ONLY <2>1 DEF c, p
<1>21. CASE four /\ ~ far
  <2>1. WellFormed(s) = 3 + 1
    BY ONLY <1>1, <1>5, <1>6, <1>17, <1>19, <1>21 DEF four
  <2>2. ~ Refused(s, 3, TRUE) /\ ~ Refused(s, 3, FALSE)
    BY ONLY <1>15, <1>21 DEF refused, laxly
  <2>3. codepoint_to_utf8(p) = SubSeq(s, 1, 3 + 1)
    BY ONLY <1>18, <1>19, <1>21
  <2> QED
    BY ONLY <1>19, <1>20, <2>1, <2>2, <2>3, DecodesOthers, s \in Seq(ByteRange)
<1>22. CASE ~ (four /\ ~ far)
  <2>1. WellFormed(s) = 0
    <3>1. far => WellFormed(s) = 0
      BY ONLY <1>5 DEF far
    <3>2. ~ far /\ ~ four => WellFormed(s) = 0
      BY ONLY <1>5, <1>6, <1>17 DEF four
    <3> QED
      BY ONLY <1>22, <3>1, <3>2
  <2>2. Refused(s, 3, TRUE)
    BY ONLY <1>15, <1>22 DEF refused
  <2> QED
    BY ONLY <1>19, <1>20, <2>1, <2>2, DecodesOthers, s \in Seq(ByteRange)
<1> QED
  BY ONLY <1>21, <1>22

(* A continuation byte, or one that asks for more than three, begins no    *)
(* character.                                                              *)
LEMMA RefusesOthers ==
  ASSUME NEW s \in Seq(ByteRange), (128 <= Byte(s, 0) /\ Byte(s, 0) <= 191) \/ 248 <= Byte(s, 0)
  PROVE  DecodesWell(s)
<1> DEFINE c == Byte(s, 0)
           n == AskedFor(c)
           p == CodePoint(s, n)
<1>1. c \in Nat /\ c <= 255
  <2>1. 0 \in Nat
    OBVIOUS
  <2> QED
    BY <2>1, ByteIs
<1>2. (128 <= c /\ c <= 191) \/ 248 <= c
  OBVIOUS
<1>3. WellFormed(s) = 0
  <2>1. (128 <= c /\ c <= 193) \/ 245 <= c
    BY ONLY <1>1, <1>2
  <2>2. c = Byte(s, 0)
    OBVIOUS
  <2> HIDE DEF c
  <2> QED
    BY ONLY <2>1, <2>2, s \in Seq(ByteRange), WellFormedIs
<1>4. n \in Nat /\ (n = 0 \/ n >= 4)
  BY ONLY <1>1, <1>2 DEF AskedFor, n
<1>5. 192 <= c /\ n <= 5 => p \in Nat
  <2>1. c = Byte(s, 0) /\ n = AskedFor(c) /\ p = CodePoint(s, n)
    OBVIOUS
  <2> DEFINE x == Byte(s, 1) % 64
             y == Byte(s, 2) % 64
             z == Byte(s, 3) % 64
  <2>2. x = Byte(s, 1) % 64 /\ y = Byte(s, 2) % 64 /\ z = Byte(s, 3) % 64
    OBVIOUS
  <2> HIDE DEF c, n, p, x, y, z
  <2> SUFFICES ASSUME 192 <= c, n <= 5 PROVE p \in Nat
    OBVIOUS
  <2>3. n <= 5 => CodePoint(s, n) \in Nat
    BY ONLY 192 <= c, <1>1, <2>1, <2>2, s \in Seq(ByteRange), CodePointIs, SMT
  <2> QED
    BY ONLY <2>1, <2>3, n <= 5
<1>6. Refused(s, n, TRUE)
  <2>1. p = CodePoint(s, n)
    OBVIOUS
  <2>2. n >= 4 => 192 <= c
    BY ONLY <1>1, <1>2 DEF AskedFor, n
  <2> HIDE DEF c, n, p
  <2>3. n = 0 \/ n > 5 => Refused(s, n, TRUE)
    BY ONLY <1>4, <2>1, s \in Seq(ByteRange), RefusedIs
  <2>4. 1 <= n /\ n <= 5 => (Refused(s, n, FALSE) <=> p < limits[n] \/ Cut(s, n))
    BY ONLY <1>4, <2>1, s \in Seq(ByteRange), RefusedIs
  <2>5. p \in Nat => (Refused(s, n, TRUE) <=> Refused(s, n, FALSE) \/ p > MAXUNICODE \/ Half(p))
    BY ONLY <1>4, <2>1, s \in Seq(ByteRange), RefusedIs
  <2>6. n = 0 \/ n > 5 \/ n = 4 \/ n = 5
    BY ONLY <1>4
  <2>7. n = 4 \/ n = 5 => p \in Nat /\ 1 <= n /\ n <= 5
    BY ONLY <1>4, <1>5, <2>2
  <2>8. n = 4 \/ n = 5 => p < limits[n] \/ p > MAXUNICODE
    <3> DEFINE h == limits[n]
    <3>1. n = 4 \/ n = 5 => h = 2097152 \/ h = 67108864
      BY ONLY LimitsAre
    <3> HIDE DEF h
    <3>2. p \in Nat /\ (h = 2097152 \/ h = 67108864) => p < h \/ p > 1114111
      BY ONLY SMT
    <3> QED
      BY ONLY <2>7, <3>1, <3>2 DEF h, MAXUNICODE
  <2> QED
    BY ONLY <2>3, <2>4, <2>5, <2>6, <2>7, <2>8
<1>7. c >= 128
  BY ONLY <1>1, <1>2
<1>8. Byte(s, 0) >= 128 /\ n = AskedFor(Byte(s, 0)) /\ p = CodePoint(s, n)
  BY ONLY <1>7 DEF c, n, p
<1> HIDE DEF c, n, p
<1> QED
  BY ONLY <1>3, <1>4, <1>6, <1>8, s \in Seq(ByteRange), DecodesOthers

LEMMA EveryTextDecodes ==
  ASSUME NEW s \in Seq(ByteRange)
  PROVE  DecodesWell(s)
<1> DEFINE c == Byte(s, 0)
<1>1. c \in Nat /\ c <= 255
  <2>1. 0 \in Nat
    OBVIOUS
  <2> QED
    BY <2>1, ByteIs
<1>2. \/ c < 128 \/ (128 <= c /\ c <= 191) \/ (192 <= c /\ c <= 223) \/ (224 <= c /\ c <= 239)
      \/ (240 <= c /\ c <= 247) \/ 248 <= c
  BY ONLY <1>1
<1>3. c < 128 => DecodesWell(s)
  BY DecodesAscii
<1>4. (128 <= c /\ c <= 191) \/ 248 <= c => DecodesWell(s)
  BY RefusesOthers
<1>5. 192 <= c /\ c <= 223 => DecodesWell(s)
  BY DecodesTwo
<1>6. 224 <= c /\ c <= 239 => DecodesWell(s)
  BY DecodesThree
<1>7. 240 <= c /\ c <= 247 => DecodesWell(s)
  BY DecodesFour
<1> QED
  BY ONLY <1>2, <1>3, <1>4, <1>5, <1>6, <1>7

(* Whatever bytes a text of Lua holds, strict decoding takes exactly the   *)
(* well-formed sequences of the Unicode standard, each as long as it is    *)
(* and to the code point it encodes, and lax decoding agrees on these:     *)
(* nothing too long, cut off, beyond Unicode or half of a pair.            *)
THEOREM DecodesExactlyAlways == Spec => []DecodesExactly
<1>1. TextOfBytes => DecodesExactly
  BY EveryTextDecodes DEF TextOfBytes, DecodesExactly
<1> QED
  BY <1>1, TextsAreBytes, PTL

-----------------------------------------------------------------------------
(* utf8: walks through a text                                              *)

(* The text from `at' on, and what is decoded there.                       *)
Rest(s, at) == SubSeq(s, at + 1, Len(s))

LEMMA RestIs ==
  ASSUME NEW s \in Seq(ByteRange), NEW at \in 0 .. Len(s)
  PROVE  /\ Rest(s, at) \in Seq(ByteRange) /\ Len(Rest(s, at)) = Len(s) - at
         /\ \A k \in Nat : Byte(Rest(s, at), k) = Byte(s, at + k)
<1> DEFINE n == Len(s)
           u == Rest(s, at)
<1>1. n \in Nat /\ at \in 0 .. n /\ \A i \in 1 .. n : s[i] \in ByteRange
  BY LenProperties, ElementOfSeq
<1>2. /\ u \in Seq(ByteRange) /\ Len(u) = IF at + 1 <= n THEN n - (at + 1) + 1 ELSE 0
      /\ \A i \in 1 .. n - (at + 1) + 1 : u[i] = s[at + 1 + i - 1]
  <2>1. \A i \in at + 1 .. n : s[i] \in ByteRange
    BY <1>1
  <2>2. at + 1 \in Int /\ n \in Int
    BY <1>1
  <2> QED
    BY <2>1, <2>2, SubSeqProperties DEF Rest
<1> HIDE DEF u, n
<1>3. Len(u) = n - at
  BY <1>1, <1>2
<1>4. ASSUME NEW k \in Nat PROVE Byte(u, k) = Byte(s, at + k)
  <2>1. CASE k < n - at
    <3>1. at + k < n /\ k + 1 \in 1 .. n - (at + 1) + 1 /\ at + 1 + (k + 1) - 1 = at + k + 1
      BY <1>1, <2>1
    <3>2. u[k + 1] = s[at + k + 1]
      BY <1>2, <3>1
    <3> QED
      BY <1>3, <2>1, <3>1, <3>2 DEF Byte, n
  <2>2. CASE ~ (k < n - at)
    <3>1. ~ (at + k < n)
      BY <1>1, <2>2
    <3> QED
      BY <1>3, <2>2, <3>1 DEF Byte, n
  <2> QED
    BY <2>1, <2>2
<1> QED
  BY <1>2, <1>3, <1>4 DEF u, n

Later(d, at) == IF d = Invalid THEN Invalid ELSE [val |-> d.val, next |-> at + d.next]

LEMMA LowBitsAgree ==
  ASSUME NEW s \in Seq(ByteRange), NEW at \in 0 .. Len(s), NEW n \in 0 .. 7
  PROVE  LowBits(s, at, n)[n] = LowBits(Rest(s, at), 0, n)[n]
<1> DEFINE u == Rest(s, at)
           a == LowBits(s, at, n)
           b == LowBits(u, 0, n)
           T == {k \in 0 .. n : a[k] = b[k]}
<1>1. u \in Seq(ByteRange) /\ at \in Nat /\ \A k \in Nat : Byte(u, k) = Byte(s, at + k)
  BY RestIs, LenProperties
<1> HIDE DEF u
<1>2. a[0] = 0 /\ \A k \in 1 .. n : a[k] = 64 * a[k - 1] + (Byte(s, at + k) % 64)
  BY <1>1, LowBitsFrom
<1>3. b[0] = 0 /\ \A k \in 1 .. n : b[k] = 64 * b[k - 1] + (Byte(u, k) % 64)
  BY <1>1, LowBitsAre
<1> HIDE DEF a, b
<1>4. ASSUME NEW k \in 1 .. n, k - 1 \in T PROVE k \in T
  <2>1. k \in Nat /\ k \in 0 .. n /\ a[k - 1] = b[k - 1]
    BY <1>4
  <2> QED
    BY <1>1, <1>2, <1>3, <2>1
<1>5. 0 \in T
  BY <1>2, <1>3
<1> HIDE DEF T
<1>6. n \in Nat /\ n \in 0 .. n
  OBVIOUS
<1>7. n \in T
  BY <1>4, <1>5, <1>6, UpTo
<1> QED
  BY <1>7 DEF T, a, b, u

LEMMA DecodeMoved ==
  ASSUME NEW s \in Seq(ByteRange), NEW at \in 0 .. Len(s), NEW strict \in BOOLEAN
  PROVE  utf8_decode(s, at, strict) = Later(utf8_decode(Rest(s, at), 0, strict), at)
<1> DEFINE u == Rest(s, at)
           c == Byte(s, at)
           n == Continuations(c)
           res == LowBits(s, at, n)[n] + (((c * 2 ^ n) % 128) * 2 ^ (5 * n))
           resu == LowBits(u, 0, n)[n] + (((c * 2 ^ n) % 128) * 2 ^ (5 * n))
           bad == \/ n > 5 \/ \E k \in 1 .. n : ~ iscont(Byte(s, at + k))
                  \/ TooLong(res, n)
                  \/ strict /\ (res > MAXUNICODE \/ res \in Surrogates)
           badu == \/ n > 5 \/ \E k \in 1 .. n : ~ iscont(Byte(u, 0 + k))
                   \/ TooLong(resu, n)
                   \/ strict /\ (resu > MAXUNICODE \/ resu \in Surrogates)
<1>1. u \in Seq(ByteRange) /\ at \in Nat /\ \A k \in Nat : Byte(u, k) = Byte(s, at + k)
  BY RestIs, LenProperties
<1>2. Byte(u, 0) = c /\ c \in 0 .. 255
  <2>1. at + 0 = at /\ 0 \in Nat
    BY <1>1
  <2> QED
    BY <1>1, <2>1, ByteTyped
<1>3. utf8_decode(s, at, strict) =
        IF c < 128 THEN [val |-> c, next |-> at + 1]
        ELSE IF bad THEN Invalid ELSE [val |-> res, next |-> at + n + 1]
  BY ONLY DEF utf8_decode, LowBits
<1>4. utf8_decode(u, 0, strict) =
        IF c < 128 THEN [val |-> c, next |-> 0 + 1]
        ELSE IF badu THEN Invalid ELSE [val |-> resu, next |-> 0 + n + 1]
  BY ONLY <1>2 DEF utf8_decode, LowBits
<1>5. CASE c < 128
  <2>1. [val |-> c, next |-> 0 + 1] # Invalid
    BY DEF Invalid
  <2>2. at + (0 + 1) = at + 1
    BY <1>1
  <2> QED
    BY <1>3, <1>4, <1>5, <2>1, <2>2 DEF Later
<1>6. CASE ~ (c < 128)
  <2>1. n \in 0 .. 7
    <3>1. c \in 128 .. 255
      <4>1. \A b \in 0 .. 255 : ~ (b < 128) => b \in 128 .. 255
        OBVIOUS
      <4> HIDE DEF c
      <4> QED
        BY ONLY <1>2, <1>6, <4>1
    <3> QED
      BY <3>1, ContinuationsAre
  <2> HIDE DEF n, c, u
  <2>2. res = resu
    BY <2>1, LowBitsAgree DEF u
  <2>3. \A k \in 1 .. n : Byte(u, 0 + k) = Byte(s, at + k)
    <3>1. \A k \in 1 .. n : k \in Nat /\ 0 + k = k
      BY <2>1
    <3> QED
      BY <1>1, <3>1
  <2>4. badu <=> bad
    BY ONLY <2>2, <2>3
  <2>5. [val |-> resu, next |-> 0 + n + 1] # Invalid /\ at + (0 + n + 1) = at + n + 1
    <3>1. 0 + n + 1 # 0
      BY <2>1
    <3> QED
      BY <1>1, <2>1, <3>1 DEF Invalid
  <2> HIDE DEF res, resu, bad, badu
  <2> QED
    BY <1>3, <1>4, <1>6, <2>2, <2>4, <2>5 DEF Later, u
<1> QED
  BY <1>5, <1>6

LEMMA PowersAre ==
  ASSUME NEW m \in 1 .. 5
  PROVE  2 ^ m \in Nat /\ 2 ^ (5 * m) \in Nat
<1> DEFINE w == 5 * m
           y == 2 ^ m
           z == 2 ^ w
<1>1. (m = 1 /\ w = 5) \/ (m = 2 /\ w = 10) \/ (m = 3 /\ w = 15) \/ (m = 4 /\ w = 20) \/ (m = 5 /\ w = 25)
  OBVIOUS
<1>0. m = 1 \/ m = 2 \/ m = 3 \/ m = 4 \/ m = 5
  OBVIOUS
<1>5. w = 5 \/ w = 10 \/ w = 15 \/ w = 20 \/ w = 25
  BY <1>1
<1> HIDE DEF w
<1>2. 2 ^ 1 = 2 /\ 2 ^ 2 = 4 /\ 2 ^ 3 = 8 /\ 2 ^ 4 = 16 /\ 2 ^ 5 = 32
  OBVIOUS
<1>6. 2 ^ 5 = 32 /\ 2 ^ 10 = 1024 /\ 2 ^ 15 = 32768 /\ 2 ^ 20 = 1048576 /\ 2 ^ 25 = 33554432
  OBVIOUS
<1>3. y = 2 \/ y = 4 \/ y = 8 \/ y = 16 \/ y = 32
  BY ONLY <1>0, <1>2
<1>4. z = 32 \/ z = 1024 \/ z = 32768 \/ z = 1048576 \/ z = 33554432
  <2>1. w = 5 => z = 32
    BY ONLY <1>6
  <2>2. w = 10 => z = 1024
    BY ONLY <1>6
  <2>3. w = 15 => z = 32768
    BY ONLY <1>6
  <2>4. w = 20 => z = 1048576
    BY ONLY <1>6
  <2>5. w = 25 => z = 33554432
    BY ONLY <1>6
  <2> HIDE DEF z
  <2> QED
    BY ONLY <1>5, <2>1, <2>2, <2>3, <2>4, <2>5
<1> HIDE DEF y, z
<1>7. y \in Nat /\ z \in Nat
  BY ONLY <1>3, <1>4
<1> QED
  BY <1>7 DEF w, y, z

LEMMA ByteKinds ==
  ASSUME NEW b \in 0 .. 255
  PROVE  /\ b \in Nat /\ (b < 128 => ~ iscont(b)) /\ (~ (b < 128) => b \in 128 .. 255 /\ b >= 128)
         /\ (iscont(b) <=> b \in 128 .. 191) /\ (b \in 128 .. 191 => AskedFor(b) = 0 /\ b # 0)
<1>1. iscont(b) <=> b \in 128 .. 191
  BY ContIs
<1>2. b \in Nat /\ (b < 128 => b \notin 128 .. 191) /\ (~ (b < 128) => b \in 128 .. 255 /\ b >= 128)
  OBVIOUS
<1>3. b \in 128 .. 191 => b < 192 /\ b # 0
  OBVIOUS
<1> QED
  BY <1>1, <1>2, <1>3 DEF AskedFor

(* A valid sequence lies inside the text, and only its first byte is not   *)
(* a continuation byte.                                                    *)
LEMMA DecodeFirst ==
  ASSUME NEW u \in Seq(ByteRange), Len(u) > 0, NEW strict \in BOOLEAN, NEW d, d = utf8_decode(u, 0, strict)
  PROVE  /\ iscont(Byte(u, 0)) => d = Invalid
         /\ d # Invalid =>
              /\ d.val \in Nat /\ d.next \in 1 .. Len(u) /\ d = [val |-> d.val, next |-> d.next]
              /\ \A k \in 1 .. d.next - 1 : iscont(Byte(u, k))
<1> DEFINE c == Byte(u, 0)
           n == AskedFor(c)
           p == CodePoint(u, n)
<1>1. c \in 0 .. 255 /\ Len(u) \in Nat
  BY ByteTyped, LenProperties
<1>2. /\ c < 128 => d = [val |-> c, next |-> 1]
      /\ c >= 128 => d = IF Refused(u, n, strict) THEN Invalid ELSE [val |-> p, next |-> n + 1]
  BY DecodeIs
<1>3. /\ c \in Nat /\ (c < 128 => ~ iscont(c)) /\ (~ (c < 128) => c \in 128 .. 255 /\ c >= 128)
      /\ (iscont(c) <=> c \in 128 .. 191) /\ (c \in 128 .. 191 => AskedFor(c) = 0 /\ c # 0)
  BY ONLY <1>1, ByteKinds
<1>4. CASE c < 128
  <2>1. d = [val |-> c, next |-> 1] /\ c \in Nat /\ ~ iscont(c)
    BY ONLY <1>2, <1>3, <1>4
  <2> HIDE DEF c
  <2>2. d.val = c /\ d.next = 1 /\ 1 \in 1 .. Len(u)
    BY <1>1, <2>1
  <2>3. \A k \in 1 .. 1 - 1 : iscont(Byte(u, k))
    OBVIOUS
  <2> QED
    BY <2>1, <2>2, <2>3 DEF c
<1>5. CASE ~ (c < 128)
  <2>1. c \in 128 .. 255 /\ c >= 128 /\ (iscont(c) <=> c \in 128 .. 191)
    BY ONLY <1>3, <1>5
  <2>2. d = IF Refused(u, n, strict) THEN Invalid ELSE [val |-> p, next |-> n + 1]
    BY ONLY <1>2, <2>1
  <2>3. iscont(c) => d = Invalid
    <3>1. c \in 128 .. 191 => n = 0
      BY ONLY <1>3
    <3>2. n = 0 => Refused(u, n, strict)
      BY DEF Refused
    <3> QED
      BY ONLY <2>1, <2>2, <3>1, <3>2
  <2>4. n \in 0 .. 7
    BY <2>1, ContinuationsAre
  <2> HIDE DEF c, n
  <2>5. CASE ~ Refused(u, n, strict)
    <3>1. n \in 1 .. 5 /\ \A k \in 1 .. n : Byte(u, k) \in 128 .. 191
      BY <2>4, <2>5 DEF Refused
    <3>2. p \in Nat
      <4> DEFINE x == LowBits(u, 0, n)[n]
                 b == Byte(u, 0)
                 y == 2 ^ n
                 z == 2 ^ (5 * n)
      <4>1. x \in Nat
        <5>1. n \in 0 .. n
          BY <3>1
        <5> QED
          BY <2>4, <5>1, LowBitsAre
      <4>2. b \in Nat
        BY ONLY <1>3 DEF b, c
      <4>3. y \in Nat /\ z \in Nat
        BY ONLY <3>1, PowersAre
      <4> HIDE DEF x, b, y, z
      <4>4. b * y \in Nat
        BY ONLY <4>2, <4>3
      <4>5. (b * y) % 128 \in Nat
        <5> DEFINE v == b * y
        <5>1. v \in Nat
          BY <4>4
        <5> HIDE DEF v
        <5>2. v % 128 \in Nat
          BY ONLY <5>1
        <5> QED
          BY <5>2 DEF v
      <4>6. ((b * y) % 128) * z \in Nat
        <5> DEFINE v == (b * y) % 128
        <5> HIDE DEF v
        <5>1. v \in Nat
          BY <4>5 DEF v
        <5>2. v * z \in Nat
          BY ONLY <4>3, <5>1
        <5> QED
          BY <5>2 DEF v
      <4>7. x + ((b * y) % 128) * z \in Nat
        <5> DEFINE v == ((b * y) % 128) * z
        <5> HIDE DEF v
        <5>1. v \in Nat
          BY <4>6 DEF v
        <5>2. x + v \in Nat
          BY ONLY <4>1, <5>1
        <5> QED
          BY <5>2 DEF v
      <4> QED
        BY <4>7 DEF CodePoint, x, b, y, z
    <3>3. n < Len(u)
      <4>1. n \in Nat /\ n \in 1 .. n
        BY <3>1
      <4>2. Byte(u, n) # 0
        <5>1. \A b \in 128 .. 191 : b # 0
          OBVIOUS
        <5> QED
          BY ONLY <3>1, <4>1, <5>1
      <4> QED
        BY <4>1, <4>2, ByteTyped
    <3> HIDE DEF p
    <3>4. d = [val |-> p, next |-> n + 1]
      BY <2>2, <2>5
    <3>5. n + 1 \in 1 .. Len(u) /\ n + 1 - 1 = n
      BY <1>1, <3>1, <3>3
    <3>6. \A k \in 1 .. n : iscont(Byte(u, k))
      <4>1. \A b \in 128 .. 191 : iscont(b)
        <5>1. \A b \in 128 .. 191 : b \in 0 .. 255
          OBVIOUS
        <5> QED
          BY ONLY <5>1, ByteKinds
      <4> QED
        BY <3>1, <4>1
    <3>7. d.val = p /\ d.next = n + 1
      BY ONLY <3>4
    <3>8. d.val \in Nat /\ d.next \in 1 .. Len(u) /\ d = [val |-> d.val, next |-> d.next]
      BY ONLY <3>2, <3>4, <3>5, <3>7
    <3>9. \A k \in 1 .. d.next - 1 : iscont(Byte(u, k))
      <4> DEFINE q == d.next
      <4>0. q = n + 1 /\ n \in Nat
        BY <3>1, <3>7
      <4> HIDE DEF q
      <4>1. q - 1 = n
        BY ONLY <4>0
      <4> QED
        BY ONLY <3>6, <4>1 DEF q
    <3> QED
      BY ONLY <2>3, <3>8, <3>9 DEF c
  <2> QED
    BY <2>2, <2>3, <2>5 DEF c
<1> QED
  BY ONLY <1>4, <1>5

(* What a valid sequence at `at' is.                                       *)
Valid(s, at, d) ==
  /\ d.val \in Nat /\ d.next \in at + 1 .. Len(s) /\ d = [val |-> d.val, next |-> d.next]
  /\ \A p \in at + 1 .. d.next - 1 : iscontp(s, p)

LEMMA DecodeFacts ==
  ASSUME NEW s \in Seq(ByteRange), NEW at \in Nat, at < Len(s), NEW strict \in BOOLEAN,
         NEW d, d = utf8_decode(s, at, strict)
  PROVE  (iscontp(s, at) => d = Invalid) /\ (d # Invalid => Valid(s, at, d))
<1> DEFINE u == Rest(s, at)
           e == utf8_decode(u, 0, strict)
           n == Len(s)
<1>0. n \in Nat /\ at \in Nat /\ at < n
  BY LenProperties
<1>1. at \in 0 .. n
  BY ONLY <1>0
<1>2. /\ u \in Seq(ByteRange) /\ Len(u) = n - at
      /\ \A k \in Nat : Byte(u, k) = Byte(s, at + k)
  BY <1>1, RestIs
<1>3. d = Later(e, at)
  BY <1>1, DecodeMoved
<1>4. n - at > 0 /\ n - at \in Nat /\ at + 0 = at
  BY ONLY <1>0
<1> HIDE DEF u
<1>5. /\ iscont(Byte(u, 0)) => e = Invalid
      /\ e # Invalid =>
           /\ e.val \in Nat /\ e.next \in 1 .. n - at /\ e = [val |-> e.val, next |-> e.next]
           /\ \A k \in 1 .. e.next - 1 : iscont(Byte(u, k))
  <2>1. Len(u) > 0
    BY <1>2, <1>4
  <2> QED
    BY <1>2, <2>1, DecodeFirst
<1> HIDE DEF e, n
<1>6. Byte(u, 0) = Byte(s, at)
  BY <1>2, <1>4
<1>7. iscontp(s, at) => d = Invalid
  BY <1>3, <1>5, <1>6 DEF iscontp, Later
<1>8. ASSUME d # Invalid PROVE Valid(s, at, d)
  <2>1. e # Invalid /\ d = [val |-> e.val, next |-> at + e.next]
    BY <1>3, <1>8 DEF Later
  <2>2. d.val = e.val /\ d.next = at + e.next
    BY <2>1
  <2>3. e.val \in Nat /\ e.next \in 1 .. n - at /\ \A k \in 1 .. e.next - 1 : iscont(Byte(u, k))
    BY <1>5, <2>1
  <2> DEFINE m == e.next
  <2>4. m \in 1 .. n - at
    BY <2>3
  <2> HIDE DEF m
  <2>5. at + m \in at + 1 .. n
    BY ONLY <1>0, <2>4
  <2>6. \A p \in at + 1 .. at + m - 1 : p - at \in 1 .. m - 1 /\ p - at \in Nat /\ at + (p - at) = p
    BY ONLY <1>0, <2>4
  <2>7. \A p \in at + 1 .. at + m - 1 : iscontp(s, p)
    BY <1>2, <2>3, <2>6 DEF iscontp, m
  <2> QED
    BY <2>1, <2>2, <2>3, <2>5, <2>7 DEF Valid, m, n
<1> QED
  BY <1>7, <1>8

(* The first m characters of a text: where they end, and what they are.    *)
Chars(s, strict, m, P, V) ==
  /\ m \in Nat /\ P \in [0 .. m -> 0 .. Len(s)] /\ P[0] = 0
  /\ V \in Seq(Nat) /\ Len(V) = m
  /\ \A k \in 1 .. m : P[k - 1] < Len(s) /\ utf8_decode(s, P[k - 1], strict) = [val |-> V[k], next |-> P[k]]

(* Where a character is.                                                   *)
LEMMA CharIs ==
  ASSUME NEW s \in Seq(ByteRange), NEW strict \in BOOLEAN, NEW m, NEW P, NEW V,
         Chars(s, strict, m, P, V), NEW k \in 1 .. m
  PROVE  /\ k - 1 \in 0 .. m /\ k \in 0 .. m /\ m \in Nat /\ Len(s) \in Nat
         /\ P[k - 1] \in Nat /\ P[k] \in P[k - 1] + 1 .. Len(s)
         /\ ~ iscontp(s, P[k - 1]) /\ \A p \in P[k - 1] + 1 .. P[k] - 1 : iscontp(s, p)
         /\ V[k] \in Nat
<1>1. m \in Nat /\ k \in 1 .. m
  BY DEF Chars
<1>2. k - 1 \in 0 .. m /\ k \in 0 .. m
  BY ONLY <1>1
<1> DEFINE at == P[k - 1]
           d == utf8_decode(s, at, strict)
<1>3. at \in 0 .. Len(s) /\ at < Len(s) /\ d = [val |-> V[k], next |-> P[k]] /\ P[k] \in 0 .. Len(s)
  BY <1>2 DEF Chars
<1>4. at \in Nat /\ Len(s) \in Nat
  BY <1>3, LenProperties
<1> HIDE DEF at, d
<1>5. (iscontp(s, at) => d = Invalid) /\ (d # Invalid => Valid(s, at, d))
  BY <1>3, <1>4, DecodeFacts DEF d
<1>6. V[k] \in Nat
  BY <1>1, ElementOfSeq DEF Chars
<1>7. d.val = V[k] /\ d.next = P[k]
  BY <1>3
<1>8. d # Invalid
  <2>1. V[k] # -1
    BY <1>6
  <2> QED
    BY <1>7, <2>1 DEF Invalid
<1> QED
  BY <1>1, <1>2, <1>4, <1>5, <1>6, <1>7, <1>8 DEF Valid, at

(* DecodedUpTo goes from state to state.                                   *)
WalkStates(s) == [at : 0 .. Len(s), codes : Seq(Nat), bad : 0 .. Len(s)]

Further(s, w, to, strict) ==
  LET d == utf8_decode(s, w.at, strict)
  IN IF w.at >= to \/ w.bad # 0 THEN w
     ELSE IF d = Invalid THEN [w EXCEPT !.bad = w.at + 1]
     ELSE [w EXCEPT !.at = d.next, !.codes = Append(w.codes, d.val)]

LEMMA FurtherIs ==
  ASSUME NEW s \in Seq(ByteRange), NEW w \in WalkStates(s), NEW to \in 0 .. Len(s), NEW strict \in BOOLEAN
  PROVE  /\ Further(s, w, to, strict) \in WalkStates(s)
         /\ w.at < to /\ w.bad = 0 =>
              IF utf8_decode(s, w.at, strict) = Invalid
              THEN Further(s, w, to, strict) = [at |-> w.at, codes |-> w.codes, bad |-> w.at + 1]
              ELSE /\ Valid(s, w.at, utf8_decode(s, w.at, strict))
                   /\ Further(s, w, to, strict) =
                        [at |-> utf8_decode(s, w.at, strict).next,
                         codes |-> Append(w.codes, utf8_decode(s, w.at, strict).val), bad |-> 0]
<1> DEFINE d == utf8_decode(s, w.at, strict)
           n == Len(s)
           at == w.at
<1>1. n \in Nat /\ to \in 0 .. n /\ at \in 0 .. n /\ w.codes \in Seq(Nat) /\ w.bad \in 0 .. n
  BY LenProperties DEF WalkStates
<1>2. at \in Nat /\ to \in Nat /\ (at >= to \/ at < to) /\ ~ (at >= to /\ at < to)
  BY ONLY <1>1
<1>3. w = [at |-> w.at, codes |-> w.codes, bad |-> w.bad]
  BY DEF WalkStates
<1> HIDE DEF d, n
<1>4. CASE at >= to \/ w.bad # 0
  BY <1>2, <1>4 DEF Further
<1>5. CASE at < to /\ w.bad = 0
  <2>1. at < n /\ at + 1 \in 0 .. n
    BY ONLY <1>1, <1>2, <1>5
  <2>2. d # Invalid => Valid(s, at, d)
    BY <1>2, <2>1, DecodeFacts DEF d, n
  <2>3. CASE d = Invalid
    <3>1. Further(s, w, to, strict) = [w EXCEPT !.bad = w.at + 1]
      BY <1>2, <1>5, <2>3 DEF Further, d
    <3>2. Further(s, w, to, strict) = [at |-> w.at, codes |-> w.codes, bad |-> w.at + 1]
      BY <1>3, <3>1
    <3>3. Further(s, w, to, strict) \in WalkStates(s)
      BY <1>1, <2>1, <3>2 DEF WalkStates, n
    <3> QED
      BY <2>3, <3>2, <3>3 DEF d
  <2>4. CASE d # Invalid
    <3>1. Further(s, w, to, strict) = [w EXCEPT !.at = d.next, !.codes = Append(w.codes, d.val)]
      BY <1>2, <1>5, <2>4 DEF Further, d
    <3>2. Further(s, w, to, strict) = [at |-> d.next, codes |-> Append(w.codes, d.val), bad |-> 0]
      BY <1>3, <1>5, <3>1
    <3>3. d.next \in at + 1 .. n /\ d.val \in Nat
      BY <2>2, <2>4 DEF Valid, n
    <3>4. \A q \in at + 1 .. n : q \in 0 .. n
      BY ONLY <1>1
    <3>5. Append(w.codes, d.val) \in Seq(Nat) /\ d.next \in 0 .. n /\ 0 \in 0 .. n
      BY <1>1, <3>3, <3>4, AppendProperties
    <3>6. Further(s, w, to, strict) \in WalkStates(s)
      BY <3>2, <3>5 DEF WalkStates, n
    <3> QED
      BY <2>2, <2>4, <3>2, <3>6 DEF d
  <2> QED
    BY <2>3, <2>4
<1> QED
  BY <1>2, <1>1, <1>4, <1>5

LEMMA DecodedSteps ==
  ASSUME NEW s \in Seq(ByteRange), NEW from \in 0 .. Len(s), NEW to \in 0 .. Len(s), NEW strict \in BOOLEAN
  PROVE  \E g \in [0 .. Len(s) -> WalkStates(s)] :
           /\ g[0] = [at |-> from, codes |-> << >>, bad |-> 0]
           /\ DecodedUpTo(s, from, to, strict) = g[Len(s)]
           /\ \A k \in 1 .. Len(s) : g[k] = Further(s, g[k - 1], to, strict)
<1> DEFINE n == Len(s)
           S == WalkStates(s)
           e == [at |-> from, codes |-> << >>, bad |-> 0]
           On(w) == Further(s, w, to, strict)
           Eq(f) == f = [k \in 0 .. n |-> IF k = 0 THEN e ELSE On(f[k - 1])]
           step == [k \in 1 .. n |-> [w \in S |-> On(w)]]
           f == CHOOSE f_ : Eq(f_)
<1>1. n \in Nat
  BY LenProperties
<1>2. \A w \in S : On(w) \in S
  BY FurtherIs
<1>3. e \in S
  BY <1>1, EmptySeq DEF WalkStates
<1>4. DecodedUpTo(s, from, to, strict) = f[n]
  BY DEF DecodedUpTo, Further
<1> HIDE DEF n, On, S, e
<1>5. step \in Steps(n, S)
  BY <1>2 DEF Steps
<1>6. \A k \in 1 .. n, w \in S : step[k][w] = On(w)
  OBVIOUS
<1> HIDE DEF step
<1>7. \E g : Follows(g, n, S, e, step)
  BY <1>1, <1>3, <1>5, Recursion
<1>8. PICK g \in [0 .. n -> S] : g[0] = e /\ \A k \in 1 .. n : g[k] = step[k][g[k - 1]]
  BY <1>7 DEF Follows
<1>9. Eq(g)
  <2>1. ASSUME NEW k \in 0 .. n PROVE g[k] = IF k = 0 THEN e ELSE On(g[k - 1])
    <3>1. CASE k = 0
      BY <1>8, <3>1
    <3>2. CASE k # 0
      <4>1. k \in 1 .. n /\ k - 1 \in 0 .. n
        BY <1>1, <3>2
      <4>2. g[k - 1] \in S
        BY <1>8, <4>1
      <4> QED
        BY <1>6, <1>8, <3>2, <4>1, <4>2
    <3> QED
      BY <3>1, <3>2
  <2> QED
    BY <1>8, <2>1
<1>10. Eq(f)
  BY <1>9
<1> HIDE DEF f
<1> DEFINE T == {k \in 0 .. n : f[k] = g[k]}
<1>11. 0 \in T
  BY <1>1, <1>8, <1>10
<1>12. ASSUME NEW k \in 1 .. n, k - 1 \in T PROVE k \in T
  <2>1. k \in 0 .. n /\ k # 0
    BY <1>1
  <2> QED
    BY <1>9, <1>10, <1>12, <2>1
<1> HIDE DEF T
<1>13. n \in T
  <2>1. \A k \in 0 .. n : k \in T
    BY <1>1, <1>11, <1>12, UpTo
  <2> QED
    BY <1>1, <2>1
<1>14. f[n] = g[n] /\ g[0] = e
  BY <1>8, <1>13 DEF T
<1>15. \A k \in 1 .. n : g[k] = On(g[k - 1])
  <2>1. \A k \in 1 .. n : k \in 0 .. n /\ k # 0
    BY <1>1
  <2> QED
    BY <1>9, <2>1
<1> QED
  BY <1>4, <1>8, <1>14, <1>15 DEF n, S, e, On

(* Where len and codepoint stop: at the end of the text, or where it is    *)
(* invalid.                                                                *)
LEMMA CharsEnd ==
  ASSUME NEW s \in Seq(ByteRange), NEW strict \in BOOLEAN
  PROVE  \E m \in 0 .. Len(s) : \E P, V :
           /\ Chars(s, strict, m, P, V) /\ P[m] >= m
           /\ DecodedUpTo(s, 0, Len(s), strict).codes = V
           /\ \/ P[m] = Len(s) /\ DecodedUpTo(s, 0, Len(s), strict).bad = 0
              \/ /\ P[m] < Len(s) /\ utf8_decode(s, P[m], strict) = Invalid
                 /\ DecodedUpTo(s, 0, Len(s), strict).bad # 0
<1> DEFINE n == Len(s)
           Right(w, k, m, P, V) ==
             /\ Chars(s, strict, m, P, V) /\ P[m] >= m /\ w.codes = V /\ w.at = P[m] /\ m <= k
             /\ \/ P[m] < n /\ w.bad = 0 /\ m = k
                \/ P[m] = n /\ w.bad = 0
                \/ P[m] < n /\ utf8_decode(s, P[m], strict) = Invalid /\ w.bad # 0
<1>1. n \in Nat /\ 0 \in 0 .. n /\ n \in 0 .. n
  BY LenProperties
<1>2. PICK g \in [0 .. n -> WalkStates(s)] :
        /\ g[0] = [at |-> 0, codes |-> << >>, bad |-> 0]
        /\ DecodedUpTo(s, 0, n, strict) = g[n]
        /\ \A k \in 1 .. n : g[k] = Further(s, g[k - 1], n, strict)
  BY <1>1, DecodedSteps
<1> DEFINE T == {k \in 0 .. n : \E m \in Nat : \E P, V : Right(g[k], k, m, P, V)}
<1>3. 0 \in T
  <2> DEFINE P == [i \in 0 .. 0 |-> 0]
             V == << >>
  <2>1. V \in Seq(Nat) /\ Len(V) = 0
    BY EmptySeq
  <2> HIDE DEF V
  <2>2. P[0] = 0 /\ P \in [0 .. 0 -> 0 .. n] /\ \A k \in 1 .. 0 : FALSE
    BY <1>1
  <2> HIDE DEF P
  <2>3. Chars(s, strict, 0, P, V)
    BY <2>1, <2>2 DEF Chars, n
  <2>4. g[0].codes = V /\ g[0].at = 0 /\ g[0].bad = 0
    BY <1>2 DEF V
  <2>5. 0 < n \/ 0 = n
    BY <1>1
  <2>6. Right(g[0], 0, 0, P, V)
    BY <2>2, <2>3, <2>4, <2>5
  <2> QED
    BY <1>1, <2>6
<1>4. ASSUME NEW k \in 1 .. n, k - 1 \in T PROVE k \in T
  <2>1. PICK m \in Nat : \E P, V : Right(g[k - 1], k - 1, m, P, V)
    BY <1>4
  <2>2. PICK P, V : Right(g[k - 1], k - 1, m, P, V)
    BY <2>1
  <2> DEFINE w == g[k - 1]
  <2>3. k - 1 \in 0 .. n /\ k \in 0 .. n /\ k - 1 <= k
    BY <1>1
  <2>4. w \in WalkStates(s) /\ g[k] = Further(s, w, n, strict)
    BY <1>2, <2>3
  <2> HIDE DEF w
  <2>5. Right(w, k - 1, m, P, V)
    BY <2>2 DEF w
  <2>6. w.at \in 0 .. n /\ w.bad \in 0 .. n /\ m <= k
    <3>1. m <= k - 1 /\ k - 1 <= k /\ k - 1 \in 0 .. n /\ k \in 0 .. n
      BY <2>3, <2>5
    <3> QED
      BY <2>4, <3>1 DEF WalkStates, n
  <2>7. CASE w.at >= n \/ w.bad # 0
    <3>1. g[k] = w
      BY <2>4, <2>7 DEF Further
    <3>2. ~ (P[m] < n /\ w.bad = 0)
      BY <1>1, <2>5, <2>6, <2>7
    <3>3. Right(w, k, m, P, V)
      BY <2>5, <2>6, <3>2
    <3> QED
      BY <2>3, <3>1, <3>3
  <2>8. CASE ~ (w.at >= n \/ w.bad # 0)
    <3> DEFINE at == w.at
               d == utf8_decode(s, at, strict)
    <3>1. at < n /\ w.bad = 0 /\ at = P[m] /\ at \in Nat
      BY <1>1, <2>5, <2>6, <2>8
    <3>2. m = k - 1 /\ Chars(s, strict, m, P, V) /\ w.codes = V /\ at >= m
      BY <1>1, <2>5, <3>1
    <3>3. IF d = Invalid
          THEN g[k] = [at |-> at, codes |-> w.codes, bad |-> at + 1]
          ELSE /\ Valid(s, at, d)
               /\ g[k] = [at |-> d.next, codes |-> Append(w.codes, d.val), bad |-> 0]
      BY <1>1, <2>4, <3>1, FurtherIs
    <3> HIDE DEF at, d
    <3>4. CASE d = Invalid
      <4>1. g[k].at = at /\ g[k].codes = V /\ g[k].bad = at + 1 /\ at + 1 # 0
        BY <3>1, <3>2, <3>3, <3>4
      <4>2. utf8_decode(s, P[m], strict) = Invalid
        BY <3>1, <3>4 DEF d
      <4>3. Right(g[k], k, m, P, V)
        BY <2>6, <3>1, <3>2, <4>1, <4>2
      <4> QED
        BY <2>3, <4>3
    <3>5. CASE d # Invalid
      <4> DEFINE m1 == m + 1
                 P1 == [i \in 0 .. m1 |-> IF i <= m THEN P[i] ELSE d.next]
                 V1 == Append(V, d.val)
      <4>1. /\ d.val \in Nat /\ d.next \in at + 1 .. n /\ d = [val |-> d.val, next |-> d.next]
            /\ g[k].at = d.next /\ g[k].codes = V1 /\ g[k].bad = 0
        BY <3>2, <3>3, <3>5 DEF Valid, n
      <4>2. /\ P \in [0 .. m -> 0 .. n] /\ P[0] = 0 /\ V \in Seq(Nat) /\ Len(V) = m
            /\ \A i \in 1 .. m : P[i - 1] < n /\ utf8_decode(s, P[i - 1], strict) = [val |-> V[i], next |-> P[i]]
        BY <3>2 DEF Chars, n
      <4>3. V1 \in Seq(Nat) /\ Len(V1) = m1 /\ (\A i \in 1 .. m : V1[i] = V[i]) /\ V1[m1] = d.val
        BY <4>1, <4>2, AppendProperties
      <4> HIDE DEF V1
      <4>4. /\ m1 = k /\ m1 \in Nat /\ ~ (m1 <= m) /\ m1 - 1 = m /\ m \in 0 .. m1 /\ m1 \in 0 .. m1 /\ 0 \in 0 .. m1
            /\ \A i \in 0 .. m1 : i <= m => i \in 0 .. m
        BY <2>3, <3>2
      <4>5. \A i \in 1 .. m1 : i = m1 \/ (i \in 1 .. m /\ i <= m /\ i \in 0 .. m1 /\ i - 1 \in 0 .. m1 /\ i - 1 <= m)
        BY ONLY m \in Nat
      <4> DEFINE z == d.next
      <4>6. z \in 0 .. n /\ z >= m1 /\ (z < n \/ z = n)
        <5>1. z \in at + 1 .. n /\ at >= m /\ at \in Nat /\ m \in Nat
          BY <3>1, <3>2, <4>1
        <5> HIDE DEF z
        <5> QED
          BY ONLY <1>1, <5>1
      <4> HIDE DEF m1, z
      <4>7. /\ P1 \in [0 .. m1 -> 0 .. n] /\ P1[m1] = z /\ P1[m] = P[m] /\ P1[0] = 0
            /\ \A i \in 0 .. m1 : i <= m => P1[i] = P[i]
        BY <4>2, <4>4, <4>6 DEF z
      <4> HIDE DEF P1
      <4>8. ASSUME NEW i \in 1 .. m1
            PROVE  P1[i - 1] < n /\ utf8_decode(s, P1[i - 1], strict) = [val |-> V1[i], next |-> P1[i]]
        <5>1. CASE i = m1
          BY <3>1, <4>1, <4>3, <4>4, <4>7, <5>1 DEF d, z
        <5>2. CASE i # m1
          <6>1. i \in 1 .. m /\ i <= m /\ i \in 0 .. m1 /\ i - 1 \in 0 .. m1 /\ i - 1 <= m
            BY <4>5, <5>2
          <6>2. P1[i] = P[i] /\ P1[i - 1] = P[i - 1] /\ V1[i] = V[i]
            BY <4>3, <4>7, <6>1
          <6> QED
            BY <4>2, <6>1, <6>2
        <5> QED
          BY <5>1, <5>2
      <4>9. Chars(s, strict, m1, P1, V1)
        BY <4>3, <4>4, <4>7, <4>8 DEF Chars, n
      <4>10. Right(g[k], k, m1, P1, V1)
        BY <4>1, <4>4, <4>6, <4>7, <4>9 DEF z
      <4> QED
        BY <2>3, <4>4, <4>10
    <3> QED
      BY <3>4, <3>5
  <2> QED
    BY <2>7, <2>8
<1> HIDE DEF T
<1>5. n \in T
  <2>1. \A k \in 0 .. n : k \in T
    BY <1>1, <1>3, <1>4, UpTo
  <2> QED
    BY <1>1, <2>1
<1>6. PICK m \in Nat : \E P, V : Right(g[n], n, m, P, V)
  BY <1>5 DEF T
<1>7. PICK P, V : Right(g[n], n, m, P, V)
  BY <1>6
<1>8. m \in 0 .. n
  BY <1>1, <1>7
<1>9. ~ (P[m] < n /\ m = n)
  <2>1. m \in 0 .. m /\ P \in [0 .. m -> 0 .. n]
    BY <1>7 DEF Chars, n
  <2>2. P[m] \in 0 .. n /\ P[m] >= m
    BY <1>7, <2>1
  <2> QED
    BY ONLY <1>1, <2>2
<1> QED
  BY <1>2, <1>7, <1>8, <1>9

LEMMA LeastIsIt ==
  ASSUME NEW T, T \subseteq Nat, NEW x \in T, \A k \in T : x <= k
  PROVE  Min(T) = x
<1>1. \E m \in T : \A k \in T : m <= k
  OBVIOUS
<1>2. Min(T) \in T /\ \A k \in T : Min(T) <= k
  BY <1>1 DEF Min
<1>3. Min(T) \in Nat /\ x \in Nat /\ Min(T) <= x /\ x <= Min(T)
  BY <1>2
<1> QED
  BY ONLY <1>3

LEMMA GreatestIsIt ==
  ASSUME NEW T, T \subseteq Nat, NEW x \in T, \A k \in T : k <= x
  PROVE  Max(T) = x
<1>1. \E m \in T : \A k \in T : m >= k
  OBVIOUS
<1>2. Max(T) \in T /\ \A k \in T : Max(T) >= k
  BY <1>1 DEF Max
<1>3. Max(T) \in Nat /\ x \in Nat /\ Max(T) >= x /\ x >= Max(T)
  BY <1>2
<1> QED
  BY ONLY <1>3

(* A text that is valid to its end.                                        *)
Whole(s, strict, m, P, V) == Chars(s, strict, m, P, V) /\ P[m] = Len(s)

LEMMA EndIsNoCont ==
  ASSUME NEW s
  PROVE  ~ iscontp(s, Len(s))
<1>1. Byte(s, Len(s)) = 0 \/ Len(s) < Len(s)
  BY DEF Byte
<1>2. ~ iscont(0)
  BY DEF iscont
<1> QED
  BY <1>1, <1>2 DEF iscontp, Byte

LEMMA NoCont ==
  ASSUME NEW s \in Seq(ByteRange), NEW strict \in BOOLEAN, NEW m, NEW P, NEW V,
         Whole(s, strict, m, P, V), NEW k \in 0 .. m
  PROVE  ~ iscontp(s, P[k])
<1>1. m \in Nat /\ k \in 0 .. m
  BY DEF Whole, Chars
<1>2. CASE k = m
  <2>1. Len(s) \in Nat
    BY LenProperties
  <2>2. Byte(s, Len(s)) = 0
    BY <2>1 DEF Byte
  <2>3. ~ iscont(0)
    BY DEF iscont
  <2> QED
    BY <1>2, <2>2, <2>3 DEF Whole, iscontp
<1>3. CASE k # m
  <2> DEFINE j == k + 1
  <2>1. j \in 1 .. m /\ j - 1 = k
    BY ONLY <1>1, <1>3
  <2> HIDE DEF j
  <2>2. Chars(s, strict, m, P, V)
    BY DEF Whole
  <2>3. ~ iscontp(s, P[j - 1])
    BY <2>1, <2>2, CharIs
  <2> QED
    BY <2>1, <2>3
<1> QED
  BY <1>2, <1>3

LEMMA EdgesAre ==
  ASSUME NEW s \in Seq(ByteRange), NEW strict \in BOOLEAN, NEW m, NEW P, NEW V,
         Whole(s, strict, m, P, V), NEW k \in 1 .. m
  PROVE  /\ Forth(s, P[k - 1]) = P[k] /\ Back(s, P[k]) = P[k - 1]
         /\ \A i \in P[k - 1] + 1 .. P[k] : Max({p \in 0 .. i - 1 : p = 0 \/ ~ iscontp(s, p)}) = P[k - 1]
<1> DEFINE a == P[k - 1]
           b == P[k]
           n == Len(s)
<1>1. /\ m \in Nat /\ n \in Nat /\ a \in Nat /\ b \in a + 1 .. n /\ k \in 0 .. m
      /\ ~ iscontp(s, a) /\ \A p \in a + 1 .. b - 1 : iscontp(s, p)
  BY CharIs DEF Whole
<1>2. ~ iscontp(s, b)
  BY <1>1, NoCont
<1> HIDE DEF a, b, n
<1>3. n \in Nat /\ a \in Nat /\ b \in a + 1 .. n
  BY <1>1
<1>4. ASSUME NEW i \in a + 1 .. b PROVE Max({p \in 0 .. i - 1 : p = 0 \/ ~ iscontp(s, p)}) = a
  <2> DEFINE T == {p \in 0 .. i - 1 : p = 0 \/ ~ iscontp(s, p)}
  <2>0. i \in a + 1 .. b
    OBVIOUS
  <2>1. a \in 0 .. i - 1 /\ \A p \in 0 .. i - 1 : p <= a \/ (p \in a + 1 .. b - 1 /\ p # 0)
    BY ONLY <1>3, <2>0
  <2>2. a \in T /\ \A p \in T : p <= a
    BY <1>1, <2>1
  <2>3. T \subseteq Nat
    <3>1. T \subseteq 0 .. i - 1 /\ \A p \in 0 .. i - 1 : p \in Nat
      BY <1>3
    <3> HIDE DEF T
    <3> QED
      BY <3>1
  <2> HIDE DEF T
  <2>4. Max(T) = a
    BY <2>2, <2>3, GreatestIsIt
  <2> QED
    BY <2>4 DEF T
<1>5. Back(s, b) = a
  <2>1. b \in a + 1 .. b
    BY ONLY <1>3
  <2> QED
    BY <1>4, <2>1 DEF Back
<1>6. Forth(s, a) = b
  <2> DEFINE T == {p \in a + 1 .. n : ~ iscontp(s, p)}
  <2>1. \A p \in a + 1 .. n : p \in Nat /\ (b <= p \/ p \in a + 1 .. b - 1)
    BY ONLY <1>3
  <2>2. b \in T /\ T \subseteq Nat /\ \A p \in T : b <= p
    BY <1>1, <1>2, <2>1
  <2> HIDE DEF T
  <2>3. Min(T) = b
    BY <2>2, LeastIsIt
  <2> QED
    BY <2>3 DEF T, Forth, n
<1> QED
  BY <1>4, <1>5, <1>6 DEF a, b

(* offset goes from state to state.                                        *)
LEMMA StaysInside ==
  ASSUME NEW s \in Seq(ByteRange), NEW at \in 0 .. Len(s)
  PROVE  (at > 0 => Back(s, at) \in 0 .. Len(s)) /\ (at < Len(s) => Forth(s, at) \in 0 .. Len(s))
<1> DEFINE n == Len(s)
<1>1. n \in Nat /\ at \in 0 .. n
  BY LenProperties
<1>2. ~ iscontp(s, n)
  BY EndIsNoCont
<1> HIDE DEF n
<1>3. ASSUME at > 0 PROVE Back(s, at) \in 0 .. n
  <2> DEFINE T == {p \in 0 .. at - 1 : p = 0 \/ ~ iscontp(s, p)}
  <2>1. 0 \in 0 .. at - 1 /\ at - 1 \in Nat /\ \A p \in 0 .. at - 1 : p \in 0 .. n
    BY ONLY <1>1, <1>3
  <2>2. T \subseteq 0 .. at - 1 /\ T # {}
    BY <2>1
  <2> HIDE DEF T
  <2>3. PICK x \in T : \A k \in T : k <= x
    BY <2>1, <2>2, GreatestNumber
  <2>4. T \subseteq Nat
    BY <2>1, <2>2
  <2>5. Max(T) = x
    BY <2>3, <2>4, GreatestIsIt
  <2>6. Max(T) \in 0 .. n
    BY <2>1, <2>2, <2>5
  <2> QED
    BY <2>6 DEF Back, T
<1>4. ASSUME at < n PROVE Forth(s, at) \in 0 .. n
  <2> DEFINE T == {p \in at + 1 .. n : ~ iscontp(s, p)}
  <2>1. n \in at + 1 .. n /\ \A p \in at + 1 .. n : p \in 0 .. n /\ p \in Nat
    BY ONLY <1>1, <1>4
  <2>2. n \in T /\ T \subseteq 0 .. n /\ T \subseteq Nat
    BY <1>2, <2>1
  <2> HIDE DEF T
  <2>3. PICK x \in T : \A k \in T : x <= k
    BY <2>2, LeastNumber
  <2>4. Min(T) = x
    BY <2>2, <2>3, LeastIsIt
  <2> QED
    BY <2>2, <2>4 DEF Forth, T, n
<1> QED
  BY <1>3, <1>4 DEF n

OneOn(s, w, n) ==
  IF n < 0 /\ w.at > 0 THEN [at |-> Back(s, w.at), left |-> w.left - 1]
  ELSE IF n > 0 /\ w.at < Len(s) THEN [at |-> Forth(s, w.at), left |-> w.left - 1]
  ELSE w

Size(d) == IF d < 0 THEN -d ELSE d

Moves(g, s, at, d, size) ==
  /\ g \in [0 .. size -> [at : 0 .. Len(s), left : Int]]
  /\ g[0] = [at |-> at, left |-> size] /\ Moved(s, at, d) = g[size]
  /\ \A k \in 1 .. size : g[k] = OneOn(s, g[k - 1], d)

LEMMA MovedSteps ==
  ASSUME NEW s \in Seq(ByteRange), NEW at \in 0 .. Len(s), NEW d \in Int,
         NEW size \in Nat, size = Size(d)
  PROVE  \E g : Moves(g, s, at, d, size)
<1> DEFINE S == [at : 0 .. Len(s), left : Int]
           e == [at |-> at, left |-> size]
           On(w) == OneOn(s, w, d)
           Eq(f) == f = [k \in 0 .. size |-> IF k = 0 THEN e ELSE On(f[k - 1])]
           step == [k \in 1 .. size |-> [w \in S |-> On(w)]]
           f == CHOOSE f_ : Eq(f_)
<1>2. \A w \in S : On(w) \in S
  <2> SUFFICES ASSUME NEW w \in S PROVE On(w) \in S
    OBVIOUS
  <2>1. w.at \in 0 .. Len(s) /\ w.left \in Int
    OBVIOUS
  <2>2. (w.at > 0 => Back(s, w.at) \in 0 .. Len(s)) /\ (w.at < Len(s) => Forth(s, w.at) \in 0 .. Len(s))
    BY <2>1, StaysInside
  <2>3. w.left - 1 \in Int
    BY <2>1
  <2> QED
    BY <2>2, <2>3 DEF OneOn
<1>3. e \in S
  OBVIOUS
<1>4. Moved(s, at, d) = f[size]
  BY DEF Moved, OneOn, Size
<1> HIDE DEF On, S, e
<1>5. step \in Steps(size, S)
  BY <1>2 DEF Steps
<1>6. \A k \in 1 .. size, w \in S : step[k][w] = On(w)
  OBVIOUS
<1> HIDE DEF step
<1>7. \E g : Follows(g, size, S, e, step)
  BY <1>3, <1>5, Recursion
<1>8. PICK g \in [0 .. size -> S] : g[0] = e /\ \A k \in 1 .. size : g[k] = step[k][g[k - 1]]
  BY <1>7 DEF Follows
<1>9. Eq(g)
  <2>1. ASSUME NEW k \in 0 .. size PROVE g[k] = IF k = 0 THEN e ELSE On(g[k - 1])
    <3>1. CASE k = 0
      BY <1>8, <3>1
    <3>2. CASE k # 0
      <4>1. k \in 1 .. size /\ k - 1 \in 0 .. size
        BY <3>2
      <4>2. g[k - 1] \in S
        BY <1>8, <4>1
      <4> QED
        BY <1>6, <1>8, <3>2, <4>1, <4>2
    <3> QED
      BY <3>1, <3>2
  <2> QED
    BY <1>8, <2>1
<1>10. Eq(f)
  BY <1>9
<1> HIDE DEF f
<1> DEFINE T == {k \in 0 .. size : f[k] = g[k]}
<1>11. 0 \in T
  BY <1>8, <1>10
<1>12. ASSUME NEW k \in 1 .. size, k - 1 \in T PROVE k \in T
  <2>1. k \in 0 .. size /\ k # 0
    OBVIOUS
  <2> QED
    BY <1>9, <1>10, <1>12, <2>1
<1> HIDE DEF T
<1>13. size \in T
  <2>1. \A k \in 0 .. size : k \in T
    BY <1>11, <1>12, UpTo
  <2> QED
    BY <2>1
<1>14. f[size] = g[size] /\ g[0] = e
  BY <1>8, <1>13 DEF T
<1>15. \A k \in 1 .. size : g[k] = On(g[k - 1])
  <2>1. \A k \in 1 .. size : k \in 0 .. size /\ k # 0
    OBVIOUS
  <2> QED
    BY <1>9, <2>1
<1> QED
  BY <1>4, <1>8, <1>14, <1>15 DEF S, e, On, Moves

(* From the beginning offset comes to the end of the k-th character, and   *)
(* from the end to the beginning of the k-th before it.                    *)
LEMMA MovedOn ==
  ASSUME NEW s \in Seq(ByteRange), NEW strict \in BOOLEAN, NEW m, NEW P, NEW V,
         Whole(s, strict, m, P, V), NEW k \in 0 .. m
  PROVE  Moved(s, 0, k) = [at |-> P[k], left |-> 0]
<1> DEFINE n == Len(s)
<1>1. m \in Nat /\ n \in Nat /\ k \in Nat /\ k \in 0 .. m /\ P[0] = 0 /\ 0 \in 0 .. n
  BY LenProperties DEF Whole, Chars
<1>2. PICK g :
        /\ g[0] = [at |-> 0, left |-> k] /\ Moved(s, 0, k) = g[k]
        /\ \A j \in 1 .. k : g[j] = OneOn(s, g[j - 1], k)
  <2>1. k \in Int /\ k = Size(k)
    BY ONLY <1>1 DEF Size
  <2>2. \E g : Moves(g, s, 0, k, k)
    BY <1>1, <2>1, MovedSteps
  <2> QED
    BY ONLY <2>2 DEF Moves
<1> DEFINE T == {j \in 0 .. k : g[j] = [at |-> P[j], left |-> k - j]}
<1>3. 0 \in T
  <2>1. k - 0 = k /\ 0 \in 0 .. k
    BY ONLY <1>1
  <2> QED
    BY <1>1, <1>2, <2>1
<1>4. ASSUME NEW j \in 1 .. k, j - 1 \in T PROVE j \in T
  <2>0. j \in 1 .. k
    OBVIOUS
  <2>1. j \in 1 .. m /\ j \in 0 .. k /\ k > 0 /\ ~ (k < 0) /\ k - (j - 1) - 1 = k - j
    BY ONLY <1>1, <2>0
  <2> DEFINE w == g[j - 1]
  <2>2. w = [at |-> P[j - 1], left |-> k - (j - 1)]
    BY <1>4
  <2>3. w.at = P[j - 1] /\ w.left = k - (j - 1)
    BY <2>2
  <2>4. g[j] = OneOn(s, w, k)
    BY <1>2
  <2> HIDE DEF w
  <2>5. P[j - 1] < n
    BY <2>1 DEF Whole, Chars
  <2>6. g[j] = [at |-> Forth(s, P[j - 1]), left |-> k - (j - 1) - 1]
    BY <2>1, <2>3, <2>4, <2>5 DEF OneOn
  <2>7. Forth(s, P[j - 1]) = P[j]
    BY <2>1, EdgesAre
  <2> QED
    BY <2>1, <2>6, <2>7
<1> HIDE DEF T
<1>5. k \in T
  <2>1. \A j \in 0 .. k : j \in T
    BY <1>1, <1>3, <1>4, UpTo
  <2> QED
    BY <1>1, <2>1
<1>6. k - k = 0
  BY ONLY <1>1
<1> QED
  BY <1>2, <1>5, <1>6 DEF T

LEMMA MovedBack ==
  ASSUME NEW s \in Seq(ByteRange), NEW strict \in BOOLEAN, NEW m, NEW P, NEW V,
         Whole(s, strict, m, P, V), NEW k \in 1 .. m, NEW d \in Int, d = k - m - 1
  PROVE  Moved(s, Len(s), d) = [at |-> P[k - 1], left |-> 0]
<1> DEFINE n == Len(s)
           z == m + 1 - k
<1>1. /\ m \in Nat /\ n \in Nat /\ k \in 1 .. m /\ P[m] = n /\ n \in 0 .. n /\ d \in Int
      /\ d = k - m - 1
  BY LenProperties DEF Whole, Chars
<1>0. /\ z \in 1 .. m /\ z \in Nat /\ z = Size(d)
      /\ d < 0 /\ m - z = k - 1 /\ z - z = 0 /\ m - 0 = m /\ z - 0 = z
  BY ONLY <1>1 DEF Size
<1> HIDE DEF z
<1>2. PICK g :
        /\ g[0] = [at |-> n, left |-> z] /\ Moved(s, n, d) = g[z]
        /\ \A j \in 1 .. z : g[j] = OneOn(s, g[j - 1], d)
  <2>1. \E g : Moves(g, s, n, d, z)
    BY <1>0, <1>1, MovedSteps
  <2> QED
    BY ONLY <2>1 DEF Moves
<1> DEFINE T == {j \in 0 .. z : g[j] = [at |-> P[m - j], left |-> z - j]}
<1>3. 0 \in T
  <2>1. g[0] = [at |-> P[m - 0], left |-> z - 0]
    BY ONLY <1>0, <1>1, <1>2
  <2>2. z \in Nat
    BY <1>0
  <2>3. 0 \in 0 .. z
    BY ONLY <2>2
  <2> QED
    BY ONLY <2>1, <2>3
<1>4. ASSUME NEW j \in 1 .. z, j - 1 \in T PROVE j \in T
  <2> DEFINE y == m - j + 1
  <2>0. j \in 1 .. z /\ z \in 1 .. m /\ m \in Nat
    BY <1>0, <1>1
  <2>1. y \in 1 .. m /\ j \in 0 .. z /\ z - (j - 1) - 1 = z - j /\ m - (j - 1) = y /\ y - 1 = m - j
    BY ONLY <2>0
  <2> HIDE DEF y
  <2> DEFINE w == g[j - 1]
  <2>2. w = [at |-> P[y], left |-> z - (j - 1)]
    BY <1>4, <2>1
  <2>3. w.at = P[y] /\ w.left = z - (j - 1)
    BY <2>2
  <2>4. g[j] = OneOn(s, w, d)
    BY <1>2
  <2> HIDE DEF w
  <2>5. P[y] > 0
    <3> DEFINE a == P[y - 1]
    <3>1. a \in Nat /\ P[y] \in a + 1 .. n /\ n \in Nat
      BY <2>1, CharIs DEF Whole
    <3> HIDE DEF a, n
    <3> QED
      BY ONLY <3>1
  <2>6. g[j] = [at |-> Back(s, P[y]), left |-> z - (j - 1) - 1]
    BY <1>0, <2>3, <2>4, <2>5 DEF OneOn
  <2>7. Back(s, P[y]) = P[y - 1]
    BY <2>1, EdgesAre
  <2> QED
    BY <2>1, <2>6, <2>7
<1> HIDE DEF T
<1>5. z \in T
  <2>1. \A j \in 0 .. z : j \in T
    BY <1>0, <1>3, <1>4, UpTo
  <2>2. z \in 0 .. z
    BY ONLY <1>0
  <2> QED
    BY <2>1, <2>2
<1> QED
  BY <1>0, <1>2, <1>5 DEF T

(* What offset gives.                                                      *)
LEMMA OffsetsAre ==
  ASSUME NEW s \in Seq(ByteRange), NEW strict \in BOOLEAN, NEW m, NEW P, NEW V,
         Whole(s, strict, m, P, V), NEW k \in 1 .. m
  PROVE  /\ offset(s, k).pos = P[k - 1] + 1
         /\ offset(s, k - m - 1).pos = P[k - 1] + 1
         /\ \A i \in P[k - 1] + 1 .. P[k] : byteoffset(s, 0, i).pos = P[k - 1] + 1
<1> DEFINE n == Len(s)
           d == k - m - 1
<1>1. m \in Nat /\ n \in Nat /\ k \in 1 .. m /\ P[0] = 0 /\ P[m] = n /\ 0 \in 0 .. m
  BY LenProperties DEF Whole, Chars
<1>2. /\ k >= 0 /\ k > 0 /\ k # 0 /\ k - 1 \in 0 .. m
      /\ d < 0 /\ ~ (d >= 0) /\ ~ (d > 0) /\ d # 0 /\ d \in Int
      /\ n + 1 >= 0 /\ 1 <= n + 1 /\ n + 1 - 1 = n /\ n <= n /\ 1 >= 0 /\ 1 - 1 = 0 /\ 1 <= 1 /\ 0 <= n /\ m \in 0 .. m
  BY ONLY <1>1
<1>3. ~ iscontp(s, 0) /\ ~ iscontp(s, n)
  BY <1>1, <1>2, NoCont
<1>4. Moved(s, 0, k - 1) = [at |-> P[k - 1], left |-> 0]
  BY <1>2, MovedOn
<1>5. Moved(s, n, d) = [at |-> P[k - 1], left |-> 0]
  BY <1>2, MovedBack
<1> HIDE DEF d
<1>6. offset(s, k) = [pos |-> P[k - 1] + 1]
  <2>1. u_posrelat(1, n) = 1
    BY <1>2 DEF u_posrelat
  <2> QED
    BY <1>2, <1>3, <1>4, <2>1 DEF offset, byteoffset
<1>7. offset(s, d) = [pos |-> P[k - 1] + 1]
  <2>1. u_posrelat(n + 1, n) = n + 1
    BY <1>2 DEF u_posrelat
  <2> QED
    BY <1>2, <1>3, <1>5, <2>1 DEF offset, byteoffset
<1>8. ASSUME NEW i \in P[k - 1] + 1 .. P[k] PROVE byteoffset(s, 0, i).pos = P[k - 1] + 1
  <2> DEFINE a == P[k - 1]
             b == P[k]
             x == Max({p \in 0 .. i - 1 : p = 0 \/ ~ iscontp(s, p)})
  <2>1. a \in Nat /\ b \in a + 1 .. n /\ i \in a + 1 .. b
    BY CharIs DEF Whole
  <2>2. x = a
    BY EdgesAre
  <2> HIDE DEF a, b, n, x
  <2>3. i >= 0 /\ 1 <= i /\ i - 1 <= n /\ 1 + a = a + 1
    BY ONLY <1>1, <2>1
  <2>4. u_posrelat(i, n) = i
    BY <2>3 DEF u_posrelat
  <2>5. byteoffset(s, 0, i) = [pos |-> 1 + x]
    BY <2>3, <2>4 DEF byteoffset, n, x
  <2> QED
    BY <2>2, <2>3, <2>5 DEF a
<1> QED
  BY <1>6, <1>7, <1>8 DEF d

LEMMA OffsetOfEnd ==
  ASSUME NEW s \in Seq(ByteRange), NEW strict \in BOOLEAN, NEW m, NEW P, NEW V,
         Whole(s, strict, m, P, V)
  PROVE  offset(s, m + 1).pos = Len(s) + 1
<1> DEFINE n == Len(s)
           q == m + 1
<1>1. m \in Nat /\ n \in Nat /\ P[0] = 0 /\ P[m] = n /\ 0 \in 0 .. m /\ m \in 0 .. m
  BY LenProperties DEF Whole, Chars
<1>2. /\ q >= 0 /\ q > 0 /\ q # 0 /\ q - 1 = m
      /\ 1 >= 0 /\ 1 - 1 = 0 /\ 1 <= 1 /\ 0 <= n
  BY ONLY <1>1
<1> HIDE DEF q
<1>3. ~ iscontp(s, 0)
  BY <1>1, NoCont
<1>4. Moved(s, 0, m) = [at |-> n, left |-> 0]
  BY <1>1, MovedOn
<1>5. u_posrelat(1, n) = 1
  BY <1>2 DEF u_posrelat
<1>6. offset(s, q) = [pos |-> n + 1]
  BY <1>2, <1>3, <1>4, <1>5 DEF offset, byteoffset
<1> QED
  BY <1>6 DEF q

(* The iterator goes from state to state.                                  *)
Sightings == [pos : Nat, code : Int]
SeenBy(q) == IF q = << >> THEN 0 ELSE q[Len(q)].pos

LEMMA KindsDiffer ==
  ASSUME NEW x, NEW y
  PROVE  /\ Raised # [seen |-> x] /\ Raised # [pos |-> x, code |-> y]
         /\ [seen |-> x].seen = x /\ [pos |-> x, code |-> y].pos = x
<1>1. DOMAIN Raised = {"raised"} /\ DOMAIN [seen |-> x] = {"seen"} /\ DOMAIN [pos |-> x, code |-> y] = {"pos", "code"}
  BY DEF Raised
<1>2. "raised" \notin {"seen"} /\ "raised" \notin {"pos", "code"} /\ "raised" \in {"raised"}
  OBVIOUS
<1>3. Raised # [seen |-> x] /\ Raised # [pos |-> x, code |-> y]
  BY ONLY <1>1, <1>2
<1> QED
  BY <1>3

LEMMA IterTyped ==
  ASSUME NEW s \in Seq(ByteRange), NEW k \in Nat, NEW strict \in BOOLEAN
  PROVE  iter_aux(s, k, strict) \in {Raised} \union Sightings
<1> DEFINE n == Len(s)
           T == {p \in k .. n : ~ iscontp(s, p)}
           at == Min(T)
           d == utf8_decode(s, at, strict)
<1>1. n \in Nat /\ k \in Nat
  BY LenProperties
<1>2. [pos |-> 0, code |-> 0] \in Sightings
  BY DEF Sightings
<1>3. iter_aux(s, k, strict) = IF k >= n \/ at >= n THEN [pos |-> 0, code |-> 0]
                               ELSE IF d = Invalid \/ iscontp(s, d.next) THEN Raised
                               ELSE [pos |-> at + 1, code |-> d.val]
  BY DEF iter_aux
<1>4. ASSUME ~ (k >= n), ~ (at >= n), d # Invalid PROVE [pos |-> at + 1, code |-> d.val] \in Sightings
  <2>1. n \in k .. n /\ \A p \in k .. n : p \in Nat
    BY ONLY <1>1, <1>4
  <2>2. n \in T /\ T \subseteq Nat
    BY <2>1, EndIsNoCont
  <2> HIDE DEF T
  <2>3. PICK x \in T : \A q \in T : x <= q
    BY <2>2, LeastNumber
  <2>4. at = x
    BY <2>2, <2>3, LeastIsIt
  <2>5. at \in Nat
    BY <2>2, <2>3, <2>4
  <2> HIDE DEF at, d
  <2>6. at < n
    BY ONLY <1>1, <1>4, <2>5
  <2>7. Valid(s, at, d)
    BY <1>4, <2>5, <2>6, DecodeFacts DEF d, n
  <2>8. d.val \in Int /\ at + 1 \in Nat
    BY <2>5, <2>7 DEF Valid
  <2> QED
    BY <2>8 DEF Sightings
<1> HIDE DEF at, d
<1> QED
  BY <1>2, <1>3, <1>4

GoesOn(s, w, strict) ==
  LET step == iter_aux(s, SeenBy(w.seen), strict)
  IN IF w = Raised \/ step = Raised THEN Raised
     ELSE IF step.pos = 0 THEN w ELSE [seen |-> Append(w.seen, step)]

IterStates == {Raised} \union [seen : Seq(Sightings)]

LEMMA GoesOnTyped ==
  ASSUME NEW s \in Seq(ByteRange), NEW w \in IterStates, NEW strict \in BOOLEAN
  PROVE  GoesOn(s, w, strict) \in IterStates
<1> DEFINE step == iter_aux(s, SeenBy(w.seen), strict)
<1>1. CASE w = Raised
  BY <1>1 DEF GoesOn, IterStates
<1>2. CASE w # Raised
  <2>1. w.seen \in Seq(Sightings) /\ w \in IterStates
    BY <1>2 DEF IterStates
  <2>2. SeenBy(w.seen) \in Nat
    <3> DEFINE q == w.seen
    <3>1. CASE q = << >>
      BY <3>1 DEF SeenBy
    <3>2. CASE q # << >>
      <4>1. q \in Seq(Sightings)
        BY <2>1
      <4> HIDE DEF q
      <4>2. Len(q) \in 1 .. Len(q)
        BY <3>2, <4>1, EmptySeq, LenProperties
      <4>3. q[Len(q)] \in Sightings
        BY <4>1, <4>2, ElementOfSeq
      <4> QED
        BY <3>2, <4>3 DEF SeenBy, q, Sightings
    <3> QED
      BY <3>1, <3>2
  <2>3. step \in {Raised} \union Sightings
    BY <2>2, IterTyped
  <2>4. step # Raised => Append(w.seen, step) \in Seq(Sightings)
    <3> HIDE DEF step
    <3> QED
      BY <2>1, <2>3, AppendProperties
  <2>5. GoesOn(s, w, strict) = IF w = Raised \/ step = Raised THEN Raised
                               ELSE IF step.pos = 0 THEN w ELSE [seen |-> Append(w.seen, step)]
    BY DEF GoesOn
  <2> HIDE DEF step
  <2> QED
    BY <2>1, <2>4, <2>5 DEF IterStates
<1> QED
  BY <1>1, <1>2

LEMMA IterSteps ==
  ASSUME NEW s \in Seq(ByteRange), NEW lax \in BOOLEAN
  PROVE  \E g \in [0 .. Len(s) -> IterStates] :
           /\ g[0] = [seen |-> << >>]
           /\ iter_codes(s, lax) = IF iscontp(s, 0) THEN Raised ELSE g[Len(s)]
           /\ \A k \in 1 .. Len(s) : g[k] = GoesOn(s, g[k - 1], ~ lax)
<1> DEFINE n == Len(s)
           S == IterStates
           e == [seen |-> << >>]
           On(w) == GoesOn(s, w, ~ lax)
           Eq(f) == f = [k \in 0 .. n |-> IF k = 0 THEN e ELSE On(f[k - 1])]
           step == [k \in 1 .. n |-> [w \in S |-> On(w)]]
           f == CHOOSE f_ : Eq(f_)
<1>1. n \in Nat
  BY LenProperties
<1>2. \A w \in S : On(w) \in S
  BY GoesOnTyped
<1>3. e \in S
  BY EmptySeq DEF IterStates
<1>4. iter_codes(s, lax) = IF iscontp(s, 0) THEN Raised ELSE f[n]
  BY DEF iter_codes, GoesOn, SeenBy, Last
<1> HIDE DEF n, On, S, e
<1>5. step \in Steps(n, S)
  BY <1>2 DEF Steps
<1>6. \A k \in 1 .. n, w \in S : step[k][w] = On(w)
  OBVIOUS
<1> HIDE DEF step
<1>7. \E g : Follows(g, n, S, e, step)
  BY <1>1, <1>3, <1>5, Recursion
<1>8. PICK g \in [0 .. n -> S] : g[0] = e /\ \A k \in 1 .. n : g[k] = step[k][g[k - 1]]
  BY <1>7 DEF Follows
<1>9. Eq(g)
  <2>1. ASSUME NEW k \in 0 .. n PROVE g[k] = IF k = 0 THEN e ELSE On(g[k - 1])
    <3>1. CASE k = 0
      BY <1>8, <3>1
    <3>2. CASE k # 0
      <4>1. k \in 1 .. n /\ k - 1 \in 0 .. n
        BY <1>1, <3>2
      <4>2. g[k - 1] \in S
        BY <1>8, <4>1
      <4> QED
        BY <1>6, <1>8, <3>2, <4>1, <4>2
    <3> QED
      BY <3>1, <3>2
  <2> QED
    BY <1>8, <2>1
<1>10. Eq(f)
  BY <1>9
<1> HIDE DEF f
<1> DEFINE T == {k \in 0 .. n : f[k] = g[k]}
<1>11. 0 \in T
  BY <1>1, <1>8, <1>10
<1>12. ASSUME NEW k \in 1 .. n, k - 1 \in T PROVE k \in T
  <2>1. k \in 0 .. n /\ k # 0
    BY <1>1
  <2> QED
    BY <1>9, <1>10, <1>12, <2>1
<1> HIDE DEF T
<1>13. n \in T
  <2>1. \A k \in 0 .. n : k \in T
    BY <1>1, <1>11, <1>12, UpTo
  <2> QED
    BY <1>1, <2>1
<1>14. f[n] = g[n] /\ g[0] = e
  BY <1>8, <1>13 DEF T
<1>15. \A k \in 1 .. n : g[k] = On(g[k - 1])
  <2>1. \A k \in 1 .. n : k \in 0 .. n /\ k # 0
    BY <1>1
  <2> QED
    BY <1>9, <2>1
<1> QED
  BY <1>4, <1>8, <1>14, <1>15 DEF n, S, e, On

(* Where the iterator is after i characters, and what codes has seen.      *)
LastPos(P, i) == IF i = 0 THEN 0 ELSE P[i - 1] + 1
NextBegin(s, x) == Min({p \in x .. Len(s) : ~ iscontp(s, p)})
SeenOf(P, V, j) == [k \in 1 .. j |-> [pos |-> P[k - 1] + 1, code |-> V[k]]]

LEMMA NextStart ==
  ASSUME NEW s \in Seq(ByteRange), NEW strict \in BOOLEAN, NEW m, NEW P, NEW V,
         Chars(s, strict, m, P, V), NEW i \in 0 .. m, ~ iscontp(s, P[i])
  PROVE  /\ LastPos(P, i) \in Nat /\ LastPos(P, i) <= P[i] /\ P[i] \in 0 .. Len(s)
         /\ NextBegin(s, LastPos(P, i)) = P[i]
<1> DEFINE n == Len(s)
           x == LastPos(P, i)
           z == P[i]
           T == {p \in x .. n : ~ iscontp(s, p)}
<1>1. n \in Nat /\ m \in Nat /\ z \in 0 .. n /\ P[0] = 0
  BY LenProperties DEF Chars
<1>2. x \in Nat /\ x <= z /\ \A p \in x .. z - 1 : iscontp(s, p)
  <2>1. CASE i = 0
    <3>1. x = 0 /\ z = 0
      BY <1>1, <2>1 DEF LastPos
    <3> QED
      BY ONLY <3>1
  <2>2. CASE i # 0
    <3>1. i \in 1 .. m
      BY ONLY <1>1, <2>2, i \in 0 .. m
    <3>2. P[i - 1] \in Nat /\ P[i] \in P[i - 1] + 1 .. n /\ \A p \in P[i - 1] + 1 .. P[i] - 1 : iscontp(s, p)
      BY <3>1, CharIs
    <3>3. x = P[i - 1] + 1
      BY <2>2 DEF LastPos
    <3> DEFINE a == P[i - 1]
    <3> HIDE DEF x, z, a, n
    <3>4. a \in Nat /\ z \in a + 1 .. n /\ x = a + 1
      BY <3>2, <3>3 DEF a, z
    <3>5. x \in Nat /\ x <= z
      BY ONLY <1>1, <3>4
    <3> QED
      BY <3>2, <3>3, <3>5 DEF z
  <2> QED
    BY <2>1, <2>2
<1> HIDE DEF x, n
<1>3. z \in T
  <2>1. z \in x .. n
    BY ONLY <1>1, <1>2
  <2> QED
    BY <2>1
<1>4. T \subseteq Nat /\ \A k \in T : z <= k
  <2>1. \A k \in x .. n : k \in Nat /\ (k \in x .. z - 1 \/ z <= k)
    <3> HIDE DEF z
    <3> QED
      BY ONLY <1>1, <1>2
  <2> QED
    BY <1>2, <2>1
<1> HIDE DEF T, z
<1>5. Min(T) = z
  BY <1>3, <1>4, LeastIsIt
<1> QED
  BY <1>1, <1>2, <1>5 DEF T, x, z, n, NextBegin

(* The iterator's steps: the next character, if the one after it does not  *)
(* begin with a continuation byte; nothing at the end of the text; and an  *)
(* error where it is invalid.                                              *)
LEMMA IterNext ==
  ASSUME NEW s \in Seq(ByteRange), NEW strict \in BOOLEAN, NEW m, NEW P, NEW V,
         Chars(s, strict, m, P, V), NEW j \in 1 .. m
  PROVE  iter_aux(s, LastPos(P, j - 1), strict) =
           IF iscontp(s, P[j]) THEN Raised ELSE [pos |-> P[j - 1] + 1, code |-> V[j]]
<1> DEFINE n == Len(s)
           i == j - 1
           x == LastPos(P, i)
           at == NextBegin(s, x)
           d == utf8_decode(s, at, strict)
<1>1. i \in 0 .. m /\ ~ iscontp(s, P[i]) /\ P[i] \in Nat
  BY CharIs
<1>2. P[i] < n /\ utf8_decode(s, P[i], strict) = [val |-> V[j], next |-> P[j]] /\ V[j] \in Nat
  BY CharIs DEF Chars
<1> HIDE DEF i
<1>3. x \in Nat /\ x <= P[i] /\ at = P[i]
  BY <1>1, NextStart
<1>4. iter_aux(s, x, strict) = IF x >= n \/ at >= n THEN [pos |-> 0, code |-> 0]
                               ELSE IF d = Invalid \/ iscontp(s, d.next) THEN Raised
                               ELSE [pos |-> at + 1, code |-> d.val]
  BY DEF iter_aux, NextBegin
<1> HIDE DEF x, at, n
<1>5. ~ (x >= n) /\ ~ (at >= n)
  <2>1. n \in Nat
    BY LenProperties DEF n
  <2> DEFINE y == P[i]
  <2>2. y \in Nat /\ x <= y /\ y < n /\ at = y
    BY <1>1, <1>2, <1>3
  <2> HIDE DEF y
  <2> QED
    BY ONLY <1>3, <2>1, <2>2
<1>6. d = [val |-> V[j], next |-> P[j]]
  BY <1>2, <1>3
<1> HIDE DEF d
<1>7. d.val = V[j] /\ d.next = P[j]
  BY <1>6
<1>8. d # Invalid
  <2>1. V[j] # -1
    BY <1>2
  <2> QED
    BY <1>7, <2>1 DEF Invalid
<1> QED
  BY <1>3, <1>4, <1>5, <1>7, <1>8 DEF x, i

LEMMA IterEnds ==
  ASSUME NEW s \in Seq(ByteRange), NEW strict \in BOOLEAN, NEW m, NEW P, NEW V,
         Whole(s, strict, m, P, V)
  PROVE  iter_aux(s, LastPos(P, m), strict) = [pos |-> 0, code |-> 0]
<1>1. m \in Nat /\ m \in 0 .. m /\ P[m] = Len(s) /\ Chars(s, strict, m, P, V) /\ Len(s) \in Nat
  BY LenProperties DEF Whole, Chars
<1>2. ~ iscontp(s, P[m])
  BY <1>1, NoCont
<1>3. NextBegin(s, LastPos(P, m)) = Len(s)
  BY <1>1, <1>2, NextStart
<1>4. Len(s) >= Len(s)
  BY <1>1
<1> QED
  BY <1>3, <1>4 DEF iter_aux, NextBegin

LEMMA IterFails ==
  ASSUME NEW s \in Seq(ByteRange), NEW strict \in BOOLEAN, NEW m, NEW P, NEW V,
         Chars(s, strict, m, P, V), P[m] < Len(s), utf8_decode(s, P[m], strict) = Invalid,
         ~ iscontp(s, P[m])
  PROVE  iter_aux(s, LastPos(P, m), strict) = Raised
<1> DEFINE n == Len(s)
           x == LastPos(P, m)
           z == P[m]
           at == NextBegin(s, x)
<1>1. m \in Nat /\ m \in 0 .. m /\ n \in Nat
  BY LenProperties DEF Chars
<1>2. x \in Nat /\ x <= z /\ z \in 0 .. n /\ z < n /\ at = z
  BY <1>1, NextStart
<1>3. iter_aux(s, x, strict) = IF x >= n \/ at >= n THEN [pos |-> 0, code |-> 0]
                               ELSE IF \/ utf8_decode(s, at, strict) = Invalid
                                       \/ iscontp(s, utf8_decode(s, at, strict).next) THEN Raised
                               ELSE [pos |-> at + 1, code |-> utf8_decode(s, at, strict).val]
  BY DEF iter_aux, NextBegin
<1>4. utf8_decode(s, z, strict) = Invalid
  OBVIOUS
<1> HIDE DEF x, z, at, n
<1>5. ~ (x >= n) /\ ~ (at >= n)
  BY ONLY <1>1, <1>2
<1> QED
  BY <1>2, <1>3, <1>4, <1>5 DEF x

Sighting(P, V, k) == [pos |-> P[k - 1] + 1, code |-> V[k]]

LEMMA SeenOfIs ==
  ASSUME NEW s \in Seq(ByteRange), NEW strict \in BOOLEAN, NEW m, NEW P, NEW V,
         Chars(s, strict, m, P, V), NEW j \in 0 .. m
  PROVE  /\ SeenOf(P, V, j) \in Seq(Sightings) /\ Len(SeenOf(P, V, j)) = j
         /\ \A k \in 1 .. j : SeenOf(P, V, j)[k] = Sighting(P, V, k) /\ Sighting(P, V, k) \in Sightings
<1>1. m \in Nat /\ j \in Nat /\ \A k \in 1 .. j : k \in 1 .. m
  BY DEF Chars
<1>2. ASSUME NEW k \in 1 .. j PROVE Sighting(P, V, k) \in Sightings
  <2>1. P[k - 1] \in Nat /\ V[k] \in Nat
    BY <1>1, CharIs
  <2> QED
    BY <2>1 DEF Sighting, Sightings
<1> DEFINE q == [k \in 1 .. j |-> Sighting(P, V, k)]
<1>3. q = SeenOf(P, V, j)
  BY DEF SeenOf, Sighting
<1>4. q \in [1 .. j -> Sightings] /\ \A k \in 1 .. j : q[k] = Sighting(P, V, k)
  BY <1>2
<1> HIDE DEF q
<1>5. q \in Seq(Sightings) /\ Len(q) = j
  BY <1>1, <1>4
<1> QED
  BY <1>2, <1>3, <1>4, <1>5

LEMMA SeenOfGrows ==
  ASSUME NEW s \in Seq(ByteRange), NEW strict \in BOOLEAN, NEW m, NEW P, NEW V,
         Chars(s, strict, m, P, V)
  PROVE  /\ SeenOf(P, V, 0) = << >>
         /\ \A j \in 0 .. m : SeenBy(SeenOf(P, V, j)) = LastPos(P, j)
         /\ \A j \in 1 .. m : /\ Append(SeenOf(P, V, j - 1), Sighting(P, V, j)) = SeenOf(P, V, j)
                              /\ Sighting(P, V, j).pos # 0 /\ Sighting(P, V, j) # Raised
<1>1. m \in Nat /\ 0 \in 0 .. m
  BY DEF Chars
<1>2. SeenOf(P, V, 0) = << >>
  <2>1. SeenOf(P, V, 0) \in Seq(Sightings) /\ Len(SeenOf(P, V, 0)) = 0
    BY <1>1, SeenOfIs
  <2> QED
    BY <2>1, EmptySeq
<1>3. ASSUME NEW j \in 0 .. m PROVE SeenBy(SeenOf(P, V, j)) = LastPos(P, j)
  <2>1. CASE j = 0
    BY <1>2, <2>1 DEF SeenBy, LastPos
  <2>2. CASE j # 0
    <3> DEFINE q == SeenOf(P, V, j)
    <3>1. j \in 1 .. j /\ 0 # j
      BY <1>1, <2>2
    <3>2. q \in Seq(Sightings) /\ Len(q) = j /\ q[j] = Sighting(P, V, j)
      BY <3>1, SeenOfIs
    <3> HIDE DEF q
    <3>3. q # << >>
      BY <3>1, <3>2, EmptySeq
    <3>4. SeenBy(q) = Sighting(P, V, j).pos
      BY <3>2, <3>3 DEF SeenBy
    <3> QED
      BY <2>2, <3>4 DEF q, Sighting, LastPos
  <2> QED
    BY <2>1, <2>2
<1>4. ASSUME NEW j \in 1 .. m
      PROVE  /\ Append(SeenOf(P, V, j - 1), Sighting(P, V, j)) = SeenOf(P, V, j)
             /\ Sighting(P, V, j).pos # 0 /\ Sighting(P, V, j) # Raised
  <2> DEFINE i == j - 1
             p == SeenOf(P, V, i)
             q == SeenOf(P, V, j)
             e == Sighting(P, V, j)
             r == Append(p, e)
  <2>1. i \in 0 .. m /\ j \in 0 .. m /\ j \in 1 .. j /\ i + 1 = j /\ i \in Nat
    BY <1>1
  <2> HIDE DEF i
  <2>2. p \in Seq(Sightings) /\ Len(p) = i /\ \A k \in 1 .. i : p[k] = Sighting(P, V, k)
    BY <2>1, SeenOfIs
  <2>3. q \in Seq(Sightings) /\ Len(q) = j /\ e \in Sightings /\ \A k \in 1 .. j : q[k] = Sighting(P, V, k)
    BY <2>1, SeenOfIs
  <2> HIDE DEF p, q, e
  <2>4. r \in Seq(Sightings) /\ Len(r) = i + 1 /\ (\A k \in 1 .. i : r[k] = p[k]) /\ r[i + 1] = e
    BY <2>2, <2>3, AppendProperties
  <2> HIDE DEF r
  <2>5. r = q
    <3>1. ASSUME NEW k \in 1 .. j PROVE r[k] = q[k]
      <4>1. CASE k = j
        BY <2>1, <2>3, <2>4, <4>1 DEF e
      <4>2. CASE k # j
        <5>1. k \in 1 .. i
          BY ONLY <2>1, <4>2, k \in 1 .. j
        <5> QED
          BY <2>2, <2>3, <2>4, <5>1
      <4> QED
        BY <4>1, <4>2
    <3> QED
      BY <2>1, <2>3, <2>4, <3>1, SeqEqual
  <2>6. e.pos # 0 /\ e # Raised
    <3>1. P[j - 1] \in Nat
      BY CharIs
    <3>2. e.pos = P[j - 1] + 1
      BY DEF e, Sighting
    <3>3. e # Raised
      BY KindsDiffer DEF e, Sighting
    <3> QED
      BY <3>1, <3>2, <3>3
  <2> QED
    BY <2>5, <2>6 DEF i, p, q, e, r
<1> QED
  BY <1>2, <1>3, <1>4

(* codes sees the characters one by one.                                   *)
Iterates(g, s, strict) ==
  /\ g \in [0 .. Len(s) -> IterStates] /\ g[0] = [seen |-> << >>]
  /\ \A k \in 1 .. Len(s) : g[k] = GoesOn(s, g[k - 1], strict)

LEMMA SeesThem ==
  ASSUME NEW s \in Seq(ByteRange), NEW strict \in BOOLEAN, NEW m, NEW P, NEW V,
         Chars(s, strict, m, P, V), m <= Len(s),
         NEW g, Iterates(g, s, strict), NEW j \in 0 .. m, ~ iscontp(s, P[j])
  PROVE  g[j] = [seen |-> SeenOf(P, V, j)]
<1> USE DEF Iterates
<1> DEFINE T == {k \in 0 .. m : ~ iscontp(s, P[k]) => g[k] = [seen |-> SeenOf(P, V, k)]}
<1>1. m \in Nat /\ Len(s) \in Nat /\ 0 \in 0 .. m
  BY LenProperties DEF Chars
<1>2. 0 \in T
  BY <1>1, SeenOfGrows
<1>3. ASSUME NEW k \in 1 .. m, k - 1 \in T PROVE k \in T
  <2> DEFINE i == k - 1
             w == g[i]
             q == SeenOf(P, V, i)
             step == iter_aux(s, SeenBy(w.seen), strict)
             e == Sighting(P, V, k)
  <2>1. i \in 0 .. m /\ k \in 0 .. m /\ k \in 1 .. Len(s)
    BY <1>1
  <2>2. ~ iscontp(s, P[i])
    BY CharIs
  <2>3. w = [seen |-> q]
    BY <1>3, <2>2
  <2>4. SUFFICES ASSUME ~ iscontp(s, P[k]) PROVE g[k] = [seen |-> SeenOf(P, V, k)]
    BY <2>1
  <2>5. iter_aux(s, LastPos(P, k - 1), strict) = e
    BY <2>4, IterNext DEF Sighting
  <2>6. SeenBy(q) = LastPos(P, i)
    BY <2>1, SeenOfGrows
  <2>7. Append(q, e) = SeenOf(P, V, k) /\ e.pos # 0 /\ e # Raised
    BY SeenOfGrows
  <2>8. g[k] = GoesOn(s, w, strict)
    BY <2>1
  <2> HIDE DEF w, q, e
  <2>9. w.seen = q /\ w # Raised
    BY <2>3, KindsDiffer
  <2>10. step = e
    BY <2>5, <2>6, <2>9
  <2>11. GoesOn(s, w, strict) = [seen |-> Append(q, e)]
    <3>1. GoesOn(s, w, strict) = IF w = Raised \/ step = Raised THEN Raised
                                 ELSE IF step.pos = 0 THEN w ELSE [seen |-> Append(w.seen, step)]
      BY DEF GoesOn
    <3> HIDE DEF step
    <3>2. ~ (w = Raised \/ step = Raised) /\ ~ (step.pos = 0)
      BY ONLY <2>7, <2>9, <2>10
    <3> QED
      BY ONLY <2>9, <2>10, <3>1, <3>2
  <2> QED
    BY <2>7, <2>8, <2>11
<1> HIDE DEF T
<1>4. \A k \in 0 .. m : k \in T
  BY <1>1, <1>2, <1>3, UpTo
<1> QED
  BY <1>4 DEF T

(* After an error, and at the end of the text, nothing changes.            *)
Stays(g, i, n, x) == g[i] = x /\ \A k \in i + 1 .. n : g[k - 1] = x => g[k] = x

LEMMA StaysAt ==
  ASSUME NEW n \in Nat, NEW i \in 0 .. n, NEW g, NEW x, Stays(g, i, n, x)
  PROVE  g[n] = x
<1> USE DEF Stays
<1> DEFINE T == {k \in 0 .. n : k < i \/ g[k] = x}
<1>1. 0 \in T
  <2>1. 0 < i \/ 0 = i
    OBVIOUS
  <2> QED
    BY <2>1
<1>2. ASSUME NEW k \in 1 .. n, k - 1 \in T PROVE k \in T
  <2>1. k < i \/ k = i \/ (k \in i + 1 .. n /\ ~ (k - 1 < i))
    BY ONLY n \in Nat, i \in 0 .. n, k \in 1 .. n
  <2>2. k \in 0 .. n
    OBVIOUS
  <2> QED
    BY <1>2, <2>1, <2>2
<1> HIDE DEF T
<1>3. \A k \in 0 .. n : k \in T
  BY <1>1, <1>2, UpTo
<1>4. n \in T /\ ~ (n < i)
  BY <1>3
<1> QED
  BY <1>4 DEF T

LEMMA CodesOfWhole ==
  ASSUME NEW s \in Seq(ByteRange), NEW lax \in BOOLEAN, NEW m, NEW P, NEW V,
         Whole(s, ~ lax, m, P, V), m <= Len(s)
  PROVE  iter_codes(s, lax) = [seen |-> SeenOf(P, V, m)]
<1> DEFINE n == Len(s)
           strict == ~ lax
           q == SeenOf(P, V, m)
           x == [seen |-> q]
<1>1. strict \in BOOLEAN /\ n \in Nat /\ m \in Nat /\ m \in 0 .. n /\ m \in 0 .. m /\ 0 \in 0 .. m /\ P[0] = 0
  BY LenProperties DEF Whole, Chars
<1>2. PICK g \in [0 .. n -> IterStates] :
        /\ g[0] = [seen |-> << >>]
        /\ iter_codes(s, lax) = IF iscontp(s, 0) THEN Raised ELSE g[n]
        /\ \A k \in 1 .. n : g[k] = GoesOn(s, g[k - 1], strict)
  BY IterSteps
<1> HIDE DEF strict
<1>20. Iterates(g, s, strict)
  BY <1>2 DEF Iterates
<1>3. Whole(s, strict, m, P, V) /\ Chars(s, strict, m, P, V)
  BY DEF Whole, strict
<1>4. ~ iscontp(s, 0) /\ ~ iscontp(s, P[m])
  BY <1>1, <1>3, NoCont
<1>5. g[m] = x
  BY <1>1, <1>3, <1>4, <1>20, SeesThem
<1>6. iter_aux(s, LastPos(P, m), strict) = [pos |-> 0, code |-> 0]
  BY <1>1, <1>3, IterEnds
<1>7. SeenBy(q) = LastPos(P, m)
  BY <1>1, <1>3, SeenOfGrows
<1> HIDE DEF q
<1>8. x # Raised /\ x.seen = q /\ [pos |-> 0, code |-> 0] # Raised /\ [pos |-> 0, code |-> 0].pos = 0
  BY KindsDiffer
<1> HIDE DEF x
<1>9. GoesOn(s, x, strict) = x
  <2>1. GoesOn(s, x, strict) = IF x = Raised \/ iter_aux(s, SeenBy(x.seen), strict) = Raised THEN Raised
                               ELSE IF iter_aux(s, SeenBy(x.seen), strict).pos = 0 THEN x
                               ELSE [seen |-> Append(x.seen, iter_aux(s, SeenBy(x.seen), strict))]
    BY DEF GoesOn
  <2>2. iter_aux(s, SeenBy(x.seen), strict) = [pos |-> 0, code |-> 0]
    BY <1>6, <1>7, <1>8
  <2> QED
    BY <1>8, <2>1, <2>2
<1>10. \A k \in m + 1 .. n : g[k - 1] = x => g[k] = x
  <2>1. \A k \in m + 1 .. n : k \in 1 .. n
    BY <1>1
  <2> QED
    BY <1>2, <1>9, <2>1
<1> HIDE DEF n
<1>11. g[n] = x
  <2>1. Stays(g, m, n, x)
    BY <1>5, <1>10 DEF Stays
  <2> QED
    BY <1>1, <2>1, StaysAt
<1> QED
  BY <1>2, <1>4, <1>11 DEF x, q

LEMMA CodesOfBroken ==
  ASSUME NEW s \in Seq(ByteRange), NEW lax \in BOOLEAN, NEW m, NEW P, NEW V,
         Chars(s, ~ lax, m, P, V), m <= P[m], P[m] < Len(s), utf8_decode(s, P[m], ~ lax) = Invalid
  PROVE  iter_codes(s, lax) = Raised
<1> DEFINE n == Len(s)
           strict == ~ lax
           z == P[m]
<1>1. strict \in BOOLEAN /\ n \in Nat /\ m \in Nat /\ m \in 0 .. m /\ z \in 0 .. n /\ P[0] = 0
  BY LenProperties DEF Chars
<1>0. m <= z /\ z < n
  OBVIOUS
<1>2. PICK g \in [0 .. n -> IterStates] :
        /\ g[0] = [seen |-> << >>]
        /\ iter_codes(s, lax) = IF iscontp(s, 0) THEN Raised ELSE g[n]
        /\ \A k \in 1 .. n : g[k] = GoesOn(s, g[k - 1], strict)
  BY IterSteps
<1> HIDE DEF strict
<1>20. Iterates(g, s, strict)
  BY <1>2 DEF Iterates
<1>3. Chars(s, strict, m, P, V) /\ utf8_decode(s, z, strict) = Invalid
  BY DEF strict
<1> HIDE DEF z
<1> DEFINE i == m + 1
<1>4. m < n /\ m <= n /\ m \in 0 .. n /\ i \in 1 .. n /\ i - 1 = m /\ i \in 0 .. n /\ \A k \in i + 1 .. n : k \in 1 .. n
  BY ONLY <1>0, <1>1
<1> HIDE DEF i
<1>5. \A k \in 1 .. n : g[k - 1] = Raised => g[k] = Raised
  BY <1>2 DEF GoesOn
<1>6. CASE ~ iscontp(s, z)
  <2> DEFINE q == SeenOf(P, V, m)
  <2>0. ~ iscontp(s, P[m]) /\ m \in 0 .. m /\ m <= Len(s)
    BY <1>1, <1>4, <1>6 DEF z
  <2>1. g[m] = [seen |-> q]
    BY <1>1, <1>3, <1>20, <2>0, SeesThem
  <2>2. iter_aux(s, LastPos(P, m), strict) = Raised
    BY <1>0, <1>1, <1>3, <1>6, IterFails DEF z
  <2>3. SeenBy(q) = LastPos(P, m)
    BY <1>1, <1>3, SeenOfGrows
  <2> HIDE DEF q
  <2>4. g[m].seen = q
    BY <2>1
  <2>5. GoesOn(s, g[m], strict) = Raised
    BY <2>2, <2>3, <2>4 DEF GoesOn
  <2>6. g[i] = Raised
    BY <1>2, <1>4, <2>5
  <2> HIDE DEF n
  <2>8. Stays(g, i, n, Raised)
    BY <1>4, <1>5, <2>6 DEF Stays
  <2>7. g[n] = Raised
    BY <1>1, <1>4, <2>8, StaysAt
  <2> QED
    BY <1>2, <2>7
<1>7. CASE iscontp(s, z) /\ m = 0
  BY <1>1, <1>2, <1>7 DEF z
<1>8. CASE iscontp(s, z) /\ m # 0
  <2> DEFINE j == m - 1
             q == SeenOf(P, V, j)
  <2>1. j \in 0 .. m /\ m \in 1 .. m /\ m \in 1 .. n /\ j + 1 = m /\ \A k \in m + 1 .. n : k \in 1 .. n
    BY <1>1, <1>4, <1>8
  <2>2. ~ iscontp(s, P[j])
    BY <1>1, <1>3, <2>1, CharIs
  <2>3. iter_aux(s, LastPos(P, j), strict) = Raised
    BY <1>1, <1>3, <1>8, <2>1, IterNext DEF z
  <2>4. g[m] = GoesOn(s, g[j], strict)
    BY <1>2, <2>1
  <2> HIDE DEF j
  <2>5. g[j] = [seen |-> q]
    BY <1>1, <1>3, <1>4, <1>20, <2>1, <2>2, SeesThem
  <2>6. SeenBy(q) = LastPos(P, j)
    BY <1>1, <1>3, <2>1, SeenOfGrows
  <2> HIDE DEF q
  <2>7. g[j].seen = q
    BY <2>5
  <2>8. g[m] = Raised
    BY <2>3, <2>4, <2>6, <2>7 DEF GoesOn
  <2> HIDE DEF n
  <2>10. Stays(g, m, n, Raised)
    BY <1>5, <2>1, <2>8 DEF Stays
  <2>9. g[n] = Raised
    BY <1>1, <1>4, <2>10, StaysAt
  <2> QED
    BY <1>2, <2>9
<1> QED
  BY <1>6, <1>7, <1>8

(* len finds one character between its ends.                               *)
CountsOne(s, P, k, lax) == utflen(s, P[k - 1] + 1, P[k], lax).n = 1

LEMMA OneCharacter ==
  ASSUME NEW s \in Seq(ByteRange), NEW lax \in BOOLEAN, NEW m, NEW P, NEW V,
         Chars(s, ~ lax, m, P, V), NEW k \in 1 .. m
  PROVE  CountsOne(s, P, k, lax)
<1> DEFINE n == Len(s)
           strict == ~ lax
           a == P[k - 1]
           b == P[k]
           q == Append(<< >>, V[k])
           x == [at |-> b, codes |-> q, bad |-> 0]
<1>1. strict \in BOOLEAN /\ n \in Nat /\ a \in Nat /\ b \in a + 1 .. n /\ V[k] \in Nat
  BY CharIs
<1>2. utf8_decode(s, a, strict) = [val |-> V[k], next |-> b]
  BY DEF Chars
<1> HIDE DEF strict, a, b
<1>3. a \in 0 .. n /\ b \in 0 .. n /\ a < b /\ 1 \in 1 .. n /\ 1 - 1 = 0 /\ 1 \in 0 .. n /\ b >= b
  BY ONLY <1>1
<1>4. PICK g \in [0 .. n -> WalkStates(s)] :
        /\ g[0] = [at |-> a, codes |-> << >>, bad |-> 0]
        /\ DecodedUpTo(s, a, b, strict) = g[n]
        /\ \A i \in 1 .. n : g[i] = Further(s, g[i - 1], b, strict)
  BY <1>1, <1>3, DecodedSteps
<1> DEFINE d == utf8_decode(s, a, strict)
<1>5. d.val = V[k] /\ d.next = b /\ d # Invalid
  <2>1. d.val = V[k] /\ d.next = b
    BY <1>2
  <2>2. V[k] # -1
    BY <1>1
  <2> QED
    BY <2>1, <2>2 DEF Invalid
<1>6. g[1] = x
  <2> DEFINE w == g[0]
  <2>1. w.at = a /\ w.codes = << >> /\ w.bad = 0
    BY <1>4
  <2>2. w \in WalkStates(s) /\ g[1] = Further(s, w, b, strict)
    <3>1. 0 \in 0 .. n
      BY <1>1
    <3> QED
      BY <1>3, <1>4, <3>1
  <2> HIDE DEF w
  <2>3. Further(s, w, b, strict) = [at |-> d.next, codes |-> Append(w.codes, d.val), bad |-> 0]
    BY <1>1, <1>3, <1>5, <2>1, <2>2, FurtherIs
  <2> QED
    BY <1>5, <2>1, <2>2, <2>3
<1>7. q \in Seq(Nat) /\ Len(q) = 1
  <2>1. << >> \in Seq(Nat) /\ Len(<< >>) = 0
    BY EmptySeq
  <2> QED
    BY <1>1, <2>1, AppendProperties
<1>8. Further(s, x, b, strict) = x
  <2>1. x.at = b
    OBVIOUS
  <2> HIDE DEF x
  <2> QED
    BY <1>3, <2>1 DEF Further
<1>9. x.codes = q /\ x.bad = 0
  OBVIOUS
<1> HIDE DEF x, q
<1>10. Stays(g, 1, n, x)
  <2>1. \A i \in 1 + 1 .. n : i \in 1 .. n
    BY <1>1
  <2> QED
    BY <1>4, <1>6, <1>8, <2>1 DEF Stays
<1> HIDE DEF n
<1>11. g[n] = x
  BY <1>1, <1>3, <1>10, StaysAt
<1>12. DecodedUpTo(s, a, b, strict) = x
  BY <1>4, <1>11
<1> DEFINE a1 == a + 1
<1>13. a1 - 1 = a /\ a1 >= 0 /\ b >= 0 /\ 1 <= a1 /\ a <= n /\ b - 1 < n
  BY ONLY <1>1
<1> HIDE DEF a1
<1>14. u_posrelat(a1, n) = a1 /\ u_posrelat(b, n) = b
  BY <1>13 DEF u_posrelat
<1>15. utflen(s, a1, b, lax) = [n |-> Len(x.codes), bad |-> x.bad]
  <2> DEFINE D == DecodedUpTo(s, a, b, ~ lax)
  <2>1. D = x
    BY <1>12 DEF strict
  <2>2. utflen(s, a1, b, lax) = IF ~ (1 <= a1 /\ a1 - 1 <= n /\ b - 1 < n) THEN Raised
                                ELSE [n |-> Len(D.codes), bad |-> D.bad]
    BY <1>13, <1>14 DEF utflen, n
  <2> HIDE DEF D
  <2> QED
    BY <1>13, <2>1, <2>2
<1>16. utflen(s, a1, b, lax).n = 1
  BY <1>7, <1>9, <1>15
<1> QED
  BY <1>16 DEF a1, a, b, CountsOne

(* What len and codepoint give for all of a text.                          *)
LEMMA LenOfAll ==
  ASSUME NEW s \in Seq(ByteRange), NEW lax \in BOOLEAN, NEW d, d = DecodedUpTo(s, 0, Len(s), ~ lax)
  PROVE  /\ utflen(s, 1, -1, lax).n = Len(d.codes) /\ utflen(s, 1, -1, lax).bad = d.bad
         /\ codepoint(s, 1, -1, lax) =
              IF Len(s) = 0 THEN [codes |-> << >>] ELSE IF d.bad # 0 THEN Raised ELSE [codes |-> d.codes]
<1> DEFINE n == Len(s)
           D == DecodedUpTo(s, 0, n, ~ lax)
           o == -1
<1>1. n \in Nat
  BY LenProperties
<1>2. D = d
  OBVIOUS
<1>3. u_posrelat(1, n) = 1
  BY DEF u_posrelat
<1>4. u_posrelat(o, n) = n
  BY <1>1 DEF u_posrelat
<1> HIDE DEF o
<1>5. 1 <= 1 /\ 1 - 1 = 0 /\ 0 <= n /\ n - 1 < n /\ ~ (n > n) /\ ~ (1 < 1) /\ (1 > n <=> n = 0)
  BY ONLY <1>1
<1>6. utflen(s, 1, o, lax) = IF ~ (1 <= 1 /\ 1 - 1 <= n /\ n - 1 < n) THEN Raised
                             ELSE [n |-> Len(D.codes), bad |-> D.bad]
  BY <1>3, <1>4, <1>5 DEF utflen
<1>7. codepoint(s, 1, o, lax) = IF 1 < 1 \/ n > n THEN Raised
                                ELSE IF 1 > n THEN [codes |-> << >>]
                                ELSE IF D.bad # 0 THEN Raised ELSE [codes |-> D.codes]
  BY <1>3, <1>4, <1>5 DEF codepoint
<1> HIDE DEF D, n
<1>8. utflen(s, 1, o, lax) = [n |-> Len(d.codes), bad |-> d.bad]
  BY <1>2, <1>5, <1>6
<1>9. codepoint(s, 1, o, lax) =
        IF n = 0 THEN [codes |-> << >>] ELSE IF d.bad # 0 THEN Raised ELSE [codes |-> d.codes]
  BY <1>2, <1>5, <1>7
<1> QED
  BY <1>8, <1>9 DEF n, o

(* A character is written as the bytes it was read from, and zero is the   *)
(* only one with a zero byte.                                              *)
WrittenAsRead(s, P, V, k) ==
  /\ codepoint_to_utf8(V[k]) = SubSeq(Rest(s, P[k - 1]), 1, P[k] - P[k - 1])
  /\ V[k] = 0 => P[k] = P[k - 1] + 1 /\ Byte(s, P[k - 1]) = 0
  /\ V[k] # 0 => \A p \in P[k - 1] .. P[k] - 1 : Byte(s, p) # 0

LEMMA CharBytes ==
  ASSUME NEW s \in Seq(ByteRange), NEW m, NEW P, NEW V, Chars(s, TRUE, m, P, V), NEW k \in 1 .. m
  PROVE  WrittenAsRead(s, P, V, k)
<1> DEFINE n == Len(s)
           a == P[k - 1]
           b == P[k]
           v == V[k]
           u == Rest(s, a)
           e == utf8_decode(u, 0, TRUE)
           d == utf8_decode(s, a, TRUE)
<1>1. /\ n \in Nat /\ a \in Nat /\ b \in a + 1 .. n /\ v \in Nat /\ TRUE \in BOOLEAN
      /\ \A p \in a + 1 .. b - 1 : iscontp(s, p)
  BY CharIs
<1>2. d = [val |-> v, next |-> b]
  BY DEF Chars
<1> HIDE DEF v, a, b, n
<1>3. a \in 0 .. n /\ a < n /\ n - a > 0 /\ b - a \in Nat /\ b - a > 0
  BY ONLY <1>1
<1>4. u \in Seq(ByteRange) /\ Len(u) = n - a /\ \A i \in Nat : Byte(u, i) = Byte(s, a + i)
  BY <1>3, RestIs DEF n
<1>5. d = Later(e, a)
  BY <1>1, <1>3, DecodeMoved DEF n
<1> HIDE DEF u
<1>6. DecodesWell(u)
  BY <1>4, EveryTextDecodes
<1>7. d.val = v /\ d.next = b /\ d # Invalid
  <2> HIDE DEF d
  <2>1. d.val = v /\ d.next = b
    BY <1>2
  <2>2. v # -1
    BY <1>1
  <2> QED
    BY <2>1, <2>2 DEF Invalid
<1> DEFINE z == e.next
<1>8. e # Invalid /\ e.val = v /\ b = a + z
  <2> HIDE DEF d, e
  <2>1. e # Invalid
    BY <1>5, <1>7 DEF Later
  <2>2. d = [val |-> e.val, next |-> a + e.next]
    BY <1>5, <2>1 DEF Later
  <2>3. d.val = e.val /\ d.next = a + e.next
    BY <2>2
  <2> QED
    BY <1>7, <2>1, <2>3
<1>9. z = WellFormed(u) /\ (u # << >> => codepoint_to_utf8(v) = SubSeq(u, 1, z))
  BY <1>6, <1>8 DEF DecodesWell
<1>10. z \in Nat /\ z = b - a
  <2>0. Len(u) > 0
    BY <1>3, <1>4
  <2>1. e.next \in 1 .. Len(u)
    BY <1>1, <1>4, <1>8, <2>0, DecodeFirst
  <2>2. z \in Nat
    <3> DEFINE y == Len(u)
    <3>1. z \in 1 .. y
      BY <2>1
    <3> HIDE DEF y, z
    <3> QED
      BY ONLY <3>1
  <2> HIDE DEF z
  <2> QED
    BY ONLY <1>1, <1>8, <2>2
<1>11. u # << >>
  BY <1>3, <1>4, EmptySeq
<1> HIDE DEF z, e, d
<1>12. codepoint_to_utf8(v) = SubSeq(u, 1, b - a)
  BY <1>9, <1>10, <1>11
<1>13. Byte(s, a) \in 0 .. 255
  BY <1>1, ByteTyped
<1>14. Byte(s, a) = 0 => v = 0
  <2> SUFFICES ASSUME Byte(s, a) = 0 PROVE v = 0
    OBVIOUS
  <2>1. Byte(u, 0) = 0
    <3>1. a + 0 = a /\ 0 \in Nat
      BY <1>1
    <3> QED
      BY <1>4, <3>1
  <2> DEFINE y == AskedFor(Byte(u, 0))
             p == CodePoint(u, y)
  <2>4. /\ Byte(u, 0) < 128 => e = [val |-> Byte(u, 0), next |-> 1]
        /\ Byte(u, 0) >= 128 => e = IF Refused(u, y, TRUE) THEN Invalid ELSE [val |-> p, next |-> y + 1]
    BY <1>1, <1>4, DecodeIs DEF e
  <2> HIDE DEF y, p
  <2>2. e = [val |-> 0, next |-> 1]
    <3>1. 0 < 128
      OBVIOUS
    <3> QED
      BY ONLY <2>1, <2>4, <3>1
  <2>3. e.val = 0
    BY <2>2
  <2> QED
    BY <1>8, <2>3
<1>15. ASSUME v = 0 PROVE b = a + 1 /\ Byte(s, a) = 0
  <2>1. codepoint_to_utf8(0) = << 0 >>
    BY DEF codepoint_to_utf8
  <2>2. SubSeq(u, 1, b - a) = << 0 >>
    BY <1>12, <1>15, <2>1
  <2>3. \A i \in 1 .. b - a : u[i] \in ByteRange
    <3>1. \A i \in 1 .. b - a : i \in 1 .. n - a
      BY ONLY <1>1
    <3> QED
      BY <1>4, <3>1, ElementOfSeq
  <2>4. b - a \in Int /\ 1 \in Int /\ 1 <= b - a /\ b - a - 1 + 1 = b - a
    BY ONLY <1>1
  <2> DEFINE q == SubSeq(u, 1, b - a)
  <2>5. Len(q) = b - a /\ \A i \in 1 .. b - a - 1 + 1 : q[i] = u[1 + i - 1]
    BY <2>3, <2>4, SubSeqProperties
  <2>11. q = << 0 >>
    BY <2>2
  <2> HIDE DEF q
  <2>6. Len(q) = 1 /\ q[1] = 0
    BY ONLY <2>11
  <2>12. b - a = 1
    BY <2>5, <2>6
  <2>7. b = a + 1
    BY ONLY <1>1, <2>12
  <2>8. u[1] = 0
    BY <2>4, <2>5, <2>6
  <2>9. Byte(u, 0) = 0
    BY <1>3, <1>4, <2>8 DEF Byte
  <2>10. a + 0 = a /\ 0 \in Nat
    BY <1>1
  <2> QED
    BY <1>4, <2>7, <2>9, <2>10
<1>16. ASSUME v # 0, NEW p \in a .. b - 1 PROVE Byte(s, p) # 0
  <2>1. p = a \/ p \in a + 1 .. b - 1
    BY ONLY <1>1, <1>16
  <2>2. CASE p = a
    BY <1>14, <1>16, <2>2
  <2>3. CASE p \in a + 1 .. b - 1
    <3>1. iscont(Byte(s, p)) /\ p \in Nat
      <4>1. p \in Nat
        BY ONLY <1>1, <2>3
      <4> QED
        BY <1>1, <2>3, <4>1 DEF iscontp
    <3>2. ~ iscont(0)
      BY DEF iscont
    <3> QED
      BY <3>1, <3>2
  <2> QED
    BY <2>1, <2>2, <2>3
<1> QED
  BY <1>12, <1>15, <1>16 DEF a, b, v, u, WrittenAsRead

(* A text without its zeros, byte by byte.                                 *)
Kept(c) == IF c = 0 THEN << >> ELSE << c >>

Keeps(h, s) ==
  /\ h \in [0 .. Len(s) -> Seq(ByteRange)] /\ h[0] = << >>
  /\ \A i \in 1 .. Len(s) : h[i] = Then(h[i - 1], Kept(s[i]))

LEMMA ZerolessSteps ==
  ASSUME NEW s \in Seq(ByteRange)
  PROVE  \E h : Keeps(h, s) /\ Zeroless(s) = h[Len(s)]
<1> DEFINE n == Len(s)
           ss == [i \in 1 .. n |-> Kept(s[i])]
<1>1. n \in Nat /\ DOMAIN s = 1 .. n /\ \A i \in 1 .. n : s[i] \in ByteRange
  BY LenProperties, ElementOfSeq
<1>2. \A c \in ByteRange : Kept(c) \in Seq(ByteRange)
  BY DEF Kept
<1>3. ss \in [1 .. n -> Seq(ByteRange)]
  BY <1>1, <1>2
<1>6. \A i \in 1 .. n : ss[i] = Kept(s[i])
  OBVIOUS
<1>4. Zeroless(s) = FlattenSeq(ss)
  BY <1>1 DEF Zeroless, Kept
<1> HIDE DEF ss, n
<1>5. PICK h \in [0 .. n -> Seq(ByteRange)] :
        /\ h[0] = << >> /\ FlattenSeq(ss) = h[n]
        /\ \A i \in 1 .. n : h[i] = Then(h[i - 1], ss[i])
  BY <1>1, <1>3, FlattenSteps
<1> QED
  BY <1>4, <1>5, <1>6 DEF n, Keeps

LEMMA ThenAssociates ==
  ASSUME NEW S, NEW s \in Seq(S), NEW t \in Seq(S), NEW u \in Seq(S)
  PROVE  Then(Then(s, t), u) = Then(s, Then(t, u))
BY ConcatAssociative DEF Then

LEMMA KeptTogether ==
  ASSUME NEW s \in Seq(ByteRange), NEW h, Keeps(h, s), NEW a \in Nat, NEW b \in a + 1 .. Len(s)
  PROVE  /\ Byte(s, a) = 0 => h[a + 1] = h[a]
         /\ (\A p \in a .. b - 1 : Byte(s, p) # 0) => h[b] = Then(h[a], SubSeq(Rest(s, a), 1, b - a))
<1> DEFINE n == Len(s)
           u == Rest(s, a)
           size == b - a
<1>1. n \in Nat /\ a \in Nat /\ b \in a + 1 .. n
  BY LenProperties
<1>2. /\ h \in [0 .. n -> Seq(ByteRange)]
      /\ \A i \in 1 .. n : h[i] = Then(h[i - 1], Kept(s[i]))
  BY DEF Keeps
<1>3. a \in 0 .. n /\ size \in Nat /\ a + 0 = a /\ 0 \in 0 .. size /\ size \in 0 .. size /\ a + size = b
  BY ONLY <1>1
<1>4. u \in Seq(ByteRange) /\ Len(u) = n - a /\ \A i \in Nat : Byte(u, i) = Byte(s, a + i)
  BY <1>3, RestIs
<1>5. h[a] \in Seq(ByteRange)
  BY <1>2, <1>3
<1>6. \A p \in a .. b - 1 : p + 1 \in 1 .. n /\ p < n /\ p + 1 - 1 = p /\ p \in Nat
  BY ONLY <1>1
<1>7. \A p \in a .. b - 1 : s[p + 1] = Byte(s, p) /\ h[p + 1] = Then(h[p], Kept(Byte(s, p)))
  BY <1>2, <1>6 DEF Byte
<1>8. ASSUME Byte(s, a) = 0 PROVE h[a + 1] = h[a]
  <2>1. a \in a .. b - 1
    BY ONLY <1>1
  <2>2. h[a + 1] = Then(h[a], << >>)
    BY <1>7, <1>8, <2>1 DEF Kept
  <2> QED
    BY <1>5, <2>2, ConcatEmptySeq DEF Then
<1> HIDE DEF u, size, n
<1>9. ASSUME \A p \in a .. b - 1 : Byte(s, p) # 0
      PROVE  h[b] = Then(h[a], SubSeq(u, 1, size))
  <2> DEFINE T == {j \in 0 .. size : h[a + j] = Then(h[a], SubSeq(u, 1, j))}
  <2>1. 0 \in T
    <3>1. SubSeq(u, 1, 0) = << >>
      BY SubSeqEmpty
    <3> QED
      BY <1>3, <1>5, <3>1, ConcatEmptySeq DEF Then
  <2>2. ASSUME NEW j \in 1 .. size, j - 1 \in T PROVE j \in T
    <3> DEFINE i == j - 1
               p == a + i
               v == SubSeq(u, 1, i)
               w == SubSeq(u, 1, j)
               c == Byte(s, p)
    <3>0. size = b - a
      BY DEF size
    <3>1. /\ i \in 0 .. size /\ j \in 0 .. size /\ p \in a .. b - 1 /\ p + 1 = a + j /\ j \in Nat /\ i \in Nat
          /\ j \in 1 .. n - a /\ i < n - a /\ i + 1 = j /\ 1 \in 1 .. n - a
      BY ONLY <1>1, <3>0, j \in 1 .. size
    <3>2. h[p] = Then(h[a], v)
      BY <2>2
    <3>3. u[j] = c /\ c \in ByteRange /\ c # 0
      <4>1. Byte(u, i) = Byte(s, a + i) /\ Byte(u, i) = u[i + 1]
        BY <1>4, <3>1 DEF Byte
      <4>2. u[j] \in ByteRange
        BY <1>4, <3>1, ElementOfSeq
      <4>3. u[j] = c
        BY <3>1, <4>1
      <4>4. c # 0
        BY <1>9, <3>1
      <4> QED
        BY <4>2, <4>3, <4>4
    <3>4. h[p + 1] = Then(h[p], Kept(c))
      BY <1>7, <3>1
    <3>5. Kept(c) = << c >>
      BY <3>3 DEF Kept
    <3>6. w = Then(v, << u[j] >>)
      <4>1. 1 \in 1 .. Len(u) /\ j \in 1 .. Len(u)
        BY <1>4, <3>1
      <4> QED
        BY <1>4, <4>1, SubSeqRecursiveSecond DEF Then
    <3>7. v \in Seq(ByteRange)
      <4>1. \A x \in 1 .. i : u[x] \in ByteRange
        <5>1. \A x \in 1 .. i : x \in 1 .. n - a
          BY ONLY <1>1, <3>1
        <5> QED
          BY <1>4, <5>1, ElementOfSeq
      <4> QED
        BY <3>1, <4>1, SubSeqProperties
    <3>8. << c >> \in Seq(ByteRange)
      BY <3>3
    <3> DEFINE y == << c >>
               x == h[a]
    <3> HIDE DEF v, w, c, p
    <3>9. h[p + 1] = Then(Then(h[a], v), << c >>)
      BY <3>2, <3>4, <3>5
    <3>10. Then(Then(h[a], v), << c >>) = Then(h[a], Then(v, << c >>))
      <4>1. x \in Seq(ByteRange) /\ y \in Seq(ByteRange)
        BY <1>5, <3>8
      <4> HIDE DEF x, y
      <4>2. Then(Then(x, v), y) = Then(x, Then(v, y))
        BY ONLY <3>7, <4>1, ThenAssociates
      <4> QED
        BY <4>2 DEF x, y
    <3>11. h[p + 1] = Then(h[a], w)
      BY ONLY <3>3, <3>6, <3>9, <3>10
    <3> QED
      BY <3>1, <3>11 DEF w
  <2> HIDE DEF T
  <2>3. \A j \in 0 .. size : j \in T
    BY <1>3, <2>1, <2>2, UpTo
  <2>4. size \in T
    BY <1>3, <2>3
  <2> QED
    BY <1>3, <2>4 DEF T
<1> QED
  BY <1>8, <1>9 DEF u, size

(* char puts the text together again.                                      *)
LEMMA PutTogether ==
  ASSUME NEW s \in Seq(ByteRange), NEW m, NEW P, NEW V, Whole(s, TRUE, m, P, V)
  PROVE  utfchar(V) = Zeroless(s)
<1> DEFINE n == Len(s)
           ss == [k \in 1 .. m |-> pushutfchar(V[k])]
<1>1. /\ m \in Nat /\ n \in Nat /\ P[0] = 0 /\ P[m] = n /\ V \in Seq(Nat) /\ Len(V) = m
      /\ P \in [0 .. m -> 0 .. n] /\ Chars(s, TRUE, m, P, V)
  BY LenProperties DEF Whole, Chars
<1>13. m \in Nat
  BY <1>1
<1>2. DOMAIN V = 1 .. m
  BY <1>1, LenProperties
<1>3. utfchar(V) = FlattenSeq(ss)
  BY <1>2 DEF utfchar
<1>4. \A k \in 1 .. m : ss[k] = pushutfchar(V[k])
  OBVIOUS
<1>5. ASSUME NEW k \in 1 .. m
      PROVE  /\ pushutfchar(V[k]) \in Seq(ByteRange)
             /\ \A h : Keeps(h, s) => h[P[k]] = Then(h[P[k - 1]], pushutfchar(V[k]))
  <2> DEFINE a == P[k - 1]
             b == P[k]
             v == V[k]
             w == SubSeq(Rest(s, a), 1, b - a)
  <2>0. WrittenAsRead(s, P, V, k)
    BY <1>1, CharBytes
  <2>1. /\ codepoint_to_utf8(v) = w
        /\ v = 0 => b = a + 1 /\ Byte(s, a) = 0
        /\ v # 0 => \A p \in a .. b - 1 : Byte(s, p) # 0
    BY <2>0 DEF WrittenAsRead
  <2>2. a \in Nat /\ b \in a + 1 .. n /\ TRUE \in BOOLEAN
    BY <1>1, CharIs
  <2>3. w \in Seq(ByteRange)
    <3> DEFINE u == Rest(s, a)
               size == b - a
    <3>1. a \in 0 .. n /\ size \in Int /\ \A i \in 1 .. size : i \in 1 .. n - a
      <4> HIDE DEF a, b, n
      <4> QED
        BY ONLY <1>1, <2>2
    <3>2. u \in Seq(ByteRange) /\ Len(u) = n - a
      BY <3>1, RestIs
    <3> HIDE DEF u, size
    <3>3. \A i \in 1 .. size : u[i] \in ByteRange
      BY <3>1, <3>2, ElementOfSeq
    <3>4. SubSeq(u, 1, size) \in Seq(ByteRange)
      BY <3>1, <3>3, SubSeqProperties
    <3> QED
      BY <3>4 DEF u, size
  <2>4. pushutfchar(v) = IF v = 0 THEN << >> ELSE w
    BY <2>1 DEF pushutfchar
  <2> HIDE DEF v, w, a, b
  <2>5. pushutfchar(v) \in Seq(ByteRange)
    BY <2>3, <2>4, EmptySeq
  <2>6. ASSUME NEW h, Keeps(h, s) PROVE h[b] = Then(h[a], pushutfchar(v))
    <3>1. /\ Byte(s, a) = 0 => h[a + 1] = h[a]
          /\ (\A p \in a .. b - 1 : Byte(s, p) # 0) => h[b] = Then(h[a], w)
      BY <2>2, <2>6, KeptTogether DEF w
    <3>2. CASE v = 0
      <4>1. h[b] = h[a]
        BY <2>1, <3>1, <3>2
      <4>2. h[a] \in Seq(ByteRange)
        <5>1. a \in 0 .. n
          BY <1>1, <2>2
        <5> QED
          BY <2>6, <5>1 DEF Keeps
      <4>3. Then(h[a], << >>) = h[a]
        BY <4>2, ConcatEmptySeq DEF Then
      <4> QED
        BY <2>4, <3>2, <4>1, <4>3
    <3>3. CASE v # 0
      BY <2>1, <2>4, <3>1, <3>3
    <3> QED
      BY <3>2, <3>3
  <2> QED
    BY <2>5, <2>6 DEF v, a, b
<1>6. ss \in [1 .. m -> Seq(ByteRange)]
  BY <1>5
<1> HIDE DEF ss
<1>7. PICK g \in [0 .. m -> Seq(ByteRange)] :
        /\ g[0] = << >> /\ FlattenSeq(ss) = g[m]
        /\ \A k \in 1 .. m : g[k] = Then(g[k - 1], ss[k])
  BY ONLY <1>13, <1>6, FlattenSteps
<1>8. PICK h : Keeps(h, s) /\ Zeroless(s) = h[n]
  BY ZerolessSteps
<1> DEFINE T == {k \in 0 .. m : g[k] = h[P[k]]}
<1>9. 0 \in T
  BY <1>1, <1>7, <1>8 DEF Keeps
<1>10. ASSUME NEW k \in 1 .. m, k - 1 \in T PROVE k \in T
  <2>1. k \in 0 .. m
    BY <1>1
  <2>2. g[k] = Then(g[k - 1], pushutfchar(V[k]))
    BY <1>4, <1>7
  <2>3. h[P[k]] = Then(h[P[k - 1]], pushutfchar(V[k]))
    BY <1>5, <1>8
  <2>4. g[k - 1] = h[P[k - 1]]
    BY <1>10
  <2> QED
    BY <2>1, <2>2, <2>3, <2>4
<1> HIDE DEF T
<1>11. m \in T
  <2>1. \A k \in 0 .. m : k \in T
    BY <1>1, <1>9, <1>10, UpTo
  <2> QED
    BY <1>1, <2>1
<1>15. g[m] = h[n]
  BY <1>1, <1>11 DEF T
<1> QED
  BY <1>3, <1>7, <1>8, <1>15

LEMMA AllWalksAgree ==
  ASSUME NEW s \in Seq(ByteRange), NEW lax \in BOOLEAN
  PROVE  WalksAgree(s, lax)
<1> DEFINE n == Len(s)
           strict == ~ lax
           d == DecodedUpTo(s, 0, n, strict)
           len == utflen(s, 1, -1, lax)
           codes == iter_codes(s, lax)
           all == codepoint(s, 1, -1, lax)
           Agree == IF len.bad # 0
                    THEN codes = Raised /\ all = Raised
                    ELSE /\ codes # Raised /\ len.n = Len(codes.seen)
                         /\ all.codes = [k \in 1 .. len.n |-> codes.seen[k].code]
                         /\ \A k \in 1 .. len.n :
                              LET here == codes.seen[k].pos
                                  end  == IF k = len.n THEN Len(s) ELSE codes.seen[k + 1].pos - 1
                              IN /\ offset(s, k).pos = here
                                 /\ offset(s, k - len.n - 1).pos = here
                                 /\ \A i \in here .. end : byteoffset(s, 0, i).pos = here
                                 /\ utflen(s, here, end, lax).n = 1
                         /\ offset(s, len.n + 1).pos = Len(s) + 1
                         /\ ~ lax => utfchar(all.codes) = Zeroless(s)
<1>1. n \in Nat /\ strict \in BOOLEAN
  BY LenProperties
<1> DEFINE Found(m, P, V) ==
             /\ Chars(s, strict, m, P, V) /\ P[m] >= m /\ d.codes = V
             /\ \/ P[m] = n /\ d.bad = 0
                \/ P[m] < n /\ utf8_decode(s, P[m], strict) = Invalid /\ d.bad # 0
<1>9. \E m \in 0 .. n : \E P, V : Found(m, P, V)
  BY <1>1, CharsEnd
<1> HIDE DEF Found
<1>10. PICK m \in 0 .. n : \E P, V : Found(m, P, V)
  BY <1>9
<1>11. PICK P, V : Found(m, P, V)
  BY <1>10
<1>2. /\ Chars(s, strict, m, P, V) /\ P[m] >= m /\ d.codes = V
      /\ \/ P[m] = n /\ d.bad = 0
         \/ P[m] < n /\ utf8_decode(s, P[m], strict) = Invalid /\ d.bad # 0
  BY <1>11 DEF Found
<1>12. Chars(s, ~ lax, m, P, V)
  BY <1>2
<1>3. /\ m \in Nat /\ m <= n /\ V \in Seq(Nat) /\ Len(V) = m /\ P \in [0 .. m -> 0 .. n] /\ m \in 0 .. m
      /\ Chars(s, ~ lax, m, P, V) /\ Chars(s, strict, m, P, V)
  BY <1>1, <1>2 DEF Chars
<1>4. m <= P[m]
  <2> DEFINE z == P[m]
  <2>1. z \in 0 .. n /\ z >= m
    BY <1>2, <1>3
  <2> HIDE DEF z
  <2>2. m <= z
    BY ONLY <1>1, <1>3, <2>1
  <2> QED
    BY <2>2 DEF z
<1>5. len.n = m /\ len.bad = d.bad
  BY <1>2, <1>3, LenOfAll
<1>6. all = IF n = 0 THEN [codes |-> << >>] ELSE IF d.bad # 0 THEN Raised ELSE [codes |-> V]
  BY <1>2, LenOfAll
<1> HIDE DEF len, all, d
<1>7. CASE d.bad # 0
  <2>1. P[m] < n /\ utf8_decode(s, P[m], ~ lax) = Invalid
    BY <1>2, <1>7
  <2>2. n # 0
    <3> DEFINE z == P[m]
    <3>1. z \in 0 .. n /\ z < n
      BY <1>3, <2>1
    <3> HIDE DEF z
    <3> QED
      BY ONLY <1>1, <3>1
  <2>3. codes = Raised
    BY <1>3, <1>4, <2>1, CodesOfBroken
  <2>4. all = Raised
    BY <1>6, <1>7, <2>2
  <2> HIDE DEF codes
  <2>5. Agree
    BY <1>5, <1>7, <2>3, <2>4
  <2> QED
    BY <2>5 DEF WalksAgree, len, all, codes
<1>8. CASE d.bad = 0
  <2> DEFINE q == SeenOf(P, V, m)
  <2>1. P[m] = n /\ Whole(s, strict, m, P, V) /\ Whole(s, ~ lax, m, P, V)
    BY <1>2, <1>3, <1>8 DEF Whole
  <2>2. codes = [seen |-> q]
    BY <1>3, <2>1, CodesOfWhole
  <2>13. m \in 0 .. m
    BY <1>3
  <2>3. Len(q) = m /\ \A k \in 1 .. m : q[k] = Sighting(P, V, k)
    <3>1. Chars(s, strict, m, P, V)
      BY <1>2
    <3> HIDE DEF strict
    <3> QED
      BY <1>1, <2>13, <3>1, SeenOfIs
  <2>4. \A k \in 1 .. m : q[k].pos = P[k - 1] + 1 /\ q[k].code = V[k]
    BY <2>3 DEF Sighting
  <2>5. all = [codes |-> V]
    <3>1. n = 0 => V = << >>
      <4>1. n = 0 => m = 0
        BY ONLY <1>1, <1>3
      <4> QED
        BY <1>3, <4>1, EmptySeq
    <3> QED
      BY <1>6, <1>8, <3>1
  <2> HIDE DEF codes, q
  <2>6. codes # Raised /\ codes.seen = q /\ all.codes = V
    BY <2>2, <2>5, KindsDiffer
  <2>7. V = [k \in 1 .. m |-> q[k].code]
    <3>1. V \in [1 .. m -> Nat]
      BY <1>3, LenProperties
    <3> QED
      BY <2>4, <3>1
  <2>8. ASSUME NEW k \in 1 .. m
        PROVE  LET here == q[k].pos
                   end  == IF k = m THEN n ELSE q[k + 1].pos - 1
               IN /\ offset(s, k).pos = here
                  /\ offset(s, k - m - 1).pos = here
                  /\ \A i \in here .. end : byteoffset(s, 0, i).pos = here
                  /\ utflen(s, here, end, lax).n = 1
    <3> DEFINE here == q[k].pos
               end == IF k = m THEN n ELSE q[k + 1].pos - 1
    <3>1. here = P[k - 1] + 1
      BY <2>4
    <3>2. end = P[k]
      <4>1. CASE k = m
        BY <2>1, <4>1
      <4>2. CASE k # m
        <5> DEFINE j == k + 1
        <5>1. j \in 1 .. m /\ j - 1 = k
          BY ONLY <1>3, <4>2, k \in 1 .. m
        <5> HIDE DEF j
        <5>2. q[j].pos = P[j - 1] + 1
          BY <2>4, <5>1
        <5>3. P[k] \in Nat
          <6>1. k \in 0 .. m
            BY <1>3
          <6>2. \A x \in 0 .. n : x \in Nat
            BY <1>1
          <6> QED
            BY <1>3, <6>1, <6>2
        <5>4. q[j].pos - 1 = P[k]
          <6> DEFINE z == P[k]
          <6> HIDE DEF z
          <6>1. q[j].pos = z + 1 /\ z \in Nat
            BY <5>1, <5>2, <5>3 DEF z
          <6>2. q[j].pos - 1 = z
            BY <6>1
          <6> QED
            BY <6>2 DEF z
        <5> QED
          BY <4>2, <5>4 DEF j
      <4> QED
        BY <4>1, <4>2
    <3> HIDE DEF here, end
    <3>3. /\ offset(s, k).pos = P[k - 1] + 1
          /\ offset(s, k - m - 1).pos = P[k - 1] + 1
          /\ \A i \in P[k - 1] + 1 .. P[k] : byteoffset(s, 0, i).pos = P[k - 1] + 1
      <4> HIDE DEF strict
      <4> QED
        BY <1>1, <2>1, OffsetsAre
    <3>4. utflen(s, P[k - 1] + 1, P[k], lax).n = 1
      <4>1. CountsOne(s, P, k, lax)
        BY <1>12, OneCharacter
      <4> QED
        BY <4>1 DEF CountsOne
    <3>5. /\ offset(s, k).pos = here
          /\ offset(s, k - m - 1).pos = here
          /\ \A i \in here .. end : byteoffset(s, 0, i).pos = here
          /\ utflen(s, here, end, lax).n = 1
      BY <3>1, <3>2, <3>3, <3>4
    <3> QED
      BY <3>5 DEF here, end
  <2>9. offset(s, m + 1).pos = n + 1
    BY <1>1, <2>1, OffsetOfEnd
  <2>10. ~ lax => utfchar(V) = Zeroless(s)
    <3> SUFFICES ASSUME ~ lax PROVE utfchar(V) = Zeroless(s)
      OBVIOUS
    <3>1. Whole(s, TRUE, m, P, V)
      BY <2>1
    <3> QED
      BY <3>1, PutTogether
  <2>11. len.n = m /\ len.bad = 0
    BY <1>5, <1>8
  <2>12. Agree
    BY ONLY <2>3, <2>6, <2>7, <2>8, <2>9, <2>10, <2>11
  <2> QED
    BY <2>12 DEF WalksAgree, len, all, codes
<1> QED
  BY <1>7, <1>8

(* Whatever bytes a text of Lua holds, strict or lax: len, codes and       *)
(* codepoint find the same characters, or all fail; offset comes to each   *)
(* of them from both ends and from its middle; and strictly, char puts     *)
(* together again what the text is without zeros.                          *)
THEOREM Utf8WalkAlways == Spec => []Utf8Walk
<1>1. TextOfBytes => Utf8Walk
  BY AllWalksAgree DEF TextOfBytes, Utf8Walk
<1> QED
  BY <1>1, TextsAreBytes, PTL
=============================================================================
