------------------------------ MODULE Calendar ------------------------------
(***************************************************************************)
(* wa_datediff of lib/time.c on the numbers that atoi reads: yyyymmdd, or  *)
(* yymmdd in this century.  mktime is external: it turns a date into time, *)
(* here whole days (in standard time, as tm_isdst is 0).                   *)
(***************************************************************************)
EXTENDS Integers

CONSTANTS
  FirstDays, \* the dates from which days are counted
  LastDay    \* bound: how many days

VARIABLES
  first,     \* the day from which days are counted
  today,     \* the day that is reached
  days       \* how many days lie between

datevars == <<first, today, days>>

(* A date without a century.  Mutation: one of a year's first months too.  *)
FullDateEarly(fall) == IF fall < 100000 THEN fall + 20000000 ELSE fall
FullDate(fall) == IF fall < 1000000 THEN fall + 20000000 ELSE fall

tm(fall) ==
  [tm_year |-> fall \div 10000 - 1900, tm_mon |-> ((fall \div 100) % 100) - 1,
   tm_mday |-> fall % 100]

(* Days since 1 March of year 0, for years that begin in March. *)
mktime(t) ==
  LET year  == t.tm_year + 1900 - (IF t.tm_mon < 2 THEN 1 ELSE 0)
      month == (t.tm_mon + 10) % 12
  IN 365 * year + year \div 4 - year \div 100 + year \div 400
       + (153 * month + 2) \div 5 + t.tm_mday - 1

wa_datediff(from, to) == mktime(tm(FullDate(from))) - mktime(tm(FullDate(to)))

-----------------------------------------------------------------------------
(* The calendar, day by day. *)
Leap(year) == year % 4 = 0 /\ (year % 100 # 0 \/ year % 400 = 0)
DaysOf(year, month) ==
  CASE month = 2 -> IF Leap(year) THEN 29 ELSE 28
    [] month \in {4, 6, 9, 11} -> 30
    [] OTHER -> 31
Tomorrow(d) ==
  IF d.day < DaysOf(d.year, d.month) THEN [d EXCEPT !.day = @ + 1]
  ELSE IF d.month < 12 THEN [d EXCEPT !.month = @ + 1, !.day = 1]
       ELSE [year |-> d.year + 1, month |-> 1, day |-> 1]

IsDate(d) ==
  /\ d \in [year : Nat, month : 1 .. 12, day : 1 .. 31]
  /\ d.day <= DaysOf(d.year, d.month)

ASSUME CalendarAssumption ==
  FirstDays # {} /\ (\A d \in FirstDays : IsDate(d)) /\ LastDay \in Nat

DateStart == first \in FirstDays /\ today = first /\ days = 0

NextDay ==
  /\ days < LastDay
  /\ today' = Tomorrow(today) /\ days' = days + 1
  /\ UNCHANGED first

DateSpec == DateStart /\ [][NextDay]_datevars

(* How a caller may write a date: eight digits, or six in this century;    *)
(* before the year 100 a number of eight digits has no more than six.      *)
Written(d) ==
  LET short == 10000 * (d.year % 100) + 100 * d.month + d.day
      long  == 10000 * d.year + 100 * d.month + d.day
  IN (IF d.year \in 100 .. 9999 THEN {long} ELSE {})
       \union IF d.year \in 2000 .. 2099 THEN {short} ELSE {}

(* Two dates, written either way, differ by the days that lie between      *)
(* them, over the ends of months, years, centuries and in leap years.      *)
DatesSubtract ==
  \A l \in Written(today), e \in Written(first) :
    wa_datediff(l, e) = days /\ wa_datediff(e, l) = -days
=============================================================================
