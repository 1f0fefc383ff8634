-------------------------- MODULE StandaloneProofs --------------------------
(***************************************************************************)
(* Theorems about the modules that stand alone, for any value of their     *)
(* constants.                                                              *)
(*                                                                         *)
(* CivilDate.  fmt_days counts years that begin in March, so that the leap *)
(* day is the last of its year, and eras of 400 of them.  The proof shows  *)
(* that it finds the year a day of the era is in, that its months follow   *)
(* each other as the calendar's do, and that the ends of years and eras    *)
(* meet.                                                                   *)
(*                                                                         *)
(* SeasonBounds.  ShowInv is what a show may be.  News of a show changes   *)
(* neither how its seasons are numbered nor, by that, which one is found   *)
(* first, and makes no count smaller, so that an Ok stays one (OkStaysOk). *)
(*                                                                         *)
(* Relevance.  A ranked list is described by the places its hits come      *)
(* from: each place once, each hit above the next (Ranking).  Inserting a  *)
(* hit behind its equals keeps the description, as its place is the last.  *)
(*                                                                         *)
(* IndexerRegistry.  That two live buckets of one indexer are of different *)
(* configurations is not inductive: a search makes a bucket by looking at  *)
(* the map alone, while other searches hold buckets the map no longer has. *)
(* What is needed is that those are all of earlier configurations          *)
(* (Outlived).                                                             *)
(*                                                                         *)
(* Each is proved of the module's own specification; EachAlone carries it  *)
(* to the four side by side.                                               *)
(***************************************************************************)
EXTENDS Standalone, ListLemmas, FiniteSetTheorems, TLAPS

-----------------------------------------------------------------------------
(* Calendar: the code's years                                              *)

\* The first day of year y of an era, and the number of days of that year, whose
\* February belongs to the civil year y + 1.
YearStart(y) == 365 * y + y \div 4 - y \div 100
EndsLeap(y) == (y + 1) % 4 = 0 /\ ((y + 1) % 100 # 0 \/ y = 399)
Length(y) == IF EndsLeap(y) THEN 366 ELSE 365

\* The month of day doy of a year, March being 0, the days before it in that month
\* and the date it has.
MonthOf(doy) == (5 * doy + 2) \div 153
DayOf(doy) == doy - (153 * MonthOf(doy) + 2) \div 5 + 1
Civil(e, y, doy) ==
    LET m == IF MonthOf(doy) < 10 THEN MonthOf(doy) + 3 ELSE MonthOf(doy) - 9
    IN  [year |-> y + e * 400 + IF m <= 2 THEN 1 ELSE 0, month |-> m, day |-> DayOf(doy)]

-----------------------------------------------------------------------------
(* Division                                                                *)

\* A quotient as a number of its own: with these two bounds in the place of \div
\* the provers are left with linear arithmetic.
LEMMA Quotient ==
    ASSUME NEW a \in Int, NEW d \in Nat \ {0}
    PROVE  \E q \in Int : q = a \div d /\ d * q <= a /\ a < d * q + d
<1>1. a \div d \in Int /\ d * (a \div d) <= a /\ a < d * (a \div d) + d
  BY Z3
<1>2. QED
  BY <1>1

\* There is no other number within them.
LEMMA QuotientUnique ==
    ASSUME NEW a \in Int, NEW d \in Nat \ {0}, NEW q \in Int,
           d * q <= a, a < d * q + d
    PROVE  a \div d = q
BY Z3

LEMMA Remainder ==
    ASSUME NEW a \in Int, NEW d \in Nat \ {0}
    PROVE  a % d = a - d * (a \div d)
BY Z3

-----------------------------------------------------------------------------
(* Years                                                                   *)

\* Whether a year ends with a leap day, without a remainder.
LEMMA LengthIs ==
    ASSUME NEW y \in Int, NEW z4 \in Int, NEW z100 \in Int,
           z4 = (y + 1) \div 4, z100 = (y + 1) \div 100
    PROVE  Length(y) = IF y + 1 = 4 * z4 /\ (y + 1 # 100 * z100 \/ y = 399) THEN 366 ELSE 365
<1>1. (y + 1) % 4 = y + 1 - 4 * z4 /\ (y + 1) % 100 = y + 1 - 100 * z100
  BY Remainder
<1>2. QED
  BY <1>1 DEF Length, EndsLeap

\* The year the code finds is one of the era, and the day is in it.
LEMMA YearOfEraFits ==
    ASSUME NEW doe \in Int, 0 <= doe, doe <= 146096
    PROVE  \E y \in Int :
              /\ y = YearOfEra(doe) /\ 0 <= y /\ y <= 399
              /\ YearStart(y) <= doe /\ doe < YearStart(y) + Length(y)
<1>1. 0 <= doe /\ doe <= 146096
  BY SMT
<1>2. PICK a \in Int : a = doe \div 1460 /\ 1460 * a <= doe /\ doe < 1460 * a + 1460
  BY <1>1, Quotient, SMT
<1>3. PICK b \in Int : b = doe \div 36524 /\ 36524 * b <= doe /\ doe < 36524 * b + 36524
  BY <1>1, Quotient, SMT
<1>4. PICK c \in Int : c = doe \div 146096 /\ 146096 * c <= doe /\ doe < 146096 * c + 146096
  BY <1>1, Quotient, SMT
<1>5. PICK y \in Int : /\ y = (doe - a + b - c) \div 365
                       /\ 365 * y <= doe - a + b - c /\ doe - a + b - c < 365 * y + 365
  <2>1. doe - a + b - c \in Int
    BY <1>1, SMT
  <2>2. QED
    BY <2>1, Quotient, SMT
<1>6. PICK y4 \in Int : y4 = y \div 4 /\ 4 * y4 <= y /\ y < 4 * y4 + 4
  BY Quotient, SMT
<1>7. PICK y100 \in Int : y100 = y \div 100 /\ 100 * y100 <= y /\ y < 100 * y100 + 100
  BY Quotient, SMT
<1>8. PICK z4 \in Int : z4 = (y + 1) \div 4 /\ 4 * z4 <= y + 1 /\ y + 1 < 4 * z4 + 4
  BY Quotient, SMT
<1>9. PICK z100 \in Int :
         z100 = (y + 1) \div 100 /\ 100 * z100 <= y + 1 /\ y + 1 < 100 * z100 + 100
  BY Quotient, SMT
<1>10. YearOfEra(doe) = y
  BY <1>2, <1>3, <1>4, <1>5, SMT DEF YearOfEra
<1>11. YearStart(y) = 365 * y + y4 - y100
  BY <1>6, <1>7, SMT DEF YearStart
<1>12. Length(y) = IF y + 1 = 4 * z4 /\ (y + 1 # 100 * z100 \/ y = 399) THEN 366 ELSE 365
  BY <1>8, <1>9, LengthIs, SMT
<1>13. /\ 1460 * a <= doe /\ doe < 1460 * a + 1460
       /\ 36524 * b <= doe /\ doe < 36524 * b + 36524
       /\ 146096 * c <= doe /\ doe < 146096 * c + 146096
       /\ 365 * y <= doe - a + b - c /\ doe - a + b - c < 365 * y + 365
  BY <1>2, <1>3, <1>4, <1>5, SMT
<1>14. /\ 4 * y4 <= y /\ y < 4 * y4 + 4
       /\ 100 * y100 <= y /\ y < 100 * y100 + 100
       /\ 4 * z4 <= y + 1 /\ y + 1 < 4 * z4 + 4
       /\ 100 * z100 <= y + 1 /\ y + 1 < 100 * z100 + 100
  BY <1>6, <1>7, <1>8, <1>9, SMT
<1>15. 0 <= y /\ y <= 399
  BY <1>1, <1>13, Z3
<1>16. 365 * y + y4 - y100 <= doe
  BY <1>1, <1>13, <1>14, <1>15, Z3
<1>17. doe - (365 * y + y4 - y100) <= Length(y) - 1
  BY <1>1, <1>12, <1>13, <1>14, <1>15, Z3
<1>18. QED
  BY <1>1, <1>10, <1>11, <1>12, <1>15, <1>16, <1>17, Z3

\* The years of an era follow each other without a gap and fill it.
LEMMA YearsMeet ==
    ASSUME NEW y \in Int, 0 <= y, y <= 399
    PROVE  /\ YearStart(y) \in Int /\ YearStart(0) = 0
           /\ YearStart(y) + Length(y) = IF y = 399 THEN 146097 ELSE YearStart(y + 1)
<1>1. PICK y4 \in Int : y4 = y \div 4 /\ 4 * y4 <= y /\ y < 4 * y4 + 4
  BY Quotient, SMT
<1>2. PICK y100 \in Int : y100 = y \div 100 /\ 100 * y100 <= y /\ y < 100 * y100 + 100
  BY Quotient, SMT
<1>3. PICK z4 \in Int : z4 = (y + 1) \div 4 /\ 4 * z4 <= y + 1 /\ y + 1 < 4 * z4 + 4
  BY Quotient, SMT
<1>4. PICK z100 \in Int :
         z100 = (y + 1) \div 100 /\ 100 * z100 <= y + 1 /\ y + 1 < 100 * z100 + 100
  BY Quotient, SMT
<1>5. YearStart(y) = 365 * y + y4 - y100 /\ YearStart(y + 1) = 365 * (y + 1) + z4 - z100
  BY <1>1, <1>2, <1>3, <1>4, SMT DEF YearStart
<1>6. Length(y) = IF y + 1 = 4 * z4 /\ (y + 1 # 100 * z100 \/ y = 399) THEN 366 ELSE 365
  BY <1>3, <1>4, LengthIs, SMT
<1>7. YearStart(0) = 0
  BY SMT DEF YearStart
<1>8. /\ 4 * y4 <= y /\ y < 4 * y4 + 4
      /\ 100 * y100 <= y /\ y < 100 * y100 + 100
      /\ 4 * z4 <= y + 1 /\ y + 1 < 4 * z4 + 4
      /\ 100 * z100 <= y + 1 /\ y + 1 < 100 * z100 + 100
  BY <1>1, <1>2, <1>3, <1>4, SMT
<1>9. QED
  BY <1>5, <1>6, <1>7, <1>8, Z3

\* A later year begins later.
LEMMA YearsAscend ==
    ASSUME NEW y \in Int, NEW z \in Int, y <= z
    PROVE  YearStart(y) <= YearStart(z) /\ YearStart(z) \in Int
<1>1. PICK y4 \in Int : y4 = y \div 4 /\ 4 * y4 <= y /\ y < 4 * y4 + 4
  BY Quotient, SMT
<1>2. PICK y100 \in Int : y100 = y \div 100 /\ 100 * y100 <= y /\ y < 100 * y100 + 100
  BY Quotient, SMT
<1>3. PICK z4 \in Int : z4 = z \div 4 /\ 4 * z4 <= z /\ z < 4 * z4 + 4
  BY Quotient, SMT
<1>4. PICK z100 \in Int : z100 = z \div 100 /\ 100 * z100 <= z /\ z < 100 * z100 + 100
  BY Quotient, SMT
<1>5. YearStart(y) = 365 * y + y4 - y100 /\ YearStart(z) = 365 * z + z4 - z100
  BY <1>1, <1>2, <1>3, <1>4, SMT DEF YearStart
<1>6. /\ 4 * y4 <= y /\ y < 4 * y4 + 4 /\ 100 * y100 <= y /\ y < 100 * y100 + 100
      /\ 4 * z4 <= z /\ z < 4 * z4 + 4 /\ 100 * z100 <= z /\ z < 100 * z100 + 100
  BY <1>1, <1>2, <1>3, <1>4, SMT
<1>7. QED
  BY <1>5, <1>6, Z3

\* The year a day of the era is in is the one the code finds.
LEMMA YearOfEraUnique ==
    ASSUME NEW y \in Int, 0 <= y, y <= 399,
           NEW doe \in Int, 0 <= doe, doe <= 146096,
           YearStart(y) <= doe, doe < YearStart(y) + Length(y)
    PROVE  YearOfEra(doe) = y
<1>1. PICK x \in Int : /\ x = YearOfEra(doe) /\ 0 <= x /\ x <= 399
                       /\ YearStart(x) <= doe /\ doe < YearStart(x) + Length(x)
  BY YearOfEraFits, SMT
<1>2. /\ YearStart(x) \in Int /\ YearStart(y) \in Int
      /\ Length(x) \in Int /\ Length(y) \in Int
  BY <1>1, YearsMeet, SMT DEF Length
<1>3. ASSUME x < y PROVE FALSE
  <2>1. YearStart(x) + Length(x) = YearStart(x + 1)
    BY <1>1, <1>3, YearsMeet, SMT
  <2>2. YearStart(x + 1) <= YearStart(y)
    BY <1>3, YearsAscend, SMT
  <2>3. QED
    BY <1>1, <1>2, <1>3, <2>1, <2>2, YearsAscend, SMT
<1>4. ASSUME y < x PROVE FALSE
  <2>1. YearStart(y) + Length(y) = YearStart(y + 1)
    BY <1>1, <1>4, YearsMeet, SMT
  <2>2. YearStart(y + 1) <= YearStart(x)
    BY <1>4, YearsAscend, SMT
  <2>3. QED
    BY <1>1, <1>2, <1>4, <2>1, <2>2, YearsAscend, SMT
<1>5. QED
  BY <1>1, <1>3, <1>4, SMT

\* The year that ends with a leap day is the one before a leap year.
LEMMA LeapYears ==
    ASSUME NEW e \in Int, NEW y \in Int, 0 <= y, y <= 399
    PROVE  IsLeap(y + e * 400 + 1) <=> EndsLeap(y)
BY Z3 DEF IsLeap, EndsLeap

-----------------------------------------------------------------------------
(* Months                                                                  *)

LastOf(mp) == IF mp = 11 THEN 29 ELSE IF mp \in {1, 3, 6, 8} THEN 30 ELSE 31

\* A day is in one of twelve months and on a date that month has.
LEMMA MonthsFit ==
    ASSUME NEW doy \in Int, 0 <= doy, doy <= 365
    PROVE  /\ MonthOf(doy) \in Int /\ 0 <= MonthOf(doy) /\ MonthOf(doy) <= 11
           /\ DayOf(doy) \in Int /\ 1 <= DayOf(doy) /\ DayOf(doy) <= LastOf(MonthOf(doy))
<1>1. PICK m \in Int : /\ m = (5 * doy + 2) \div 153
                       /\ 153 * m <= 5 * doy + 2 /\ 5 * doy + 2 < 153 * m + 153
  BY Quotient, SMT
<1>2. PICK s \in Int : /\ s = (153 * m + 2) \div 5
                       /\ 5 * s <= 153 * m + 2 /\ 153 * m + 2 < 5 * s + 5
  BY <1>1, Quotient, SMT
<1>3. MonthOf(doy) = m /\ DayOf(doy) = doy - s + 1
  BY <1>1, <1>2, SMT DEF MonthOf, DayOf
<1>4. /\ 153 * m <= 5 * doy + 2 /\ 5 * doy + 2 < 153 * m + 153
      /\ 5 * s <= 153 * m + 2 /\ 153 * m + 2 < 5 * s + 5
  BY <1>1, <1>2, SMT
<1>5. 0 <= m /\ m <= 11
  BY <1>4, Z3
<1>6. 1 <= doy - s + 1 /\ doy - s + 1 <= LastOf(m)
  BY <1>4, <1>5, Z3 DEF LastOf
<1>7. QED
  BY <1>3, <1>5, <1>6, SMT

\* The next day is the next of the month, or the first of the month after it.
LEMMA MonthsStep ==
    ASSUME NEW doy \in Int, 0 <= doy, doy <= 364
    PROVE  /\ DayOf(doy) < LastOf(MonthOf(doy)) =>
                 MonthOf(doy + 1) = MonthOf(doy) /\ DayOf(doy + 1) = DayOf(doy) + 1
           /\ DayOf(doy) = LastOf(MonthOf(doy)) =>
                 MonthOf(doy + 1) = MonthOf(doy) + 1 /\ DayOf(doy + 1) = 1
<1>1. PICK m \in Int : /\ m = (5 * doy + 2) \div 153
                       /\ 153 * m <= 5 * doy + 2 /\ 5 * doy + 2 < 153 * m + 153
  BY Quotient, SMT
<1>2. PICK s \in Int : /\ s = (153 * m + 2) \div 5
                       /\ 5 * s <= 153 * m + 2 /\ 153 * m + 2 < 5 * s + 5
  BY <1>1, Quotient, SMT
<1>3. PICK n \in Int : /\ n = (5 * (doy + 1) + 2) \div 153
                       /\ 153 * n <= 5 * (doy + 1) + 2 /\ 5 * (doy + 1) + 2 < 153 * n + 153
  BY Quotient, SMT
<1>4. PICK t \in Int : /\ t = (153 * n + 2) \div 5
                       /\ 5 * t <= 153 * n + 2 /\ 153 * n + 2 < 5 * t + 5
  BY <1>3, Quotient, SMT
<1>5. /\ MonthOf(doy) = m /\ DayOf(doy) = doy - s + 1
      /\ MonthOf(doy + 1) = n /\ DayOf(doy + 1) = doy + 1 - t + 1
  BY <1>1, <1>2, <1>3, <1>4, SMT DEF MonthOf, DayOf
<1>6. /\ 153 * m <= 5 * doy + 2 /\ 5 * doy + 2 < 153 * m + 153
      /\ 5 * s <= 153 * m + 2 /\ 153 * m + 2 < 5 * s + 5
      /\ 153 * n <= 5 * (doy + 1) + 2 /\ 5 * (doy + 1) + 2 < 153 * n + 153
      /\ 5 * t <= 153 * n + 2 /\ 153 * n + 2 < 5 * t + 5
  BY <1>1, <1>2, <1>3, <1>4, SMT
<1>7. 0 <= m /\ m <= 11
  BY <1>6, Z3
<1>8. doy - s + 1 < LastOf(m) => n = m /\ t = s
  BY <1>6, <1>7, Z3 DEF LastOf
<1>9. doy - s + 1 = LastOf(m) => n = m + 1 /\ t = doy + 1
  BY <1>6, <1>7, Z3 DEF LastOf
<1>10. QED
  BY <1>5, <1>8, <1>9, SMT

\* The months begin and end where the year does.
LEMMA MonthsEnd ==
    ASSUME NEW doy \in Int, 0 <= doy, doy <= 365
    PROVE  /\ MonthOf(0) = 0 /\ DayOf(0) = 1
           /\ doy = 364 <=> MonthOf(doy) = 11 /\ DayOf(doy) = 28
           /\ doy = 365 <=> MonthOf(doy) = 11 /\ DayOf(doy) = 29
BY Z3 DEF MonthOf, DayOf

-----------------------------------------------------------------------------
(* Dates                                                                   *)

\* A count of days is an era and a day of it.
LEMMA EraIs ==
    ASSUME NEW z \in Int
    PROVE  /\ Era(z) \in Int /\ DayOfEra(z) \in Int
           /\ z = 146097 * Era(z) + DayOfEra(z)
           /\ 0 <= DayOfEra(z) /\ DayOfEra(z) <= 146096
<1>1. PICK e \in Int : e = z \div 146097 /\ 146097 * e <= z /\ z < 146097 * e + 146097
  BY Quotient, SMT
<1>2. PICK doe \in Int : doe = z - 146097 * e /\ 0 <= doe /\ doe <= 146096
  BY <1>1, SMT
<1>3. e = Era(z) /\ doe = DayOfEra(z)
  BY <1>1, <1>2, Remainder, SMT DEF Era, DayOfEra
<1>4. QED
  BY <1>2, <1>3, SMT

\* Every year but the last begins before the last one, so that its days are not the
\* last of the era.
LEMMA LastDayOfEra ==
    ASSUME NEW y \in Int, 0 <= y, y <= 399
    PROVE  YearStart(y) + Length(y) <= 146097 /\ YearStart(y) <= 145731
<1>1. YearStart(y) <= YearStart(399) /\ YearStart(399) = 145731
  BY YearsAscend, SMT DEF YearStart
<1>2. QED
  BY <1>1, YearsMeet, YearsAscend, SMT DEF Length

\* fmt_days reads off an era, a year of it and a day of that year.
LEMMA FmtDaysIsCivil ==
    ASSUME NEW d \in Int, NEW e \in Int, NEW doe \in Int, NEW y \in Int,
           e = Era(d + 719468), doe = DayOfEra(d + 719468), y = YearOfEra(doe)
    PROVE  FmtDays(d) = Civil(e, y, doe - YearStart(y))
BY SMT DEF FmtDays, Civil, YearStart, MonthOf, DayOf

\* How long the calendar says a month of the code's year is.
LEMMA DaysInMonth ==
    ASSUME NEW e \in Int, NEW y \in Int, 0 <= y, y <= 399,
           NEW mp \in Int, 0 <= mp, mp <= 11
    PROVE  /\ mp < 10 => DaysIn(y + e * 400, mp + 3) = LastOf(mp)
           /\ mp = 10 => DaysIn(y + e * 400 + 1, 1) = LastOf(mp)
           /\ mp = 11 => DaysIn(y + e * 400 + 1, 2) = Length(y) - 337
<1>1. IsLeap(y + e * 400 + 1) <=> EndsLeap(y)
  BY LeapYears, SMT
<1>2. mp = 11 => DaysIn(y + e * 400 + 1, 2) = Length(y) - 337
  BY <1>1, SMT DEF DaysIn, Length
<1>3. QED
  BY <1>2, SMT DEF DaysIn, LastOf

\* The calendar's step, field by field.
LEMMA DayAfterIs ==
    ASSUME NEW Y \in Int, NEW M \in Int, NEW D \in Int
    PROVE  DayAfter([year |-> Y, month |-> M, day |-> D]) =
               IF D < DaysIn(Y, M) THEN [year |-> Y, month |-> M, day |-> D + 1]
               ELSE IF M < 12 THEN [year |-> Y, month |-> M + 1, day |-> 1]
               ELSE [year |-> Y + 1, month |-> 1, day |-> 1]
<1> DEFINE d == [year |-> Y, month |-> M, day |-> D]
<1>1. d.year = Y /\ d.month = M /\ d.day = D
  BY SMT
<1>2. [d EXCEPT !.day = d.day + 1] = [year |-> Y, month |-> M, day |-> D + 1]
  BY SMT
<1> HIDE DEF d
<1>3. DayAfter(d) = IF D < DaysIn(Y, M) THEN [d EXCEPT !.day = d.day + 1]
                    ELSE IF M < 12 THEN [year |-> Y, month |-> M + 1, day |-> 1]
                    ELSE [year |-> Y + 1, month |-> 1, day |-> 1]
  BY <1>1, SMT DEF DayAfter
<1>4. QED
  BY <1>2, <1>3, SMT DEF d

\* Within a year the calendar moves on as the code's count does.
LEMMA CivilStep ==
    ASSUME NEW e \in Int, NEW y \in Int, 0 <= y, y <= 399,
           NEW doy \in Int, 0 <= doy, doy + 1 < Length(y)
    PROVE  DayAfter(Civil(e, y, doy)) = Civil(e, y, doy + 1)
<1> DEFINE mp == MonthOf(doy)
           dd == DayOf(doy)
<1>1. doy <= 364 /\ (doy = 364 => Length(y) = 366)
  BY SMT DEF Length
<1>2. mp \in Int /\ 0 <= mp /\ mp <= 11 /\ dd \in Int /\ 1 <= dd /\ dd <= LastOf(mp)
  BY <1>1, MonthsFit, SMT
<1>3. /\ mp = 11 /\ dd = 28 => doy = 364
      /\ mp = 11 => dd # 29
  BY <1>1, MonthsEnd, SMT
<1>4. /\ dd < LastOf(mp) => MonthOf(doy + 1) = mp /\ DayOf(doy + 1) = dd + 1
      /\ dd = LastOf(mp) => MonthOf(doy + 1) = mp + 1 /\ DayOf(doy + 1) = 1
  BY <1>1, MonthsStep, SMT
<1>5. /\ mp < 10 => DaysIn(y + e * 400, mp + 3) = LastOf(mp)
      /\ mp = 10 => DaysIn(y + e * 400 + 1, 1) = LastOf(mp)
      /\ mp = 11 => DaysIn(y + e * 400 + 1, 2) = Length(y) - 337
  BY <1>2, DaysInMonth, SMT
<1> HIDE DEF mp, dd
<1>6. CASE mp < 10
  <2>1. Civil(e, y, doy) = [year |-> y + e * 400, month |-> mp + 3, day |-> dd]
    BY <1>2, <1>6, SMT DEF Civil, mp, dd
  <2>2. DayAfter(Civil(e, y, doy)) =
            IF dd < LastOf(mp) THEN [year |-> y + e * 400, month |-> mp + 3, day |-> dd + 1]
            ELSE IF mp + 3 < 12 THEN [year |-> y + e * 400, month |-> mp + 4, day |-> 1]
            ELSE [year |-> y + e * 400 + 1, month |-> 1, day |-> 1]
    BY <1>2, <1>5, <1>6, <2>1, DayAfterIs, SMT
  <2>3. CASE dd < LastOf(mp)
    BY <1>2, <1>4, <1>6, <2>2, <2>3, SMT DEF Civil
  <2>4. CASE dd = LastOf(mp)
    BY <1>2, <1>4, <1>6, <2>2, <2>4, SMT DEF Civil
  <2>5. QED
    BY <1>2, <2>3, <2>4, SMT DEF LastOf
<1>7. PICK next \in Int : next = y + e * 400 + 1
  BY SMT
<1>8. CASE mp = 10
  <2>1. PICK m \in Int : m = 1
    BY SMT
  <2>2. Civil(e, y, doy) = [year |-> next, month |-> m, day |-> dd]
    BY <1>2, <1>7, <1>8, <2>1, SMT DEF Civil, mp, dd
  <2>3. DaysIn(next, m) = LastOf(mp)
    BY <1>5, <1>7, <1>8, <2>1, SMT
  <2>4. DayAfter(Civil(e, y, doy)) =
            IF dd < LastOf(mp) THEN [year |-> next, month |-> m, day |-> dd + 1]
            ELSE IF m < 12 THEN [year |-> next, month |-> m + 1, day |-> 1]
            ELSE [year |-> next + 1, month |-> 1, day |-> 1]
    BY <1>2, <2>2, <2>3, DayAfterIs, SMT
  <2>5. CASE dd < LastOf(mp)
    BY <1>2, <1>4, <1>7, <1>8, <2>1, <2>4, <2>5, SMT DEF Civil
  <2>6. CASE dd = LastOf(mp)
    BY <1>2, <1>4, <1>7, <1>8, <2>1, <2>4, <2>6, SMT DEF Civil
  <2>7. QED
    BY <1>2, <2>5, <2>6, SMT DEF LastOf
<1>9. CASE mp = 11
  <2>1. PICK m \in Int : m = 2
    BY SMT
  <2>2. Civil(e, y, doy) = [year |-> next, month |-> m, day |-> dd]
    BY <1>2, <1>7, <1>9, <2>1, SMT DEF Civil, mp, dd
  <2>3. dd < LastOf(mp) /\ dd < Length(y) - 337
    BY <1>1, <1>2, <1>3, <1>9, SMT DEF LastOf, Length
  <2>4. dd < DaysIn(next, m)
    BY <1>5, <1>7, <1>9, <2>1, <2>3, SMT
  <2>5. DayAfter(Civil(e, y, doy)) =
            IF dd < DaysIn(next, m) THEN [year |-> next, month |-> m, day |-> dd + 1]
            ELSE IF m < 12 THEN [year |-> next, month |-> m + 1, day |-> 1]
            ELSE [year |-> next + 1, month |-> 1, day |-> 1]
    BY <1>2, <2>2, DayAfterIs, SMT
  <2>6. QED
    BY <1>2, <1>4, <1>7, <1>9, <2>1, <2>3, <2>4, <2>5, SMT DEF Civil
<1>10. QED
  BY <1>2, <1>6, <1>8, <1>9, SMT

\* The day after the last of a year is the first of the next, which at the end of an
\* era is the first of the next era.
LEMMA CivilTurn ==
    ASSUME NEW e \in Int, NEW y \in Int, 0 <= y, y <= 399,
           NEW doy \in Int, doy + 1 = Length(y)
    PROVE  DayAfter(Civil(e, y, doy)) =
               IF y = 399 THEN Civil(e + 1, 0, 0) ELSE Civil(e, y + 1, 0)
<1>1. doy = Length(y) - 1 /\ doy \in {364, 365}
  BY SMT DEF Length
<1>2. MonthOf(doy) = 11 /\ DayOf(doy) = Length(y) - 337 /\ DayOf(doy) \in Int
  BY <1>1, MonthsEnd, SMT DEF Length
<1>3. PICK next \in Int : next = y + e * 400 + 1
  BY SMT
<1>4. PICK m \in Int : m = 2
  BY SMT
<1>5. Civil(e, y, doy) = [year |-> next, month |-> m, day |-> DayOf(doy)]
  BY <1>2, <1>3, <1>4, SMT DEF Civil
<1>6. DayAfter(Civil(e, y, doy)) = [year |-> next, month |-> 3, day |-> 1]
  <2>1. DaysIn(next, m) = Length(y) - 337
    BY <1>3, <1>4, DaysInMonth, SMT
  <2>2. ~(DayOf(doy) < DaysIn(next, m)) /\ m < 12 /\ m + 1 = 3
    BY <1>2, <1>4, <2>1, SMT
  <2>3. DayAfter(Civil(e, y, doy)) =
            IF DayOf(doy) < DaysIn(next, m)
            THEN [year |-> next, month |-> m, day |-> DayOf(doy) + 1]
            ELSE IF m < 12 THEN [year |-> next, month |-> m + 1, day |-> 1]
            ELSE [year |-> next + 1, month |-> 1, day |-> 1]
    BY <1>2, <1>5, DayAfterIs, SMT
  <2>4. QED
    BY <2>2, <2>3, SMT
<1>7. MonthOf(0) = 0 /\ DayOf(0) = 1
  BY MonthsEnd, SMT
<1>8. Civil(e + 1, 0, 0) = [year |-> (e + 1) * 400, month |-> 3, day |-> 1]
  BY <1>7, SMT DEF Civil
<1>9. Civil(e, y + 1, 0) = [year |-> y + 1 + e * 400, month |-> 3, day |-> 1]
  BY <1>7, SMT DEF Civil
<1>10. QED
  BY <1>3, <1>6, <1>8, <1>9, SMT

\* What fmt_days computes moves on as the calendar does.
LEMMA NextDay ==
    ASSUME NEW d \in Nat
    PROVE  FmtDays(d + 1) = DayAfter(FmtDays(d))
<1>1. PICK z \in Int : z = d + 719468
  BY SMT
<1>2. PICK dn \in Int : dn = d + 1
  BY SMT
<1>3. PICK zn \in Int : zn = z + 1 /\ zn = dn + 719468
  BY <1>1, <1>2, SMT
<1>4. PICK e \in Int : e = Era(z)
  BY EraIs, SMT
<1>5. PICK doe \in Int : /\ doe = DayOfEra(z) /\ 0 <= doe /\ doe <= 146096
                         /\ zn = 146097 * e + doe + 1
  BY <1>3, <1>4, EraIs, SMT
<1>6. /\ Era(zn) \in Int /\ DayOfEra(zn) \in Int
      /\ zn = 146097 * Era(zn) + DayOfEra(zn)
      /\ 0 <= DayOfEra(zn) /\ DayOfEra(zn) <= 146096
  BY EraIs, SMT
<1>7. PICK y \in Int : /\ y = YearOfEra(doe) /\ 0 <= y /\ y <= 399
                       /\ YearStart(y) <= doe /\ doe < YearStart(y) + Length(y)
  BY <1>5, YearOfEraFits, SMT
<1>8. /\ YearStart(y) \in Int /\ YearStart(0) = 0 /\ Length(y) \in Int
      /\ YearStart(y) + Length(y) = IF y = 399 THEN 146097 ELSE YearStart(y + 1)
  BY <1>7, YearsMeet, SMT DEF Length
<1>9. PICK doy \in Int : doy = doe - YearStart(y) /\ 0 <= doy /\ doy < Length(y)
  BY <1>7, <1>8, SMT
<1>10. FmtDays(d) = Civil(e, y, doy)
  BY <1>1, <1>4, <1>5, <1>7, <1>9, FmtDaysIsCivil, SMT
<1>11. CASE doy + 1 < Length(y)
  <2>1. PICK n \in Int : /\ n = doe + 1 /\ n <= 146096 /\ 0 <= n /\ zn = 146097 * e + n
                         /\ YearStart(y) <= n /\ n < YearStart(y) + Length(y)
    BY <1>5, <1>7, <1>8, <1>9, <1>11, LastDayOfEra, SMT
  <2>2. e = Era(zn) /\ n = DayOfEra(zn)
    BY <1>6, <2>1, SMT
  <2>3. y = YearOfEra(n)
    BY <1>7, <2>1, YearOfEraUnique, SMT
  <2>4. FmtDays(dn) = Civil(e, y, n - YearStart(y))
    BY <1>3, <2>2, <2>3, FmtDaysIsCivil, SMT
  <2>5. n - YearStart(y) = doy + 1
    BY <1>8, <1>9, <2>1, SMT
  <2>6. QED
    BY <1>2, <1>7, <1>9, <1>10, <1>11, <2>4, <2>5, CivilStep, SMT
<1>12. CASE doy + 1 = Length(y) /\ y < 399
  <2>1. PICK yn \in Int : /\ yn = y + 1 /\ 0 <= yn /\ yn <= 399
                          /\ YearStart(yn) = doe + 1
    BY <1>7, <1>8, <1>9, <1>12, SMT
  <2>2. PICK n \in Int : /\ n = doe + 1 /\ n <= 146096 /\ 0 <= n /\ zn = 146097 * e + n
                         /\ YearStart(yn) <= n /\ n < YearStart(yn) + Length(yn)
    BY <1>5, <2>1, LastDayOfEra, SMT DEF Length
  <2>3. e = Era(zn) /\ n = DayOfEra(zn)
    BY <1>6, <2>2, SMT
  <2>4. yn = YearOfEra(n)
    BY <2>1, <2>2, YearOfEraUnique, SMT
  <2>5. FmtDays(dn) = Civil(e, yn, n - YearStart(yn))
    BY <1>3, <2>3, <2>4, FmtDaysIsCivil, SMT
  <2>6. n - YearStart(yn) = 0
    BY <2>1, <2>2, SMT
  <2>7. DayAfter(Civil(e, y, doy)) = Civil(e, yn, 0)
    BY <1>7, <1>9, <1>12, <2>1, CivilTurn, SMT
  <2>8. QED
    BY <1>2, <1>10, <2>5, <2>6, <2>7, SMT
<1>13. CASE doy + 1 = Length(y) /\ y = 399
  <2>1. doe = 146096
    BY <1>8, <1>9, <1>13, SMT
  <2>2. PICK en \in Int : en = e + 1 /\ 146097 * en = zn
    BY <1>5, <2>1, SMT
  <2>3. PICK n \in Int : n = 0 /\ 0 <= n /\ n <= 146096 /\ zn = 146097 * en + n
    BY <2>2, SMT
  <2>4. en = Era(zn) /\ n = DayOfEra(zn)
    BY <1>6, <2>2, <2>3, SMT
  <2>5. PICK yn \in Int : /\ yn = 0 /\ 0 <= yn /\ yn <= 399 /\ YearStart(yn) = 0
                          /\ YearStart(yn) <= n /\ n < YearStart(yn) + Length(yn)
    BY <1>8, <2>3, SMT DEF Length
  <2>6. yn = YearOfEra(n)
    BY <2>3, <2>5, YearOfEraUnique, SMT
  <2>7. FmtDays(dn) = Civil(en, yn, n - YearStart(yn))
    BY <1>3, <2>4, <2>6, FmtDaysIsCivil, SMT
  <2>8. n - YearStart(yn) = 0
    BY <2>3, <2>5, SMT
  <2>9. DayAfter(Civil(e, y, doy)) = Civil(en, yn, 0)
    BY <1>7, <1>9, <1>13, <2>2, <2>5, CivilTurn, SMT
  <2>10. QED
    BY <1>2, <1>10, <2>7, <2>8, <2>9, SMT
<1>14. QED
  BY <1>7, <1>8, <1>9, <1>11, <1>12, <1>13, SMT

-----------------------------------------------------------------------------
(* The dates fmt_days computes                                             *)

DateInv == day \in Nat /\ FmtDaysIsTheDate

\* On every day from 1970-01-01 on, fmt_days computes the date the calendar shows
\* (discovery.rs: fmt_days).
THEOREM FmtDaysCorrect == CalendarSpec => []FmtDaysIsTheDate
<1>1. CalendarInit => DateInv
  <2>1. FmtDays(0) = [year |-> 1970, month |-> 1, day |-> 1]
    BY SMT DEF FmtDays, DayOfEra, Era, YearOfEra
  <2>2. QED
    BY <2>1, SMT DEF CalendarInit, DateInv, FmtDaysIsTheDate
<1>2. DateInv /\ [Midnight]_calendar => DateInv'
  <2> SUFFICES ASSUME DateInv, [Midnight]_calendar
               PROVE  DateInv'
    BY SMT
  <2>1. CASE Midnight
    <3>1. day \in Nat /\ date = FmtDays(day) /\ day' = day + 1 /\ date' = DayAfter(date)
      BY <2>1, SMT DEF DateInv, FmtDaysIsTheDate, Midnight
    <3>2. FmtDays(day + 1) = DayAfter(FmtDays(day))
      BY <3>1, NextDay, SMT
    <3>3. QED
      BY <3>1, <3>2, SMT DEF DateInv, FmtDaysIsTheDate
  <2>2. CASE UNCHANGED calendar
    BY <2>2, SMT DEF calendar, DateInv, FmtDaysIsTheDate
  <2>3. QED
    BY <2>1, <2>2, SMT
<1>3. DateInv => FmtDaysIsTheDate
  BY SMT DEF DateInv
<1>4. QED
  BY <1>1, <1>2, <1>3, PTL DEF CalendarSpec

-----------------------------------------------------------------------------
(* The registry: what has to hold with it                                  *)


\* A live bucket of the configuration in force is in the map.
Outlived == \A b \in Live : b.since < epoch \/ b \in buckets

RegistryInv ==
    /\ epoch \in Nat
    /\ \A b \in Live : b.since \in Nat /\ b.since <= epoch
    /\ NewSearchesGetTheNewRate
    /\ OneBucketPerEpoch
    /\ Outlived

-----------------------------------------------------------------------------
(* The registry: the inductive invariant                                   *)

LEMMA RegistryInvAtStart == RegistryInit => RegistryInv
<1> SUFFICES ASSUME RegistryInit PROVE RegistryInv
  OBVIOUS
<1>1. Live = {}
  BY DEF RegistryInit, Live
<1>2. QED
  BY <1>1 DEF RegistryInit, RegistryInv, NewSearchesGetTheNewRate, OneBucketPerEpoch, Outlived

\* A step that makes no bucket and leaves the map as it is.
LEMMA NothingNew ==
    ASSUME RegistryInv, UNCHANGED <<buckets, default_rps, epoch>>, Live' \subseteq Live
    PROVE  RegistryInv'
BY DEF RegistryInv, NewSearchesGetTheNewRate, OneBucketPerEpoch, Outlived

\* The bucket a search is given is live, whoever else holds it.
LEMMA Granting ==
    ASSUME NEW s \in Searches, NEW b, held' = [held EXCEPT ![s] = @ \cup b]
    PROVE  UNION {held'[t] : t \in Searches} \subseteq b \cup UNION {held[t] : t \in Searches}
<1>1. ASSUME NEW t \in Searches PROVE held'[t] \subseteq held[t] \cup b
  OBVIOUS
<1>2. ASSUME NEW x \in UNION {held'[t] : t \in Searches}
      PROVE  x \in b \cup UNION {held[t] : t \in Searches}
  <2>1. PICK t \in Searches : x \in held'[t]
    OBVIOUS
  <2>2. QED
    BY <1>1, <2>1
<1>3. QED
  BY <1>2

\* One step keeps the invariant.
LEMMA RegistryInvStep ==
    ASSUME RegistryInv, [RegistryNext]_registry
    PROVE  RegistryInv'
<1>1. ASSUME NEW s \in Searches, Finish(s)
      PROVE  RegistryInv'
  <2>1. \A t \in Searches : held'[t] \subseteq held[t]
    BY <1>1 DEF Finish
  <2>2. Live' \subseteq Live
    BY <1>1, <2>1 DEF Finish, Live
  <2>3. QED
    BY <1>1, <2>2, NothingNew DEF Finish
<1>2. ASSUME NEW s \in Searches, NEW name \in Indexers, ForIndexer(s, name)
      PROVE  RegistryInv'
  <2> DEFINE known == {b \in buckets : b.name = name}
             new == [id |-> made, name |-> name, rate |-> default_rps, since |-> epoch]
  <2>1. CASE known # {}
    <3>1. /\ held' = [held EXCEPT ![s] = @ \cup known]
          /\ UNCHANGED <<buckets, default_rps, epoch>>
      BY <1>2, <2>1 DEF ForIndexer
    <3>2. Live' \subseteq Live
      BY <3>1, Granting DEF Live
    <3>3. QED
      BY <3>1, <3>2, NothingNew
  <2>2. CASE known = {}
    <3>1. /\ held' = [held EXCEPT ![s] = @ \cup {new}]
          /\ buckets' = buckets \cup {new}
          /\ UNCHANGED <<default_rps, epoch>>
      BY <1>2, <2>2 DEF ForIndexer
    <3>2. Live' \subseteq Live \cup {new}
      BY <3>1, Granting DEF Live
    <3>3. new.name = name /\ new.rate = default_rps /\ new.since = epoch
      OBVIOUS
    <3>4. ASSUME NEW b \in Live, b.name = name
          PROVE  b.since < epoch
      BY <2>2, <3>4 DEF RegistryInv, Outlived, Live
    <3> HIDE DEF new
    <3>5. NewSearchesGetTheNewRate'
      BY <3>1, <3>3 DEF RegistryInv, NewSearchesGetTheNewRate
    <3>6. OneBucketPerEpoch'
      BY <3>1, <3>2, <3>3, <3>4 DEF RegistryInv, OneBucketPerEpoch
    <3>7. Outlived'
      BY <3>1, <3>2, <3>3 DEF RegistryInv, Outlived
    <3>8. QED
      BY <3>1, <3>2, <3>3, <3>5, <3>6, <3>7 DEF RegistryInv
  <2>3. QED
    BY <2>1, <2>2
<1>3. ASSUME NEW rps \in Rates, SetDefaultRps(rps)
      PROVE  RegistryInv'
  <2>1. /\ buckets' = {} /\ epoch' = epoch + 1 /\ Live' \subseteq Live
    BY <1>3 DEF SetDefaultRps, Live
  <2>2. QED
    BY <2>1 DEF RegistryInv, NewSearchesGetTheNewRate, OneBucketPerEpoch, Outlived
<1>4. CASE UNCHANGED registry
  <2>1. Live' \subseteq Live
    BY <1>4 DEF registry, Live
  <2>2. QED
    BY <1>4, <2>1, NothingNew DEF registry
<1>5. QED
  BY <1>1, <1>2, <1>3, <1>4 DEF RegistryNext

LEMMA RegistryInvAlways == RegistrySpec => []RegistryInv
BY RegistryInvAtStart, RegistryInvStep, PTL DEF RegistrySpec

-----------------------------------------------------------------------------
(* The registry: the theorems                                              *)

\* Of one indexer there is one bucket for every time the rate was configured,
\* however many searches hold it.
THEOREM BucketsAreShared == RegistrySpec => []OneBucketPerEpoch
<1>1. RegistryInv => OneBucketPerEpoch
  BY DEF RegistryInv
<1>2. QED
  BY <1>1, RegistryInvAlways, PTL

\* The map never hands out a bucket of an earlier configuration.
THEOREM NewRateInForce == RegistrySpec => []NewSearchesGetTheNewRate
<1>1. RegistryInv => NewSearchesGetTheNewRate
  BY DEF RegistryInv
<1>2. QED
  BY <1>1, RegistryInvAlways, PTL

-----------------------------------------------------------------------------
(* Season bounds                                                           *)

\* Every field TMDB sends of a show, and later sends grown.
Listing == [season_number : Int, episode_count : Nat]
Shows == [number_of_seasons : Nat, seasons : Seq(Listing)]

\* The first entry of a number is one, if there is any.
LEMMA MatchedIsFirst ==
    ASSUME NEW d \in Shows, NEW season
    PROVE  /\ \A a, b \in Matched(d, season) : a = b
           /\ \A a \in Matched(d, season) : a \in Listing /\ a.season_number = season
           /\ Matched(d, season) = {} <=>
                 \A i \in DOMAIN d.seasons : d.seasons[i].season_number # season
<1> DEFINE same == {i \in DOMAIN d.seasons : d.seasons[i].season_number = season}
           first == {i \in same : \A other \in same : i <= other}
<1>1. Matched(d, season) = {d.seasons[i] : i \in first}
  BY DEF Matched
<1>2. d.seasons \in Seq(Listing)
  BY DEF Shows
<1>3. same \in SUBSET Nat /\ \A i \in same : d.seasons[i] \in Listing
  BY <1>2
<1>4. \A i, j \in first : i = j
  BY <1>3
<1>5. same # {} => first # {}
  BY <1>3, LeastNumber
<1>6. \A i \in first : i \in same
  OBVIOUS
<1>7. \A i \in same : d.seasons[i].season_number = season /\ i \in DOMAIN d.seasons
  OBVIOUS
<1>8. same = {} <=> \A i \in DOMAIN d.seasons : d.seasons[i].season_number # season
  OBVIOUS
<1> HIDE DEF same, first
<1>9. QED
  BY <1>1, <1>3, <1>4, <1>5, <1>6, <1>7, <1>8

\* The verdicts, one by one.
LEMMA VerdictIs ==
    ASSUME NEW d \in Shows, NEW season, NEW episode
    PROVE  LET verdict == SeasonEpisodeBounds(d, season, episode)
               blank == season = None \/ (d.number_of_seasons = 0 /\ d.seasons = <<>>)
               over == season > d.number_of_seasons /\ Matched(d, season) = {}
               beyond == /\ episode # None
                         /\ \E s \in Matched(d, season) :
                               s.episode_count > 0 /\ episode > s.episode_count
           IN  /\ verdict = "Contradiction" <=> ~blank /\ season < 0
               /\ verdict = "SeasonOverflow" <=> ~blank /\ ~(season < 0) /\ over
               /\ verdict = "EpisodeOverflow" <=> ~blank /\ ~(season < 0) /\ ~over /\ beyond
               /\ verdict = "Ok" <=> blank \/ (~(season < 0) /\ ~over /\ ~beyond)
BY DEF SeasonEpisodeBounds

ShowInv == details \in Shows

LEMMA ShowInvAlways == ShowSpec => []ShowInv
<1>1. ShowInit => ShowInv
  BY DEF ShowInit, ShowInv, Shows
<1>2. ShowInv /\ [ShowNext]_details => ShowInv'
  <2> SUFFICES ASSUME ShowInv, [ShowNext]_details PROVE ShowInv'
    OBVIOUS
  <2>1. CASE Count
    BY <2>1 DEF Count, ShowInv, Shows
  <2>2. CASE List
    <3>1. PICK e \in Entries : details' = [details EXCEPT !.seasons = Append(details.seasons, e)]
      BY <2>2 DEF List
    <3>2. e \in Listing
      BY EntriesAssumption DEF Listing
    <3>3. Append(details.seasons, e) \in Seq(Listing)
      BY <3>2 DEF ShowInv, Shows
    <3>4. QED
      BY <3>1, <3>3 DEF ShowInv, Shows
  <2>3. CASE UNCHANGED details
    BY <2>3 DEF ShowInv
  <2>4. QED
    BY <2>1, <2>2, <2>3 DEF ShowNext
<1>3. QED
  BY <1>1, <1>2, PTL DEF ShowSpec

\* The show with one more season, or with one more episode where the count is known.
Counted(d) == [d EXCEPT !.number_of_seasons = @ + 1]
Lengthened(d) ==
    [d EXCEPT !.seasons = [i \in DOMAIN d.seasons |-> Longer(d.seasons[i])]]

LEMMA CountedIs ==
    ASSUME NEW d \in Shows
    PROVE  /\ Counted(d) \in Shows /\ Counted(d).number_of_seasons = d.number_of_seasons + 1
           /\ Counted(d).seasons = d.seasons
           /\ \A season : Matched(Counted(d), season) = Matched(d, season)
<1>1. /\ Counted(d) \in Shows /\ Counted(d).number_of_seasons = d.number_of_seasons + 1
      /\ Counted(d).seasons = d.seasons
  BY DEF Counted, Shows
<1>2. QED
  BY <1>1 DEF Matched

LEMMA LongerIs ==
    ASSUME NEW e \in Listing
    PROVE  /\ Longer(e) \in Listing /\ Longer(e).season_number = e.season_number
           /\ Longer(e).episode_count = IF e.episode_count > 0 THEN e.episode_count + 1
                                        ELSE e.episode_count
BY DEF Longer, Listing

LEMMA LengthenedIs ==
    ASSUME NEW d \in Shows
    PROVE  /\ Lengthened(d) \in Shows
           /\ Lengthened(d).number_of_seasons = d.number_of_seasons
           /\ \A season :
                 Matched(Lengthened(d), season) = {Longer(e) : e \in Matched(d, season)}
<1> DEFINE old == d.seasons
           new == [i \in DOMAIN old |-> Longer(old[i])]
<1>1. Lengthened(d) = [d EXCEPT !.seasons = new]
  BY DEF Lengthened
<1>2. old \in Seq(Listing) /\ d.number_of_seasons \in Nat
  BY DEF Shows
<1>3. \A i \in DOMAIN old : old[i] \in Listing
  BY <1>2
<1>4. /\ DOMAIN new = DOMAIN old
      /\ \A i \in DOMAIN old :
            /\ new[i] = Longer(old[i]) /\ new[i] \in Listing
            /\ new[i].season_number = old[i].season_number
  BY <1>3, LongerIs
<1>5. new \in Seq(Listing)
  <2>1. DOMAIN old = 1 .. Len(old) /\ Len(old) \in Nat
    BY <1>2
  <2>2. new = [i \in 1 .. Len(old) |-> Longer(old[i])]
    BY <2>1
  <2>3. \A i \in 1 .. Len(old) : Longer(old[i]) \in Listing
    BY <1>4, <2>1
  <2> HIDE DEF new
  <2>4. new \in [1 .. Len(old) -> Listing]
    BY <2>2, <2>3
  <2>5. QED
    BY <2>1, <2>4, SeqDef
<1> HIDE DEF new
<1>6. /\ Lengthened(d) \in Shows
      /\ Lengthened(d).number_of_seasons = d.number_of_seasons
      /\ Lengthened(d).seasons = new
  BY <1>1, <1>5 DEF Shows
<1>7. ASSUME NEW season
      PROVE  Matched(Lengthened(d), season) = {Longer(e) : e \in Matched(d, season)}
  <2> DEFINE same == {i \in DOMAIN old : old[i].season_number = season}
             first == {i \in same : \A other \in same : i <= other}
             sameNew == {i \in DOMAIN new : new[i].season_number = season}
             firstNew == {i \in sameNew : \A other \in sameNew : i <= other}
  <2>1. sameNew = same
    BY <1>4
  <2>2. firstNew = first
    BY <2>1
  <2>3. Matched(d, season) = {old[i] : i \in first}
    BY DEF Matched
  <2>4. Matched(Lengthened(d), season) = {new[i] : i \in firstNew}
    BY <1>6 DEF Matched
  <2>5. \A i \in first : new[i] = Longer(old[i])
    BY <1>4
  <2> HIDE DEF same, first, sameNew, firstNew
  <2>6. QED
    BY <2>2, <2>3, <2>4, <2>5
<1>8. QED
  BY <1>6, <1>7

LEMMA GrownIs == Grown = {Counted(details), Lengthened(details)}
BY DEF Grown, Counted, Lengthened

\* What a show that TMDB counts has room for stays within its bounds as it grows.
LEMMA OkStaysOk ==
    ASSUME NEW d \in Shows, d.number_of_seasons > 0,
           NEW season \in Int \cup {None}, NEW episode \in Int \cup {None},
           SeasonEpisodeBounds(d, season, episode) = "Ok"
    PROVE  /\ SeasonEpisodeBounds(Counted(d), season, episode) = "Ok"
           /\ SeasonEpisodeBounds(Lengthened(d), season, episode) = "Ok"
<1>1. d.number_of_seasons \in Nat
  BY DEF Shows
<1>2. CASE season = None
  BY <1>2, CountedIs, LengthenedIs, VerdictIs
<1>3. CASE season # None
  <2>1. /\ season \in Int /\ ~(season < 0)
        /\ ~(season > d.number_of_seasons /\ Matched(d, season) = {})
        /\ ~(episode # None /\ \E s \in Matched(d, season) :
                                  s.episode_count > 0 /\ episode > s.episode_count)
    BY <1>1, <1>3, VerdictIs
  <2>2. SeasonEpisodeBounds(Counted(d), season, episode) = "Ok"
    <3>1. /\ Counted(d) \in Shows /\ Matched(Counted(d), season) = Matched(d, season)
          /\ Counted(d).number_of_seasons = d.number_of_seasons + 1
      BY CountedIs
    <3>2. ~(season > d.number_of_seasons + 1 /\ Matched(d, season) = {})
      BY <1>1, <2>1
    <3>3. QED
      BY <2>1, <3>1, <3>2, VerdictIs
  <2>3. SeasonEpisodeBounds(Lengthened(d), season, episode) = "Ok"
    <3>1. /\ Lengthened(d) \in Shows
          /\ Matched(Lengthened(d), season) = {Longer(e) : e \in Matched(d, season)}
          /\ Lengthened(d).number_of_seasons = d.number_of_seasons
      BY LengthenedIs
    <3>2. ~(season > d.number_of_seasons /\ Matched(Lengthened(d), season) = {})
      BY <2>1, <3>1
    <3>3. ASSUME episode # None, NEW s \in Matched(Lengthened(d), season),
                 s.episode_count > 0, episode > s.episode_count
          PROVE  FALSE
      <4>1. PICK e \in Matched(d, season) : s = Longer(e)
        BY <3>1
      <4>2. e \in Listing /\ e.episode_count \in Nat
        BY MatchedIsFirst DEF Listing
      <4>3. s.episode_count = IF e.episode_count > 0 THEN e.episode_count + 1
                              ELSE e.episode_count
        BY <4>1, <4>2, LongerIs
      <4>4. QED
        BY <2>1, <3>3, <4>2, <4>3
    <3>4. ~(episode # None /\ \E s \in Matched(Lengthened(d), season) :
                                 s.episode_count > 0 /\ episode > s.episode_count)
      BY <3>3
    <3>5. PICK L \in Shows : L = Lengthened(d)
      BY <3>1
    <3>6. /\ L.number_of_seasons = d.number_of_seasons
          /\ ~(season > L.number_of_seasons /\ Matched(L, season) = {})
          /\ ~(episode # None /\ \E s \in Matched(L, season) :
                                    s.episode_count > 0 /\ episode > s.episode_count)
      BY <3>1, <3>2, <3>4, <3>5
    <3>7. SeasonEpisodeBounds(L, season, episode) = "Ok"
      BY <2>1, <3>6, VerdictIs
    <3>8. QED
      BY <3>5, <3>7
  <2>4. QED
    BY <2>2, <2>3
<1>4. QED
  BY <1>2, <1>3

\* What a show has room for is accepted, and stays accepted as the show grows
\* (tmdb_client.rs: season_episode_bounds, episode_in_season).
THEOREM VerdictsAreLenientHolds == ShowSpec => []VerdictsAreLenient
<1>1. ASSUME ShowInv PROVE VerdictsAreLenient
  <2> SUFFICES ASSUME NEW season \in Said \cup {None}, NEW episode \in Said \cup {None}
               PROVE  /\ (IF season = None \/ episode = None THEN season = None
                          ELSE season >= 0 /\ EpisodeInSeason(details, season, episode))
                         => SeasonEpisodeBounds(details, season, episode) = "Ok"
                      /\ details.number_of_seasons > 0
                            /\ SeasonEpisodeBounds(details, season, episode) = "Ok" =>
                            \A d \in Grown : SeasonEpisodeBounds(d, season, episode) = "Ok"
    BY DEF VerdictsAreLenient
  <2>1. details \in Shows
    BY <1>1 DEF ShowInv
  <2>2. season \in Int \cup {None} /\ episode \in Int \cup {None}
    BY SaidAssumption
  <2>3. ASSUME season = None
        PROVE  SeasonEpisodeBounds(details, season, episode) = "Ok"
    BY <2>1, <2>3, VerdictIs
  <2>4. ASSUME season # None, episode # None, season >= 0,
               EpisodeInSeason(details, season, episode)
        PROVE  SeasonEpisodeBounds(details, season, episode) = "Ok"
    <3>1. PICK s \in Matched(details, season) :
             s.episode_count > 0 /\ episode >= 1 /\ episode <= s.episode_count
      BY <2>4 DEF EpisodeInSeason
    <3>2. \A t \in Matched(details, season) : t = s /\ t.episode_count \in Nat
      BY <2>1, MatchedIsFirst DEF Listing
    <3>3. ~\E t \in Matched(details, season) :
              t.episode_count > 0 /\ episode > t.episode_count
      BY <2>2, <2>4, <3>1, <3>2
    <3>4. ~(season < 0) /\ Matched(details, season) # {}
      BY <2>2, <2>4, <3>1
    <3>5. QED
      BY <2>1, <3>3, <3>4, VerdictIs
  <2>5. details.number_of_seasons > 0
           /\ SeasonEpisodeBounds(details, season, episode) = "Ok" =>
              \A d \in Grown : SeasonEpisodeBounds(d, season, episode) = "Ok"
    BY <2>1, <2>2, OkStaysOk, GrownIs
  <2>6. QED
    BY <2>3, <2>4, <2>5
<1>2. QED
  BY <1>1, ShowInvAlways, PTL

\* A season or an episode is stripped or dropped only where TMDB lists otherwise.
THEOREM VerdictsHaveEvidenceHolds == ShowSpec => []VerdictsHaveEvidence
<1>1. ASSUME ShowInv PROVE VerdictsHaveEvidence
  <2> DEFINE listed == {details.seasons[i].season_number : i \in DOMAIN details.seasons}
  <2> SUFFICES ASSUME NEW season \in Said, NEW episode \in Said \cup {None}
               PROVE  LET verdict == SeasonEpisodeBounds(details, season, episode)
                      IN  /\ verdict = "SeasonOverflow" =>
                                season > details.number_of_seasons /\ season \notin listed
                          /\ verdict = "EpisodeOverflow" =>
                                season \in listed /\ ~EpisodeInSeason(details, season, episode)
                          /\ verdict = "Contradiction" <=>
                                season < 0 /\ (details.number_of_seasons > 0 \/ listed # {})
    BY DEF VerdictsHaveEvidence
  <2> DEFINE verdict == SeasonEpisodeBounds(details, season, episode)
  <2>1. details \in Shows /\ details.number_of_seasons \in Nat /\ details.seasons \in Seq(Listing)
    BY <1>1 DEF ShowInv, Shows
  <2>2. season \in Int /\ season # None /\ episode \in Int \cup {None}
    BY SaidAssumption
  <2>3. season \in listed <=> Matched(details, season) # {}
    BY <2>1, MatchedIsFirst
  <2>4. listed # {} <=> details.seasons # <<>>
    <3>1. CASE details.seasons = <<>>
      BY <3>1
    <3>2. CASE details.seasons # <<>>
      <4>1. Len(details.seasons) \in Nat /\ Len(details.seasons) # 0
        BY <2>1, <3>2, EmptySeq
      <4>2. 1 \in DOMAIN details.seasons
        BY <2>1, <4>1
      <4>3. QED
        BY <3>2, <4>2
    <3>3. QED
      BY <3>1, <3>2
  <2> HIDE DEF listed
  <2>5. ASSUME verdict = "SeasonOverflow"
        PROVE  season > details.number_of_seasons /\ season \notin listed
    BY <2>1, <2>3, <2>5, VerdictIs
  <2>6. ASSUME verdict = "EpisodeOverflow"
        PROVE  season \in listed /\ ~EpisodeInSeason(details, season, episode)
    <3>1. episode # None
      BY <2>1, <2>6, VerdictIs
    <3>2. PICK s \in Matched(details, season) :
             s.episode_count > 0 /\ episode > s.episode_count
      BY <2>1, <2>6, VerdictIs
    <3>3. \A t \in Matched(details, season) : t = s /\ t.episode_count \in Nat
      BY <2>1, MatchedIsFirst DEF Listing
    <3>4. ~EpisodeInSeason(details, season, episode)
      BY <2>2, <3>1, <3>2, <3>3 DEF EpisodeInSeason
    <3>5. QED
      BY <2>3, <3>2, <3>4
  <2>7. verdict = "Contradiction" <=>
           season < 0 /\ (details.number_of_seasons > 0 \/ listed # {})
    <3>1. verdict = "Contradiction" <=>
             ~(season = None \/ (details.number_of_seasons = 0 /\ details.seasons = <<>>))
                /\ season < 0
      BY <2>1, VerdictIs
    <3>2. QED
      BY <2>1, <2>2, <2>4, <3>1
  <2>8. QED
    BY <2>5, <2>6, <2>7
<1>2. QED
  BY <1>1, ShowInvAlways, PTL
-----------------------------------------------------------------------------
(* Relevance: insertion                                                    *)

\* A hit inserted into a list, place by place.
LEMMA InsertedIs ==
    ASSUME NEW r \in Seq(HitSet), NEW h \in HitSet
    PROVE  LET stays == {k \in 1 .. Len(r) : r[k].popularity >= h.popularity}
               longer == Inserted(r, h)
           IN  /\ longer \in Seq(HitSet) /\ Len(longer) = Len(r) + 1
               /\ \A k \in 1 .. Len(r) + 1 :
                     longer[k] = IF k \in stays THEN r[k]
                                 ELSE IF k = 1 \/ k - 1 \in stays THEN h
                                 ELSE r[k - 1]
<1> DEFINE stays == {k \in 1 .. Len(r) : r[k].popularity >= h.popularity}
           longer == Inserted(r, h)
           n == Len(r) + 1
<1>1. DOMAIN r = 1 .. Len(r) /\ Len(r) \in Nat /\ n \in Nat
  BY LenProperties
<1>2. longer = [k \in 1 .. n |-> IF k \in stays THEN r[k]
                                 ELSE IF k = 1 \/ k - 1 \in stays THEN h
                                 ELSE r[k - 1]]
  BY <1>1 DEF Inserted
<1>3. stays \subseteq 1 .. Len(r)
  OBVIOUS
<1> HIDE DEF stays, longer
<1>4. \A k \in 1 .. n : longer[k] \in HitSet
  <2> SUFFICES ASSUME NEW k \in 1 .. n PROVE longer[k] \in HitSet
    OBVIOUS
  <2>1. CASE k \in stays
    BY <1>1, <1>2, <1>3, <2>1
  <2>2. CASE k \notin stays /\ (k = 1 \/ k - 1 \in stays)
    BY <1>2, <2>2
  <2>3. CASE k \notin stays /\ k # 1 /\ k - 1 \notin stays
    <3>1. k - 1 \in 1 .. Len(r)
      BY <1>1, <2>3
    <3>2. longer[k] = r[k - 1]
      BY <1>2, <2>3
    <3>3. QED
      BY <3>1, <3>2
  <2>4. QED
    BY <2>1, <2>2, <2>3
<1>5. longer \in [1 .. n -> HitSet]
  BY <1>2, <1>4
<1>6. longer \in Seq(HitSet) /\ Len(longer) = n
  BY <1>1, <1>5, SeqDef
<1>7. QED
  BY <1>2, <1>6 DEF stays, longer

\* The equation RankedSoFar is defined by.
SolvesRanked(f, s) ==
    \A i \in 0 .. Len(s) : f[i] = IF i = 0 THEN <<>> ELSE Inserted(f[i - 1], s[i])

\* The equation has a solution.
LEMMA RankedSoFarDef ==
    ASSUME NEW S, NEW s \in Seq(S)
    PROVE  SolvesRanked(RankedSoFar(s), s)
<1> DEFINE Eq(g, n) == g = [i \in 0 .. n |->
                               IF i = 0 THEN <<>> ELSE Inserted(g[i - 1], s[i])]
           T == {n \in Nat : \E g : Eq(g, n)}
<1>1. 0 \in T
  <2>1. Eq([i \in 0 .. 0 |-> <<>>], 0)
    OBVIOUS
  <2>2. QED
    BY <2>1
<1>2. ASSUME NEW n \in Nat, n \in T PROVE n + 1 \in T
  <2>1. PICK g : Eq(g, n)
    BY <1>2
  <2> DEFINE more == Inserted(g[n], s[n + 1])
             h == [i \in 0 .. n + 1 |-> IF i = n + 1 THEN more ELSE g[i]]
  <2>2. ASSUME NEW i \in 0 .. n + 1
        PROVE  h[i] = IF i = 0 THEN <<>> ELSE Inserted(h[i - 1], s[i])
    <3>1. CASE i = n + 1
      BY <3>1
    <3>2. CASE i # n + 1
      <4>1. i \in 0 .. n
        BY <3>2
      <4>2. g[i] = IF i = 0 THEN <<>> ELSE Inserted(g[i - 1], s[i])
        BY <2>1, <4>1
      <4>3. h[i] = g[i] /\ (i # 0 => h[i - 1] = g[i - 1])
        BY <3>2, <4>1
      <4>4. QED
        BY <4>2, <4>3
    <3>3. QED
      BY <3>1, <3>2
  <2>3. Eq(h, n + 1)
    BY <2>2
  <2> HIDE DEF Eq, h
  <2>4. QED
    BY <2>3
<1> HIDE DEF T
<1>3. Len(s) \in T
  BY <1>1, <1>2, NumbersAreIn, LenProperties
<1>4. PICK g : Eq(g, Len(s))
  BY <1>3 DEF T
<1>5. PICK f : f = RankedSoFar(s) /\ Eq(f, Len(s))
  BY <1>4 DEF RankedSoFar
<1>6. SolvesRanked(f, s)
  BY <1>5 DEF SolvesRanked
<1>7. QED
  BY <1>5, <1>6

LEMMA RankedEmpty == Ranked(<<>>) = <<>>
<1>1. PICK s \in Seq({}) : s = <<>> /\ Len(s) = 0
  BY EmptySeq
<1>2. SolvesRanked(RankedSoFar(s), s)
  BY RankedSoFarDef
<1>3. Ranked(s) = <<>>
  BY <1>1, <1>2 DEF Ranked, SolvesRanked
<1>4. QED
  BY <1>1, <1>3, Zenon

\* One more hit is inserted.
LEMMA RankedAppend ==
    ASSUME NEW S, NEW s \in Seq(S), NEW e \in S
    PROVE  Ranked(Append(s, e)) = Inserted(Ranked(s), e)
<1> DEFINE t == Append(s, e)
           f == RankedSoFar(s)
           g == RankedSoFar(t)
           T == {i \in Nat : i <= Len(s) => g[i] = f[i]}
<1>1. /\ t \in Seq(S) /\ Len(t) = Len(s) + 1 /\ Len(s) \in Nat
      /\ \A i \in 1 .. Len(s) : t[i] = s[i]
      /\ t[Len(s) + 1] = e
  BY AppendProperties, LenProperties
<1> HIDE DEF t
<1>2. SolvesRanked(f, s)
  BY RankedSoFarDef
<1>3. SolvesRanked(g, t)
  BY <1>1, RankedSoFarDef
<1> HIDE DEF f, g
<1>4. 0 \in T
  BY <1>1, <1>2, <1>3 DEF SolvesRanked
<1>5. ASSUME NEW i \in Nat, i \in T PROVE i + 1 \in T
  <2> SUFFICES ASSUME i + 1 <= Len(s) PROVE g[i + 1] = f[i + 1]
    OBVIOUS
  <2>1. g[i] = f[i] /\ t[i + 1] = s[i + 1] /\ i + 1 \in 0 .. Len(s) /\ i + 1 \in 0 .. Len(t)
    BY <1>1, <1>5
  <2>2. g[i + 1] = Inserted(g[i], t[i + 1])
    BY <1>3, <2>1 DEF SolvesRanked
  <2>3. f[i + 1] = Inserted(f[i], s[i + 1])
    BY <1>2, <2>1 DEF SolvesRanked
  <2>4. QED
    BY <2>1, <2>2, <2>3
<1> HIDE DEF T
<1>6. Len(s) \in T
  BY <1>1, <1>4, <1>5, NumbersAreIn
<1>7. g[Len(s)] = f[Len(s)]
  BY <1>6, <1>1 DEF T
<1>8. g[Len(t)] = Inserted(f[Len(s)], t[Len(t)])
  BY <1>1, <1>3, <1>7 DEF SolvesRanked
<1>9. QED
  BY <1>1, <1>8 DEF Ranked, t, f, g
-----------------------------------------------------------------------------
(* Relevance: where the answers come from                                  *)

\* A hit at place i of a list is above the one at place j.
AboveIn(list, i, j) ==
    \/ list[i].popularity > list[j].popularity
    \/ list[i].popularity = list[j].popularity /\ i < j

\* r is the hits of the list that are in P, from places at[1], at[2], ..., each of
\* which is above the next.
Ranking(at, r, list, P) ==
    LET good == {i \in DOMAIN list : list[i] \in P}
    IN  /\ r \in Seq(HitSet) /\ at \in [1 .. Len(r) -> good]
        /\ \A k \in 1 .. Len(r) : r[k] = list[at[k]]
        /\ \A k, l \in 1 .. Len(r) : k < l => AboveIn(list, at[k], at[l])
        /\ \A i \in good : \E k \in 1 .. Len(r) : at[k] = i

LEMMA PopularityIs == \A h \in HitSet : h.popularity \in Int
BY HitSetAssumption

\* One more hit, which is in P or not.
LEMMA RankingSkips ==
    ASSUME NEW list \in Seq(HitSet), NEW h \in HitSet, NEW P, NEW r, NEW at,
           h \notin P, Ranking(at, r, list, P)
    PROVE  Ranking(at, r, Append(list, h), P)
<1> DEFINE more == Append(list, h)
           good == {i \in DOMAIN list : list[i] \in P}
           goodMore == {i \in DOMAIN more : more[i] \in P}
<1>1. /\ DOMAIN list = 1 .. Len(list) /\ Len(list) \in Nat
      /\ DOMAIN more = 1 .. Len(list) + 1
      /\ \A i \in 1 .. Len(list) : more[i] = list[i]
      /\ more[Len(list) + 1] = h
  BY AppendProperties, LenProperties
<1> HIDE DEF more
<1>2. goodMore = good
  BY <1>1
<1>3. \A i, j \in good : AboveIn(list, i, j) => AboveIn(more, i, j)
  BY <1>1 DEF AboveIn
<1>4. \A i \in good : more[i] = list[i]
  BY <1>1
<1>5. /\ r \in Seq(HitSet) /\ at \in [1 .. Len(r) -> good]
      /\ \A k \in 1 .. Len(r) : r[k] = list[at[k]]
      /\ \A k, l \in 1 .. Len(r) : k < l => AboveIn(list, at[k], at[l])
      /\ \A i \in good : \E k \in 1 .. Len(r) : at[k] = i
  BY DEF Ranking
<1>6. \A k \in 1 .. Len(r) : at[k] \in good
  BY <1>5
<1>7. Ranking(at, r, more, P) <=>
        /\ r \in Seq(HitSet) /\ at \in [1 .. Len(r) -> goodMore]
        /\ \A k \in 1 .. Len(r) : r[k] = more[at[k]]
        /\ \A k, l \in 1 .. Len(r) : k < l => AboveIn(more, at[k], at[l])
        /\ \A i \in goodMore : \E k \in 1 .. Len(r) : at[k] = i
  BY Zenon DEF Ranking
<1> HIDE DEF good, goodMore
<1>8. Ranking(at, r, more, P)
  BY <1>2, <1>3, <1>4, <1>5, <1>6, <1>7
<1>9. QED
  BY <1>8 DEF more

LEMMA RankingInserts ==
    ASSUME NEW list \in Seq(HitSet), NEW h \in HitSet, NEW P, NEW r, NEW at,
           h \in P, Ranking(at, r, list, P)
    PROVE  \E new : Ranking(new, Inserted(r, h), Append(list, h), P)
<1> DEFINE more == Append(list, h)
           good == {i \in DOMAIN list : list[i] \in P}
           goodMore == {i \in DOMAIN more : more[i] \in P}
           n == Len(list) + 1
           size == Len(r)
           stays == {k \in 1 .. size : r[k].popularity >= h.popularity}
           longer == Inserted(r, h)
           new == [k \in 1 .. size + 1 |-> IF k \in stays THEN at[k]
                                           ELSE IF k = 1 \/ k - 1 \in stays THEN n
                                           ELSE at[k - 1]]
<1>1. /\ DOMAIN list = 1 .. Len(list) /\ Len(list) \in Nat /\ n \in Nat
      /\ DOMAIN more = 1 .. n
      /\ \A i \in 1 .. Len(list) : more[i] = list[i] /\ list[i] \in HitSet
      /\ more[n] = h
  BY AppendProperties, LenProperties
<1> HIDE DEF more
<1>2. goodMore = good \cup {n} /\ good \subseteq 1 .. Len(list) /\ n \notin good
  BY <1>1
<1>3. /\ r \in Seq(HitSet) /\ at \in [1 .. size -> good] /\ size \in Nat
      /\ \A k \in 1 .. size : r[k] = list[at[k]]
      /\ \A k, l \in 1 .. size : k < l => AboveIn(list, at[k], at[l])
      /\ \A i \in good : \E k \in 1 .. size : at[k] = i
  BY LenProperties DEF Ranking
<1>4. /\ longer \in Seq(HitSet) /\ Len(longer) = size + 1
      /\ \A k \in 1 .. size + 1 :
            longer[k] = IF k \in stays THEN r[k]
                        ELSE IF k = 1 \/ k - 1 \in stays THEN h
                        ELSE r[k - 1]
  BY <1>3, InsertedIs
<1>5. \A k \in 1 .. size : at[k] \in good
  BY <1>3
<1>6. \A k \in 1 .. size : r[k] = more[at[k]] /\ r[k] \in HitSet /\ r[k].popularity \in Int
  BY <1>1, <1>2, <1>3, <1>5, PopularityIs
<1>7. \A k \in 1 .. size : k \in stays <=> r[k].popularity >= h.popularity
  OBVIOUS
<1>8. \A k, l \in 1 .. size : k < l => r[k].popularity >= r[l].popularity
  <2> SUFFICES ASSUME NEW k \in 1 .. size, NEW l \in 1 .. size, k < l
               PROVE  r[k].popularity >= r[l].popularity
    OBVIOUS
  <2>1. AboveIn(list, at[k], at[l]) /\ r[k] = list[at[k]] /\ r[l] = list[at[l]]
    BY <1>3
  <2>2. r[k].popularity > r[l].popularity \/ r[k].popularity = r[l].popularity
    BY <2>1 DEF AboveIn
  <2>3. QED
    BY <1>6, <2>2
<1>9. h.popularity \in Int
  BY PopularityIs
<1>10. \A k, l \in 1 .. size : k < l /\ l \in stays => k \in stays
  BY <1>6, <1>7, <1>8, <1>9
<1>11. stays \subseteq 1 .. size
  OBVIOUS
<1>12. \A i, j \in good : AboveIn(list, i, j) => AboveIn(more, i, j)
  BY <1>1, <1>2 DEF AboveIn
<1>13. \A k \in stays : AboveIn(more, at[k], n)
  <2> SUFFICES ASSUME NEW k \in stays PROVE AboveIn(more, at[k], n)
    OBVIOUS
  <2>1. /\ r[k] = more[at[k]] /\ r[k].popularity \in Int /\ r[k].popularity >= h.popularity
        /\ more[n] = h /\ at[k] \in 1 .. Len(list)
    BY <1>1, <1>2, <1>5, <1>6, <1>7
  <2>2. at[k] < n
    BY <1>1, <2>1
  <2>3. QED
    BY <1>9, <2>1, <2>2 DEF AboveIn
<1>14. \A k \in 1 .. size : k \notin stays => AboveIn(more, n, at[k])
  <2> SUFFICES ASSUME NEW k \in 1 .. size, k \notin stays PROVE AboveIn(more, n, at[k])
    OBVIOUS
  <2>1. /\ r[k] = more[at[k]] /\ r[k].popularity \in Int /\ ~(r[k].popularity >= h.popularity)
        /\ more[n] = h
    BY <1>1, <1>6, <1>7
  <2>2. QED
    BY <1>9, <2>1 DEF AboveIn
<1>15. \A k \in 1 .. size + 1 :
          new[k] = IF k \in stays THEN at[k]
                   ELSE IF k = 1 \/ k - 1 \in stays THEN n
                   ELSE at[k - 1]
  OBVIOUS
<1> HIDE DEF good, goodMore, stays, longer, n, size
<1>16. \A k \in 1 .. size + 1 :
          \/ k \in stays /\ k \in 1 .. size /\ new[k] = at[k] /\ longer[k] = r[k]
          \/ /\ k \notin stays /\ (k = 1 \/ k - 1 \in stays)
             /\ new[k] = n /\ longer[k] = h
          \/ /\ k \notin stays /\ k - 1 \notin stays /\ k - 1 \in 1 .. size
             /\ new[k] = at[k - 1] /\ longer[k] = r[k - 1]
  <2> SUFFICES ASSUME NEW k \in 1 .. size + 1
               PROVE  \/ k \in stays /\ k \in 1 .. size /\ new[k] = at[k] /\ longer[k] = r[k]
                      \/ /\ k \notin stays /\ (k = 1 \/ k - 1 \in stays)
                         /\ new[k] = n /\ longer[k] = h
                      \/ /\ k \notin stays /\ k - 1 \notin stays /\ k - 1 \in 1 .. size
                         /\ new[k] = at[k - 1] /\ longer[k] = r[k - 1]
    OBVIOUS
  <2>1. k # 1 => k - 1 \in 1 .. size
    BY <1>3
  <2>2. k \in stays => k \in 1 .. size
    BY <1>11
  <2>3. QED
    BY <1>4, <1>15, <2>1, <2>2
<1>17. DOMAIN new = 1 .. size + 1 /\ new = [k \in 1 .. size + 1 |-> new[k]]
  OBVIOUS
<1>18. \A k \in 1 .. size : (k \in stays => new[k] = at[k])
                            /\ (k \notin stays => new[k + 1] = at[k])
  <2> SUFFICES ASSUME NEW k \in 1 .. size
               PROVE  (k \in stays => new[k] = at[k]) /\ (k \notin stays => new[k + 1] = at[k])
    OBVIOUS
  <2>1. CASE k \in stays
    BY <1>3, <1>15, <2>1
  <2>2. CASE k \notin stays
    <3>1. k + 1 \in 1 .. size + 1 /\ k + 1 # 1 /\ (k + 1) - 1 = k
      BY <1>3
    <3>2. k + 1 \notin stays
      BY <1>3, <1>10, <1>11, <2>2
    <3>3. QED
      BY <1>15, <2>2, <3>1, <3>2
  <2>3. QED
    BY <2>1, <2>2
<1>19. \E k \in 1 .. size + 1 : new[k] = n
  <2> DEFINE gone == {k \in 1 .. size + 1 : k \notin stays}
  <2>1. size + 1 \in gone
    BY <1>3, <1>11
  <2>2. gone \in SUBSET Nat
    BY <1>3
  <2> HIDE DEF gone
  <2>3. PICK k \in gone : \A l \in gone : k <= l
    BY <2>1, <2>2, LeastNumber
  <2>4. k \in 1 .. size + 1 /\ k \notin stays
    BY DEF gone
  <2>5. k = 1 \/ k - 1 \in stays
    <3> SUFFICES ASSUME k # 1, k - 1 \notin stays PROVE FALSE
      OBVIOUS
    <3>1. k - 1 \in gone
      BY <1>3, <2>4 DEF gone
    <3>2. QED
      BY <1>3, <2>3, <2>4, <3>1
  <2>6. new[k] = n
    BY <1>15, <2>4, <2>5
  <2>7. QED
    BY <2>4, <2>6
<1> HIDE DEF new
<1>20. \A k \in 1 .. size + 1 : new[k] \in goodMore /\ longer[k] = more[new[k]]
  BY <1>1, <1>2, <1>5, <1>6, <1>16
<1>21. \A i \in goodMore : \E k \in 1 .. size + 1 : new[k] = i
  <2> SUFFICES ASSUME NEW i \in good PROVE \E k \in 1 .. size + 1 : new[k] = i
    BY <1>2, <1>19
  <2>1. PICK k \in 1 .. size : at[k] = i
    BY <1>3
  <2>2. k \in 1 .. size + 1 /\ k + 1 \in 1 .. size + 1
    BY <1>3
  <2>3. QED
    BY <1>18, <2>1, <2>2
<1>22. ASSUME NEW k \in 1 .. size + 1, NEW l \in 1 .. size + 1, k < l
       PROVE  AboveIn(more, new[k], new[l])
  <2>1. CASE k \in stays /\ l \in stays
    BY <1>3, <1>5, <1>11, <1>12, <1>16, <1>22, <2>1
  <2>2. CASE k \in stays /\ new[l] = n
    BY <1>13, <1>16, <2>2
  <2>3. CASE k \in stays /\ l - 1 \notin stays /\ l - 1 \in 1 .. size /\ new[l] = at[l - 1]
    <3>1. k < l - 1 \/ k = l - 1
      BY <1>22, <1>3
    <3>2. k < l - 1 /\ k \in 1 .. size
      BY <1>11, <2>3, <3>1
    <3>3. QED
      BY <1>3, <1>5, <1>12, <1>16, <2>3, <3>2
  <2>4. CASE k \notin stays /\ (k = 1 \/ k - 1 \in stays) /\ new[k] = n
    <3>1. l \notin stays /\ l - 1 \notin stays /\ l # 1
      <4>1. l # 1 /\ (l - 1 = k \/ k < l - 1)
        BY <1>3, <1>22
      <4>2. l \notin stays
        <5> SUFFICES ASSUME l \in stays PROVE FALSE
          OBVIOUS
        <5>1. l \in 1 .. size /\ k \in 1 .. size
          BY <1>3, <1>11, <1>22
        <5>2. QED
          BY <1>10, <1>22, <2>4, <5>1
      <4>3. l - 1 \notin stays
        BY <1>3, <1>10, <1>11, <2>4, <4>1
      <4>4. QED
        BY <4>1, <4>2, <4>3
    <3>2. l - 1 \in 1 .. size /\ new[l] = at[l - 1]
      BY <1>16, <3>1
    <3>3. QED
      BY <1>14, <2>4, <3>1, <3>2
  <2>5. CASE k \notin stays /\ k - 1 \notin stays /\ k - 1 \in 1 .. size /\ new[k] = at[k - 1]
    <3>1. l \notin stays /\ l - 1 \notin stays /\ l # 1
      <4>1. l # 1 /\ k - 1 < l - 1 /\ k - 1 < l
        BY <1>3, <1>22
      <4>2. QED
        BY <1>3, <1>10, <1>11, <2>5, <4>1
    <3>2. l - 1 \in 1 .. size /\ new[l] = at[l - 1] /\ k - 1 < l - 1
      BY <1>3, <1>16, <1>22, <3>1
    <3>3. AboveIn(list, at[k - 1], at[l - 1])
      BY <1>3, <2>5, <3>2
    <3>4. QED
      BY <1>5, <1>12, <2>5, <3>2, <3>3
  <2>6. QED
    BY <1>16, <2>1, <2>2, <2>3, <2>4, <2>5
<1>23. new \in [1 .. size + 1 -> goodMore]
  BY <1>17, <1>20
<1>24. Ranking(new, longer, more, P) <=>
        /\ longer \in Seq(HitSet) /\ new \in [1 .. Len(longer) -> goodMore]
        /\ \A k \in 1 .. Len(longer) : longer[k] = more[new[k]]
        /\ \A k, l \in 1 .. Len(longer) : k < l => AboveIn(more, new[k], new[l])
        /\ \A i \in goodMore : \E k \in 1 .. Len(longer) : new[k] = i
  BY Zenon DEF Ranking, goodMore
<1>25. Ranking(new, longer, more, P)
  BY <1>4, <1>20, <1>21, <1>22, <1>23, <1>24
<1>26. QED
  BY <1>25 DEF longer, more

\* What is ranked is what is in P.
LEMMA RankedIs ==
    ASSUME NEW P
    PROVE  \A list \in Seq(HitSet) : \E at : Ranking(at, Ranked(Kept(list, P)), list, P)
<1> DEFINE T == {list \in Seq(HitSet) : \E at : Ranking(at, Ranked(Kept(list, P)), list, P)}
<1>1. <<>> \in T
  <2>1. PICK none \in Seq(HitSet) : none = <<>>
    BY EmptySeq
  <2>0. Len(none) = 0 /\ DOMAIN none = {}
    <3>1. Len(none) = 0
      BY <2>1, EmptySeq
    <3>2. DOMAIN none = 1 .. Len(none)
      BY LenProperties
    <3>3. QED
      BY <3>1, <3>2
  <2>2. Ranked(Kept(none, P)) = none
    BY <2>1, KeptEmpty, RankedEmpty
  <2>3. Ranking(none, none, none, P)
    <3>1. none \in [1 .. Len(none) -> {i \in DOMAIN none : none[i] \in P}]
      BY <2>0, <2>1
    <3>2. QED
      BY <2>0, <3>1 DEF Ranking
  <2>4. none \in T
    BY <2>2, <2>3
  <2>5. QED
    BY <2>1, <2>4, Zenon
<1>2. ASSUME NEW list \in Seq(HitSet), NEW h \in HitSet, list \in T
      PROVE  Append(list, h) \in T
  <2>1. PICK at : Ranking(at, Ranked(Kept(list, P)), list, P)
    BY <1>2
  <2>2. Append(list, h) \in Seq(HitSet)
    BY AppendProperties
  <2>3. CASE h \in P
    <3>1. Kept(Append(list, h), P) = Append(Kept(list, P), h)
      BY <2>3, KeptAppend
    <3>2. Kept(list, P) \in Seq(HitSet)
      BY KeptTypedToo
    <3>3. Ranked(Append(Kept(list, P), h)) = Inserted(Ranked(Kept(list, P)), h)
      BY <3>2, RankedAppend
    <3>4. \E new : Ranking(new, Inserted(Ranked(Kept(list, P)), h), Append(list, h), P)
      BY <2>1, <2>3, RankingInserts
    <3>5. QED
      BY <2>2, <3>1, <3>3, <3>4
  <2>4. CASE h \notin P
    <3>1. Kept(Append(list, h), P) = Kept(list, P)
      BY <2>4, KeptAppend
    <3>2. Ranking(at, Ranked(Kept(list, P)), Append(list, h), P)
      BY <2>1, <2>4, RankingSkips
    <3>3. QED
      BY <2>2, <3>1, <3>2
  <2>5. QED
    BY <2>3, <2>4
<1> HIDE DEF T
<1>3. Seq(HitSet) \subseteq T
  BY <1>1, <1>2, ListsAreIn
<1>4. QED
  BY <1>3 DEF T
-----------------------------------------------------------------------------
(* Relevance: the words a title shares with a query                        *)

\* What is kept of a list is as long as the list has places of it.
LEMMA KeptCounts ==
    ASSUME NEW S, NEW P
    PROVE  \A s \in Seq(S) :
              LET places == {i \in DOMAIN s : s[i] \in P}
              IN  IsFiniteSet(places) /\ Len(Kept(s, P)) = Cardinality(places)
<1> DEFINE Places(s) == {i \in DOMAIN s : s[i] \in P}
           T == {s \in Seq(S) : IsFiniteSet(Places(s))
                                   /\ Len(Kept(s, P)) = Cardinality(Places(s))}
<1>1. <<>> \in T
  <2>1. PICK none \in Seq(S) : none = <<>>
    BY EmptySeq
  <2>2. Places(none) = {}
    <3>1. Len(none) = 0
      BY <2>1, EmptySeq
    <3>2. DOMAIN none = 1 .. Len(none)
      BY LenProperties
    <3>3. QED
      BY <3>1, <3>2
  <2>3. Len(Kept(none, P)) = 0
    BY <2>1, KeptEmpty, EmptySeq
  <2> HIDE DEF Places
  <2>4. none \in T
    BY <2>2, <2>3, FS_EmptySet
  <2>5. QED
    BY <2>1, <2>4, Zenon
<1>2. ASSUME NEW s \in Seq(S), NEW e \in S, s \in T PROVE Append(s, e) \in T
  <2> DEFINE t == Append(s, e)
             n == Len(s) + 1
  <2>1. /\ t \in Seq(S) /\ Len(s) \in Nat /\ DOMAIN s = 1 .. Len(s) /\ DOMAIN t = 1 .. n
        /\ \A i \in 1 .. Len(s) : t[i] = s[i]
        /\ t[n] = e
    BY AppendProperties, LenProperties
  <2>2. Kept(t, P) = IF e \in P THEN Append(Kept(s, P), e) ELSE Kept(s, P)
    BY KeptAppend
  <2>3. Kept(s, P) \in Seq(S)
    BY KeptTypedToo
  <2>4. IsFiniteSet(Places(s)) /\ Len(Kept(s, P)) = Cardinality(Places(s))
    BY <1>2
  <2> HIDE DEF t
  <2>5. Places(t) = (IF e \in P THEN Places(s) \cup {n} ELSE Places(s)) /\ n \notin Places(s)
    BY <2>1
  <2> HIDE DEF Places
  <2>6. CASE e \in P
    <3>1. /\ IsFiniteSet(Places(s) \cup {n})
          /\ Cardinality(Places(s) \cup {n}) = Cardinality(Places(s)) + 1
      BY <2>4, <2>5, FS_AddElement
    <3>2. Len(Kept(t, P)) = Len(Kept(s, P)) + 1
      BY <2>2, <2>3, <2>6, AppendProperties
    <3>3. QED
      BY <2>1, <2>4, <2>5, <2>6, <3>1, <3>2 DEF t
  <2>7. CASE e \notin P
    BY <2>1, <2>2, <2>4, <2>5, <2>7 DEF t
  <2>8. QED
    BY <2>6, <2>7
<1> HIDE DEF T
<1>3. Seq(S) \subseteq T
  BY <1>1, <1>2, ListsAreIn
<1>4. QED
  BY <1>3 DEF T

SearchInv == hits \in Seq(HitSet)

LEMMA SearchInvAlways == SearchSpec => []SearchInv
<1>1. SearchInit => SearchInv
  BY DEF SearchInit, SearchInv
<1>2. SearchInv /\ [Find]_hits => SearchInv'
  BY AppendProperties DEF SearchInv, Find
<1>3. QED
  BY <1>1, <1>2, PTL DEF SearchSpec

\* The gate accepts the hits that half of the query, word by word, is in.
LEMMA AcceptedIs ==
    ASSUME SearchInv, NEW q \in Seq(STRING), NEW i \in DOMAIN hits
    PROVE  hits[i] \in Accepted(q) <=> Confident(i, q)
<1> DEFINE h == hits[i]
           said == {p \in DOMAIN q : \E w \in DOMAIN h.title : h.title[w] = q[p]}
           words == {p \in DOMAIN q : q[p] \in ToSet(h.title)}
<1>1. h \in HitSet
  BY LenProperties DEF SearchInv
<1>2. words = said
  BY DEF ToSet
<1>3. IsFiniteSet(words) /\ Len(Kept(q, ToSet(h.title))) = Cardinality(words)
  BY KeptCounts
<1>4. DOMAIN q = 1 .. Len(q) /\ Len(q) \in Nat
  BY LenProperties
<1>5. IsFiniteSet(DOMAIN q) /\ Cardinality(DOMAIN q) = Len(q)
  <2>1. PICK n \in Nat : n = Len(q)
    BY <1>4
  <2>2. IsFiniteSet(1 .. n) /\ Cardinality(1 .. n) = IF 1 > n THEN 0 ELSE n - 1 + 1
    BY FS_Interval
  <2>3. Cardinality(1 .. n) = n
    BY <2>2
  <2>4. DOMAIN q = 1 .. n
    BY <1>4, <2>1
  <2>5. QED
    BY <2>1, <2>2, <2>3, <2>4, Zenon
<1>6. DOMAIN q \cap said = said
  OBVIOUS
<1> HIDE DEF words, said, h
<1>7. Cardinality(DOMAIN q \ said) = Len(q) - Cardinality(said) /\ Cardinality(said) \in Nat
  <2>1. IsFiniteSet(said)
    BY <1>2, <1>3
  <2>2. Cardinality(DOMAIN q \ said) = Cardinality(DOMAIN q) - Cardinality(DOMAIN q \cap said)
    BY <1>5, FS_Difference
  <2>3. Cardinality(said) \in Nat
    BY <2>1, FS_CardinalityType
  <2>4. QED
    BY <1>5, <1>6, <2>2, <2>3
<1>8. Cardinality(said) >= Cardinality(DOMAIN q \ said)
        <=> 2 * Overlap(q, h.title) >= Len(q)
  BY <1>2, <1>3, <1>4, <1>7 DEF Overlap
<1>9. Confident(i, q) <=> /\ h.media_type \in {"movie", "tv"}
                          /\ Cardinality(said) >= Cardinality(DOMAIN q \ said)
  BY DEF Confident, said, h
<1>10. h \in Accepted(q) <=> h.media_type \in {"movie", "tv"} /\ 2 * Overlap(q, h.title) >= Len(q)
  BY <1>1 DEF Accepted
<1>11. QED
  BY <1>8, <1>9, <1>10 DEF h

-----------------------------------------------------------------------------
(* Relevance: the theorems                                                 *)

\* The answer is the confident hits in the order of their popularity, cut at n
\* (tmdb_client.rs: principal_top_n).
THEOREM RanksTheConfidentHolds == SearchSpec => []RanksTheConfident
<1>1. ASSUME SearchInv PROVE RanksTheConfident
  <2> SUFFICES ASSUME NEW q \in Queries, NEW n \in 0 .. Depth + 1
               PROVE  LET top == PrincipalTopN(hits, q, n)
                          good == IF q = <<>> THEN {}
                                  ELSE {i \in DOMAIN hits : Confident(i, q)}
                      IN  /\ Len(top) <= n
                          /\ \E at \in [DOMAIN top -> good] :
                                /\ \A k \in DOMAIN top : top[k] = hits[at[k]]
                                /\ \A k, l \in DOMAIN top : k < l => Above(at[k], at[l])
                                /\ \A i \in good :
                                      \/ \E k \in DOMAIN top : at[k] = i
                                      \/ /\ Len(top) = n
                                         /\ \A k \in DOMAIN top : Above(at[k], i)
    BY DEF RanksTheConfident
  <2> DEFINE top == PrincipalTopN(hits, q, n)
             good == IF q = <<>> THEN {} ELSE {i \in DOMAIN hits : Confident(i, q)}
  <2>1. n \in Nat /\ q \in Seq(STRING)
    BY DepthAssumption, WordsAssumption
  <2>2. CASE q = <<>>
    <3>1. PICK none \in Seq(HitSet) : none = <<>>
      BY EmptySeq
    <3>2. Len(none) = 0 /\ DOMAIN none = {}
      <4>1. Len(none) = 0
        BY <3>1, EmptySeq
      <4>2. DOMAIN none = 1 .. Len(none)
        BY LenProperties
      <4>3. QED
        BY <4>1, <4>2
    <3>3. top = none /\ good = {}
      BY <2>2, <3>1 DEF PrincipalTopN
    <3> HIDE DEF top, good
    <3>4. none \in [DOMAIN top -> good]
      BY <3>2, <3>3
    <3>5. Len(top) <= n /\ DOMAIN top = {}
      BY <2>1, <3>2, <3>3
    <3>6. QED
      BY <3>3, <3>4, <3>5 DEF top, good
  <2>3. CASE q # <<>>
    <3> DEFINE P == Accepted(q)
               r == Ranked(Kept(hits, P))
    <3>1. PICK all : Ranking(all, r, hits, P)
      BY <1>1, RankedIs DEF SearchInv
    <3>2. good = {i \in DOMAIN hits : hits[i] \in P}
      BY <1>1, <2>1, <2>3, AcceptedIs
    <3>3. top = Take(r, n)
      BY <2>3 DEF PrincipalTopN
    <3> HIDE DEF P, r, top, good
    <3>4. /\ r \in Seq(HitSet) /\ all \in [1 .. Len(r) -> good]
          /\ \A k \in 1 .. Len(r) : r[k] = hits[all[k]]
          /\ \A k, l \in 1 .. Len(r) : k < l => Above(all[k], all[l])
          /\ \A i \in good : \E k \in 1 .. Len(r) : all[k] = i
      BY <3>1, <3>2 DEF Ranking, AboveIn, Above
    <3>5. /\ top \in Seq(HitSet)
          /\ Len(top) = IF n < Len(r) THEN n ELSE Len(r)
          /\ \A i \in 1 .. Len(top) : top[i] = r[i]
      BY <2>1, <3>3, <3>4, TakeTyped
    <3>6. DOMAIN top = 1 .. Len(top) /\ Len(top) \in Nat /\ Len(r) \in Nat
      BY <3>4, <3>5, LenProperties
    <3> DEFINE at == [k \in DOMAIN top |-> all[k]]
    <3>7. \A k \in DOMAIN top : k \in 1 .. Len(r) /\ at[k] = all[k]
      BY <2>1, <3>5, <3>6
    <3>8. at \in [DOMAIN top -> good]
      BY <3>4, <3>7
    <3>9. ASSUME NEW i \in good
          PROVE  \/ \E k \in DOMAIN top : at[k] = i
                 \/ Len(top) = n /\ \A k \in DOMAIN top : Above(at[k], i)
      <4>1. PICK l \in 1 .. Len(r) : all[l] = i
        BY <3>4
      <4>2. CASE l <= Len(top)
        <5>1. l \in DOMAIN top
          BY <3>6, <4>2
        <5>2. QED
          BY <3>7, <4>1, <5>1
      <4>3. CASE ~(l <= Len(top))
        <5>1. Len(top) = n
          BY <2>1, <3>5, <3>6, <4>3
        <5>2. \A k \in DOMAIN top : k < l
          BY <3>6, <4>3
        <5>3. \A k \in DOMAIN top : Above(at[k], i)
          BY <3>4, <3>7, <4>1, <5>2
        <5>4. QED
          BY <5>1, <5>3
      <4>4. QED
        BY <4>2, <4>3
    <3> HIDE DEF at
    <3>10. Len(top) <= n
      BY <2>1, <3>5, <3>6
    <3>11. \A k \in DOMAIN top : top[k] = hits[at[k]]
      BY <3>4, <3>5, <3>6, <3>7
    <3>12. \A k, l \in DOMAIN top : k < l => Above(at[k], at[l])
      BY <3>4, <3>7
    <3>13. QED
      BY <3>8, <3>9, <3>10, <3>11, <3>12 DEF top, good
  <2>4. QED
    BY <2>2, <2>3
<1>2. QED
  BY <1>1, SearchInvAlways, PTL

\* The first n of the list that is stored are the answer at n (resolve.rs stores
\* CACHED_PRINCIPAL_DEPTH hits of a query and slices them on read).
THEOREM SlicesAreAnswersHold == SearchSpec => []SlicesAreAnswers
<1>1. ASSUME SearchInv PROVE SlicesAreAnswers
  <2> SUFFICES ASSUME NEW q \in Queries, NEW n \in 0 .. Depth
               PROVE  Take(PrincipalTopN(hits, q, Depth), n) = PrincipalTopN(hits, q, n)
    BY DEF SlicesAreAnswers
  <2>1. n \in Nat /\ Depth \in Nat /\ n <= Depth
    BY DepthAssumption
  <2>2. CASE q = <<>>
    <3>1. PICK none \in Seq(HitSet) : none = <<>>
      BY EmptySeq
    <3>2. Len(none) <= n
      BY <2>1, <3>1, EmptySeq
    <3>3. Take(none, n) = none
      BY <2>1, <3>2, TakeAll
    <3>4. QED
      BY <2>2, <3>1, <3>3 DEF PrincipalTopN
  <2>3. CASE q # <<>>
    <3> DEFINE r == Ranked(Kept(hits, Accepted(q)))
    <3>1. r \in Seq(HitSet)
      BY <1>1, RankedIs DEF Ranking, SearchInv
    <3>2. Take(Take(r, Depth), n) = Take(r, n)
      BY <2>1, <3>1, TakeOfTake
    <3>3. QED
      BY <2>3, <3>2 DEF PrincipalTopN
  <2>4. QED
    BY <2>2, <2>3
<1>2. QED
  BY <1>1, SearchInvAlways, PTL

-----------------------------------------------------------------------------
(* Side by side                                                            *)

\* Each of the modules behaves as it does alone, so that what is proved of them
\* holds of the specification that runs check.
LEMMA EachAlone == Spec => CalendarSpec /\ ShowSpec /\ SearchSpec /\ RegistrySpec
<1>1. Init => CalendarInit /\ ShowInit /\ SearchInit /\ RegistryInit
  BY DEF Init
<1>2. [Next]_vars => /\ [Midnight]_calendar /\ [ShowNext]_details
                     /\ [Find]_hits /\ [RegistryNext]_registry
  BY DEF Next, vars, CalendarMoves, ShowMoves, SearchMoves, RegistryMoves
<1>3. QED
  BY <1>1, <1>2, PTL DEF Spec, CalendarSpec, ShowSpec, SearchSpec, RegistrySpec
=============================================================================
