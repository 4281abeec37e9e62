----------------------------- MODULE SourceDates -----------------------------
(***************************************************************************)
(* The dates features carry and the minimum-year filter that reads them:   *)
(* SORDAT of src/inputs/noaa-enc/s57-mapping.ts, src/shared/year-filter.ts *)
(* A timestamp is its UTC year, month and day, a raw date the length of    *)
(* its text, whether that is all digits, and what parseInt makes of the    *)
(* slices for its year, month and day.                                     *)
(***************************************************************************)
EXTENDS Integers, SequencesExt

CONSTANTS
    MinimumYear,    \* minimumYear of the source; 0 turns the filter off
    Undated,        \* no date, or one that does not parse
    NaN             \* what parseInt makes of a slice that starts with no number

ASSUME MinimumYearIsNat == MinimumYear \in Nat
ASSUME UndatedIsNoDate == Undated \notin [year : Int, month : Int, day : Int]
ASSUME NaNIsNoNumber == NaN \notin Int

\* parseInt reads the number a slice starts with: 201x is the year 201.
Sordats == [length : Nat, digits : BOOLEAN,
            year : Int \cup {NaN}, month : Int \cup {NaN}, day : Int \cup {NaN}]

\* Mutation of ParseSordat: any two digits are a month.
ParseSordatAnyMonth(raw) ==
    IF raw = Undated \/ raw.length \notin {6, 8}
       \/ raw.year = NaN \/ raw.month \notin 0 .. 99 THEN Undated
    ELSE IF raw.length = 6 THEN [year |-> raw.year, month |-> raw.month, day |-> 1]
    ELSE IF raw.day \notin 1 .. 31 THEN Undated
    ELSE [year |-> raw.year, month |-> raw.month, day |-> raw.day]

\* YYYYMM, the day defaulting to the first, or YYYYMMDD.
ParseSordat(raw) ==
    IF raw = Undated \/ raw.length \notin {6, 8}
       \/ raw.year = NaN \/ raw.month \notin 1 .. 12 THEN Undated
    ELSE IF raw.length = 6 THEN [year |-> raw.year, month |-> raw.month, day |-> 1]
    ELSE IF raw.day \notin 1 .. 31 THEN Undated
    ELSE [year |-> raw.year, month |-> raw.month, day |-> raw.day]

Leap(year) == year % 4 = 0 /\ (year % 100 # 0 \/ year % 400 = 0)

DaysIn(year, month) ==
    CASE month = 2 -> IF Leap(year) THEN 29 ELSE 28
      [] month \in {4, 6, 9, 11} -> 30
      [] OTHER -> 31

\* Date.UTC: years from 0 to 99 are of the 1900s, a month past December is of the
\* next year, and a day the month does not have is of the next month.
DateUtc(year, month, day) ==
    LET y == (IF year \in 0 .. 99 THEN 1900 + year ELSE year) + (month - 1) \div 12
        m == ((month - 1) % 12) + 1
    IN  IF day <= DaysIn(y, m) THEN [year |-> y, month |-> m, day |-> day]
        ELSE [year |-> y, month |-> m + 1, day |-> day - DaysIn(y, m)]

SordatToIsoTimestamp(raw) ==
    LET parts == ParseSordat(raw) IN
    IF parts = Undated THEN Undated ELSE DateUtc(parts.year, parts.month, parts.day)

IsOnOrAfter(timestamp, year) == timestamp = Undated \/ timestamp.year >= year

\* The filter keeps what is undated.
YearFilter(stamp) == MinimumYear <= 0 \/ IsOnOrAfter(stamp, MinimumYear)
=============================================================================
