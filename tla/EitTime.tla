------------------------------- MODULE EitTime -------------------------------
(***************************************************************************)
(* The start of an event, from the 40 bits of the event table to what the   *)
(* database stores (utils.c). A time is a record [day, sec] of days since   *)
(* 1970 and seconds of the day: seconds since 1970 are day * 86400 + sec.   *)
(*                                                                         *)
(* The code computes with doubles where this module has exact fractions.    *)
(* For no date does a quotient come close enough to a whole number for      *)
(* rounding to matter: the numerators 100 * mjd - 1507820 and               *)
(* (10 * n - 149561) * 1000 are never multiples of the denominators (theorem*)
(* NoQuotientIsWhole of GuideProofs).                                       *)
(***************************************************************************)
EXTENDS Integers, Sequences, FiniteSets

\* A conversion to int drops the fraction of a / b, b > 0.
Trunc(a, b) == IF a < 0 THEN -((-a) \div b) ELSE a \div b

\* (mjd - 15078.2) / 365.25, (mjd - 14956.1 - days) / 30.6001.
EITDecodeMjd(mjd) ==
    LET yp == Trunc(100 * mjd - 1507820, 36525)
        days == Trunc(36525 * yp, 100)
        mp == Trunc((10 * (mjd - days) - 149561) * 1000, 306001)
        c == IF mp \in {14, 15} THEN 1 ELSE 0
    IN [year  |-> 1900 + yp + c,
        month |-> mp - 1 - c * 12,
        day   |-> mjd - 14956 - days - Trunc(306001 * mp, 10000)]

\* CVT_FROM_BCD: each half of a byte may be more than 9.
FromBcd(byte) == (byte \div 16) * 10 + (byte % 16)

\* -1: the start is unknown.
Unknown == [day |-> -1, sec |-> 86399]

DaysBefore == <<0, 31, 59, 90, 120, 151, 181, 212, 243, 273, 304, 334>>
Leap(year) == year % 4 = 0 /\ (year % 100 # 0 \/ year % 400 = 0)

\* Seeded fault: a leap year counts from its beginning.
TimegmEarly(d, hour, minute, second) ==
    IF d.year < 1970 \/ d.month \notin 1 .. 12 \/ d.day \notin 1 .. 31
          \/ hour > 23 \/ minute > 59 \/ second > 59
    THEN Unknown
    ELSE [day |-> 365 * (d.year - 1970) + DaysBefore[d.month] + d.day - 1
                    + Cardinality({y \in 1970 .. d.year : Leap(y)}),
          sec |-> (hour * 60 + minute) * 60 + second]

session_timegm(d, hour, minute, second) ==
    IF d.year < 1970 \/ d.month \notin 1 .. 12 \/ d.day \notin 1 .. 31
          \/ hour > 23 \/ minute > 59 \/ second > 59
    THEN Unknown
    ELSE [day |-> 365 * (d.year - 1970) + DaysBefore[d.month] + d.day - 1
                    + Cardinality({y \in 1970 .. d.year - 1 : Leap(y)})
                    + (IF d.month > 2 /\ Leap(d.year) THEN 1 ELSE 0),
          sec |-> (hour * 60 + minute) * 60 + second]

\* hms: the three bytes of the time.
EITConvertStartTime(mjd, hms) ==
    IF mjd = 65535 /\ hms = <<255, 255, 255>> THEN Unknown
    ELSE session_timegm(EITDecodeMjd(mjd), FromBcd(hms[1]), FromBcd(hms[2]), FromBcd(hms[3]))

\* 2^31 and 2^32 seconds.
MaxInt == [day |-> 24855, sec |-> 11648]
Wrap == [day |-> 49710, sec |-> 23296]

Before(a, b) == a.day < b.day \/ (a.day = b.day /\ a.sec < b.sec)

\* Seeded fault: nothing is cut off.
AsIntNot(t) == t

\* Seeded fault: one bit less.
AsIntHalf(t) == IF t.day < 12428 THEN t ELSE [t EXCEPT !.day = @ - 24856]

\* The argument start_time of database_addevent is an int: 32 bits of it.
AsInt(t) == IF Before(t, MaxInt) THEN t
            ELSE IF t.sec >= Wrap.sec THEN [day |-> t.day - Wrap.day, sec |-> t.sec - Wrap.sec]
            ELSE [day |-> t.day - Wrap.day - 1, sec |-> t.sec + 86400 - Wrap.sec]
=============================================================================
