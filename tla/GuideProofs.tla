----------------------------- MODULE GuideProofs -----------------------------
(***************************************************************************)
(* What the database keeps of the check-then-insert of the hardware         *)
(* threads, for any number of tuners, services, times and days, and that    *)
(* the starts of events are converted right on every day.                   *)
(***************************************************************************)
EXTENDS Guide, FiniteSetTheorems, TLAPS

\* A thread that goes on to insert because the query found nothing has no such
\* row yet, since only it inserts rows for its tuner.
OwnMissing ==
    \A t \in Tuners : pc[t] = "insert" /\ call[t].answered =>
        \A r \in rows : ~(r.by = t /\ r.key = call[t].key)

\* So a row that follows an answered query is its tuner's first.
Firsts == \A r \in rows : r.answered => r.copy = 0

Places == pc \in [Tuners -> {"idle", "select", "insert"}] /\ DOMAIN call = Tuners

IInv == Places /\ IsFiniteSet(rows) /\ OwnMissing /\ Firsts /\ OncePerTuner

LEMMA SelectKeeps ==
    ASSUME IInv, NEW t \in Tuners, Select(t)
    PROVE  IInv'
<1>1. rows' = rows /\ Places'
  BY DEF IInv, Places, Select
<1>2. ASSUME NEW u \in Tuners, pc'[u] = "insert", call'[u].answered, NEW r \in rows
      PROVE  ~(r.by = u /\ r.key = call'[u].key)
  <2>1. CASE u = t
    <3>1. CASE call' = [call EXCEPT ![t].answered = FALSE]
      BY <1>2, <2>1, <3>1 DEF IInv, Places
    <3>2. CASE pc' = [pc EXCEPT ![t] = "idle"]
      BY <1>2, <2>1, <3>2 DEF IInv, Places
    <3>3. CASE (\A x \in rows : x.key # call[t].key) /\ call' = call
      BY <2>1, <3>3
    <3> QED
      BY <3>1, <3>2, <3>3 DEF Select
  <2>2. CASE u # t
    <3>1. pc[u] = "insert" /\ call'[u] = call[u]
      BY <1>2, <2>2 DEF IInv, Places, Select
    <3> QED
      BY <1>2, <3>1 DEF IInv, OwnMissing
  <2> QED
    BY <2>1, <2>2
<1>3. OwnMissing'
  BY <1>1, <1>2 DEF OwnMissing
<1> QED
  BY <1>1, <1>3 DEF IInv, Firsts, OncePerTuner

LEMMA InsertKeeps ==
    ASSUME IInv, NEW t \in Tuners, Insert(t)
    PROVE  IInv'
<1> DEFINE same == {r \in rows : r.by = t /\ r.key = call[t].key}
<1> DEFINE row == [by |-> t, key |-> call[t].key, of |-> call[t].of,
                   answered |-> call[t].answered, copy |-> Cardinality(same)]
<1>1. /\ pc[t] = "insert" /\ pc' = [pc EXCEPT ![t] = "idle"]
      /\ call' = [call EXCEPT ![t] = NoCall]
      /\ rows' = rows \cup {row} \/ rows' = rows
  BY DEF Insert
<1>2. /\ row.by = t /\ row.key = call[t].key
      /\ row.answered = call[t].answered /\ row.copy = Cardinality(same)
  OBVIOUS
<1> HIDE DEF row
<1>3. Places' /\ IsFiniteSet(rows')
  BY <1>1, FS_AddElement DEF IInv, Places
<1>4. row.answered => same = {}
  BY <1>1, <1>2 DEF IInv, OwnMissing
<1>5. /\ Cardinality(same) \in Nat
      /\ Cardinality(same) = 0 <=> same = {}
  <2>1. IsFiniteSet(same)
    BY FS_Subset DEF IInv
  <2> QED
    BY <2>1, FS_CardinalityType, FS_EmptySet
<1>6. Firsts'
  BY <1>1, <1>2, <1>4, <1>5 DEF IInv, Firsts
<1>7. OncePerTuner'
  <2> SUFFICES ASSUME NEW r \in rows', NEW x \in rows', r.by = x.by, r.key = x.key, r.copy <= x.copy,
                      r # x, x.answered
               PROVE  FALSE
    BY DEF OncePerTuner
  <2>1. CASE r \in rows /\ x \in rows
    BY <2>1 DEF IInv, OncePerTuner
  <2>2. CASE x = row /\ r \in rows
    BY <1>2, <1>4, <2>2
  <2>3. CASE r = row /\ x \in rows
    <3>1. x \in same /\ x.copy = 0
      BY <1>2, <2>3 DEF IInv, Firsts
    <3> QED
      BY <1>2, <1>5, <2>3, <3>1
  <2> QED
    BY <1>1, <2>1, <2>2, <2>3
<1>8. OwnMissing'
  <2> SUFFICES ASSUME NEW u \in Tuners, pc'[u] = "insert", call'[u].answered, NEW r \in rows'
               PROVE  ~(r.by = u /\ r.key = call'[u].key)
    BY DEF OwnMissing
  <2>1. u # t /\ pc[u] = "insert" /\ call'[u] = call[u]
    BY <1>1 DEF IInv, Places
  <2> QED
    BY <1>1, <1>2, <2>1 DEF IInv, OwnMissing
<1> QED
  BY <1>3, <1>6, <1>7, <1>8 DEF IInv

LEMMA BeginKeeps ==
    ASSUME IInv, NEW t \in Tuners, NEW c, Begin(t, c)
    PROVE  IInv'
<1>1. rows' = rows /\ Places'
  BY DEF IInv, Places, Begin
<1>2. \A u \in Tuners : pc'[u] = "insert" => pc[u] = "insert" /\ call'[u] = call[u]
  BY DEF IInv, Places, Begin
<1> QED
  BY <1>1, <1>2 DEF IInv, OwnMissing, Firsts, OncePerTuner

\* However many tuners file events and channels, and whenever the program is
\* restarted, no tuner stores a row again, but after a query for it that failed.
THEOREM StoredOncePerTuner == Spec => []OncePerTuner
<1>1. Init => IInv
  BY FS_EmptySet DEF Init, IInv, Places, OwnMissing, Firsts, OncePerTuner
<1>2. IInv /\ [Next]_vars => IInv'
  <2> SUFFICES ASSUME IInv, [Next]_vars PROVE IInv'
    OBVIOUS
  <2>1. CASE Tomorrow \/ UNCHANGED vars
    BY <2>1 DEF Tomorrow, vars, IInv, Places, OwnMissing, Firsts, OncePerTuner
  <2>2. CASE Restart
    BY <2>2 DEF Restart, IInv, Places, OwnMissing, Firsts, OncePerTuner
  <2>3. ASSUME NEW t \in Tuners, Event(t) PROVE IInv'
    BY <2>3, BeginKeeps DEF Event
  <2>4. ASSUME NEW t \in Tuners, Service(t) PROVE IInv'
    BY <2>4, BeginKeeps DEF Service
  <2>5. ASSUME NEW t \in Tuners, Select(t) PROVE IInv'
    BY <2>5, SelectKeeps
  <2>6. ASSUME NEW t \in Tuners, Insert(t) PROVE IInv'
    BY <2>6, InsertKeeps
  <2> QED
    BY <2>1, <2>2, <2>3, <2>4, <2>5, <2>6 DEF Next
<1>3. IInv => OncePerTuner
  BY DEF IInv
<1> QED
  BY <1>1, <1>2, <1>3, PTL DEF Spec
-----------------------------------------------------------------------------
(* The conversion of a day's number into a date and back.                   *)

\* Stated as bounds, for a range between numerals the provers write out.
LEMMA Ends ==
    /\ LastDay \in Int /\ LastDay <= 65535 /\ LastDay >= 65535
    /\ Epoch \in Nat /\ Epoch <= 40587 /\ Epoch >= 40587
    /\ LastSecond \in Int /\ LastSecond <= 86399 /\ LastSecond >= 86399
    /\ FirstInt \in Int /\ FirstInt <= -24856 /\ FirstInt >= -24856
    /\ LastInt \in Int /\ LastInt <= 24855 /\ LastInt >= 24855
BY DEF Epoch, LastDay, LastSecond, FirstInt, LastInt

\* The year begins on 1 March 1900 and is Mar 1900 + 4 * q + r, k its day.
YearOf(n, q, r, k) ==
    /\ q \in Nat /\ r \in {0, 1, 2, 3} /\ k \in Nat /\ k <= 365
    /\ n = 15079 + 1461 * q + 365 * r + k

LEMMA Years ==
    ASSUME NEW n \in Nat, n >= 15079
    PROVE  \E q, k \in Nat, r \in {0, 1, 2, 3} :
              /\ YearOf(n, q, r, k)
              /\ Trunc(100 * n - 1507820, 36525) = 4 * q + r
              /\ Trunc(36525 * (4 * q + r), 100) = 1461 * q + 365 * r
<1> DEFINE y == (100 * n - 1507820) \div 36525
<1>1. y \in Nat /\ 36525 * y <= 100 * n - 1507820 /\ 100 * n - 1507820 < 36525 * y + 36525
  OBVIOUS
<1>2. Trunc(100 * n - 1507820, 36525) = y
  BY DEF Trunc
<1> HIDE DEF y
<1>3. PICK q \in Nat, r \in {0, 1, 2, 3} : y = 4 * q + r
  <2>1. y \div 4 \in Nat /\ y % 4 \in {0, 1, 2, 3} /\ y = 4 * (y \div 4) + (y % 4)
    BY <1>1
  <2> QED
    BY <2>1
<1>4. (36525 * (4 * q + r)) \div 100 = 1461 * q + 365 * r
  OBVIOUS
<1>5. Trunc(36525 * (4 * q + r), 100) = 1461 * q + 365 * r
  BY <1>4 DEF Trunc
<1> DEFINE k == n - 15079 - 1461 * q - 365 * r
<1>6. k \in Nat /\ k <= 365 /\ n = 15079 + 1461 * q + 365 * r + k
  BY <1>1, <1>3
<1> HIDE DEF k
<1> QED
  BY <1>2, <1>3, <1>5, <1>6 DEF YearOf

Offset == <<0, 31, 61, 92, 122, 153, 184, 214, 245, 275, 306, 337>>

LEMMA Months ==
    ASSUME NEW k \in Nat, k <= 365
    PROVE  \E m \in 4 .. 15 :
              /\ Trunc((10 * (k + 15079) - 149561) * 1000, 306001) = m
              /\ Trunc(306001 * m, 10000) = Offset[m - 3] + 122
              /\ k - Offset[m - 3] \in 0 .. 30
<1> DEFINE m == (10000 * k + 1229000) \div 306001
<1>1. m \in 4 .. 15 /\ 306001 * m <= 10000 * k + 1229000 /\ 10000 * k + 1229000 < 306001 * m + 306001
  OBVIOUS
<1>2. Trunc((10 * (k + 15079) - 149561) * 1000, 306001) = m
  BY DEF Trunc
<1> HIDE DEF m
<1>3. ASSUME NEW x \in Nat PROVE Trunc(x, 10000) = x \div 10000
  BY DEF Trunc
<1>4. Trunc(306001 * m, 10000) = (306001 * m) \div 10000
  BY <1>1, <1>3
<1>5. (306001 * m) \div 10000 = Offset[m - 3] + 122
  BY <1>1 DEF Offset
<1>6. k - Offset[m - 3] \in 0 .. 30
  BY <1>1 DEF Offset
<1> QED
  BY <1>1, <1>2, <1>4, <1>5, <1>6

\* The code divides doubles: no quotient is whole, or nearly so, on any day, so that
\* what rounding does to it is cut off with the fraction.
THEOREM NoQuotientIsWhole ==
    ASSUME NEW n \in Nat, n <= LastDay
    PROVE  /\ (100 * n - 1507820) % 36525 # 0
           /\ \A days \in Int : 0 <= n - days /\ n - days <= LastDay =>
                 ((10 * (n - days) - 149561) * 1000) % 306001 # 0
           /\ \A mp \in 1 .. 15 : (306001 * mp) % 10000 # 0
<1>1. (100 * n - 1507820) % 36525 # 0
  OBVIOUS
<1>2. ASSUME NEW e \in Nat, e <= 65535 PROVE ((10 * e - 149561) * 1000) % 306001 # 0
  <2> DEFINE a == 10 * e - 149561
  <2>1. ASSUME NEW z \in Int PROVE 1000 * a # 306001 * z
    <3>1. a \in Int /\ -149561 <= a /\ a <= 505789
      BY <1>2
    <3>2. SUFFICES ASSUME 1000 * a = 306001 * z PROVE FALSE
      OBVIOUS
    <3>3. z \in {0, 1000}
      BY <3>1, <3>2
    <3> QED
      BY <3>2, <3>3
  <2>2. 1000 * a = 306001 * ((1000 * a) \div 306001) + ((1000 * a) % 306001) /\ (1000 * a) \div 306001 \in Int
    OBVIOUS
  <2> QED
    BY <2>1, <2>2
<1>3. \A mp \in 1 .. 15 : (306001 * mp) % 10000 # 0
  OBVIOUS
<1> QED
  BY <1>1, <1>2, <1>3 DEF LastDay

LEMMA LeapYears ==
    ASSUME NEW y \in Nat, 1970 <= y, y <= 2099
    PROVE  Leap(y) <=> y % 4 = 0
BY DEF Leap

LEMMA LeapDays ==
    ASSUME NEW y \in Nat, 1969 <= y, y <= 2099
    PROVE  Cardinality({z \in 1970 .. y : Leap(z)}) = y \div 4 - 492
<1> DEFINE S == {z \in 1970 .. y : Leap(z)}
<1> DEFINE T == 493 .. y \div 4
<1> DEFINE f == [k \in T |-> 4 * k]
<1>1. \A z \in S : z \in Nat /\ 1970 <= z /\ z <= y /\ z % 4 = 0
  BY LeapYears
<1>2. \A k \in T : 4 * k \in S
  BY LeapYears
<1>3. f \in Bijection(T, S)
  <2>1. f \in [T -> S]
    BY <1>2
  <2>2. \A a, b \in T : f[a] = f[b] => a = b
    OBVIOUS
  <2>3. ASSUME NEW z \in S PROVE \E k \in T : f[k] = z
    <3>1. z \div 4 \in T /\ 4 * (z \div 4) = z
      BY <1>1
    <3> QED
      BY <3>1
  <2> QED
    BY <2>1, <2>2, <2>3 DEF Bijection, Injection, Surjection, IsInjective
<1>4. IsFiniteSet(T) /\ Cardinality(T) = y \div 4 - 492
  <2>1. y \div 4 \in Int /\ y \div 4 >= 492
    OBVIOUS
  <2> QED
    BY <2>1, FS_Interval
<1> QED
  BY <1>3, <1>4, FS_Bijection DEF ExistsBijection

\* The date of the day k of the year q, r is in its month m - 3.
DateOf(n, q, r, k, m) ==
    /\ YearOf(n, q, r, k) /\ m \in 4 .. 15 /\ k - Offset[m - 3] \in 0 .. 30
    /\ m \in {14, 15} =>
          EITDecodeMjd(n) = [year |-> 1901 + 4 * q + r, month |-> m - 13, day |-> k - Offset[m - 3] + 1]
    /\ m \notin {14, 15} =>
          EITDecodeMjd(n) = [year |-> 1900 + 4 * q + r, month |-> m - 1, day |-> k - Offset[m - 3] + 1]

LEMMA Dates ==
    ASSUME NEW n \in Nat, n >= 15079
    PROVE  \E q, k, r, m : DateOf(n, q, r, k, m)
<1>1. PICK q \in Nat, k \in Nat, r \in {0, 1, 2, 3} :
         /\ YearOf(n, q, r, k)
         /\ Trunc(100 * n - 1507820, 36525) = 4 * q + r
         /\ Trunc(36525 * (4 * q + r), 100) = 1461 * q + 365 * r
  BY Years
<1>2. PICK m \in 4 .. 15 :
         /\ Trunc((10 * (k + 15079) - 149561) * 1000, 306001) = m
         /\ Trunc(306001 * m, 10000) = Offset[m - 3] + 122
         /\ k - Offset[m - 3] \in 0 .. 30
  BY <1>1, Months DEF YearOf
<1>3. n - (1461 * q + 365 * r) = k + 15079
  BY <1>1 DEF YearOf
<1> DEFINE c == IF m \in {14, 15} THEN 1 ELSE 0
<1>4. EITDecodeMjd(n) = [year  |-> 1900 + (4 * q + r) + c, month |-> m - 1 - c * 12,
                         day   |-> n - 14956 - (1461 * q + 365 * r) - (Offset[m - 3] + 122)]
  BY <1>1, <1>2, <1>3 DEF EITDecodeMjd
<1>5. n - 14956 - (1461 * q + 365 * r) - (Offset[m - 3] + 122) = k - Offset[m - 3] + 1
  <2>1. Offset[m - 3] \in Int
    BY DEF Offset
  <2> QED
    BY <1>3, <2>1
<1>6. DateOf(n, q, r, k, m)
  BY <1>1, <1>2, <1>4, <1>5 DEF DateOf
<1> QED
  BY <1>6

\* Days before 1 March 1900 are of no year that counts.
LEMMA EarlyDates ==
    ASSUME NEW n \in Nat, n < 15079
    PROVE  EITDecodeMjd(n).year \in Int /\ EITDecodeMjd(n).year < 1970
<1> DEFINE yp == Trunc(100 * n - 1507820, 36525)
<1>1. yp \in Int /\ yp <= 0
  BY DEF Trunc
<1> HIDE DEF yp
<1> DEFINE mp == Trunc((10 * (n - Trunc(36525 * yp, 100)) - 149561) * 1000, 306001)
<1> DEFINE c == IF mp \in {14, 15} THEN 1 ELSE 0
<1>2. EITDecodeMjd(n).year = 1900 + yp + c
  BY DEF EITDecodeMjd, yp
<1>3. c \in {0, 1}
  OBVIOUS
<1> QED
  BY <1>1, <1>2, <1>3

\* The date of a day counts, from 1970 on, the days it comes after 1 January 1970.
LEMMA Timegm ==
    ASSUME NEW n \in Nat, n >= Epoch, n <= LastDay,
           NEW h \in Nat, NEW i \in Nat, NEW s \in Nat, ~(h > 23 \/ i > 59 \/ s > 59)
    PROVE  session_timegm(EITDecodeMjd(n), h, i, s) = [day |-> n - Epoch, sec |-> (h * 60 + i) * 60 + s]
<1>1. PICK q, k, r, m : DateOf(n, q, r, k, m)
  BY Dates, Ends
<1>2. /\ Epoch = 40587 /\ n >= 40587 /\ n <= 65535
      /\ q \in Nat /\ r \in {0, 1, 2, 3} /\ k \in Nat /\ k <= 365 /\ m \in 4 .. 15
      /\ n = 15079 + 1461 * q + 365 * r + k
      /\ k - Offset[m - 3] \in 0 .. 30 /\ Offset[m - 3] \in Nat
  BY <1>1, Ends DEF DateOf, YearOf, Offset
<1> DEFINE d == EITDecodeMjd(n)
<1> HIDE DEF d
<1>3. CASE m \in {14, 15}
  <2>1. /\ d.year = 1901 + 4 * q + r /\ d.month = m - 13 /\ d.day = k - Offset[m - 3] + 1
    BY <1>1, <1>3 DEF DateOf, d
  <2>2. d.year - 1 \in Nat /\ 1969 <= d.year - 1 /\ d.year - 1 <= 2037
    BY <1>2, <1>3, <2>1 DEF Offset
  <2>3. Cardinality({y \in 1970 .. d.year - 1 : Leap(y)}) = q - 17
    BY <1>2, <2>1, <2>2, LeapDays
  <2>4. DaysBefore[d.month] = Offset[m - 3] - 306
    BY <1>3, <2>1 DEF DaysBefore, Offset
  <2>5. d.month \in 1 .. 12 /\ d.day \in 1 .. 31 /\ ~(d.month > 2)
    BY <1>2, <1>3, <2>1
  <2> QED
    BY <1>2, <2>1, <2>2, <2>3, <2>4, <2>5 DEF session_timegm, d
<1>4. CASE m \notin {14, 15}
  <2>1. /\ d.year = 1900 + 4 * q + r /\ d.month = m - 1 /\ d.day = k - Offset[m - 3] + 1
    BY <1>1, <1>4 DEF DateOf, d
  <2>2. d.year \in Nat /\ 1970 <= d.year /\ d.year <= 2038
    BY <1>2, <1>4, <2>1 DEF Offset
  <2> DEFINE leaps == Cardinality({y \in 1970 .. d.year - 1 : Leap(y)})
  <2> DEFINE extra == IF Leap(d.year) THEN 1 ELSE 0
  <2> DEFINE before == DaysBefore[d.month]
  <2>3. leaps = (d.year - 1) \div 4 - 492
    BY <2>2, LeapDays
  <2>4. extra = IF r = 0 THEN 1 ELSE 0
    BY <1>2, <2>1, <2>2, LeapYears
  <2>5. before = Offset[m - 3] + 59
    BY <1>2, <1>4, <2>1 DEF DaysBefore, Offset
  <2>6. d.month \in 1 .. 12 /\ d.day \in 1 .. 31 /\ d.month > 2
    BY <1>2, <1>4, <2>1
  <2>7. session_timegm(d, h, i, s) =
           [day |-> 365 * (d.year - 1970) + before + d.day - 1 + leaps + extra, sec |-> (h * 60 + i) * 60 + s]
    BY <2>2, <2>6 DEF session_timegm
  <2> HIDE DEF leaps, extra, before
  <2>8. leaps + extra = q - 17 /\ leaps \in Int /\ extra \in Int
    BY <1>2, <2>1, <2>3, <2>4
  <2>9. 365 * (d.year - 1970) + before + d.day - 1 + leaps + extra = n - Epoch
    BY <1>2, <2>1, <2>5, <2>8
  <2> QED
    BY <2>7, <2>9 DEF d
<1> QED
  BY <1>3, <1>4

LEMMA EarlyTimegm ==
    ASSUME NEW n \in Nat, n < Epoch, NEW h, NEW i, NEW s
    PROVE  session_timegm(EITDecodeMjd(n), h, i, s) = Unknown
<1>1. EITDecodeMjd(n).year \in Int /\ EITDecodeMjd(n).year < 1970
  <2>1. CASE n < 15079
    BY <2>1, EarlyDates
  <2>2. CASE n >= 15079
    <3>1. PICK q, k, r, m : DateOf(n, q, r, k, m)
      BY <2>2, Dates
    <3>2. /\ n < 40587
          /\ q \in Nat /\ r \in {0, 1, 2, 3} /\ k \in Nat /\ k <= 365 /\ m \in 4 .. 15
          /\ n = 15079 + 1461 * q + 365 * r + k /\ k - Offset[m - 3] \in 0 .. 30
      BY <3>1, Ends DEF DateOf, YearOf
    <3>3. CASE m \in {14, 15}
      <4>1. EITDecodeMjd(n).year = 1901 + 4 * q + r
        BY <3>1, <3>3 DEF DateOf
      <4>2. k >= 306
        BY <3>2, <3>3 DEF Offset
      <4> QED
        BY <3>2, <4>1, <4>2
    <3>4. CASE m \notin {14, 15}
      <4>1. EITDecodeMjd(n).year = 1900 + 4 * q + r
        BY <3>1, <3>4 DEF DateOf
      <4> QED
        BY <3>2, <4>1
    <3> QED
      BY <3>3, <3>4
  <2> QED
    BY <2>1, <2>2
<1> QED
  BY <1>1 DEF session_timegm
\* The digits of a time of day come out as they were broadcast.
LEMMA Digits ==
    ASSUME NEW time \in Broadcast, time # NoTime
    PROVE  /\ time[1] \in Nat /\ time[2] \in Nat /\ time[3] \in Nat
           /\ \A i \in 1 .. 3 : FromBcd(Bytes(time)[i]) = time[i]
           /\ Bytes(time)[1] # 255
<1>1. time[1] \in TwoDigits /\ time[2] \in TwoDigits /\ time[3] \in TwoDigits
  BY BroadcastAssumption
<1>2. Bytes(time) = [i \in 1 .. 3 |-> Bcd(time[i])]
  BY DEF Bytes
<1>3. \A n \in TwoDigits : n \in Nat /\ n <= 99 /\ FromBcd(Bcd(n)) = n /\ Bcd(n) # 255
  BY DEF TwoDigits, FromBcd, Bcd
<1> QED
  BY <1>1, <1>2, <1>3

\* EITConvertStartTime, on any day of 16 bits.
LEMMA Converted ==
    ASSUME mjd \in 0 .. LastDay
    PROVE  StartsAreCounted
<1> SUFFICES ASSUME NEW time \in Broadcast
             PROVE  EITConvertStartTime(mjd, Bytes(time)) = TrueStart(mjd, time)
  BY DEF StartsAreCounted
<1>1. mjd \in Nat /\ mjd <= LastDay /\ Epoch \in Nat
  BY Ends DEF Epoch
<1>2. CASE time = NoTime
  <2>1. Bytes(time) = <<255, 255, 255>>
    BY <1>2 DEF Bytes
  <2>2. FromBcd(255) = 165
    BY DEF FromBcd
  <2>3. session_timegm(EITDecodeMjd(mjd), 165, 165, 165) = Unknown
    BY DEF session_timegm
  <2> QED
    BY <1>2, <2>1, <2>2, <2>3 DEF EITConvertStartTime, TrueStart
<1>3. CASE time # NoTime
  <2>1. EITConvertStartTime(mjd, Bytes(time)) = session_timegm(EITDecodeMjd(mjd), time[1], time[2], time[3])
    BY <1>3, Digits DEF EITConvertStartTime
  <2>2. CASE mjd < Epoch
    BY <1>1, <2>1, <2>2, EarlyTimegm DEF TrueStart
  <2>3. CASE time[1] > 23 \/ time[2] > 59 \/ time[3] > 59
    BY <2>1, <2>3 DEF TrueStart, session_timegm
  <2>4. CASE mjd >= Epoch /\ ~(time[1] > 23 \/ time[2] > 59 \/ time[3] > 59)
    <3>1. time[1] \in Nat /\ time[2] \in Nat /\ time[3] \in Nat
      BY <1>3, Digits
    <3> DEFINE Right(h, i, s) ==
          session_timegm(EITDecodeMjd(mjd), h, i, s) = [day |-> mjd - Epoch, sec |-> (h * 60 + i) * 60 + s]
    <3>2. \A h, i, s \in Nat : ~(h > 23 \/ i > 59 \/ s > 59) => Right(h, i, s)
      BY <1>1, <2>4, Timegm
    <3>3. TrueStart(mjd, time) = [day |-> mjd - Epoch, sec |-> (time[1] * 60 + time[2]) * 60 + time[3]]
      BY <1>1, <1>3, <2>4 DEF TrueStart
    <3> HIDE DEF Right
    <3>4. Right(time[1], time[2], time[3])
      BY <2>4, <3>1, <3>2
    <3> QED
      BY <2>1, <3>3, <3>4 DEF Right
  <2> QED
    BY <1>1, <2>2, <2>3, <2>4
<1> QED
  BY <1>2, <1>3

-----------------------------------------------------------------------------
(* What is stored for an event.                                             *)

\* The times 16 bits of days reach from 1970 on, and Unknown.
Times == [day : -1 .. LastDay - Epoch, sec : 0 .. LastSecond]

\* What is filed as an event has the start of that event, cut to 32 bits.
Filed(x) ==
    \/ /\ x.key \in Keys /\ x.key.table = "CHANNELS"
    \/ /\ x.of.mjd \in 0 .. LastDay /\ x.of.time \in Broadcast
       /\ \E s \in Services :
             x.key = [table |-> "EVENTS", service |-> s, start |-> AsInt(TrueStart(x.of.mjd, x.of.time))]

FInv ==
    /\ mjd \in 0 .. LastDay /\ Places
    /\ \A t \in Tuners : pc[t] # "idle" => Filed(call[t])
    /\ \A r \in rows : r.by \in Tuners /\ Filed(r)

LEMMA TrueStarts ==
    ASSUME NEW day \in 0 .. LastDay, NEW time \in Broadcast
    PROVE  TrueStart(day, time) \in Times
<1>1. time # NoTime => time[1] \in Nat /\ time[2] \in Nat /\ time[3] \in Nat
  BY BroadcastAssumption DEF TwoDigits
<1> QED
  BY <1>1, Ends DEF TrueStart, Unknown, Times

\* 32 bits tell the times apart, and keep those until 2038-01-19 03:14:07.
LEMMA IntTimes ==
    ASSUME NEW a \in Times
    PROVE  /\ AsInt(a) \in [day : FirstInt .. LastInt, sec : 0 .. LastSecond]
           /\ Before(AsInt(a), MaxInt)
           /\ Before(a, MaxInt) => AsInt(a) = a
           /\ \A b \in Times : AsInt(a) = AsInt(b) => a = b
<1> DEFINE Int32(t) == IF Before(t, MaxInt) THEN <<t.day, t.sec>>
                       ELSE IF t.sec >= 23296 THEN <<t.day - 49710, t.sec - 23296>>
                       ELSE <<t.day - 49711, t.sec + 63104>>
<1>1. \A t \in Times : t.day \in -1 .. LastDay - Epoch /\ t.sec \in 0 .. LastSecond /\ t = [day |-> t.day, sec |-> t.sec]
  BY Ends DEF Times
<1>2. \A t \in Times : AsInt(t).day = Int32(t)[1] /\ AsInt(t).sec = Int32(t)[2]
         /\ AsInt(t) = [day |-> AsInt(t).day, sec |-> AsInt(t).sec]
  BY <1>1, Ends DEF AsInt, Wrap
<1>3. \A t \in Times : /\ Int32(t)[1] \in FirstInt .. LastInt /\ Int32(t)[2] \in 0 .. LastSecond
                       /\ Int32(t)[1] < 24855 \/ (Int32(t)[1] = 24855 /\ Int32(t)[2] < 11648)
  BY <1>1, Ends DEF Before, MaxInt
<1>4. ASSUME NEW b \in Times, AsInt(a) = AsInt(b) PROVE a = b
  <2>1. Int32(a)[1] = Int32(b)[1] /\ Int32(a)[2] = Int32(b)[2]
    BY <1>2, <1>4
  <2>2. a.day = b.day /\ a.sec = b.sec
    BY <1>1, <2>1, Ends DEF Before, MaxInt
  <2> QED
    BY <1>1, <2>2
<1>5. Before(a, MaxInt) => AsInt(a) = a
  BY DEF AsInt
<1>6. AsInt(a) \in [day : FirstInt .. LastInt, sec : 0 .. LastSecond]
  BY <1>2, <1>3
<1>7. Before(AsInt(a), MaxInt)
  BY <1>2, <1>3, Ends DEF Before, MaxInt
<1> QED
  BY <1>4, <1>5, <1>6, <1>7

LEMMA FiledKeys ==
    ASSUME NEW x, Filed(x)
    PROVE  /\ x.key \in Keys
           /\ x.key.table = "EVENTS" =>
                 /\ TrueStart(x.of.mjd, x.of.time) \in Times
                 /\ x.key.start = AsInt(TrueStart(x.of.mjd, x.of.time))
<1>1. CASE x.key \in Keys /\ x.key.table = "CHANNELS"
  BY <1>1
<1>2. CASE ~(x.key \in Keys /\ x.key.table = "CHANNELS")
  <2>1. PICK s \in Services :
           x.key = [table |-> "EVENTS", service |-> s, start |-> AsInt(TrueStart(x.of.mjd, x.of.time))]
    BY <1>2 DEF Filed
  <2> DEFINE start == TrueStart(x.of.mjd, x.of.time)
  <2>2. start \in Times
    BY <1>2, TrueStarts DEF Filed
  <2> HIDE DEF start
  <2>3. AsInt(start) \in [day : FirstInt .. LastInt, sec : 0 .. LastSecond]
    BY <2>2, IntTimes
  <2>4. x.key = [table |-> "EVENTS", service |-> s, start |-> AsInt(start)]
    BY <2>1 DEF start
  <2>5. x.key \in Keys
    BY <2>3, <2>4 DEF Keys
  <2> QED
    BY <2>2, <2>4, <2>5 DEF start
<1> QED
  BY <1>1, <1>2

\* A step that keeps the rows, and which row the threads that are busy are about.
LEMMA FiledKept ==
    ASSUME FInv, mjd' \in 0 .. LastDay, Places', rows' = rows,
           \A u \in Tuners : pc'[u] # "idle" =>
              pc[u] # "idle" /\ call'[u].key = call[u].key /\ call'[u].of = call[u].of
    PROVE  FInv'
<1>1. \A u \in Tuners : pc'[u] # "idle" => Filed(call'[u])
  BY DEF FInv, Filed
<1>2. \A r \in rows' : r.by \in Tuners /\ Filed(r)
  BY DEF FInv
<1> QED
  BY <1>1, <1>2 DEF FInv, Filed

LEMMA FiledInit == Init => FInv
BY DaysAssumption, Ends DEF Init, FInv, Places

LEMMA EventFiles ==
    ASSUME FInv, NEW t \in Tuners, Event(t)
    PROVE  FInv'
<1>1. PICK s \in Services, time \in Broadcast :
         Begin(t, [key |-> [table |-> "EVENTS", service |-> s,
                            start |-> AsInt(EITConvertStartTime(mjd, Bytes(time)))],
                   of |-> [mjd |-> mjd, time |-> time], answered |-> TRUE])
  BY DEF Event
<1> DEFINE c == [key |-> [table |-> "EVENTS", service |-> s, start |-> AsInt(TrueStart(mjd, time))],
                 of |-> [mjd |-> mjd, time |-> time], answered |-> TRUE]
<1>2. Begin(t, c)
  BY <1>1, Converted DEF FInv, StartsAreCounted
<1>3. Filed(c)
  <2>1. c.of.mjd = mjd /\ c.of.time = time
        /\ c.key = [table |-> "EVENTS", service |-> s, start |-> AsInt(TrueStart(mjd, time))]
    OBVIOUS
  <2> HIDE DEF c
  <2> QED
    BY <2>1 DEF Filed, FInv
<1> HIDE DEF c
<1> QED
  BY <1>2, <1>3 DEF Begin, FInv, Places, Filed

LEMMA ServiceFiles ==
    ASSUME FInv, NEW t \in Tuners, Service(t)
    PROVE  FInv'
<1>1. PICK s \in Services :
         Begin(t, [key |-> [table |-> "CHANNELS", service |-> s, serial |-> Serial[t]],
                   of |-> "none", answered |-> TRUE])
  BY DEF Service
<1> DEFINE c == [key |-> [table |-> "CHANNELS", service |-> s, serial |-> Serial[t]],
                 of |-> "none", answered |-> TRUE]
<1>2. c.key \in Keys /\ c.key.table = "CHANNELS"
  BY SerialAssumption DEF Keys
<1>3. Begin(t, c)
  BY <1>1
<1> HIDE DEF c
<1>4. Filed(c)
  BY <1>2 DEF Filed
<1> QED
  BY <1>3, <1>4 DEF Begin, FInv, Places, Filed

LEMMA InsertFiles ==
    ASSUME FInv, NEW t \in Tuners, Insert(t)
    PROVE  FInv'
<1> DEFINE same == {r \in rows : r.by = t /\ r.key = call[t].key}
<1> DEFINE row == [by |-> t, key |-> call[t].key, of |-> call[t].of,
                   answered |-> call[t].answered, copy |-> Cardinality(same)]
<1>1. /\ pc[t] = "insert" /\ pc' = [pc EXCEPT ![t] = "idle"] /\ mjd' = mjd
      /\ call' = [call EXCEPT ![t] = NoCall]
      /\ rows' = rows \cup {row} \/ rows' = rows
  BY DEF Insert
<1>2. row.by = t /\ row.key = call[t].key /\ row.of = call[t].of
  OBVIOUS
<1> HIDE DEF row
<1>3. Filed(call[t])
  BY <1>1 DEF FInv
<1>4. Filed(row)
  BY <1>2, <1>3 DEF Filed
<1>5. \A r \in rows' : r.by \in Tuners /\ Filed(r)
  BY <1>1, <1>2, <1>4 DEF FInv
<1>6. /\ \A u \in Tuners : pc'[u] # "idle" => pc[u] # "idle" /\ call'[u] = call[u]
      /\ Places'
  BY <1>1 DEF FInv, Places
<1>7. \A u \in Tuners : pc'[u] # "idle" => Filed(call'[u])
  BY <1>6 DEF FInv
<1>8. mjd' \in 0 .. LastDay
  BY <1>1 DEF FInv
<1> QED
  BY <1>5, <1>6, <1>7, <1>8 DEF FInv, Filed

LEMMA FiledStep == FInv /\ [Next]_vars => FInv'
<1> SUFFICES ASSUME FInv, [Next]_vars PROVE FInv'
  OBVIOUS
<1>1. CASE Tomorrow
  <2>1. mjd' \in 0 .. LastDay
    BY <1>1, DaysAssumption, Ends DEF Tomorrow, FInv
  <2>2. /\ rows' = rows /\ pc' = pc /\ call' = call /\ Places'
    BY <1>1 DEF Tomorrow, FInv, Places
  <2> QED
    BY <2>1, <2>2, FiledKept
<1>2. CASE UNCHANGED vars
  <2>1. mjd' = mjd /\ rows' = rows /\ pc' = pc /\ call' = call
    BY <1>2 DEF vars
  <2>2. Places' /\ mjd' \in 0 .. LastDay
    BY <2>1 DEF FInv, Places
  <2> QED
    BY <2>1, <2>2, FiledKept
<1>3. CASE Restart
  <2>1. mjd' = mjd /\ rows' = rows /\ Places' /\ \A u \in Tuners : pc'[u] = "idle"
    BY <1>3 DEF Restart, Places
  <2>2. mjd' \in 0 .. LastDay
    BY <2>1 DEF FInv
  <2> QED
    BY <2>1, <2>2, FiledKept
<1>4. ASSUME NEW t \in Tuners, Select(t) PROVE FInv'
  <2>1. /\ rows' = rows /\ mjd' = mjd /\ Places'
        /\ \A u \in Tuners : pc'[u] # "idle" =>
              pc[u] # "idle" /\ call'[u].key = call[u].key /\ call'[u].of = call[u].of
    <3>1. CASE call' = [call EXCEPT ![t].answered = FALSE]
      <4>1. /\ call'[t].key = call[t].key /\ call'[t].of = call[t].of
            /\ \A u \in Tuners : u # t => call'[u] = call[u]
        BY <3>1 DEF FInv, Places
      <4> QED
        BY <1>4, <3>1, <4>1 DEF Select, FInv, Places
    <3>2. CASE call' # [call EXCEPT ![t].answered = FALSE]
      BY <1>4, <3>2 DEF Select, FInv, Places
    <3> QED
      BY <3>1, <3>2
  <2>2. mjd' \in 0 .. LastDay
    BY <2>1 DEF FInv
  <2> QED
    BY <2>1, <2>2, FiledKept
<1> QED
  BY <1>1, <1>2, <1>3, <1>4, EventFiles, ServiceFiles, InsertFiles DEF Next

LEMMA FiledAlways == Spec => []FInv
BY FiledInit, FiledStep, PTL DEF Spec

\* On every day that 16 bits can number, and for every time of day, the detour over
\* the date ends at the right second.
THEOREM StartsCount == Spec => []StartsAreCounted
<1>1. FInv => StartsAreCounted
  BY Converted DEF FInv
<1> QED
  BY <1>1, FiledAlways, PTL

\* The state of the guide is well typed, and no start stored is beyond 32 bits.
THEOREM TypeCorrect == Spec => []TypeOK
<1>1. FInv => TypeOK
  <2> SUFFICES ASSUME FInv PROVE TypeOK
    OBVIOUS
  <2>1. \A t \in Tuners : pc[t] # "idle" => call[t].key \in Keys
    BY FiledKeys DEF FInv
  <2>2. \A r \in rows : r.by \in Tuners /\ r.key \in Keys
    BY FiledKeys DEF FInv
  <2>3. ASSUME NEW r \in rows, r.key.table = "EVENTS" PROVE Before(r.key.start, MaxInt)
    <3>1. Filed(r)
      BY DEF FInv
    <3>2. /\ TrueStart(r.of.mjd, r.of.time) \in Times
          /\ r.key.start = AsInt(TrueStart(r.of.mjd, r.of.time))
      BY <2>3, <3>1, FiledKeys
    <3> QED
      BY <3>2, IntTimes
  <2> QED
    BY <2>1, <2>2, <2>3 DEF TypeOK, FInv, Places
<1> QED
  BY <1>1, FiledAlways, PTL

\* An event is stored under its start until 2038, and under one that is no event's
\* of another start afterwards, whatever days and times are broadcast, and however tuners,
\* failing statements and restarts follow each other.
THEOREM EventsKeepTheirStart == Spec => []StartsAreStored
<1>1. ASSUME FInv, NEW r \in rows, r.key.table = "EVENTS"
      PROVE  LET start == TrueStart(r.of.mjd, r.of.time) IN
             /\ Before(start, MaxInt) => r.key.start = start
             /\ \A s \in rows : s.key = r.key => TrueStart(s.of.mjd, s.of.time) = start
  <2>1. ASSUME NEW x \in rows, x.key.table = "EVENTS"
        PROVE  /\ TrueStart(x.of.mjd, x.of.time) \in Times
               /\ x.key.start = AsInt(TrueStart(x.of.mjd, x.of.time))
    <3>1. Filed(x)
      BY <1>1 DEF FInv
    <3> QED
      BY <2>1, <3>1, FiledKeys
  <2>2. Before(TrueStart(r.of.mjd, r.of.time), MaxInt) => r.key.start = TrueStart(r.of.mjd, r.of.time)
    BY <1>1, <2>1, IntTimes
  <2>3. ASSUME NEW s \in rows, s.key = r.key
        PROVE  TrueStart(s.of.mjd, s.of.time) = TrueStart(r.of.mjd, r.of.time)
    <3>1. AsInt(TrueStart(s.of.mjd, s.of.time)) = AsInt(TrueStart(r.of.mjd, r.of.time))
      BY <1>1, <2>1, <2>3
    <3> QED
      BY <1>1, <2>1, <2>3, <3>1, IntTimes
  <2> QED
    BY <2>2, <2>3
<1>2. FInv => StartsAreStored
  BY <1>1 DEF StartsAreStored
<1> QED
  BY <1>2, FiledAlways, PTL
=============================================================================
