-------------------------------- MODULE Guide --------------------------------
(***************************************************************************)
(* The programme guide: the hardware threads of the tuners decode events    *)
(* and services and file them in one database (process_eit of dvbhardware.c,*)
(* channel_addSDT_Info2 of channels.c, database.c), each by looking for the *)
(* row and then inserting it. The database is on disk: rows outlive the     *)
(* program. Days pass; the conversions are checked on each.                 *)
(***************************************************************************)
EXTENDS EitTime

CONSTANTS
    Tuners,
    Serial,         \* the serial number of each tuner
    Services,       \* [onid, chid]
    Broadcast,      \* times of day: hour, minute and second, or NoTime
    FilingDays,     \* bound: the days whose events are filed
    FirstDays,      \* bound: where a stretch of days begins
    LastDays,       \* bound: where one ends
    MaxUnanswered   \* bound: the rows stored after a query that failed

ASSUME SerialAssumption == Serial \in [Tuners -> Nat]

\* The last day that 16 bits number, the last second of a day, and the days that
\* 32 bits of seconds reach.
LastDay == 65535
LastSecond == 86399
FirstInt == -24856
LastInt == 24855

\* Hour, minute and second are broadcast as two decimal digits each.
TwoDigits == {n \in Nat : n <= 99}
NoTime == <<>>

ASSUME BroadcastAssumption == Broadcast \subseteq (TwoDigits \X TwoDigits \X TwoDigits) \cup {NoTime}
ASSUME DaysAssumption == FirstDays \subseteq 0 .. LastDay /\ LastDay \in LastDays
ASSUME UnansweredAssumption == MaxUnanswered \in Nat

\* The bytes they are broadcast in, all bits of which are set if the time is unknown.
Bcd(n) == (n \div 10) * 16 + (n % 10)
Bytes(time) == IF time = NoTime THEN <<255, 255, 255>> ELSE [i \in 1 .. 3 |-> Bcd(time[i])]

VARIABLES
    mjd,            \* today, as the event table numbers it
    rows,           \* EVENTS and CHANNELS_DVB; "copy" numbers a tuner's equal rows
    pc, call        \* what each hardware thread is about to do, and for which row;
                    \* "answered" (history): the query for the row did not fail

vars == <<mjd, rows, pc, call>>

NoCall == [key |-> "none", of |-> "none", answered |-> TRUE]

Init ==
    /\ mjd \in FirstDays
    /\ rows = {}
    /\ pc = [t \in Tuners |-> "idle"] /\ call = [t \in Tuners |-> NoCall]

-----------------------------------------------------------------------------
Tomorrow ==
    /\ mjd \notin LastDays
    /\ mjd' = mjd + 1
    /\ UNCHANGED <<rows, pc, call>>

-----------------------------------------------------------------------------
(* A hardware thread. The one connection to the database is shared, a       *)
(* statement is atomic, and nobody else writes to the file.                 *)

Begin(t, c) ==
    /\ pc[t] = "idle"
    /\ pc' = [pc EXCEPT ![t] = "select"] /\ call' = [call EXCEPT ![t] = c]
    /\ UNCHANGED <<mjd, rows>>

\* A short event descriptor of an event of today.
Event(t) ==
    /\ mjd \in FilingDays
    /\ \E s \in Services, time \in Broadcast :
          Begin(t, [key |-> [table |-> "EVENTS", service |-> s,
                             start |-> AsInt(EITConvertStartTime(mjd, Bytes(time)))],
                    of |-> [mjd |-> mjd, time |-> time], answered |-> TRUE])

\* A service descriptor.
Service(t) ==
    /\ mjd \in FilingDays
    /\ \E s \in Services :
          Begin(t, [key |-> [table |-> "CHANNELS", service |-> s, serial |-> Serial[t]],
                    of |-> "none", answered |-> TRUE])

\* Seeded fault: what was found is not looked at.
SelectBlindly(t) ==
    /\ pc[t] = "select" /\ pc' = [pc EXCEPT ![t] = "insert"]
    /\ UNCHANGED <<mjd, rows, call>>

\* The row is there, or sqlite3_prepare_v2 fails; the row is missing; or
\* sqlite3_step fails, whose result nobody reads: the column is 0, as if it were.
Select(t) ==
    /\ pc[t] = "select"
    /\ \/ pc' = [pc EXCEPT ![t] = "idle"] /\ call' = [call EXCEPT ![t] = NoCall]
       \/ /\ \A r \in rows : r.key # call[t].key
          /\ pc' = [pc EXCEPT ![t] = "insert"] /\ UNCHANGED call
       \/ /\ Cardinality({r \in rows : ~r.answered}) < MaxUnanswered
          /\ pc' = [pc EXCEPT ![t] = "insert"] /\ call' = [call EXCEPT ![t].answered = FALSE]
    /\ UNCHANGED <<mjd, rows>>

\* Nobody looks whether the statement failed.
Insert(t) ==
    LET same == {r \in rows : r.by = t /\ r.key = call[t].key}
        row == [by |-> t, key |-> call[t].key, of |-> call[t].of,
                answered |-> call[t].answered, copy |-> Cardinality(same)]
    IN
    /\ pc[t] = "insert" /\ pc' = [pc EXCEPT ![t] = "idle"]
    /\ rows' = rows \cup {row} \/ UNCHANGED rows
    /\ call' = [call EXCEPT ![t] = NoCall]
    /\ UNCHANGED mjd

\* The program ends between any two statements and is started again.
Restart ==
    /\ \E t \in Tuners : pc[t] # "idle"
    /\ pc' = [t \in Tuners |-> "idle"] /\ call' = [t \in Tuners |-> NoCall]
    /\ UNCHANGED <<mjd, rows>>

-----------------------------------------------------------------------------
Next ==
    \/ Tomorrow \/ Restart
    \/ \E t \in Tuners : Event(t) \/ Service(t) \/ Select(t) \/ Insert(t)

Spec == Init /\ [][Next]_vars

-----------------------------------------------------------------------------
(* The reference: the calendar's own count of days.                         *)

\* The number of 1 January 1970.
Epoch == 40587

TrueStart(day, time) ==
    IF day < Epoch \/ time = NoTime \/ time[1] > 23 \/ time[2] > 59 \/ time[3] > 59 THEN Unknown
    ELSE [day |-> day - Epoch, sec |-> (time[1] * 60 + time[2]) * 60 + time[3]]

Keys ==
    [table : {"EVENTS"}, service : Services, start : [day : FirstInt .. LastInt, sec : 0 .. LastSecond]]
      \cup [table : {"CHANNELS"}, service : Services, serial : Nat]

TypeOK ==
    /\ mjd \in 0 .. LastDay
    /\ pc \in [Tuners -> {"idle", "select", "insert"}]
    /\ \A t \in Tuners : pc[t] # "idle" => call[t].key \in Keys
    /\ \A r \in rows : r.by \in Tuners /\ r.key \in Keys
    /\ \A r \in rows : r.key.table = "EVENTS" => Before(r.key.start, MaxInt)

\* On every day that 16 bits can number, the detour over the date (EITDecodeMjd,
\* session_timegm, utils.c:240-293) ends at the second the day's number and the
\* time stand for; days before 1970 and digits that are no time of day count as
\* unknown.
StartsAreCounted ==
    \A time \in Broadcast : EITConvertStartTime(mjd, Bytes(time)) = TrueStart(mjd, time)

\* An event is stored under the second it starts at until 2038-01-19 03:14:07;
\* after that under a negative one, since start_time is an int (database.c:48),
\* which still is no event's of another start: the query finds no such row. (All
\* events of unknown start share -1.)
StartsAreStored ==
    \A r \in rows : r.key.table = "EVENTS" =>
        LET start == TrueStart(r.of.mjd, r.of.time) IN
        /\ Before(start, MaxInt) => r.key.start = start
        /\ \A s \in rows : s.key = r.key => TrueStart(s.of.mjd, s.of.time) = start

\* Two threads can both miss a row and insert it (database.c:54-73, :100-119):
\* a row may be there once for each tuner, whatever restarts and failing inserts
\* come between. One tuner stores it a second time only if the query for it failed
\* as it ran, which the code takes for "missing" (database.c:63-66). (A channel's
\* rows have the tuner's serial number: with different numbers there is one.)
OncePerTuner ==
    \A r, s \in rows : r.by = s.by /\ r.key = s.key /\ r.copy <= s.copy => r = s \/ ~s.answered
=============================================================================
