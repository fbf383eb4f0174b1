-------------------------------- MODULE Tuner --------------------------------
(***************************************************************************)
(* One tuner (struct dvb_device_t) and everybody who drives it: main, which *)
(* tunes it once at start; its hardware thread, which reads the stream,     *)
(* files the programs it finds under the current frequency and, while the   *)
(* tuner is idle, scans the list of frequencies; the threads that run       *)
(* session_addNew; and whoever tears a session down (session_stop or the    *)
(* reaper, one at a time, under the lock of the sessions list). They meet   *)
(* in the table of PID filters, module DemuxTable, and in four fields that  *)
(* no mutex protects: currentState, refcnt, sequence, curr_frequency_ptr.   *)
(***************************************************************************)
EXTENDS Integers, Sequences, SequencesExt, FiniteSets

CONSTANTS
    MaxFilterPid, Free, Nobody, TuneLocks, FiltersFail,  \* see DemuxTable
    Freqs,        \* frequency_ll: the frequencies, in the order of the initial file
    NoFreq,       \* a frequency nobody asked for yet; a NULL curr_frequency_ptr
    SiPids,       \* the service information PIDs 0, 0x1, 0x10, 0x11, 0x12, in that order
    SessionPids,  \* those of them a session asks for: all but 0x1
    Clients,      \* threads that may run session_addNew, one session each at a time
    Pmt, Es,      \* the PID of a client's program table, and of its stream
    Main, Hw, Teardown,  \* the other threads
    SequenceWidth,       \* the sequence counter wraps here (2^32)
    MaxTunes,            \* bound: no tune starts once the counter is here
    MaxDrift,            \* bound: no session starts once refcnt is this far from 0
    Returning,           \* bound: the clients that come back once their session is down
    RingSize             \* bound: packets the DVR device holds, at most one read's

Threads == {Main, Hw, Teardown} \cup Clients
FreqSet == Range(Freqs)
SiSet == Range(SiPids)
Pids == SiSet \cup {Pmt[c] : c \in Clients} \cup {Es[c] : c \in Clients}

\* What the table assumes of its users.
ASSUME TableAssumption ==
    /\ MaxFilterPid \in Nat \ {0} /\ Free \notin Pids /\ Nobody \notin Threads
    /\ TuneLocks \in BOOLEAN /\ FiltersFail \in BOOLEAN
\* The hardware thread tears no session down.
ASSUME ActorsAssumption == Hw # Teardown
ASSUME PidsAssumption ==
    /\ SiPids \in Seq(SiSet) /\ SessionPids \in Seq(SiSet)
    /\ \A c, d \in Clients : c # d => {Pmt[c], Es[c]} \cap {Pmt[d], Es[d]} = {}
    /\ \A c \in Clients : Pmt[c] # Es[c] /\ {Pmt[c], Es[c]} \cap SiSet = {}
ASSUME BoundsAssumption ==
    /\ SequenceWidth \in Nat \ {0} /\ MaxTunes \in Nat /\ MaxDrift \in Nat \ {0} /\ RingSize \in Nat \ {0}
    /\ Freqs \in Seq(FreqSet) /\ Len(Freqs) > 0 /\ NoFreq \notin FreqSet

VARIABLES
    pids, filter, open, lock, call,   \* the demux table
    fe,         \* fe_params.frequency, what was last asked of the frontend
    air,        \* the transponder the frontend receives
    sequence,   \* tuner->sequence
    curr,       \* curr_frequency_ptr, with the number of the tune that set it (history)
    job,        \* each thread's dvb?_tune call: [at, freq, seq], seq its number once counted
    todo,       \* each thread's PIDs still to be passed to AddPID_to_Demux
    currentState, refcnt,
    ring,       \* packets in the DVR device, oldest first: [tp, pid]
    left,       \* how many of them the current read got and are still to be looked at
    lastSequence, \* tuner->last_sequence
    base,       \* the hardware thread's copy of curr in channel_addPAT
    channels,   \* programs filed: <<transponder they came from, frequency filed under>>
    hpc,        \* where the hardware thread is
    scanId,     \* its index into the frequencies, from 0
    z,          \* FALSE once FE_SET_FRONTEND failed in its tune
    cpc, want, tmp,  \* where each client is; the frequency it wants; its copy of refcnt
    listed,     \* sessions whose pidList holds their stream's PID
    down,       \* teardown: [at, who, tmp]
    sessionsLock  \* who holds the lock of sessions_ll across calls into the tuner

demuxVars == <<pids, filter, open, lock, call>>
tuneVars == <<fe, air, sequence, curr, job>>
readVars == <<ring, left, lastSequence, base, channels, hpc>>
hwVars == <<readVars, scanId, z>>
clientVars == <<cpc, want, tmp>>
downVars == <<listed, down, sessionsLock>>
useVars == <<currentState, refcnt>>
vars == <<demuxVars, tuneVars, todo, useVars, hwVars, clientVars, downVars>>

D == INSTANCE DemuxTable

NoJob == [at |-> "none", freq |-> NoFreq, seq |-> 0]
NewJob(f) == [at |-> "call", freq |-> f, seq |-> 0]
NoBase == [freq |-> NoFreq, no |-> 0]
NoDown == [at |-> "none", who |-> Nobody, tmp |-> 0]

\* t is in none of the calls below.
Ready(t) == call[t] = D!NoCall /\ job[t] = NoJob /\ todo[t] = <<>>

Init ==
    /\ D!Init
    /\ fe = NoFreq /\ air = NoFreq /\ sequence = 0
    /\ curr = NoBase
    /\ job = [t \in Threads |-> IF t = Main THEN NewJob(Freqs[1]) ELSE NoJob]
    /\ todo = [t \in Threads |-> IF t = Main THEN SiPids ELSE <<>>]
    /\ currentState = "idle" /\ refcnt = 0
    /\ ring = <<>> /\ left = 0 /\ lastSequence = 0 /\ base = NoBase /\ channels = {}
    /\ hpc = "loop" /\ scanId = 0 /\ z = TRUE
    /\ cpc = [c \in Clients |-> "none"]
    /\ want = [c \in Clients |-> NoFreq]
    /\ tmp = [c \in Clients |-> 0]
    /\ listed = {} /\ down = NoDown /\ sessionsLock = Nobody

-----------------------------------------------------------------------------
(* dvbs_tune / dvbt_tune, by any thread with a job.                         *)

\* dvbs_tune compares the frequency with fe_params.frequency, which holds an
\* earlier frequency less the oscillator's: it never finds them equal.
AlreadyThere(t) == ~TuneLocks /\ fe = job[t].freq

Tuning(t, at) == job[t].at = at

Advance(t, at) == job' = [job EXCEPT ![t].at = at]

TuneCall(t) ==
    /\ Tuning(t, "call")
    /\ sequence < MaxTunes \/ AlreadyThere(t)
    /\ D!CallTune(t)
    /\ Advance(t, "clear")
    /\ UNCHANGED <<fe, air, sequence, curr>>

TuneClear(t) ==
    /\ Tuning(t, "clear")
    /\ \/ D!LockForTune(t, AlreadyThere(t)) \/ D!StopForTune(t) \/ D!FreeForTune(t)
    /\ UNCHANGED tuneVars

\* Seeded fault: the mutex only covers the clearing of the table.
TuneParamsUnlocks(t) ==
    /\ Tuning(t, "clear") /\ call[t].pc = "tuDone"
    /\ fe' = job[t].freq
    /\ Advance(t, "frontend")
    /\ lock' = Nobody
    /\ UNCHANGED <<pids, filter, open, call, air, sequence, curr>>

TuneParams(t) ==
    /\ Tuning(t, "clear") /\ call[t].pc = "tuDone"
    /\ fe' = job[t].freq
    /\ Advance(t, "frontend")
    /\ UNCHANGED <<demuxVars, air, sequence, curr>>

\* FE_SET_FRONTEND is given fe_params, which another dvbt_tune may have overwritten
\* meanwhile. It may fail; neither tune looks at the result before it goes on.
TuneFrontend(t) ==
    /\ Tuning(t, "frontend")
    /\ \/ air' = fe /\ UNCHANGED z
       \/ z' = (z /\ t # Hw) /\ UNCHANGED air
    /\ Advance(t, "sequence")
    /\ UNCHANGED <<demuxVars, fe, sequence, curr>>

\* sequence++ reads, and writes back: dvbt_tune holds no mutex, so that of two
\* overlapping tunes one may be lost.
TuneSequence(t) ==
    /\ Tuning(t, "sequence")
    /\ job' = [job EXCEPT ![t] = [@ EXCEPT !.at = "count", !.seq = sequence]]
    /\ UNCHANGED <<demuxVars, fe, air, sequence, curr>>

TuneCount(t) ==
    /\ Tuning(t, "count")
    /\ sequence' = (job[t].seq + 1) % SequenceWidth
    /\ job' = [job EXCEPT ![t] = [@ EXCEPT !.at = "publish", !.seq = sequence']]
    /\ UNCHANGED <<demuxVars, fe, air, curr>>

TunePublish(t) ==
    /\ Tuning(t, "publish")
    /\ curr' = [freq |-> job[t].freq, no |-> job[t].seq]
    /\ Advance(t, "end")
    /\ UNCHANGED <<demuxVars, fe, air, sequence>>

TuneEnd(t) ==
    /\ Tuning(t, "end") \/ call[t].pc = "tuSame"
    /\ D!EndTune(t)
    /\ job' = [job EXCEPT ![t] = NoJob]
    /\ UNCHANGED <<fe, air, sequence, curr>>

TuneStep(t) ==
    /\ \/ TuneFrontend(t)
       \/ /\ \/ TuneCall(t) \/ TuneClear(t) \/ TuneParams(t) \/ TuneSequence(t)
             \/ TuneCount(t) \/ TunePublish(t) \/ TuneEnd(t)
          /\ UNCHANGED z
    /\ UNCHANGED <<todo, useVars, readVars, scanId, clientVars, downVars>>

(* A run of AddPID_to_Demux calls, one after the other.                     *)
AddStep(t) ==
    /\ job[t] = NoJob
    /\ \/ /\ todo[t] # <<>>
          /\ D!CallAdd(t, Head(todo[t]))
          /\ todo' = [todo EXCEPT ![t] = Tail(@)]
       \/ D!AddStep(t) /\ UNCHANGED todo
    /\ UNCHANGED <<tuneVars, useVars, hwVars, clientVars, downVars>>

-----------------------------------------------------------------------------
(* The hardware thread.                                                     *)

\* A packet passes one of the running filters; the device drops what does not fit.
Receive ==
    \E s \in D!Slots :
        /\ filter[s] # Free /\ air # NoFreq
        /\ Len(ring) < RingSize
        /\ ring' = Append(ring, [tp |-> air, pid |-> filter[s]])
        /\ UNCHANGED <<demuxVars, tuneVars, todo, useVars, left, lastSequence, base,
                       channels, hpc, scanId, z, clientVars, downVars>>

\* dvb_read_data: note the sequence, and read. The "reset" resets nothing.
\* Without a signal what was read is dropped.
HwSync ==
    /\ hpc = "loop" /\ Ready(Hw) /\ ring # <<>>
    /\ lastSequence' = sequence
    /\ \/ left' = Len(ring) /\ hpc' = "read" /\ UNCHANGED ring
       \/ ring' = <<>> /\ UNCHANGED <<left, hpc>>
    /\ UNCHANGED <<demuxVars, tuneVars, todo, useVars, base, channels, scanId, z,
                   clientVars, downVars>>

\* channel_addPAT and its like: first the frequency ...
HwBase ==
    /\ hpc = "read" /\ left > 0 /\ Head(ring).pid \in SiSet
    /\ base' = curr
    /\ hpc' = "file"
    /\ UNCHANGED <<demuxVars, tuneVars, todo, useVars, ring, left, lastSequence, channels, scanId, z,
                   clientVars, downVars>>

\* Seeded fault: the program is filed without the check.
HwFileUnchecked ==
    /\ hpc = "file"
    /\ channels' = channels \cup {<<Head(ring).tp, base.freq>>}
    /\ base' = NoBase
    /\ ring' = Tail(ring) /\ left' = left - 1
    /\ hpc' = "read"
    /\ UNCHANGED <<demuxVars, tuneVars, todo, useVars, lastSequence, scanId, z,
                   clientVars, downVars>>

\* Seeded fault: a packet read stays counted among those that may still come.
HwFileKeepsCount ==
    /\ hpc = "file"
    /\ channels' = IF lastSequence = sequence
                      THEN channels \cup {<<Head(ring).tp, base.freq>>}
                      ELSE channels
    /\ base' = NoBase
    /\ ring' = Tail(ring) /\ UNCHANGED left
    /\ hpc' = "read"
    /\ UNCHANGED <<demuxVars, tuneVars, todo, useVars, lastSequence, scanId, z,
                   clientVars, downVars>>

\* ... then the check that no tune has happened since the sequence was noted.
HwFile ==
    /\ hpc = "file"
    /\ channels' = IF lastSequence = sequence
                      THEN channels \cup {<<Head(ring).tp, base.freq>>}
                      ELSE channels
    /\ base' = NoBase
    /\ ring' = Tail(ring) /\ left' = left - 1
    /\ hpc' = "read"
    /\ UNCHANGED <<demuxVars, tuneVars, todo, useVars, lastSequence, scanId, z,
                   clientVars, downVars>>

\* session_write, under the sessions list's lock: the program table of a live
\* session makes process_pmt list the stream's PID and filter it, once.
HwWrite ==
    /\ hpc = "read" /\ left > 0 /\ Head(ring).pid \notin SiSet
    /\ sessionsLock = Nobody
    /\ LET new(c) == cpc[c] = "live" /\ Pmt[c] = Head(ring).pid /\ c \notin listed IN
       \/ \E c \in Clients :
             new(c) /\ listed' = listed \cup {c} /\ todo' = [todo EXCEPT ![Hw] = <<Es[c]>>]
       \/ (\A c \in Clients : ~new(c)) /\ UNCHANGED <<listed, todo>>
    /\ ring' = Tail(ring) /\ left' = left - 1
    /\ sessionsLock' = Hw
    /\ hpc' = "write"
    /\ UNCHANGED <<demuxVars, tuneVars, useVars, lastSequence, base, channels, scanId, z,
                   clientVars, down>>

HwWritten ==
    /\ hpc = "write" /\ Ready(Hw)
    /\ sessionsLock' = Nobody
    /\ hpc' = "read"
    /\ UNCHANGED <<demuxVars, tuneVars, todo, useVars, ring, left, lastSequence, base, channels,
                   scanId, z, clientVars, listed, down>>

\* The packets of one read, at most five, have been dealt with.
HwReadDone ==
    /\ hpc = "read" /\ left = 0
    /\ hpc' = "loop"
    /\ UNCHANGED <<demuxVars, tuneVars, todo, useVars, ring, left, lastSequence, base, channels,
                   scanId, z, clientVars, downVars>>

\* The scan is due and the tuner is idle: on to the next frequency, or back to
\* the first one at the next occasion. (The first scan is due when more than ten
\* half seconds have passed, long after main's tune of a tenth of a second.)
HwScan ==
    /\ hpc = "loop" /\ Ready(Hw)
    /\ currentState = "idle" /\ job[Main] = NoJob
    /\ IF scanId < Len(Freqs)
          THEN /\ scanId' = scanId + 1
               /\ job' = [job EXCEPT ![Hw] = NewJob(Freqs[scanId + 1])]
               /\ hpc' = "scan"
          ELSE scanId' = 0 /\ UNCHANGED <<job, hpc>>
    /\ UNCHANGED <<demuxVars, fe, air, sequence, curr, todo, useVars, ring, left, lastSequence, base,
                   channels, z, clientVars, downVars>>

HwScanned ==
    /\ hpc = "scan" /\ job[Hw] = NoJob
    /\ todo' = [todo EXCEPT ![Hw] =
                    IF currentState = "idle" /\ (z \/ ~TuneLocks) THEN SiPids ELSE <<>>]
    /\ z' = TRUE
    /\ hpc' = "loop"
    /\ UNCHANGED <<demuxVars, tuneVars, useVars, ring, left, lastSequence, base, channels, scanId,
                   clientVars, downVars>>

HwStep ==
    HwSync \/ HwBase \/ HwFile \/ HwWrite \/ HwWritten \/ HwReadDone \/ HwScan \/ HwScanned

-----------------------------------------------------------------------------
(* session_addNew, as far as this tuner is concerned.                       *)

ClientUnchanged == UNCHANGED <<demuxVars, fe, air, sequence, curr, hwVars, downVars>>

Goto(c, at) == cpc' = [cpc EXCEPT ![c] = at]

\* The channel is known under some frequency.
AddNew(c) ==
    /\ cpc[c] = "none" /\ refcnt > -MaxDrift /\ refcnt < MaxDrift
    /\ \E ch \in channels : want' = [want EXCEPT ![c] = ch[2]]
    /\ Goto(c, "check")
    /\ UNCHANGED <<tmp, job, todo, useVars>> /\ ClientUnchanged

CheckRefcnt(c) ==
    /\ cpc[c] = "check"
    /\ Goto(c, IF refcnt = 0 THEN "busy" ELSE "compare")
    /\ UNCHANGED <<want, tmp, job, todo, useVars>> /\ ClientUnchanged

\* Seeded fault: a client that takes the tuner does not mark it busy.
SetBusyForgets(c) ==
    /\ cpc[c] = "busy"
    /\ Goto(c, "take")
    /\ UNCHANGED <<want, tmp, job, todo, useVars>> /\ ClientUnchanged

SetBusy(c) ==
    /\ cpc[c] = "busy"
    /\ currentState' = "busy"
    /\ Goto(c, "take")
    /\ UNCHANGED <<want, tmp, job, todo, refcnt>> /\ ClientUnchanged

\* compare_dvb?_entries; no match: on to the next tuner, and "No tuners".
Compare(c) ==
    /\ cpc[c] = "compare"
    /\ IF curr.freq = want[c]
          THEN Goto(c, "share") /\ UNCHANGED want
          ELSE Goto(c, "none") /\ want' = [want EXCEPT ![c] = NoFreq]
    /\ UNCHANGED <<tmp, job, todo, useVars>> /\ ClientUnchanged

\* refcnt++ reads ...
ReadRefcnt(c) ==
    /\ cpc[c] \in {"take", "share"}
    /\ tmp' = [tmp EXCEPT ![c] = refcnt]
    /\ Goto(c, IF cpc[c] = "take" THEN "taken" ELSE "shared")
    /\ UNCHANGED <<want, job, todo, useVars>> /\ ClientUnchanged

\* ... and writes back; who took the tuner tunes it and adds the service
\* information PIDs (but not 0x1) and the program table's, who shares it only
\* the last.
WriteRefcnt(c) ==
    /\ cpc[c] \in {"taken", "shared"}
    /\ refcnt' = tmp[c] + 1
    /\ tmp' = [tmp EXCEPT ![c] = 0]
    /\ IF cpc[c] = "taken"
          THEN /\ job' = [job EXCEPT ![c] = NewJob(want[c])]
               /\ todo' = [todo EXCEPT ![c] = Append(SessionPids, Pmt[c])]
          ELSE todo' = [todo EXCEPT ![c] = <<Pmt[c]>>] /\ UNCHANGED job
    /\ Goto(c, "append")
    /\ UNCHANGED <<want, currentState>> /\ ClientUnchanged

\* linkedList_append(sessions_ll, session).
AppendSession(c) ==
    /\ cpc[c] = "append" /\ Ready(c)
    /\ sessionsLock = Nobody
    /\ Goto(c, "live")
    /\ UNCHANGED <<want, tmp, job, todo, useVars>> /\ ClientUnchanged

ClientStep(c) ==
    \/ CheckRefcnt(c) \/ SetBusy(c) \/ Compare(c) \/ ReadRefcnt(c) \/ WriteRefcnt(c)
    \/ AppendSession(c)

-----------------------------------------------------------------------------
(* session_stop, or the reaper, on one session, under the list's lock.      *)

DownUnchanged == UNCHANGED <<tuneVars, todo, hwVars, want, tmp>>

BeginDown(c) ==
    /\ cpc[c] = "live" /\ down = NoDown
    /\ sessionsLock = Nobody /\ sessionsLock' = Teardown
    /\ down' = [at |-> "stream", who |-> c, tmp |-> 0]
    /\ D!CallRemove(Teardown, Pmt[c])
    /\ UNCHANGED <<useVars, cpc, listed>> /\ DownUnchanged

DownRemoving ==
    /\ D!RemoveStep(Teardown)
    /\ UNCHANGED <<useVars, cpc, listed, down, sessionsLock>> /\ DownUnchanged

\* Seeded fault: only the program table's PID is removed.
DownStreamForgets ==
    /\ down.at = "stream" /\ call[Teardown] = D!NoCall
    /\ listed' = listed \ {down.who}
    /\ down' = [down EXCEPT !.at = "read"]
    /\ UNCHANGED <<demuxVars, useVars, cpc, sessionsLock>> /\ DownUnchanged

\* The PIDs of the session's pidList.
DownStream ==
    /\ down.at = "stream" /\ call[Teardown] = D!NoCall
    /\ IF down.who \in listed THEN D!CallRemove(Teardown, Es[down.who]) ELSE UNCHANGED demuxVars
    /\ listed' = listed \ {down.who}
    /\ down' = [down EXCEPT !.at = "read"]
    /\ UNCHANGED <<useVars, cpc, sessionsLock>> /\ DownUnchanged

DownReadRefcnt ==
    /\ down.at = "read" /\ call[Teardown] = D!NoCall
    /\ down' = [down EXCEPT !.at = "write", !.tmp = refcnt]
    /\ UNCHANGED <<demuxVars, useVars, cpc, listed, sessionsLock>> /\ DownUnchanged

DownWriteRefcnt ==
    /\ down.at = "write"
    /\ refcnt' = down.tmp - 1
    /\ down' = [down EXCEPT !.at = "check", !.tmp = 0]
    /\ UNCHANGED <<demuxVars, currentState, cpc, listed, sessionsLock>> /\ DownUnchanged

\* Seeded fault: a tuner is idle again once its count is below 0.
DownCheckBelow ==
    /\ down.at = "check"
    /\ down' = [down EXCEPT !.at = IF refcnt < 0 THEN "idle" ELSE "free"]
    /\ UNCHANGED <<demuxVars, useVars, cpc, listed, sessionsLock>> /\ DownUnchanged

DownCheck ==
    /\ down.at = "check"
    /\ down' = [down EXCEPT !.at = IF refcnt <= 0 THEN "idle" ELSE "free"]
    /\ UNCHANGED <<demuxVars, useVars, cpc, listed, sessionsLock>> /\ DownUnchanged

DownIdle ==
    /\ down.at = "idle"
    /\ currentState' = "idle"
    /\ down' = [down EXCEPT !.at = "free"]
    /\ UNCHANGED <<demuxVars, refcnt, cpc, listed, sessionsLock>> /\ DownUnchanged

DownFree ==
    /\ down.at = "free"
    /\ cpc' = [cpc EXCEPT ![down.who] = IF down.who \in Returning THEN "none" ELSE "gone"]
    /\ want' = [want EXCEPT ![down.who] = NoFreq]
    /\ down' = NoDown
    /\ sessionsLock' = Nobody
    /\ UNCHANGED <<demuxVars, tuneVars, todo, useVars, hwVars, tmp, listed>>

DownStep ==
    \/ DownRemoving \/ DownStream \/ DownReadRefcnt \/ DownWriteRefcnt \/ DownCheck
    \/ DownIdle \/ DownFree

-----------------------------------------------------------------------------
Next ==
    \/ \E t \in Threads : TuneStep(t) \/ AddStep(t)
    \/ Receive
    \/ HwStep
    \/ \E c \in Clients : AddNew(c) \/ ClientStep(c) \/ BeginDown(c)
    \/ DownStep

Spec == Init /\ [][Next]_vars

\* Threads keep running inside a call; a session is torn down or not, as its
\* clients please. The hardware thread looks at the clock every time round its
\* loop, so a scan that is due happens although packets keep arriving.
Fairness ==
    /\ \A t \in Threads : WF_vars(TuneStep(t)) /\ WF_vars(AddStep(t))
    /\ WF_vars(HwStep) /\ SF_vars(HwScan)
    /\ \A c \in Clients : WF_vars(ClientStep(c))
    /\ WF_vars(DownStep)

FairSpec == Spec /\ Fairness

-----------------------------------------------------------------------------
TypeOK ==
    /\ D!TypeOK
    /\ fe \in FreqSet \cup {NoFreq} /\ air \in FreqSet \cup {NoFreq}
    /\ sequence \in 0 .. SequenceWidth - 1 /\ lastSequence \in 0 .. SequenceWidth - 1
    /\ \A b \in {curr, base} : b.freq \in FreqSet \cup {NoFreq} /\ b.no \in 0 .. SequenceWidth - 1
    /\ \A t \in Threads :
          /\ job[t].at \in {"none", "call", "clear", "frontend", "sequence", "count", "publish", "end"}
          /\ job[t].freq \in FreqSet \cup {NoFreq} /\ job[t].seq \in 0 .. SequenceWidth - 1
          /\ todo[t] \in Seq(Pids)
    /\ currentState \in {"idle", "busy"}
    /\ refcnt \in Int
    /\ ring \in Seq([tp : FreqSet, pid : Pids]) /\ Len(ring) <= RingSize
    /\ left \in 0 .. Len(ring)
    /\ channels \subseteq FreqSet \X FreqSet
    /\ hpc \in {"loop", "read", "file", "write", "scan"}
    /\ scanId \in 0 .. Len(Freqs) /\ z \in BOOLEAN
    /\ listed \subseteq Clients
    /\ sessionsLock \in {Nobody, Hw, Teardown}

\* A frequency is only published (curr_frequency_ptr) by dvbs_tune while the
\* table is empty and every filter stopped, whatever the scan, the sessions and
\* the teardowns do meanwhile.
RetuneQuiet ==
    [][TuneLocks /\ curr' # curr => \A s \in D!Slots : pids[s] = Free /\ filter[s] = Free]_vars

\* No PID outlives its session in the table: what session_addNew and, out of
\* the stream itself, process_pmt filter for a session is gone once it is torn down.
NoOrphanPid ==
    \A c \in Clients : cpc[c] \in {"none", "gone"} =>
        \A s \in D!Slots : pids[s] \notin {Pmt[c], Es[c]}

\* No scan begins while a client has taken the tuner, from marking it busy until
\* the teardown of its session. (A scan may have begun just before; and of several
\* clients the reference count, which loses updates, protects none.)
ScanSparesSessions ==
    [][hpc = "loop" /\ hpc' = "scan" =>
          \A c \in Clients : cpc[c] \in {"take", "taken", "append", "live"} => down.who = c]_vars

\* What the hardware thread read before a satellite tune counted up is not filed
\* under that tune's frequency: dvbs_tune counts before it changes
\* curr_frequency_ptr, and channel_addPAT copies the pointer before it compares the
\* numbers. (Packets still in the device when the number is noted are filed under
\* the new frequency wherever they came from; and of two dvbt_tunes at a time,
\* which no mutex keeps apart, one may not count.)
InFlightGuard ==
    [][TuneLocks /\ channels' # channels => base.no <= lastSequence]_vars

\* The calls made here are the ones the demux table allows for.
DemuxTableSpec == D!Spec

\* A tuner whose sessions are down for good is scanned: every frequency of the
\* list is asked for, again and again (whether the frontend follows or not). Of one
\* client only: two can lose an update of refcnt, and a tuner whose count stays
\* above 0 with no session left is never idle again.
ScannerVisitsAll ==
    Cardinality(Clients) <= 1 =>
        (<>[](\A c \in Clients : cpc[c] \in {"none", "gone"})
            => \A f \in FreqSet : []<>(curr.freq = f))
=============================================================================
