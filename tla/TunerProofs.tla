----------------------------- MODULE TunerProofs -----------------------------
(***************************************************************************)
(* The tuner uses the table of PID filters as module DemuxTable allows, for *)
(* any number of clients, frequencies and slots; what is proved of the      *)
(* table therefore holds in the tuner.                                      *)
(***************************************************************************)
EXTENDS Tuner, SequenceTheorems, TLAPS

\* The table with what is proved about it.
P == INSTANCE DemuxTableProofs

\* Lists of PIDs still to be added hold PIDs, and those of sessions are clients'.
ListsOfPids == todo \in [Threads -> Seq(Pids)] /\ listed \subseteq Clients

\* A tune that is past the clearing of the table is still inside its call.
PastClearing == {"frontend", "sequence", "count", "publish", "end"}

JobsInCalls ==
    /\ job = [t \in Threads |-> [at |-> job[t].at, freq |-> job[t].freq, seq |-> job[t].seq]]
    /\ \A t \in Threads : job[t].at \in PastClearing => call[t].pc = "tuDone"

IInv == P!IInv /\ ListsOfPids /\ JobsInCalls

-----------------------------------------------------------------------------
\* The table's definitions under both names.
LEMMA SameInit == D!Init => P!Init
BY DEF D!Init, P!Init, D!Slots, P!Slots, D!NoCall, P!NoCall

LEMMA SameNext == D!Next => P!Next
BY DEF D!Next, P!Next, D!CallAdd, P!CallAdd, D!CallRemove, P!CallRemove, D!CallTune,
        P!CallTune, D!Step, P!Step, D!AddStep, P!AddStep, D!RemoveStep, P!RemoveStep,
        D!TuneStep, P!TuneStep, D!LockForAdd, P!LockForAdd, D!DupScan, P!DupScan,
        D!FreeScan, P!FreeScan, D!ClaimSlot, P!ClaimSlot, D!StartFilter, P!StartFilter,
        D!FindSlot, P!FindSlot, D!StopFilter, P!StopFilter, D!FreeSlot, P!FreeSlot,
        D!LockForTune, P!LockForTune, D!StopForTune, P!StopForTune, D!FreeForTune,
        P!FreeForTune, D!EndTune, P!EndTune, D!Enter, P!Enter, D!At, P!At, D!Return,
        P!Return, D!Acquire, P!Acquire, D!Release, P!Release, D!LastSlot, P!LastSlot,
        D!NoCall, P!NoCall, D!RemovePcs, P!RemovePcs

\* Most steps leave the table, the jobs and the lists alone.
LEMMA Others ==
    Next => \/ UNCHANGED <<demuxVars, job, todo, listed>>
            \/ \E t \in Threads : TuneStep(t) \/ AddStep(t)
            \/ HwScan \/ HwWrite \/ HwScanned
            \/ \E c \in Clients : WriteRefcnt(c) \/ BeginDown(c)
            \/ DownRemoving \/ DownStream
<1> SUFFICES ASSUME Next PROVE
            \/ UNCHANGED <<demuxVars, job, todo, listed>>
            \/ \E t \in Threads : TuneStep(t) \/ AddStep(t)
            \/ HwScan \/ HwWrite \/ HwScanned
            \/ \E c \in Clients : WriteRefcnt(c) \/ BeginDown(c)
            \/ DownRemoving \/ DownStream
  OBVIOUS
<1> USE DEF tuneVars, downVars
<1>1. CASE Receive \/ HwSync \/ HwBase \/ HwFile \/ HwWritten \/ HwReadDone
  BY <1>1 DEF Receive, HwSync, HwBase, HwFile, HwWritten, HwReadDone
<1>2. ASSUME NEW c \in Clients,
             AddNew(c) \/ CheckRefcnt(c) \/ SetBusy(c) \/ Compare(c) \/ ReadRefcnt(c) \/ AppendSession(c)
      PROVE  UNCHANGED <<demuxVars, job, todo, listed>>
  BY <1>2 DEF AddNew, CheckRefcnt, SetBusy, Compare, ReadRefcnt, AppendSession, ClientUnchanged
<1>3. CASE DownReadRefcnt \/ DownWriteRefcnt \/ DownCheck \/ DownIdle \/ DownFree
  BY <1>3 DEF DownReadRefcnt, DownWriteRefcnt, DownCheck, DownIdle, DownFree, DownUnchanged
<1> QED
  BY <1>1, <1>2, <1>3 DEF Next, HwStep, ClientStep, DownStep

-----------------------------------------------------------------------------
(* What a step does to the table.                                           *)

LEMMA PidFacts ==
    /\ SiPids \in Seq(Pids) /\ SessionPids \in Seq(Pids)
    /\ \A c \in Clients : Pmt[c] \in Pids /\ Es[c] \in Pids
    /\ Teardown \in Threads /\ Hw \in Threads /\ Main \in Threads /\ Clients \subseteq Threads
<1>1. SiSet \subseteq Pids
  BY DEF Pids
<1>2. \A s \in Seq(SiSet) : s \in Seq(Pids)
  BY <1>1, SeqDef
<1> QED
  BY <1>2, PidsAssumption DEF Pids, Threads

LEMMA HeadAndTail ==
    ASSUME ListsOfPids, NEW t \in Threads, todo[t] # <<>>
    PROVE  Head(todo[t]) \in Pids /\ Tail(todo[t]) \in Seq(Pids)
BY HeadTailProperties DEF ListsOfPids

LEMMA TableStep ==
    ASSUME ListsOfPids, [Next]_vars
    PROVE  [D!Next]_demuxVars
<1>1. CASE UNCHANGED vars
  BY <1>1 DEF vars
<1>2. ASSUME NEW t \in Threads, TuneStep(t) PROVE [D!Next]_demuxVars
  <2>1. CASE TuneCall(t)
    BY <2>1 DEF TuneCall, D!Next
  <2>2. CASE TuneClear(t)
    <3>1. AlreadyThere(t) \in BOOLEAN
      BY TableAssumption DEF AlreadyThere
    <3> QED
      BY <2>2, <3>1 DEF TuneClear, D!Next, D!Step, D!TuneStep
  <2>3. CASE TuneEnd(t)
    BY <2>3 DEF TuneEnd, D!Next, D!Step, D!TuneStep
  <2>4. CASE TuneParams(t) \/ TuneFrontend(t) \/ TuneSequence(t) \/ TuneCount(t) \/ TunePublish(t)
    BY <2>4 DEF TuneParams, TuneFrontend, TuneSequence, TuneCount, TunePublish
  <2> QED
    BY <1>2, <2>1, <2>2, <2>3, <2>4 DEF TuneStep
<1>3. ASSUME NEW t \in Threads, AddStep(t) PROVE [D!Next]_demuxVars
  BY <1>3, HeadAndTail DEF AddStep, D!Next, D!Step
<1>4. CASE HwScan \/ HwWrite \/ HwScanned
  BY <1>4 DEF HwScan, HwWrite, HwScanned
<1>5. ASSUME NEW c \in Clients, WriteRefcnt(c) \/ BeginDown(c) PROVE [D!Next]_demuxVars
  BY <1>5, PidFacts DEF WriteRefcnt, ClientUnchanged, BeginDown, D!Next
<1>6. CASE DownRemoving
  BY <1>6, PidFacts DEF DownRemoving, D!Next, D!Step
<1>7. CASE DownStream
  <2>1. down.who \in listed => Es[down.who] \in Pids
    BY PidFacts DEF ListsOfPids
  <2> QED
    BY <1>7, <2>1, PidFacts DEF DownStream, D!Next
<1> QED
  BY <1>1, <1>2, <1>3, <1>4, <1>5, <1>6, <1>7, Others

-----------------------------------------------------------------------------
(* The lists and the jobs.                                                  *)

LEMMA ListsStep ==
    ASSUME ListsOfPids, [Next]_vars
    PROVE  ListsOfPids'
<1> USE DEF ListsOfPids
<1>1. CASE UNCHANGED vars \/ UNCHANGED <<demuxVars, job, todo, listed>>
  BY <1>1 DEF vars, downVars
<1>2. ASSUME NEW t \in Threads, TuneStep(t) PROVE ListsOfPids'
  BY <1>2 DEF TuneStep, downVars
<1>3. ASSUME NEW t \in Threads, AddStep(t) PROVE ListsOfPids'
  BY <1>3, HeadAndTail DEF AddStep, downVars
<1>4. CASE HwScan
  BY <1>4 DEF HwScan, downVars
<1>5. CASE HwScanned
  <2>1. SiPids \in Seq(Pids) /\ <<>> \in Seq(Pids)
    BY PidFacts
  <2> QED
    BY <1>5, <2>1 DEF HwScanned, downVars
<1>6. CASE HwWrite
  <2>1. \A c \in Clients : <<Es[c]>> \in Seq(Pids)
    BY PidFacts
  <2> QED
    BY <1>6, <2>1 DEF HwWrite
<1>7. ASSUME NEW c \in Clients, WriteRefcnt(c) PROVE ListsOfPids'
  <2>1. Append(SessionPids, Pmt[c]) \in Seq(Pids) /\ <<Pmt[c]>> \in Seq(Pids)
    BY PidFacts
  <2> QED
    BY <1>7, <2>1 DEF WriteRefcnt, ClientUnchanged, downVars
<1>8. ASSUME NEW c \in Clients, BeginDown(c) PROVE ListsOfPids'
  BY <1>8 DEF BeginDown, DownUnchanged
<1>9. CASE DownRemoving \/ DownStream
  BY <1>9 DEF DownRemoving, DownStream, DownUnchanged
<1> QED
  BY <1>1, <1>2, <1>3, <1>4, <1>5, <1>6, <1>7, <1>8, <1>9, Others

\* A table step of t moves no other thread's call.
LEMMA OthersStay ==
    ASSUME P!IInv, NEW t \in Threads,
           D!Step(t) \/ D!CallTune(t) \/ \E p \in Pids : D!CallAdd(t, p) \/ D!CallRemove(t, p)
    PROVE  \A u \in Threads : u # t => call'[u] = call[u]
<1>1. call = [u \in Threads |-> call[u]]
  BY DEF P!IInv, P!TypeOK, P!Calls
<1>2. \A x : call' = [call EXCEPT ![t] = x] => \A u \in Threads : u # t => call'[u] = call[u]
  BY <1>1
<1>3. (\E pc, s : D!At(t, pc, s)) \/ (\E pc, p : D!Enter(t, pc, p)) \/ D!Return(t)
      => \A u \in Threads : u # t => call'[u] = call[u]
  BY <1>2 DEF D!At, D!Enter, D!Return
<1>4. D!AddStep(t) => (\E pc, s : D!At(t, pc, s)) \/ D!Return(t)
  BY DEF D!AddStep, D!LockForAdd, D!DupScan, D!FreeScan, D!ClaimSlot, D!StartFilter
<1>5. D!RemoveStep(t) => (\E pc, s : D!At(t, pc, s)) \/ D!Return(t)
  BY DEF D!RemoveStep, D!FindSlot, D!StopFilter, D!FreeSlot
<1>6. D!TuneStep(t) => (\E pc, s : D!At(t, pc, s)) \/ D!Return(t)
  BY DEF D!TuneStep, D!LockForTune, D!StopForTune, D!FreeForTune, D!EndTune
<1>7. D!CallTune(t) \/ (\E p \in Pids : D!CallAdd(t, p) \/ D!CallRemove(t, p))
      => \E pc, p : D!Enter(t, pc, p)
  BY DEF D!CallTune, D!CallAdd, D!CallRemove
<1> QED
  BY <1>3, <1>4, <1>5, <1>6, <1>7 DEF D!Step

LEMMA JobsStep ==
    ASSUME P!IInv, ListsOfPids, JobsInCalls, [Next]_vars
    PROVE  JobsInCalls'
<1> USE DEF JobsInCalls, PastClearing, NewJob
<1>1. CASE UNCHANGED vars \/ UNCHANGED <<demuxVars, job, todo, listed>>
  BY <1>1 DEF vars, demuxVars, tuneVars
<1>2. ASSUME NEW t \in Threads, TuneStep(t) PROVE JobsInCalls'
  <2>1. CASE TuneCall(t)
    <3>1. \A u \in Threads : u # t => call'[u] = call[u]
      BY <2>1, OthersStay DEF TuneCall
    <3>2. job[t].at = "call" /\ job' = [job EXCEPT ![t].at = "clear"]
      BY <2>1 DEF TuneCall, Tuning, Advance
    <3>3. /\ job' = [u \in Threads |-> [at |-> job'[u].at, freq |-> job'[u].freq, seq |-> job'[u].seq]]
          /\ job'[t].at = "clear"
          /\ \A u \in Threads : u # t => job'[u] = job[u]
      BY <3>2
    <3> QED
      BY <3>1, <3>3
  <2>2. CASE TuneClear(t)
    <3>1. AlreadyThere(t) \in BOOLEAN
      BY TableAssumption DEF AlreadyThere
    <3>2. D!Step(t)
      BY <2>2, <3>1 DEF TuneClear, D!Step, D!TuneStep
    <3>3. \A u \in Threads : u # t => call'[u] = call[u]
      BY <3>2, OthersStay
    <3> QED
      BY <2>2, <3>3 DEF TuneClear, Tuning, tuneVars
  <2>3. CASE TuneEnd(t)
    <3>1. \A u \in Threads : u # t => call'[u] = call[u]
      BY <2>3, OthersStay DEF TuneEnd, D!Step, D!TuneStep
    <3> QED
      BY <2>3, <3>1 DEF TuneEnd, NoJob
  <2>4. CASE TuneParams(t)
    BY <2>4 DEF TuneParams, Tuning, Advance, demuxVars
  <2>5. CASE TuneFrontend(t) \/ TuneSequence(t) \/ TuneCount(t) \/ TunePublish(t)
    BY <2>5 DEF TuneFrontend, TuneSequence, TuneCount, TunePublish, Tuning, Advance, demuxVars
  <2> QED
    BY <1>2, <2>1, <2>2, <2>3, <2>4, <2>5 DEF TuneStep
<1>3. ASSUME NEW t \in Threads, AddStep(t) PROVE JobsInCalls'
  <2>1. job' = job /\ job[t].at = "none"
    BY <1>3 DEF AddStep, NoJob, tuneVars
  <2>2. \A u \in Threads : u # t => call'[u] = call[u]
    BY <1>3, HeadAndTail, OthersStay DEF AddStep, D!Step
  <2> QED
    BY <2>1, <2>2
<1>4. CASE HwScan
  <2>1. call' = call /\ Hw \in Threads
    BY <1>4, PidFacts DEF HwScan, demuxVars
  <2>2. job' = job \/ \E f : job' = [job EXCEPT ![Hw] = NewJob(f)]
    BY <1>4 DEF HwScan
  <2>3. CASE job' = job
    BY <2>1, <2>3
  <2>4. ASSUME NEW f, job' = [job EXCEPT ![Hw] = NewJob(f)] PROVE JobsInCalls'
    <3>1. /\ job' = [u \in Threads |-> [at |-> job'[u].at, freq |-> job'[u].freq, seq |-> job'[u].seq]]
          /\ job'[Hw].at = "call"
          /\ \A u \in Threads : u # Hw => job'[u] = job[u]
      BY <2>1, <2>4
    <3> QED
      BY <2>1, <3>1
  <2> QED
    BY <2>2, <2>3, <2>4
<1>5. CASE HwWrite \/ HwScanned
  BY <1>5 DEF HwWrite, HwScanned, demuxVars, tuneVars
<1>6. ASSUME NEW c \in Clients, WriteRefcnt(c) PROVE JobsInCalls'
  <2>1. call' = call
    BY <1>6 DEF WriteRefcnt, ClientUnchanged, demuxVars
  <2>2. job' = job \/ job' = [job EXCEPT ![c] = NewJob(want[c])]
    BY <1>6 DEF WriteRefcnt
  <2>3. CASE job' = job
    BY <2>1, <2>3
  <2>4. CASE job' = [job EXCEPT ![c] = NewJob(want[c])]
    BY <2>1, <2>4, PidFacts
  <2> QED
    BY <2>2, <2>3, <2>4
<1>7. ASSUME UNCHANGED job,
             (\E p \in Pids : D!CallRemove(Teardown, p)) \/ D!RemoveStep(Teardown)
      PROVE  JobsInCalls'
  <2>1. call[Teardown].pc # "tuDone"
    BY <1>7 DEF D!CallRemove, D!Enter, D!NoCall, D!RemoveStep, D!FindSlot, D!StopFilter, D!FreeSlot
  <2>2. \A u \in Threads : u # Teardown => call'[u] = call[u]
    BY <1>7, PidFacts, OthersStay DEF D!Step
  <2> QED
    BY <1>7, <2>1, <2>2, PidFacts
<1>8. ASSUME NEW c \in Clients, BeginDown(c) PROVE JobsInCalls'
  BY <1>7, <1>8, PidFacts DEF BeginDown, DownUnchanged, tuneVars
<1>9. CASE DownRemoving
  BY <1>7, <1>9 DEF DownRemoving, DownUnchanged, tuneVars
<1>10. CASE DownStream
  <2>1. down.who \in listed => Es[down.who] \in Pids
    BY PidFacts DEF ListsOfPids
  <2> QED
    BY <1>7, <1>10, <2>1 DEF DownStream, DownUnchanged, tuneVars, demuxVars
<1> QED
  BY <1>1, <1>2, <1>3, <1>4, <1>5, <1>6, <1>8, <1>9, <1>10, Others

\* Only the end of a tune changes curr_frequency_ptr.
LEMMA OnlyPublishes ==
    ASSUME [Next]_vars, curr' # curr
    PROVE  \E t \in Threads : TunePublish(t)
<1> USE DEF tuneVars
<1>1. ~ UNCHANGED vars
  BY DEF vars
<1>2. \A t \in Threads : TuneStep(t) => TunePublish(t)
  BY DEF TuneStep, TuneCall, TuneClear, TuneParams, TuneFrontend, TuneSequence, TuneCount, TuneEnd
<1>3. \A t \in Threads : ~AddStep(t)
  BY DEF AddStep
<1>4. ~Receive /\ ~HwStep
  BY DEF Receive, HwStep, HwSync, HwBase, HwFile, HwWrite, HwWritten, HwReadDone, HwScan, HwScanned
<1>5. \A c \in Clients : ~AddNew(c) /\ ~ClientStep(c) /\ ~BeginDown(c)
  BY DEF AddNew, ClientStep, CheckRefcnt, SetBusy, Compare, ReadRefcnt, WriteRefcnt,
         AppendSession, ClientUnchanged, BeginDown, DownUnchanged
<1>6. ~DownStep
  BY DEF DownStep, DownRemoving, DownStream, DownReadRefcnt, DownWriteRefcnt, DownCheck,
         DownIdle, DownFree, DownUnchanged
<1> QED
  BY <1>1, <1>2, <1>3, <1>4, <1>5, <1>6 DEF Next

LEMMA InitInv == Init => IInv
<1> SUFFICES ASSUME Init PROVE IInv
  OBVIOUS
<1>1. P!IInv
  BY SameInit, P!InitIInv, TableAssumption DEF Init
<1>2. ListsOfPids
  <2>1. SiPids \in Seq(Pids) /\ <<>> \in Seq(Pids)
    BY PidFacts
  <2> QED
    BY <2>1 DEF Init, ListsOfPids
<1>3. JobsInCalls
  BY DEF Init, JobsInCalls, PastClearing, NoJob, NewJob
<1> QED
  BY <1>1, <1>2, <1>3 DEF IInv

LEMMA InvStep == IInv /\ [Next]_vars => IInv'
<1> SUFFICES ASSUME IInv, [Next]_vars PROVE IInv'
  OBVIOUS
<1> USE DEF IInv
<1>1. [P!Next]_demuxVars
  BY TableStep, SameNext
<1>2. P!IInv'
  BY <1>1, P!IInvStep, TableAssumption DEF demuxVars, P!vars
<1> QED
  BY <1>2, ListsStep, JobsStep

-----------------------------------------------------------------------------
\* Main, the hardware thread, the clients and the teardown call the table's
\* operations only as module DemuxTable allows, so that its theorems hold of
\* the tuner: one removal at a time, one operation of a thread at a time.
THEOREM UsesTable == Spec => DemuxTableSpec
<1>1. Init => D!Init
  BY DEF Init
<1>2. IInv /\ [Next]_vars => [D!Next]_(D!vars)
  BY TableStep DEF IInv, demuxVars, D!vars
<1> QED
  BY <1>1, <1>2, InitInv, InvStep, PTL DEF Spec, DemuxTableSpec, D!Spec

\* dvbs_tune publishes a frequency only with the table empty and every filter
\* stopped, although sessions come and go and the scan goes on meanwhile.
THEOREM RetunesAreQuiet == Spec => RetuneQuiet
<1>1. ASSUME IInv, [Next]_vars, TuneLocks, curr' # curr, NEW s \in D!Slots
      PROVE  pids[s] = Free /\ filter[s] = Free
  <2>1. PICK t \in Threads : TunePublish(t)
    BY <1>1, OnlyPublishes
  <2>2. call[t].pc = "tuDone"
    BY <1>1, <2>1 DEF IInv, JobsInCalls, PastClearing, TunePublish, Tuning
  <2>3. P!TuneOK(call[t]) /\ call[t].slot \in P!Slots
    BY <1>1 DEF IInv, P!IInv, P!TuneClears, P!TypeOK, P!Calls
  <2>4. s < call[t].slot \/ s = call[t].slot
    BY <2>2, <2>3, P!SlotsFacts, TableAssumption DEF P!TuneOK, D!Slots, P!Slots
  <2> QED
    BY <2>2, <2>3, <2>4 DEF P!TuneOK, D!Slots, P!Slots
<1>2. IInv /\ [Next]_vars
      => [TuneLocks /\ curr' # curr => \A s \in D!Slots : pids[s] = Free /\ filter[s] = Free]_vars
  BY <1>1
<1> QED
  BY <1>2, InitInv, InvStep, PTL DEF Spec, RetuneQuiet

-----------------------------------------------------------------------------
(* No PID outlives its session.                                             *)

\* Who is adding a PID, or is going to; whether the table lists it; whether the
\* teardown is removing it.
Adding(t, p) ==
    \/ call[t].pc \in P!AddPcs /\ call[t].pid = p
    \/ \E i \in 1 .. Len(todo[t]) : todo[t][i] = p

InTable(p) == \E s \in P!Slots : pids[s] = p

Removing(p) == call[Teardown].pc \in P!RemovePcs /\ call[Teardown].pid = p

\* The locked parts of a session's life: process_pmt and the teardown.
Locked ==
    /\ DOMAIN cpc = Clients
    /\ down = [at |-> down.at, who |-> down.who, tmp |-> down.tmp]
    /\ down.at # "none" => down.who \in Clients /\ cpc[down.who] = "live" /\ sessionsLock = Teardown
    /\ down.at \notin {"none", "stream"} => down.who \notin listed
    /\ hpc = "write" => sessionsLock = Hw
    /\ \A c \in listed : cpc[c] = "live"
    /\ \A t \in Threads : call[t].pc \in P!RemovePcs =>
          /\ t = Teardown
          /\ \/ down.at = "stream" /\ call[t].pid = Pmt[down.who]
             \/ down.at = "read" /\ call[t].pid = Es[down.who]

\* A session's PIDs are added by session_addNew before the session is in the
\* list, and by process_pmt under the lock of the list, never during a teardown.
Adders ==
    \A t \in Threads, c \in Clients :
        /\ Adding(t, Pmt[c]) => t = c /\ cpc[c] = "append"
        /\ Adding(t, Es[c]) => t = Hw /\ c \in listed /\ sessionsLock = Hw

\* The slots a removal has passed do not list its PID, whoever used the table
\* meanwhile without knowing of it; the slot it has found is the only one.
RemovalPasses ==
    \A s \in P!Slots : pids[s] = call[Teardown].pid =>
        /\ call[Teardown].pc = "rmFind" => ~(s < call[Teardown].slot)
        /\ call[Teardown].pc \in {"rmStop", "rmFree"} => s = call[Teardown].slot

\* What is in the table belongs to a session, and is being removed once its
\* teardown has come to it.
Listings ==
    \A c \in Clients :
        /\ InTable(Pmt[c]) =>
              /\ cpc[c] \in {"append", "live"}
              /\ down.at # "none" /\ down.who = c => Removing(Pmt[c])
        /\ InTable(Es[c]) =>
              /\ cpc[c] = "live"
              /\ c \in listed \/ Removing(Es[c])

OInv == Locked /\ Adders /\ RemovalPasses /\ Listings

LEMMA SameStep ==
    ASSUME NEW t \in Threads
    PROVE  /\ D!AddStep(t) => P!AddStep(t)
           /\ D!RemoveStep(t) => P!RemoveStep(t)
           /\ D!TuneStep(t) => P!TuneStep(t)
BY DEF D!AddStep, P!AddStep, D!RemoveStep, P!RemoveStep, D!TuneStep, P!TuneStep,
        D!LockForAdd, P!LockForAdd, D!DupScan, P!DupScan,
        D!FreeScan, P!FreeScan, D!ClaimSlot, P!ClaimSlot, D!StartFilter, P!StartFilter,
        D!FindSlot, P!FindSlot, D!StopFilter, P!StopFilter, D!FreeSlot, P!FreeSlot,
        D!LockForTune, P!LockForTune, D!StopForTune, P!StopForTune, D!FreeForTune,
        P!FreeForTune, D!EndTune, P!EndTune, D!At, P!At,
        P!Return, D!Return, D!Acquire, P!Acquire, D!Release, P!Release, D!LastSlot, P!LastSlot,
        D!NoCall, P!NoCall

\* What a step inside a call may do to the table and to the call.
LEMMA StepFacts ==
    ASSUME P!IInv, NEW t \in Threads, D!Step(t)
    PROVE  /\ \A u \in Threads : u # t => call'[u] = call[u]
           /\ \A s \in P!Slots : \/ pids'[s] \in {pids[s], Free}
                                 \/ call[t].pc \in P!AddPcs /\ pids'[s] = call[t].pid
           /\ call'[t].pc \in P!AddPcs => call[t].pc \in P!AddPcs /\ call'[t].pid = call[t].pid
           /\ call'[t].pc \in P!RemovePcs => call[t].pc \in P!RemovePcs /\ call'[t].pid = call[t].pid
<1>1. P!Step(t) /\ P!TypeOK
  BY SameStep DEF D!Step, P!Step, P!IInv
<1>2. \A u \in Threads : u # t => call'[u] = call[u]
  BY <1>1, P!OtherCalls, TableAssumption
<1>3. P!OwnMove(t)
  BY <1>1, P!OwnCall, TableAssumption
<1>4. ASSUME NEW s \in P!Slots
      PROVE  \/ pids'[s] \in {pids[s], Free}
             \/ call[t].pc \in P!AddPcs /\ pids'[s] = call[t].pid
  <2>1. CASE P!ClaimSlot(t)
    <3>1. /\ pids'[call[t].slot] = call[t].pid
          /\ s # call[t].slot => pids'[s] = pids[s]
      BY <1>1, <2>1, P!Claim, TableAssumption
    <3>2. call[t].pc \in P!AddPcs
      BY <2>1 DEF P!ClaimSlot, P!AddPcs
    <3> QED
      BY <3>1, <3>2
  <2>2. CASE ~P!ClaimSlot(t)
    BY <1>1, <2>2, P!OnlyClaimsList, TableAssumption
  <2> QED
    BY <2>1, <2>2
<1>5. P!NoCall.pc \notin P!AddPcs \cup P!RemovePcs
  BY DEF P!NoCall, P!AddPcs, P!RemovePcs
<1> QED
  BY <1>2, <1>3, <1>4, <1>5 DEF P!OwnMove

\* PIDs of sessions are PIDs, and tell whose they are.
LEMMA Whose ==
    /\ Free \notin Pids
    /\ \A c \in Clients : Pmt[c] \in Pids /\ Es[c] \in Pids /\ Pmt[c] \notin SiSet /\ Es[c] \notin SiSet
    /\ \A c, d \in Clients : Pmt[c] # Es[d]
    /\ \A c, d \in Clients : Pmt[c] = Pmt[d] => c = d
    /\ \A c, d \in Clients : Es[c] = Es[d] => c = d
<1>1. \A c, d \in Clients : c # d => {Pmt[c], Es[c]} \cap {Pmt[d], Es[d]} = {}
  BY PidsAssumption
<1>2. \A c \in Clients : Pmt[c] # Es[c] /\ {Pmt[c], Es[c]} \cap SiSet = {}
  BY PidsAssumption
<1> QED
  BY <1>1, <1>2, TableAssumption, PidFacts

\* A thread other than the teardown's removal uses the table.
LEMMA Using ==
    ASSUME IInv, OInv, NEW t \in Threads,
           \A u \in Threads : u # t => call'[u] = call[u],
           \A s \in P!Slots : \/ pids'[s] \in {pids[s], Free}
                              \/ call[t].pc \in P!AddPcs /\ pids'[s] = call[t].pid,
           call[t].pc \notin P!RemovePcs, call'[t].pc \notin P!RemovePcs,
           \A u \in Threads, p \in Pids : Adding(u, p)' => Adding(u, p),
           UNCHANGED <<cpc, down, listed, sessionsLock, hpc>>
    PROVE  OInv'
<1> USE DEF OInv
<1>1. Locked'
  BY DEF Locked
<1>2. Adders'
  BY Whose DEF Adders
<1>3. Teardown \in Threads
  BY PidFacts
<1>4. \A p : Removing(p) <=> Removing(p)'
  BY <1>3 DEF Removing
<1>5. ASSUME NEW p \in Pids, NEW s \in P!Slots, pids'[s] = p
      PROVE  pids[s] = p \/ Adding(t, p)
  BY <1>5, Whose DEF Adding
<1>6. RemovalPasses'
  <2> SUFFICES ASSUME call'[Teardown].pc \in P!RemovePcs, NEW s \in P!Slots,
                      pids'[s] = call'[Teardown].pid
               PROVE  /\ call'[Teardown].pc = "rmFind" => ~(s < call'[Teardown].slot)
                      /\ call'[Teardown].pc \in {"rmStop", "rmFree"} => s = call'[Teardown].slot
    BY DEF RemovalPasses, P!RemovePcs
  <2>1. call'[Teardown] = call[Teardown]
    BY <1>3
  <2>2. ~Adding(t, call[Teardown].pid)
    BY <1>3, <2>1, ActorsAssumption DEF Adders, Locked
  <2>3. call[Teardown].pid \in Pids
    BY <1>3, <2>1 DEF IInv, P!IInv, P!MutexHeld
  <2>4. pids[s] = call[Teardown].pid
    BY <1>5, <2>1, <2>2, <2>3
  <2> QED
    BY <2>1, <2>4 DEF RemovalPasses
<1>7. Listings'
  <2> SUFFICES ASSUME NEW c \in Clients
               PROVE  /\ InTable(Pmt[c])' => /\ cpc[c] \in {"append", "live"}
                                             /\ down.at # "none" /\ down.who = c => Removing(Pmt[c])
                      /\ InTable(Es[c])' => cpc[c] = "live" /\ (c \in listed \/ Removing(Es[c]))
    BY <1>4 DEF Listings
  <2>1. ASSUME NEW p \in Pids, InTable(p)' PROVE InTable(p) \/ Adding(t, p)
    BY <1>5, <2>1 DEF InTable
  <2>2. Pmt[c] \in Pids /\ Es[c] \in Pids
    BY Whose
  <2>3. InTable(Pmt[c])' => /\ cpc[c] \in {"append", "live"}
                            /\ down.at # "none" /\ down.who = c => Removing(Pmt[c])
    BY <2>1, <2>2 DEF Listings, Adders, Locked
  <2>4. InTable(Es[c])' => cpc[c] = "live" /\ (c \in listed \/ Removing(Es[c]))
    BY <2>1, <2>2 DEF Listings, Adders, Locked
  <2> QED
    BY <2>3, <2>4
<1> QED
  BY <1>1, <1>2, <1>6, <1>7

\* A step that leaves the table, the lists and the lock alone.
LEMMA Elsewhere ==
    ASSUME OInv, pids' = pids, call' = call, hpc' = "write" => hpc = "write",
           UNCHANGED <<down, listed, sessionsLock, todo, cpc>>
    PROVE  OInv'
<1>1. \A p : /\ InTable(p)' <=> InTable(p)
             /\ Removing(p)' <=> Removing(p)
             /\ \A t : Adding(t, p)' <=> Adding(t, p)
  BY DEF InTable, Removing, Adding
<1>2. Locked'
  BY DEF OInv, Locked
<1>3. Adders'
  BY <1>1 DEF OInv, Adders
<1>4. RemovalPasses'
  BY DEF OInv, RemovalPasses
<1>5. Listings'
  BY <1>1 DEF OInv, Listings
<1> QED
  BY <1>2, <1>3, <1>4, <1>5 DEF OInv

LEMMA TuneKeeps ==
    ASSUME IInv, OInv, NEW t \in Threads, TuneStep(t)
    PROVE  OInv'
<1>1. UNCHANGED <<todo, cpc, down, listed, sessionsLock, hpc>>
  BY DEF TuneStep, downVars, clientVars, readVars
<1>2. CASE UNCHANGED demuxVars
  BY <1>1, <1>2, Elsewhere DEF demuxVars
<1>3. CASE D!CallTune(t)
  <2>1. /\ pids' = pids /\ call[t].pc = "idle" /\ call'[t].pc = "tuLock"
        /\ \A u \in Threads : u # t => call'[u] = call[u]
    <3>1. call = [u \in Threads |-> call[u]]
      BY DEF IInv, P!IInv, P!TypeOK, P!Calls
    <3> QED
      BY <1>3, <3>1 DEF D!CallTune, D!Enter, D!NoCall
  <2>2. \A u \in Threads, p \in Pids : Adding(u, p)' => Adding(u, p)
    BY <1>1, <2>1 DEF Adding, P!AddPcs
  <2>3. call[t].pc \notin P!RemovePcs /\ call'[t].pc \notin P!RemovePcs
    BY <2>1 DEF P!RemovePcs
  <2> QED
    BY <1>1, <2>1, <2>2, <2>3, Using
<1>4. CASE D!TuneStep(t)
  <2>1. D!Step(t) /\ P!IInv
    BY <1>4 DEF D!Step, IInv
  <2>2. call[t].pc \notin P!RemovePcs
    BY <1>4 DEF P!RemovePcs, D!TuneStep, D!LockForTune, D!StopForTune, D!FreeForTune, D!EndTune
  <2>3. \A u \in Threads, p \in Pids : Adding(u, p)' => Adding(u, p)
    BY <1>1, <2>1, StepFacts DEF Adding
  <2> QED
    BY <1>1, <2>1, <2>2, <2>3, StepFacts, Using
<1> QED
  <2>1. TuneClear(t) => D!TuneStep(t)
    <3>1. AlreadyThere(t) \in BOOLEAN
      BY TableAssumption DEF AlreadyThere
    <3> QED
      BY <3>1 DEF TuneClear, D!TuneStep
  <2> QED
    BY <1>2, <1>3, <1>4, <2>1 DEF TuneStep, TuneCall, TuneEnd, D!TuneStep, TuneParams, TuneFrontend,
       TuneSequence, TuneCount, TunePublish

LEMMA AddKeeps ==
    ASSUME IInv, OInv, NEW t \in Threads, AddStep(t)
    PROVE  OInv'
<1>1. UNCHANGED <<cpc, down, listed, sessionsLock, hpc>>
  BY DEF AddStep, downVars, clientVars, hwVars, readVars
<1>2. CASE todo[t] # <<>> /\ D!CallAdd(t, Head(todo[t])) /\ todo' = [todo EXCEPT ![t] = Tail(@)]
  <2>1. /\ todo[t] \in Seq(Pids) /\ todo \in [Threads -> Seq(Pids)] /\ Len(todo[t]) \in Nat \ {0}
        /\ Head(todo[t]) = todo[t][1] /\ Len(Tail(todo[t])) = Len(todo[t]) - 1
        /\ \A i \in 1 .. Len(todo[t]) - 1 : Tail(todo[t])[i] = todo[t][i + 1]
    BY <1>2, EmptySeq, LenProperties, HeadTailProperties DEF IInv, ListsOfPids
  <2>2. /\ pids' = pids /\ call[t].pc = "idle"
        /\ call'[t].pc = "addLock" /\ call'[t].pid = todo[t][1]
        /\ \A u \in Threads : u # t => call'[u] = call[u]
    <3>1. call = [u \in Threads |-> call[u]]
      BY DEF IInv, P!IInv, P!TypeOK, P!Calls
    <3> QED
      BY <1>2, <2>1, <3>1 DEF D!CallAdd, D!Enter, D!NoCall
  <2>3. ASSUME NEW u \in Threads, NEW p \in Pids, Adding(u, p)'
        PROVE  Adding(u, p)
    <3>1. CASE u # t
      BY <1>2, <2>1, <2>2, <2>3, <3>1 DEF Adding
    <3>2. CASE u = t
      <4>1. todo'[t] = Tail(todo[t])
        BY <1>2, <2>1
      <4>2. CASE p = todo[t][1]
        BY <2>1, <3>2, <4>2 DEF Adding
      <4>3. CASE p # todo[t][1]
        <5>1. PICK i \in 1 .. Len(todo[t]) - 1 : todo[t][i + 1] = p
          BY <2>1, <2>2, <2>3, <3>2, <4>1, <4>3 DEF Adding
        <5>2. i + 1 \in 1 .. Len(todo[t])
          BY <2>1
        <5> QED
          BY <3>2, <5>1, <5>2 DEF Adding
      <4> QED
        BY <4>2, <4>3
    <3> QED
      BY <3>1, <3>2
  <2>4. call[t].pc \notin P!RemovePcs /\ call'[t].pc \notin P!RemovePcs
    BY <2>2 DEF P!RemovePcs
  <2> QED
    BY <1>1, <2>2, <2>3, <2>4, Using
<1>3. CASE D!AddStep(t) /\ UNCHANGED todo
  <2>1. D!Step(t) /\ P!IInv
    BY <1>3 DEF D!Step, IInv
  <2>2. call[t].pc \notin P!RemovePcs
    BY <1>3 DEF P!RemovePcs, D!AddStep, D!LockForAdd, D!DupScan, D!FreeScan, D!ClaimSlot, D!StartFilter
  <2>3. \A u \in Threads, p \in Pids : Adding(u, p)' => Adding(u, p)
    BY <1>3, <2>1, StepFacts DEF Adding
  <2> QED
    BY <1>1, <2>1, <2>2, <2>3, StepFacts, Using
<1> QED
  BY <1>2, <1>3 DEF AddStep

\* What a removal does to the table and to its own call.
LEMMA RemovalStep ==
    ASSUME P!IInv, RemovalPasses, D!RemoveStep(Teardown)
    PROVE  /\ RemovalPasses'
           /\ \A s \in P!Slots : pids'[s] \in {pids[s], Free}
           /\ call'[Teardown].pc \in P!RemovePcs
              \/ \A s \in P!Slots : pids'[s] # call[Teardown].pid
<1> DEFINE r == call[Teardown]
<1>1. /\ Teardown \in Threads /\ r.slot \in P!Slots /\ pids \in [P!Slots -> Pids \cup {Free}]
      /\ r.pid \in Pids /\ r.pc \in P!RemovePcs /\ call = [u \in Threads |-> call[u]]
  BY PidFacts DEF P!IInv, P!TypeOK, P!Calls, P!MutexHeld, P!RemovePcs,
     D!RemoveStep, D!FindSlot, D!StopFilter, D!FreeSlot
<1>2. CASE D!FindSlot(Teardown)
  <2>1. pids' = pids /\ r.pc = "rmFind"
    BY <1>2 DEF D!FindSlot
  <2>2. \A s \in P!Slots : pids[s] = r.pid => ~(s < r.slot)
    BY <2>1 DEF RemovalPasses
  <2>3. CASE pids[r.slot] = r.pid /\ D!At(Teardown, "rmStop", r.slot)
    <3>1. call'[Teardown].pc = "rmStop" /\ call'[Teardown].slot = r.slot /\ call'[Teardown].pid = r.pid
      BY <1>1, <2>3 DEF D!At
    <3>2. \A s \in P!Slots : pids[s] = r.pid => s = r.slot
      BY <1>1, <2>3, TableAssumption DEF P!IInv, P!NoDuplicatePid
    <3> QED
      BY <2>1, <3>1, <3>2 DEF RemovalPasses, P!RemovePcs
  <2>4. CASE pids[r.slot] # r.pid /\ ~D!LastSlot(r.slot) /\ D!At(Teardown, "rmFind", r.slot + 1)
    <3>1. call'[Teardown].pc = "rmFind" /\ call'[Teardown].slot = r.slot + 1 /\ call'[Teardown].pid = r.pid
      BY <1>1, <2>4 DEF D!At
    <3>2. \A s \in P!Slots : s < r.slot + 1 => s < r.slot \/ s = r.slot
      BY <1>1, P!SlotsFacts, TableAssumption
    <3> QED
      BY <2>1, <2>2, <2>4, <3>1, <3>2 DEF RemovalPasses, P!RemovePcs
  <2>5. CASE pids[r.slot] # r.pid /\ D!LastSlot(r.slot) /\ D!Return(Teardown)
    <3>1. call'[Teardown].pc = "idle"
      BY <1>1, <2>5 DEF D!Return, D!NoCall
    <3>2. \A s \in P!Slots : s < r.slot \/ s = r.slot
      BY <1>1, <2>5, P!SlotsFacts, TableAssumption DEF D!LastSlot, P!LastSlot
    <3> QED
      BY <2>1, <2>2, <2>5, <3>1, <3>2 DEF RemovalPasses
  <2> QED
    BY <1>2, <2>3, <2>4, <2>5 DEF D!FindSlot
<1>3. CASE D!StopFilter(Teardown)
  <2>1. /\ pids' = pids /\ r.pc = "rmStop"
        /\ call'[Teardown].pc = "rmFree" /\ call'[Teardown].slot = r.slot /\ call'[Teardown].pid = r.pid
    BY <1>1, <1>3 DEF D!StopFilter, D!At
  <2> QED
    BY <2>1 DEF RemovalPasses, P!RemovePcs
<1>4. CASE D!FreeSlot(Teardown)
  <2>1. pids' = [pids EXCEPT ![r.slot] = Free] /\ r.pc = "rmFree" /\ call'[Teardown].pc = "idle"
    BY <1>1, <1>4 DEF D!FreeSlot, D!Return, D!NoCall
  <2>2. \A s \in P!Slots : pids'[s] # r.pid
    BY <1>1, <2>1, TableAssumption DEF RemovalPasses
  <2> QED
    BY <1>1, <2>1, <2>2 DEF RemovalPasses
<1> QED
  BY <1>2, <1>3, <1>4 DEF D!RemoveStep

\* What a call of removePID_from_Demux begins with.
LEMMA RemovalBegins ==
    ASSUME IInv, OInv, NEW p \in Pids, D!CallRemove(Teardown, p)
    PROVE  /\ pids' = pids /\ call[Teardown] = D!NoCall
           /\ call'[Teardown].pc = "rmFind" /\ call'[Teardown].pid = p
           /\ \A u \in Threads : u # Teardown => call'[u] = call[u] /\ call[u].pc \notin P!RemovePcs
           /\ \A q : ~Removing(q)
           /\ \A q : Removing(q)' <=> q = p
           /\ RemovalPasses'
<1>1. call = [u \in Threads |-> call[u]] /\ Teardown \in Threads
  BY PidFacts DEF IInv, P!IInv, P!TypeOK, P!Calls
<1>2. /\ pids' = pids /\ call[Teardown] = D!NoCall
      /\ call' = [call EXCEPT ![Teardown] = [pc |-> "rmFind", pid |-> p, slot |-> 0]]
  BY DEF D!CallRemove, D!Enter
<1>3. call'[Teardown] = [pc |-> "rmFind", pid |-> p, slot |-> 0]
  BY <1>1, <1>2
<1>4. call[Teardown].pc \notin P!RemovePcs
  BY <1>2 DEF D!NoCall, P!RemovePcs
<1>5. \A u \in Threads : u # Teardown => call'[u] = call[u] /\ call[u].pc \notin P!RemovePcs
  BY <1>1, <1>2 DEF OInv, Locked
<1>6. RemovalPasses'
  <2>1. \A s \in P!Slots : ~(s < 0)
    BY P!SlotsFacts, TableAssumption DEF P!Slots
  <2> QED
    BY <1>3, <2>1 DEF RemovalPasses
<1>7. (\A q : ~Removing(q)) /\ \A q : Removing(q)' <=> q = p
  BY <1>3, <1>4 DEF Removing, P!RemovePcs
<1> QED
  BY <1>2, <1>3, <1>5, <1>6, <1>7

LEMMA BeginKeeps ==
    ASSUME IInv, OInv, NEW c \in Clients, BeginDown(c)
    PROVE  OInv'
<1>1. /\ D!CallRemove(Teardown, Pmt[c]) /\ Pmt[c] \in Pids
      /\ cpc[c] = "live" /\ down = NoDown /\ sessionsLock = Nobody /\ sessionsLock' = Teardown
      /\ down' = [at |-> "stream", who |-> c, tmp |-> 0]
      /\ UNCHANGED <<cpc, listed, todo, hpc>>
  BY Whose DEF BeginDown, DownUnchanged, hwVars, readVars
<1>2. Nobody # Hw /\ Teardown \in Threads
  BY PidFacts, TableAssumption
<1>3. down'.at = "stream" /\ down'.who = c /\ down.at = "none"
  BY <1>1 DEF NoDown
<1>4. \A u \in Threads, p \in Pids : Adding(u, p)' => Adding(u, p)
  BY <1>1, RemovalBegins DEF Adding, P!AddPcs
<1>5. Locked'
  <2>1. hpc # "write"
    BY <1>1, <1>2 DEF OInv, Locked
  <2>2. \A t \in Threads : call'[t].pc \in P!RemovePcs => t = Teardown
    BY <1>1, RemovalBegins
  <2>3. call'[Teardown].pid = Pmt[down'.who]
    BY <1>1, <1>3, RemovalBegins
  <2> QED
    BY <1>1, <1>3, <2>1, <2>2, <2>3 DEF OInv, Locked
<1>6. Adders'
  BY <1>1, <1>2, <1>4, Whose DEF OInv, Adders
<1>7. Listings'
  <2>1. \A p : InTable(p)' <=> InTable(p)
    BY <1>1, RemovalBegins DEF InTable
  <2>2. /\ \A q : ~Removing(q)
        /\ \A q : Removing(q)' <=> q = Pmt[c]
    BY <1>1, RemovalBegins
  <2> QED
    BY <1>1, <1>3, <2>1, <2>2 DEF OInv, Listings
<1>8. RemovalPasses'
  BY <1>1, RemovalBegins
<1> QED
  BY <1>5, <1>6, <1>7, <1>8 DEF OInv

LEMMA RemovingKeeps ==
    ASSUME IInv, OInv, DownRemoving
    PROVE  OInv'
<1>1. /\ D!RemoveStep(Teardown) /\ D!Step(Teardown) /\ Teardown \in Threads
      /\ P!IInv /\ RemovalPasses
      /\ UNCHANGED <<cpc, down, listed, sessionsLock, hpc, todo>>
  BY PidFacts DEF DownRemoving, DownUnchanged, hwVars, readVars, D!Step, IInv, OInv
<1>2. \A u \in Threads : u # Teardown => call'[u] = call[u]
  BY <1>1, StepFacts
<1>3. /\ call'[Teardown].pc \in P!AddPcs
         => call[Teardown].pc \in P!AddPcs /\ call'[Teardown].pid = call[Teardown].pid
      /\ call'[Teardown].pc \in P!RemovePcs
         => call[Teardown].pc \in P!RemovePcs /\ call'[Teardown].pid = call[Teardown].pid
  BY <1>1, StepFacts
<1>4. Locked'
  BY <1>1, <1>2, <1>3 DEF OInv, Locked
<1>5. Adders'
  <2>1. \A u \in Threads, p \in Pids : Adding(u, p)' => Adding(u, p)
    BY <1>1, <1>2, <1>3 DEF Adding
  <2> QED
    BY <1>1, <2>1, Whose DEF OInv, Adders
<1>6. /\ RemovalPasses'
      /\ \A s \in P!Slots : pids'[s] \in {pids[s], Free}
      /\ call'[Teardown].pc \in P!RemovePcs \/ \A s \in P!Slots : pids'[s] # call[Teardown].pid
  BY <1>1, RemovalStep
<1>7. \A p \in Pids : InTable(p)' => InTable(p) /\ (Removing(p) => Removing(p)')
  BY <1>3, <1>6, Whose DEF InTable, Removing
<1>8. Listings'
  BY <1>1, <1>7, Whose DEF OInv, Listings
<1> QED
  BY <1>4, <1>5, <1>6, <1>8 DEF OInv

LEMMA StreamKeeps ==
    ASSUME IInv, OInv, DownStream
    PROVE  OInv'
<1>1. /\ down.at = "stream" /\ call[Teardown] = D!NoCall
      /\ listed' = listed \ {down.who}
      /\ down' = [down EXCEPT !.at = "read"]
      /\ UNCHANGED <<cpc, sessionsLock, todo, hpc>>
  BY DEF DownStream, DownUnchanged, hwVars, readVars
<1>2. /\ down.who \in Clients /\ cpc[down.who] = "live" /\ sessionsLock = Teardown
      /\ down'.at = "read" /\ down'.who = down.who
      /\ down' = [at |-> down'.at, who |-> down'.who, tmp |-> down'.tmp]
  BY <1>1 DEF OInv, Locked
<1>3. Teardown \in Threads /\ hpc # "write" /\ sessionsLock # Hw
  BY <1>2, PidFacts, ActorsAssumption DEF OInv, Locked
<1>4. \A q : ~Removing(q)
  BY <1>1 DEF Removing, D!NoCall, P!RemovePcs
<1>5. CASE down.who \in listed /\ D!CallRemove(Teardown, Es[down.who])
  <2>1. Es[down.who] \in Pids
    BY <1>2, Whose
  <2>2. \A u \in Threads, p \in Pids : Adding(u, p)' => Adding(u, p)
    BY <1>1, <1>5, <2>1, RemovalBegins DEF Adding, P!AddPcs
  <2>3. Locked'
    <3>1. \A t \in Threads : call'[t].pc \in P!RemovePcs => t = Teardown
      BY <1>5, <2>1, RemovalBegins
    <3>2. call'[Teardown].pid = Es[down'.who]
      BY <1>2, <1>5, <2>1, RemovalBegins
    <3> QED
      BY <1>1, <1>2, <1>3, <3>1, <3>2 DEF OInv, Locked
  <2>4. Adders'
    BY <1>1, <1>3, <2>2, Whose DEF OInv, Adders
  <2>5. Listings'
    <3>1. \A p : InTable(p)' <=> InTable(p)
      BY <1>5, <2>1, RemovalBegins DEF InTable
    <3>2. \A q : Removing(q)' <=> q = Es[down.who]
      BY <1>5, <2>1, RemovalBegins
    <3> QED
      BY <1>1, <1>2, <1>4, <3>1, <3>2 DEF OInv, Listings
  <2>6. RemovalPasses'
    BY <1>5, <2>1, RemovalBegins
  <2> QED
    BY <2>3, <2>4, <2>5, <2>6 DEF OInv
<1>6. CASE down.who \notin listed /\ UNCHANGED demuxVars
  <2>1. pids' = pids /\ call' = call
    BY <1>6 DEF demuxVars
  <2>2. \A p : Removing(p)' <=> Removing(p)
    BY <2>1 DEF Removing
  <2>3. Locked'
    <3>1. \A t \in Threads : call[t].pc \notin P!RemovePcs
      BY <1>1 DEF OInv, Locked, D!NoCall, P!RemovePcs
    <3> QED
      BY <1>1, <1>2, <1>3, <1>6, <2>1, <3>1 DEF OInv, Locked
  <2>4. Adders'
    BY <1>1, <1>3, <2>1 DEF OInv, Adders, Adding
  <2>5. Listings'
    BY <1>1, <1>2, <1>4, <1>6, <2>1, <2>2 DEF OInv, Listings, InTable
  <2>6. RemovalPasses'
    BY <2>1 DEF OInv, RemovalPasses
  <2> QED
    BY <2>3, <2>4, <2>5, <2>6 DEF OInv
<1> QED
  BY <1>5, <1>6 DEF DownStream

\* The steps of a teardown after its removals.
LEMMA CountKeeps ==
    ASSUME IInv, OInv, DownReadRefcnt \/ DownWriteRefcnt \/ DownCheck \/ DownIdle
    PROVE  OInv'
<1>1. /\ UNCHANGED <<cpc, listed, sessionsLock, todo, hpc>> /\ pids' = pids /\ call' = call
      /\ down.at # "none" /\ down'.at \notin {"none", "stream"} /\ down.at # "stream"
      /\ down'.who = down.who
      /\ down' = [at |-> down'.at, who |-> down'.who, tmp |-> down'.tmp]
      /\ down.at = "read" => call[Teardown] = D!NoCall
  <2>1. down = [at |-> down.at, who |-> down.who, tmp |-> down.tmp]
    BY DEF OInv, Locked
  <2>2. UNCHANGED <<cpc, listed, sessionsLock, todo, hpc>> /\ pids' = pids /\ call' = call
    BY DEF DownReadRefcnt, DownWriteRefcnt, DownCheck, DownIdle, DownUnchanged, hwVars, readVars, demuxVars
  <2>3. CASE DownReadRefcnt
    BY <2>1, <2>2, <2>3 DEF DownReadRefcnt
  <2>4. CASE DownWriteRefcnt
    BY <2>1, <2>2, <2>4 DEF DownWriteRefcnt
  <2>5. CASE DownCheck
    BY <2>1, <2>2, <2>5 DEF DownCheck
  <2>6. CASE DownIdle
    BY <2>1, <2>2, <2>6 DEF DownIdle
  <2> QED
    BY <2>3, <2>4, <2>5, <2>6
<1>2. \A t \in Threads : call[t].pc \notin P!RemovePcs
  BY <1>1 DEF OInv, Locked, D!NoCall, P!RemovePcs
<1>3. Locked'
  BY <1>1, <1>2 DEF OInv, Locked
<1>4. Adders'
  BY <1>1 DEF OInv, Adders, Adding
<1>5. Listings'
  BY <1>1 DEF OInv, Listings, InTable, Removing
<1>6. RemovalPasses'
  BY <1>1 DEF OInv, RemovalPasses
<1> QED
  BY <1>3, <1>4, <1>5, <1>6 DEF OInv

LEMMA FreeKeeps ==
    ASSUME IInv, OInv, DownFree
    PROVE  OInv'
<1>1. /\ down.at = "free" /\ down' = NoDown
      /\ UNCHANGED <<listed, todo, hpc>> /\ pids' = pids /\ call' = call
      /\ \E x : cpc' = [cpc EXCEPT ![down.who] = x]
  BY DEF DownFree, hwVars, readVars, demuxVars
<1>2. /\ down.who \in Clients /\ cpc[down.who] = "live" /\ sessionsLock = Teardown
      /\ down.who \notin listed /\ DOMAIN cpc = Clients /\ hpc # "write" /\ sessionsLock # Hw
  BY <1>1, ActorsAssumption DEF OInv, Locked
<1>3. DOMAIN cpc' = Clients /\ \A c \in Clients : c # down.who => cpc'[c] = cpc[c]
  <2>1. PICK x : cpc' = [cpc EXCEPT ![down.who] = x]
    BY <1>1
  <2> QED
    BY <1>2, <2>1
<1>4. \A t \in Threads : call[t].pc \notin P!RemovePcs
  BY <1>1 DEF OInv, Locked
<1>5. \A p : ~Removing(p)
  BY <1>4, PidFacts DEF Removing
<1>6. Locked'
  BY <1>1, <1>2, <1>3, <1>4 DEF OInv, Locked, NoDown
<1>7. Adders'
  <2>1. \A u, p : Adding(u, p)' <=> Adding(u, p)
    BY <1>1 DEF Adding
  <2> QED
    BY <1>2, <1>3, <2>1 DEF OInv, Adders
<1>8. Listings'
  <2>1. \A p : InTable(p)' <=> InTable(p)
    BY <1>1 DEF InTable
  <2>2. ~InTable(Pmt[down.who]) /\ ~InTable(Es[down.who])
    BY <1>1, <1>2, <1>5 DEF OInv, Listings
  <2>3. down'.at = "none"
    BY <1>1 DEF NoDown
  <2>4. \A p : Removing(p)' <=> Removing(p)
    BY <1>1 DEF Removing
  <2> QED
    BY <1>1, <1>3, <2>1, <2>2, <2>3, <2>4 DEF OInv, Listings
<1>9. RemovalPasses'
  BY <1>1 DEF OInv, RemovalPasses
<1> QED
  BY <1>6, <1>7, <1>8, <1>9 DEF OInv

LEMMA HwKeeps ==
    ASSUME IInv, OInv, HwStep
    PROVE  OInv'
<1>1. Hw \in Threads /\ Hw # Nobody /\ Teardown # Nobody
  BY PidFacts, TableAssumption
<1>2. pids' = pids /\ call' = call /\ UNCHANGED <<cpc, down>>
  BY DEF HwStep, HwSync, HwBase, HwFile, HwWrite, HwWritten, HwReadDone, HwScan, HwScanned,
     demuxVars, clientVars, downVars
<1>3. \A p : InTable(p)' <=> InTable(p)
  BY <1>2 DEF InTable
<1>4. \A p : Removing(p)' <=> Removing(p)
  BY <1>2 DEF Removing
<1>5. RemovalPasses'
  BY <1>2 DEF OInv, RemovalPasses
<1>6. CASE HwSync \/ HwBase \/ HwFile \/ HwReadDone \/ HwScan
  <2>1. hpc' # "write" \/ hpc' = hpc
    BY <1>6 DEF HwSync, HwBase, HwFile, HwReadDone, HwScan
  <2>2. UNCHANGED <<down, listed, sessionsLock, todo, cpc>>
    BY <1>6 DEF HwSync, HwBase, HwFile, HwReadDone, HwScan, downVars, clientVars
  <2> QED
    BY <1>2, <2>1, <2>2, Elsewhere
<1>7. CASE HwWritten
  <2>1. /\ hpc = "write" /\ sessionsLock = Hw /\ down.at = "none"
        /\ sessionsLock' = Nobody /\ hpc' = "read" /\ UNCHANGED <<listed, todo>>
    BY <1>7, ActorsAssumption DEF HwWritten, OInv, Locked
  <2>2. \A p \in Pids : ~Adding(Hw, p)
    BY <1>7 DEF HwWritten, Ready, Adding, D!NoCall, P!AddPcs
  <2>3. Adders'
    BY <1>2, <2>1, <2>2, Whose DEF OInv, Adders, Adding
  <2>4. Locked'
    BY <1>2, <2>1 DEF OInv, Locked
  <2>5. Listings'
    BY <1>2, <1>3, <1>4, <2>1 DEF OInv, Listings
  <2> QED
    BY <1>5, <2>3, <2>4, <2>5 DEF OInv
<1>8. CASE HwScanned
  <2>1. UNCHANGED <<listed, sessionsLock>> /\ hpc' = "loop"
    BY <1>8 DEF HwScanned, downVars
  <2>2. PICK q \in {SiPids, <<>>} : todo' = [todo EXCEPT ![Hw] = q]
    BY <1>8 DEF HwScanned
  <2>3. \A i \in 1 .. Len(q) : q[i] \in SiSet
    BY <2>2, PidsAssumption, ElementOfSeq
  <2>4. ASSUME NEW u \in Threads, NEW p \in Pids \ SiSet, Adding(u, p)'
        PROVE  Adding(u, p)
    <3>1. CASE u # Hw
      BY <1>2, <2>2, <2>4, <3>1 DEF Adding, IInv, ListsOfPids
    <3>2. CASE u = Hw
      <4>1. todo'[Hw] = q
        BY <1>1, <2>2 DEF IInv, ListsOfPids
      <4> QED
        BY <1>2, <2>3, <2>4, <3>2, <4>1 DEF Adding
    <3> QED
      BY <3>1, <3>2
  <2>5. Adders'
    BY <1>2, <2>1, <2>4, Whose DEF OInv, Adders
  <2>6. Locked'
    BY <1>2, <2>1 DEF OInv, Locked
  <2>7. Listings'
    BY <1>2, <1>3, <1>4, <2>1 DEF OInv, Listings
  <2> QED
    BY <1>5, <2>5, <2>6, <2>7 DEF OInv
<1>9. CASE HwWrite
  <2>1. sessionsLock = Nobody /\ sessionsLock' = Hw /\ hpc' = "write" /\ down.at = "none"
    BY <1>1, <1>9 DEF HwWrite, OInv, Locked
  <2>2. \A u \in Threads, c \in Clients : ~Adding(u, Es[c])
    BY <1>1, <2>1 DEF OInv, Adders
  <2>3. CASE UNCHANGED <<listed, todo>>
    <3>1. Adders'
      BY <1>2, <2>2, <2>3 DEF OInv, Adders, Adding
    <3>2. Locked'
      BY <1>2, <2>1, <2>3 DEF OInv, Locked
    <3>3. Listings'
      BY <1>2, <1>3, <1>4, <2>3 DEF OInv, Listings
    <3> QED
      BY <1>5, <3>1, <3>2, <3>3 DEF OInv
  <2>4. ASSUME NEW c \in Clients, cpc[c] = "live", listed' = listed \cup {c},
               todo' = [todo EXCEPT ![Hw] = <<Es[c]>>]
        PROVE  OInv'
    <3>1. todo'[Hw] = <<Es[c]>> /\ \A u \in Threads : u # Hw => todo'[u] = todo[u]
      BY <1>1, <2>4 DEF IInv, ListsOfPids
    <3>2. ASSUME NEW u \in Threads, NEW p \in Pids, Adding(u, p)'
          PROVE  Adding(u, p) \/ (u = Hw /\ p = Es[c])
      BY <1>2, <3>1, <3>2 DEF Adding
    <3>3. Adders'
      BY <1>2, <2>1, <2>2, <2>4, <3>2, Whose DEF OInv, Adders
    <3>4. Locked'
      BY <1>2, <2>1, <2>4 DEF OInv, Locked
    <3>5. Listings'
      BY <1>2, <1>3, <1>4, <2>4 DEF OInv, Listings
    <3> QED
      BY <1>5, <3>3, <3>4, <3>5 DEF OInv
  <2> QED
    BY <1>9, <2>3, <2>4 DEF HwWrite
<1> QED
  BY <1>6, <1>7, <1>8, <1>9 DEF HwStep

\* session_addNew before it adds anything, and between that and the session's end.
LEMMA ClientKeeps ==
    ASSUME IInv, OInv, NEW c \in Clients, AddNew(c) \/ ClientStep(c)
    PROVE  OInv'
<1>1. /\ pids' = pids /\ call' = call /\ UNCHANGED <<down, listed, sessionsLock, hpc>>
      /\ c \in Threads /\ Teardown # Nobody /\ DOMAIN cpc = Clients /\ listed \subseteq Clients
  BY PidFacts, TableAssumption DEF AddNew, ClientStep, CheckRefcnt, SetBusy, Compare, ReadRefcnt, WriteRefcnt,
     AppendSession, ClientUnchanged, demuxVars, hwVars, readVars, downVars, OInv, Locked, IInv, ListsOfPids
<1>2. \A p : InTable(p)' <=> InTable(p)
  BY <1>1 DEF InTable
<1>3. \A p : Removing(p)' <=> Removing(p)
  BY <1>1 DEF Removing
<1>4. RemovalPasses'
  BY <1>1 DEF OInv, RemovalPasses
<1>5. \A at : Goto(c, at) => /\ cpc'[c] = at /\ DOMAIN cpc' = Clients
                             /\ \A d \in Clients : d # c => cpc'[d] = cpc[d]
  BY <1>1 DEF Goto
<1>6. CASE AppendSession(c)
  <2>1. /\ cpc[c] = "append" /\ cpc'[c] = "live" /\ DOMAIN cpc' = Clients
        /\ \A d \in Clients : d # c => cpc'[d] = cpc[d]
        /\ sessionsLock = Nobody /\ UNCHANGED todo
    BY <1>5, <1>6 DEF AppendSession
  <2>2. down.at = "none"
    BY <1>1, <2>1 DEF OInv, Locked
  <2>3. \A p \in Pids : ~Adding(c, p)
    BY <1>6 DEF AppendSession, Ready, Adding, D!NoCall, P!AddPcs
  <2>4. \A u \in Threads, p \in Pids : Adding(u, p)' => Adding(u, p)
    BY <1>1, <2>1 DEF Adding
  <2>5. Adders'
    BY <1>1, <2>1, <2>3, <2>4, Whose DEF OInv, Adders
  <2>6. Locked'
    BY <1>1, <2>1, <2>2 DEF OInv, Locked
  <2>7. Listings'
    BY <1>1, <1>2, <1>3, <2>1, <2>2 DEF OInv, Listings
  <2> QED
    BY <1>4, <2>5, <2>6, <2>7 DEF OInv
<1>7. CASE WriteRefcnt(c)
  <2>1. /\ cpc[c] \in {"taken", "shared"} /\ cpc'[c] = "append" /\ DOMAIN cpc' = Clients
        /\ \A d \in Clients : d # c => cpc'[d] = cpc[d]
    BY <1>5, <1>7 DEF WriteRefcnt
  <2>2. PICK q \in {Append(SessionPids, Pmt[c]), <<Pmt[c]>>} : todo' = [todo EXCEPT ![c] = q]
    BY <1>7 DEF WriteRefcnt
  <2>3. \A i \in 1 .. Len(q) : q[i] \in SiSet \cup {Pmt[c]}
    <3>1. q \in Seq(SiSet \cup {Pmt[c]})
      <4>1. SessionPids \in Seq(SiSet \cup {Pmt[c]})
        BY PidsAssumption, SeqDef
      <4>2. Pmt[c] \in SiSet \cup {Pmt[c]}
        OBVIOUS
      <4>3. Append(SessionPids, Pmt[c]) \in Seq(SiSet \cup {Pmt[c]})
        BY <4>1, <4>2
      <4>4. <<Pmt[c]>> \in Seq(SiSet \cup {Pmt[c]})
        BY <4>2
      <4> QED
        BY <2>2, <4>3, <4>4
    <3> QED
      BY <3>1, ElementOfSeq
  <2>4. todo'[c] = q /\ \A u \in Threads : u # c => todo'[u] = todo[u]
    BY <1>1, <2>2 DEF IInv, ListsOfPids
  <2>5. ASSUME NEW u \in Threads, NEW p \in Pids \ SiSet, Adding(u, p)'
        PROVE  Adding(u, p) \/ (u = c /\ p = Pmt[c])
    BY <1>1, <2>3, <2>4, <2>5 DEF Adding
  <2>6. Adders'
    BY <1>1, <2>1, <2>5, Whose DEF OInv, Adders
  <2>7. Locked'
    BY <1>1, <2>1 DEF OInv, Locked
  <2>8. Listings'
    BY <1>1, <1>2, <1>3, <2>1 DEF OInv, Listings
  <2> QED
    BY <1>4, <2>6, <2>7, <2>8 DEF OInv
<1>8. CASE AddNew(c) \/ CheckRefcnt(c) \/ SetBusy(c) \/ Compare(c) \/ ReadRefcnt(c)
  <2>1. /\ cpc[c] \notin {"append", "live"} /\ cpc'[c] \notin {"append", "live"}
        /\ DOMAIN cpc' = Clients /\ UNCHANGED todo
        /\ \A d \in Clients : d # c => cpc'[d] = cpc[d]
    BY <1>5, <1>8 DEF AddNew, CheckRefcnt, SetBusy, Compare, ReadRefcnt
  <2>2. \A u, p : Adding(u, p)' <=> Adding(u, p)
    BY <1>1, <2>1 DEF Adding
  <2>3. Adders'
    BY <1>1, <2>1, <2>2 DEF OInv, Adders
  <2>4. Locked'
    BY <1>1, <2>1 DEF OInv, Locked
  <2>5. Listings'
    BY <1>1, <1>2, <1>3, <2>1 DEF OInv, Listings
  <2> QED
    BY <1>4, <2>3, <2>4, <2>5 DEF OInv
<1> QED
  BY <1>6, <1>7, <1>8 DEF ClientStep

LEMMA OInit == Init => OInv
<1> SUFFICES ASSUME Init PROVE OInv
  OBVIOUS
<1>1. /\ \A t \in Threads : call[t] = P!NoCall
      /\ \A s \in P!Slots : pids[s] = Free
      /\ down = NoDown /\ listed = {} /\ hpc = "loop"
      /\ todo = [t \in Threads |-> IF t = Main THEN SiPids ELSE <<>>]
      /\ DOMAIN cpc = Clients
  BY SameInit DEF Init, P!Init
<1>2. P!NoCall.pc \notin P!AddPcs \cup P!RemovePcs \cup {"rmFind", "rmStop", "rmFree"}
  BY DEF P!NoCall, P!AddPcs, P!RemovePcs
<1>3. Locked
  BY <1>1, <1>2 DEF Locked, NoDown
<1>4. Adders
  <2>1. \A i \in 1 .. Len(SiPids) : SiPids[i] \in SiSet
    BY PidsAssumption, ElementOfSeq
  <2>2. \A t \in Threads, p \in Pids \ SiSet : ~Adding(t, p)
    BY <1>1, <1>2, <2>1 DEF Adding
  <2> QED
    BY <2>2, Whose DEF Adders
<1>5. RemovalPasses
  BY <1>1, <1>2, PidFacts DEF RemovalPasses
<1>6. Listings
  BY <1>1, Whose DEF Listings, InTable
<1> QED
  BY <1>3, <1>4, <1>5, <1>6 DEF OInv

LEMMA OStep == IInv /\ OInv /\ [Next]_vars => OInv'
<1> SUFFICES ASSUME IInv, OInv, [Next]_vars PROVE OInv'
  OBVIOUS
<1>1. CASE UNCHANGED vars
  BY <1>1, Elsewhere DEF vars, demuxVars, downVars, clientVars, hwVars, readVars
<1>2. CASE Receive
  BY <1>2, Elsewhere DEF Receive, demuxVars, downVars, clientVars
<1>3. DownStep => OInv'
  BY RemovingKeeps, StreamKeeps, CountKeeps, FreeKeeps DEF DownStep
<1> QED
  BY <1>1, <1>2, <1>3, TuneKeeps, AddKeeps, HwKeeps, ClientKeeps, BeginKeeps DEF Next

\* What session_addNew and, out of the stream itself, process_pmt filter for a
\* session is gone from the table once the session is torn down, although
\* removePID_from_Demux walks the table without the mutex while tunes empty it
\* and other sessions fill it.
THEOREM NoPidOutlivesItsSession == Spec => []NoOrphanPid
<1>1. OInv => NoOrphanPid
  BY DEF OInv, Listings, InTable, NoOrphanPid, D!Slots, P!Slots
<1> QED
  BY <1>1, InitInv, InvStep, OInit, OStep, PTL DEF Spec

-----------------------------------------------------------------------------
(* The types.                                                               *)

Frequencies == FreqSet \cup {NoFreq}
Numbers == 0 .. SequenceWidth - 1

Words ==
    /\ fe \in Frequencies /\ air \in Frequencies
    /\ sequence \in Numbers /\ lastSequence \in Numbers
    /\ curr.no \in Numbers /\ base.no \in Numbers
    /\ curr.freq \in Frequencies /\ base.freq \in Frequencies
    /\ currentState \in {"idle", "busy"} /\ refcnt \in Int
    /\ tmp \in [Clients -> Int] /\ down.tmp \in Int
    /\ z \in BOOLEAN /\ scanId \in 0 .. Len(Freqs)
    /\ sessionsLock \in {Nobody, Hw, Teardown}

JobRecord ==
    [at : {"none", "call", "clear", "frontend", "sequence", "count", "publish", "end"},
     freq : Frequencies, seq : Numbers]

\* Whoever wants a frequency, or tunes to one, has got it from frequency_ll.
Wanted ==
    /\ job \in [Threads -> JobRecord]
    /\ \A t \in Threads : job[t].at # "none" => job[t].freq \in FreqSet
    /\ want \in [Clients -> Frequencies]
    /\ \A c \in Clients : cpc[c] \notin {"none", "gone"} => want[c] \in FreqSet
    /\ channels \subseteq FreqSet \X FreqSet

Packets ==
    /\ ring \in Seq([tp : FreqSet, pid : Pids]) /\ Len(ring) <= RingSize
    /\ left \in 0 .. Len(ring)
    /\ hpc \in {"loop", "read", "file", "write", "scan"}
    /\ hpc \in {"loop", "scan"} => left = 0
    /\ hpc = "file" => left > 0 /\ base.freq \in FreqSet

\* Until main's tune has published a frequency nobody else does anything.
Starting ==
    /\ ring = <<>> /\ channels = {} /\ hpc = "loop" /\ down.at = "none"
    /\ \A s \in P!Slots : filter[s] = Free
    /\ \A c \in Clients : cpc[c] = "none"
    /\ job[Main].at \in {"call", "clear", "frontend", "sequence", "count", "publish"}
    /\ job[Main].at \in {"call", "clear"} => fe = NoFreq
    /\ \A t \in Threads : call[t].pc \notin P!AddPcs \cup P!RemovePcs \cup {"tuSame"}
    /\ \A t \in Threads \ {Main} : job[t].at = "none" /\ todo[t] = <<>>

Started == curr.freq \in FreqSet \/ Starting

TInv == Words /\ Wanted /\ Packets /\ Started

\* curr_frequency_ptr was never set by a tune that is yet to come; a satellite tune
\* that counts holds the mutex, and nobody else counts.
NoWrap == sequence < SequenceWidth - 1
Numbered ==
    TuneLocks =>
        /\ curr.no <= sequence /\ base.no <= sequence
        /\ \A t \in Threads : job[t].at \in {"count", "publish"} => job[t].seq = sequence

\* What one client's session does to the reference count.
Counted(c) ==
    LET counts == cpc[c] = "append" \/ (cpc[c] = "live" /\ down.at \notin {"check", "idle", "free"})
        has == cpc[c] \in {"take", "taken", "append", "live"} /\ down.at = "none"
    IN
    /\ cpc[c] \in {"none", "check", "busy", "take", "taken", "append", "live", "gone"}
    /\ refcnt = IF counts THEN 1 ELSE 0
    /\ cpc[c] = "taken" => tmp[c] = 0
    /\ down.at = "write" => down.tmp = 1
    /\ has => currentState = "busy"

LEMMA ConstantFacts ==
    /\ SequenceWidth \in Nat \ {0} /\ 0 \in Numbers
    /\ Freqs \in Seq(FreqSet) /\ Len(Freqs) \in Nat \ {0} /\ Freqs[1] \in FreqSet
    /\ NoFreq \in Frequencies /\ NoFreq \notin FreqSet /\ FreqSet \subseteq Frequencies
<1>1. Freqs \in Seq(FreqSet) /\ Len(Freqs) \in Nat /\ Len(Freqs) > 0
  BY BoundsAssumption, LenProperties
<1>2. Freqs[1] \in FreqSet
  BY <1>1, ElementOfSeq
<1> QED
  BY <1>1, <1>2, BoundsAssumption DEF Numbers, Frequencies

LEMMA NextNumber == \A n \in Numbers : (n + 1) % SequenceWidth \in Numbers
<1>1. \A k \in Nat, w \in Nat \ {0} : k % w \in 0 .. w - 1
  OBVIOUS
<1> SUFFICES ASSUME NEW n \in Numbers PROVE (n + 1) % SequenceWidth \in Numbers
  OBVIOUS
<1>2. PICK k \in Nat : k = n + 1
  BY ConstantFacts DEF Numbers
<1>3. k % SequenceWidth \in 0 .. SequenceWidth - 1
  BY <1>1, ConstantFacts
<1> QED
  BY <1>2, <1>3 DEF Numbers

LEMMA WordsStep ==
    ASSUME Words, Wanted, Locked, [Next]_vars
    PROVE  Words'
<1> USE DEF useVars, tuneVars, readVars, hwVars, clientVars, downVars
<1>1. CASE UNCHANGED vars
  BY <1>1 DEF vars, Words
<1>2. ASSUME NEW t \in Threads, TuneStep(t) PROVE Words'
  <2>1. UNCHANGED <<currentState, refcnt, lastSequence, base, scanId, tmp, down, sessionsLock>>
    BY <1>2 DEF TuneStep
  <2>2. job[t].freq \in Frequencies /\ job[t].seq \in Numbers
    BY DEF Wanted, JobRecord
  <2>3. /\ fe' \in Frequencies /\ air' \in Frequencies /\ z' \in BOOLEAN
        /\ curr'.no \in Numbers /\ curr'.freq \in Frequencies
    <3>1. CASE TuneFrontend(t)
      <4>1. z \in BOOLEAN /\ (z /\ t # Hw) \in BOOLEAN
        BY DEF Words
      <4>2. (air' = fe /\ z' = z) \/ (air' = air /\ z' = (z /\ t # Hw))
        BY <3>1 DEF TuneFrontend
      <4>3. z' \in BOOLEAN
        BY <4>1, <4>2, Zenon
      <4> QED
        BY <2>2, <3>1, <4>2, <4>3 DEF TuneFrontend, Words
    <3>2. CASE TunePublish(t) /\ UNCHANGED z
      BY <2>2, <3>2 DEF TunePublish, Words
    <3>3. CASE (TuneCall(t) \/ TuneClear(t) \/ TuneParams(t) \/ TuneSequence(t) \/ TuneCount(t) \/ TuneEnd(t)) /\ UNCHANGED z
      BY <2>2, <3>3 DEF TuneCall, TuneClear, TuneParams, TuneSequence, TuneCount, TuneEnd, Words
    <3> QED
      BY <1>2, <3>1, <3>2, <3>3 DEF TuneStep
  <2>4. sequence' \in Numbers
    <3>1. sequence' = sequence \/ sequence' = (job[t].seq + 1) % SequenceWidth
      BY <1>2 DEF TuneStep, TuneCall, TuneClear, TuneParams, TuneFrontend, TuneSequence, TuneCount,
         TunePublish, TuneEnd
    <3> QED
      BY <2>2, <3>1, NextNumber DEF Words
  <2> QED
    BY <2>1, <2>3, <2>4 DEF Words
<1>3. ASSUME NEW t \in Threads, AddStep(t) PROVE Words'
  BY <1>3 DEF AddStep, Words
<1>4. CASE Receive \/ HwSync \/ HwBase \/ HwFile \/ HwWritten \/ HwReadDone \/ HwScanned
  <2>1. CASE Receive \/ HwSync \/ HwWritten \/ HwReadDone
    BY <2>1 DEF Receive, HwSync, HwWritten, HwReadDone, Words
  <2>2. CASE HwBase
    BY <2>2 DEF HwBase, Words
  <2>3. CASE HwFile
    BY <2>3, ConstantFacts DEF HwFile, NoBase, Words
  <2>4. CASE HwScanned
    BY <2>4 DEF HwScanned, Words
  <2> QED
    BY <1>4, <2>1, <2>2, <2>3, <2>4
<1>5. CASE HwWrite
  BY <1>5 DEF HwWrite, Words
<1>6. CASE HwScan
  <2>1. scanId' \in 0 .. Len(Freqs)
    BY <1>6, ConstantFacts DEF HwScan, Words
  <2> QED
    BY <1>6, <2>1 DEF HwScan, Words
<1>7. ASSUME NEW c \in Clients, AddNew(c) \/ ClientStep(c) PROVE Words'
  BY <1>7 DEF AddNew, ClientStep, CheckRefcnt, SetBusy, Compare, ReadRefcnt, WriteRefcnt,
     AppendSession, ClientUnchanged, Words
<1>8. ASSUME NEW c \in Clients, BeginDown(c) PROVE Words'
  BY <1>8 DEF BeginDown, DownUnchanged, Words
<1>9. CASE DownStep
  <2>1. UNCHANGED <<tuneVars, readVars, scanId, z, tmp>>
    BY <1>9 DEF DownStep, DownRemoving, DownStream, DownReadRefcnt, DownWriteRefcnt, DownCheck,
       DownIdle, DownFree, DownUnchanged
  <2>2. /\ refcnt' \in {refcnt, down.tmp - 1} /\ currentState' \in {currentState, "idle"}
        /\ sessionsLock' \in {sessionsLock, Nobody}
        /\ down'.tmp \in {down.tmp, refcnt, 0}
    <3>0. down = [at |-> down.at, who |-> down.who, tmp |-> down.tmp]
      BY DEF Locked
    <3>1. CASE DownRemoving \/ DownStream \/ DownCheck \/ DownIdle
      BY <3>0, <3>1 DEF DownRemoving, DownStream, DownCheck, DownIdle
    <3>2. CASE DownReadRefcnt \/ DownWriteRefcnt
      BY <3>0, <3>2 DEF DownReadRefcnt, DownWriteRefcnt
    <3>3. CASE DownFree
      BY <3>3 DEF DownFree, NoDown
    <3> QED
      BY <1>9, <3>1, <3>2, <3>3 DEF DownStep
  <2> QED
    BY <2>1, <2>2 DEF Words
<1> QED
  BY <1>1, <1>2, <1>3, <1>4, <1>5, <1>6, <1>7, <1>8, <1>9 DEF Next, HwStep

LEMMA WantedStep ==
    ASSUME Words, Wanted, Packets, Locked, [Next]_vars
    PROVE  Wanted'
<1> USE DEF tuneVars, readVars, hwVars, clientVars, downVars
<1>1. CASE UNCHANGED vars
  BY <1>1 DEF vars, Wanted
<1>2. ASSUME NEW t \in Threads, TuneStep(t) PROVE Wanted'
  <2>1. UNCHANGED <<want, cpc, channels>>
    BY <1>2 DEF TuneStep
  <2>2. \/ job' = job \/ job' = [job EXCEPT ![t] = NoJob]
        \/ /\ job[t].at # "none"
           /\ \E r \in JobRecord : r.freq = job[t].freq /\ job' = [job EXCEPT ![t] = r]
    <3>1. job[t] \in JobRecord /\ sequence \in Numbers /\ (job[t].seq + 1) % SequenceWidth \in Numbers
      BY NextNumber DEF Words, Wanted, JobRecord
    <3>2. CASE TuneSequence(t)
      <4>1. [job[t] EXCEPT !.at = "count", !.seq = sequence] \in JobRecord
        BY <3>1 DEF JobRecord
      <4> QED
        BY <3>1, <3>2, <4>1 DEF TuneSequence, Tuning, JobRecord
    <3>3. CASE TuneCount(t)
      <4>1. [job[t] EXCEPT !.at = "publish", !.seq = sequence'] \in JobRecord
        BY <3>1, <3>3 DEF TuneCount, JobRecord
      <4> QED
        BY <3>1, <3>3, <4>1 DEF TuneCount, Tuning, JobRecord
    <3>4. CASE TuneClear(t) \/ TuneEnd(t)
      BY <3>4 DEF TuneClear, TuneEnd
    <3>5. CASE TuneCall(t) \/ TuneParams(t) \/ TuneFrontend(t) \/ TunePublish(t)
      <4>1. PICK at \in {"clear", "frontend", "sequence", "publish", "end"} :
               job' = [job EXCEPT ![t] = [@ EXCEPT !.at = at]]
        BY <3>5 DEF TuneCall, TuneParams, TuneFrontend, TunePublish, Advance
      <4>2. job[t].at # "none"
        BY <3>5 DEF TuneCall, TuneParams, TuneFrontend, TunePublish, Tuning
      <4>3. [job[t] EXCEPT !.at = at] \in JobRecord
        BY <3>1 DEF JobRecord
      <4> QED
        BY <3>1, <4>1, <4>2, <4>3 DEF JobRecord
    <3> QED
      BY <1>2, <3>2, <3>3, <3>4, <3>5 DEF TuneStep
  <2> QED
    BY <2>1, <2>2, ConstantFacts DEF Wanted, NoJob, JobRecord
<1>3. ASSUME NEW t \in Threads, AddStep(t) PROVE Wanted'
  BY <1>3 DEF AddStep, Wanted
<1>4. CASE Receive \/ HwSync \/ HwBase \/ HwWritten \/ HwReadDone \/ HwScanned
  BY <1>4 DEF Receive, HwSync, HwBase, HwWritten, HwReadDone, HwScanned, Wanted
<1>5. CASE HwFile
  <2>1. ring \in Seq([tp : FreqSet, pid : Pids]) /\ ring # <<>> /\ base.freq \in FreqSet
    BY <1>5, EmptySeq DEF HwFile, Packets
  <2>2. Head(ring).tp \in FreqSet
    <3> DEFINE Packet == [tp : FreqSet, pid : Pids]
    <3>1. Head(ring) \in Packet
      <4> HIDE DEF Packet
      <4>1. ring \in Seq(Packet) /\ ring # <<>>
        BY <2>1 DEF Packet
      <4> QED
        BY <4>1, HeadTailProperties
    <3> QED
      BY <3>1
  <2> QED
    BY <1>5, <2>1, <2>2 DEF HwFile, Wanted
<1>6. CASE HwWrite
  BY <1>6 DEF HwWrite, Wanted
<1>7. CASE HwScan
  <2>1. scanId < Len(Freqs) => Freqs[scanId + 1] \in FreqSet
    <3> SUFFICES ASSUME scanId < Len(Freqs) PROVE Freqs[scanId + 1] \in FreqSet
      OBVIOUS
    <3>1. PICK k \in 1 .. Len(Freqs) : k = scanId + 1
      BY ConstantFacts DEF Words
    <3>2. Freqs[k] \in FreqSet
      BY ConstantFacts, ElementOfSeq
    <3> QED
      BY <3>1, <3>2
  <2>2. job' = job \/ \E f \in FreqSet : job' = [job EXCEPT ![Hw] = NewJob(f)]
    BY <1>7, <2>1 DEF HwScan
  <2>3. UNCHANGED <<want, cpc, channels>>
    BY <1>7 DEF HwScan
  <2>4. \A f \in FreqSet : NewJob(f) \in JobRecord /\ NewJob(f).freq = f
    BY ConstantFacts DEF JobRecord, NewJob
  <2>5. Hw \in Threads
    BY PidFacts
  <2> QED
    BY <2>2, <2>3, <2>4, <2>5 DEF Wanted
<1>8. ASSUME NEW c \in Clients, AddNew(c) PROVE Wanted'
  <2>1. PICK ch \in channels : want' = [want EXCEPT ![c] = ch[2]]
    BY <1>8 DEF AddNew
  <2>2. ch[2] \in FreqSet
    BY DEF Wanted
  <2> QED
    BY <1>8, <2>1, <2>2, ConstantFacts DEF AddNew, Goto, ClientUnchanged, Wanted, Locked
<1>9. ASSUME NEW c \in Clients, ClientStep(c) PROVE Wanted'
  <2>1. CASE WriteRefcnt(c)
    <3>1. cpc[c] \in {"taken", "shared"} /\ want[c] \in FreqSet
      BY <2>1 DEF WriteRefcnt, Wanted
    <3>2. job' = job \/ job' = [job EXCEPT ![c] = NewJob(want[c])]
      BY <2>1 DEF WriteRefcnt
    <3>3. UNCHANGED <<want, channels>> /\ cpc' = [cpc EXCEPT ![c] = "append"]
      BY <2>1 DEF WriteRefcnt, ClientUnchanged, Goto
    <3> QED
      <4>1. NewJob(want[c]) \in JobRecord /\ NewJob(want[c]).freq = want[c]
        BY <3>1, ConstantFacts DEF JobRecord, NewJob
      <4>2. c \in Threads
        BY PidFacts
      <4>3. /\ job' \in [Threads -> JobRecord]
            /\ \A t \in Threads : job'[t].at # "none" => job'[t].freq \in FreqSet
        BY <3>1, <3>2, <4>1, <4>2 DEF Wanted
      <4>4. \A d \in Clients : cpc'[d] \notin {"none", "gone"} => want'[d] \in FreqSet
        BY <3>1, <3>3 DEF Wanted, Locked
      <4> QED
        BY <3>3, <4>3, <4>4 DEF Wanted
  <2>2. CASE Compare(c)
    BY <2>2, ConstantFacts DEF Compare, Goto, ClientUnchanged, Wanted, Locked
  <2>3. CASE CheckRefcnt(c) \/ SetBusy(c) \/ ReadRefcnt(c) \/ AppendSession(c)
    <3>1. /\ UNCHANGED <<want, channels, job>> /\ cpc[c] \notin {"none", "gone"}
          /\ \E at : cpc' = [cpc EXCEPT ![c] = at]
      BY <2>3 DEF CheckRefcnt, SetBusy, ReadRefcnt, AppendSession, Goto, ClientUnchanged
    <3> QED
      BY <3>1 DEF Wanted, Locked
  <2> QED
    BY <1>9, <2>1, <2>2, <2>3 DEF ClientStep
<1>10. ASSUME NEW c \in Clients, BeginDown(c) PROVE Wanted'
  BY <1>10 DEF BeginDown, DownUnchanged, Wanted
<1>11. CASE DownStep
  <2>1. CASE DownFree
    <3>1. down.who \in Clients
      BY <2>1 DEF DownFree, Locked
    <3>2. /\ cpc' = [cpc EXCEPT ![down.who] = "none"] \/ cpc' = [cpc EXCEPT ![down.who] = "gone"]
          /\ want' = [want EXCEPT ![down.who] = NoFreq] /\ UNCHANGED <<job, channels>>
      BY <2>1 DEF DownFree
    <3> QED
      BY <3>1, <3>2, ConstantFacts DEF Wanted, Locked
  <2>2. CASE ~DownFree
    BY <1>11, <2>2 DEF DownStep, DownRemoving, DownStream, DownReadRefcnt, DownWriteRefcnt,
       DownCheck, DownIdle, DownUnchanged, Wanted
  <2> QED
    BY <2>1, <2>2
<1> QED
  BY <1>1, <1>2, <1>3, <1>4, <1>5, <1>6, <1>7, <1>8, <1>9, <1>10, <1>11 DEF Next, HwStep

LEMMA PacketsStep ==
    ASSUME P!IInv, Words, Packets, Started, [Next]_vars
    PROVE  Packets'
<1> USE DEF readVars, hwVars
<1> DEFINE Packet == [tp : FreqSet, pid : Pids]
<1>0. /\ ring \in Seq(Packet) /\ Len(ring) \in Nat /\ RingSize \in Nat
      /\ left \in Nat /\ left <= Len(ring)
  BY BoundsAssumption, LenProperties DEF Packets
<1>1. CASE UNCHANGED readVars
  BY <1>1 DEF Packets
<1>2. CASE Receive
  <2>1. PICK s \in D!Slots :
           /\ filter[s] # Free /\ air # NoFreq /\ Len(ring) < RingSize
           /\ ring' = Append(ring, [tp |-> air, pid |-> filter[s]])
           /\ UNCHANGED <<left, base, hpc>>
    BY <1>2 DEF Receive
  <2>2. filter[s] \in Pids
    BY <2>1 DEF P!IInv, P!TypeOK, D!Slots, P!Slots
  <2>3. air \in FreqSet
    BY <2>1 DEF Words, Frequencies
  <2> DEFINE p == [tp |-> air, pid |-> filter[s]]
  <2>4. p \in Packet
    BY <2>2, <2>3
  <2> HIDE DEF Packet, p
  <2>5. ring' \in Seq(Packet) /\ Len(ring') = Len(ring) + 1
    BY <1>0, <2>1, <2>4, AppendProperties DEF p
  <2> QED
    BY <1>0, <2>1, <2>5 DEF Packets, Packet
<1>3. CASE HwSync
  <2>1. left = 0 /\ Len(<<>>) = 0 /\ <<>> \in Seq(Packet)
    BY <1>3, LenProperties DEF HwSync, Packets
  <2>2. \/ left' = Len(ring) /\ hpc' = "read" /\ UNCHANGED ring
        \/ ring' = <<>> /\ UNCHANGED <<left, hpc>>
    BY <1>3 DEF HwSync
  <2>3. CASE left' = Len(ring) /\ hpc' = "read" /\ UNCHANGED ring
    BY <1>0, <2>3 DEF Packets
  <2>4. CASE ring' = <<>> /\ UNCHANGED <<left, hpc>>
    <3>1. hpc' = "loop"
      BY <1>3, <2>4 DEF HwSync
    <3> QED
      BY <1>0, <2>1, <2>4, <3>1 DEF Packets
  <2> QED
    BY <2>2, <2>3, <2>4
<1>4. CASE HwBase
  <2>1. ring # <<>>
    BY <1>0, <1>4, LenProperties DEF HwBase
  <2>2. curr.freq \in FreqSet
    BY <2>1 DEF Started, Starting
  <2> QED
    BY <1>4, <2>2 DEF HwBase, Packets
<1>5. CASE HwFile \/ HwWrite
  <2>1. left > 0 /\ ring' = Tail(ring) /\ left' = left - 1 /\ hpc' \in {"read", "write"}
    BY <1>5 DEF HwFile, HwWrite, Packets
  <2>2. ring # <<>>
    BY <1>0, <2>1, LenProperties
  <2>3. Tail(ring) \in Seq(Packet) /\ Len(Tail(ring)) = Len(ring) - 1
    BY <1>0, <2>2, HeadTailProperties
  <2> HIDE DEF Packet
  <2>4. ring' \in Seq(Packet) /\ Len(ring') <= RingSize /\ left' \in 0 .. Len(ring')
    BY <1>0, <2>1, <2>3 DEF Packets
  <2> QED
    BY <2>1, <2>4 DEF Packets, Packet
<1>6. CASE HwWritten \/ HwReadDone \/ HwScan \/ HwScanned
  BY <1>6 DEF HwWritten, HwReadDone, HwScan, HwScanned, Packets
<1>7. [Next]_vars => \/ UNCHANGED readVars \/ Receive \/ HwStep
  <2>1. \A t \in Threads : TuneStep(t) \/ AddStep(t) => UNCHANGED readVars
    BY DEF TuneStep, AddStep
  <2>2. \A c \in Clients : AddNew(c) \/ ClientStep(c) \/ BeginDown(c) => UNCHANGED readVars
    BY DEF AddNew, ClientStep, CheckRefcnt, SetBusy, Compare, ReadRefcnt, WriteRefcnt,
       AppendSession, ClientUnchanged, BeginDown, DownUnchanged
  <2>3. DownStep => UNCHANGED readVars
    BY DEF DownStep, DownRemoving, DownStream, DownReadRefcnt, DownWriteRefcnt, DownCheck,
       DownIdle, DownFree, DownUnchanged
  <2> QED
    BY <2>1, <2>2, <2>3 DEF Next, vars
<1> QED
  BY <1>1, <1>2, <1>3, <1>4, <1>5, <1>6, <1>7 DEF HwStep

\* Until then there is nothing to add, read, file or serve.
LEMMA OnlyMain ==
    ASSUME Starting, [Next]_vars
    PROVE  UNCHANGED vars \/ TuneStep(Main)
<1> USE DEF Starting
<1>1. \A t \in Threads \ {Main} : ~TuneStep(t)
  BY DEF TuneStep, TuneCall, TuneClear, TuneParams, TuneFrontend, TuneSequence, TuneCount,
     TunePublish, TuneEnd, Tuning
<1>2. \A t \in Threads : ~AddStep(t)
  <2>1. ASSUME NEW t \in Threads, AddStep(t) PROVE FALSE
    <3>1. job[t].at = "none"
      BY <2>1 DEF AddStep, NoJob
    <3>2. todo[t] = <<>>
      BY <3>1
    <3>3. D!AddStep(t)
      BY <2>1, <3>2 DEF AddStep
    <3>4. call[t].pc \in P!AddPcs
      BY <3>3 DEF D!AddStep, D!LockForAdd, D!DupScan, D!FreeScan, D!ClaimSlot, D!StartFilter, P!AddPcs
    <3> QED
      BY <3>4
  <2> QED
    BY <2>1
<1>3. ~Receive /\ ~HwStep
  <2>1. ~Receive
    BY DEF Receive, D!Slots, P!Slots
  <2>2. job[Main] # NoJob
    BY DEF NoJob
  <2> QED
    BY <2>1, <2>2 DEF HwStep, HwSync, HwBase, HwFile, HwWrite, HwWritten, HwReadDone, HwScan, HwScanned
<1>4. \A c \in Clients : ~AddNew(c) /\ ~ClientStep(c) /\ ~BeginDown(c)
  BY DEF AddNew, ClientStep, CheckRefcnt, SetBusy, Compare, ReadRefcnt, WriteRefcnt,
     AppendSession, BeginDown
<1>5. ~DownStep
  <2>1. ~DownRemoving
    BY PidFacts DEF DownRemoving, D!RemoveStep, D!FindSlot, D!StopFilter, D!FreeSlot, P!RemovePcs
  <2> QED
    BY <2>1 DEF DownStep, DownStream, DownReadRefcnt, DownWriteRefcnt, DownCheck, DownIdle, DownFree
<1> QED
  BY <1>1, <1>2, <1>3, <1>4, <1>5 DEF Next

LEMMA StartedStep ==
    ASSUME P!IInv, Wanted, Started, [Next]_vars
    PROVE  Started'
<1>1. CASE curr.freq \in FreqSet
  <2>1. CASE curr' = curr
    BY <1>1, <2>1 DEF Started
  <2>2. CASE curr' # curr
    <3>1. PICK t \in Threads : TunePublish(t)
      BY <2>2, OnlyPublishes
    <3> QED
      BY <3>1 DEF TunePublish, Tuning, Wanted, Started
  <2> QED
    BY <2>1, <2>2
<1>2. CASE Starting /\ UNCHANGED vars
  BY <1>2 DEF Starting, Started, vars, demuxVars, tuneVars, hwVars, readVars, clientVars, downVars
<1>3. CASE Starting /\ TuneStep(Main)
  <2>0. /\ Main \in Threads /\ job[Main].freq \in FreqSet
        /\ \A t \in Threads \ {Main} : job'[t] = job[t]
    <3>1. Main \in Threads /\ job \in [Threads -> JobRecord] /\ job[Main].at # "none"
      BY <1>3, PidFacts DEF Wanted, Starting
    <3>2. job' = job \/ \E j : job' = [job EXCEPT ![Main] = j]
      BY <1>3 DEF TuneStep, TuneCall, TuneClear, TuneParams, TuneFrontend, TuneSequence, TuneCount,
         TunePublish, TuneEnd, Advance, tuneVars
    <3> QED
      BY <3>1, <3>2 DEF Wanted
  <2>1. UNCHANGED <<ring, channels, hpc, down, cpc, todo>>
    BY <1>3 DEF TuneStep, readVars, clientVars, downVars
  <2>2. SUFFICES ASSUME ~(curr'.freq \in FreqSet)
                 PROVE  /\ \A s \in P!Slots : filter'[s] = Free
                        /\ job'[Main].at \in {"call", "clear", "frontend", "sequence", "count", "publish"}
                        /\ job'[Main].at \in {"call", "clear"} => fe' = NoFreq
                        /\ \A t \in Threads : call'[t].pc \notin P!AddPcs \cup P!RemovePcs \cup {"tuSame"}
    <3>1. \A t \in Threads \ {Main} : job'[t].at = "none" /\ todo'[t] = <<>>
      BY <1>3, <2>0, <2>1 DEF Starting
    <3> QED
      BY <1>3, <2>1, <3>1 DEF Starting, Started
  <2>3. call = [t \in Threads |-> call[t]] /\ filter \in [P!Slots -> Pids \cup {Free}]
    BY DEF P!IInv, P!TypeOK, P!Calls
  <2>4. \A s \in P!Slots : filter[s] = Free
    BY <1>3 DEF Starting
  <2>5. \A t \in Threads : call[t].pc \notin P!AddPcs \cup P!RemovePcs \cup {"tuSame"}
    BY <1>3 DEF Starting
  <2>6. ASSUME NEW pc \in {"tuLock", "tuStop", "tuFree", "tuDone"}, NEW x,
               call' = [call EXCEPT ![Main] = x], x.pc = pc
        PROVE  \A t \in Threads : call'[t].pc \notin P!AddPcs \cup P!RemovePcs \cup {"tuSame"}
    <3>1. call'[Main] = x /\ \A t \in Threads : t # Main => call'[t] = call[t]
      BY <2>0, <2>3, <2>6
    <3>2. x.pc \notin P!AddPcs \cup P!RemovePcs \cup {"tuSame"}
      BY <2>6 DEF P!AddPcs, P!RemovePcs
    <3> QED
      BY <2>5, <3>1, <3>2
  <2>7. CASE TuneCall(Main)
    <3>1. job[Main].at = "call" /\ job'[Main].at = "clear" /\ fe' = fe /\ filter' = filter
      BY <2>0, <2>7 DEF TuneCall, Tuning, Advance, Wanted, D!CallTune
    <3>2. \A t \in Threads : call'[t].pc \notin P!AddPcs \cup P!RemovePcs \cup {"tuSame"}
      BY <2>6, <2>7 DEF TuneCall, D!CallTune, D!Enter
    <3> QED
      BY <1>3, <2>4, <3>1, <3>2 DEF Starting
  <2>8. CASE TuneClear(Main)
    <3>1. job[Main].at = "clear" /\ UNCHANGED <<job, fe>>
      BY <2>8 DEF TuneClear, Tuning, tuneVars
    <3>2. fe = NoFreq
      BY <1>3, <3>1 DEF Starting
    <3>3. ~AlreadyThere(Main)
      BY <2>0, <3>2, ConstantFacts DEF AlreadyThere
    <3>4. CASE D!LockForTune(Main, AlreadyThere(Main))
      <4>1. filter' = filter
        BY <3>4 DEF D!LockForTune
      <4>2. call' = [call EXCEPT ![Main] = [pc |-> "tuStop", pid |-> call[Main].pid, slot |-> 0]]
        BY <3>3, <3>4 DEF D!LockForTune, D!At
      <4> QED
        BY <1>3, <2>4, <2>6, <3>1, <4>1, <4>2 DEF Starting
    <3>5. CASE D!StopForTune(Main)
      <4>1. \A s \in P!Slots : filter'[s] = Free
        BY <2>3, <2>4, <3>5 DEF D!StopForTune
      <4>2. \E s : call' = [call EXCEPT ![Main] = [pc |-> "tuFree", pid |-> call[Main].pid, slot |-> s]]
        BY <3>5 DEF D!StopForTune, D!At
      <4> QED
        BY <1>3, <2>6, <3>1, <4>1, <4>2 DEF Starting
    <3>6. CASE D!FreeForTune(Main)
      <4>1. filter' = filter
        BY <3>6 DEF D!FreeForTune
      <4>2. \E pc \in {"tuDone", "tuStop"} : \E s :
               call' = [call EXCEPT ![Main] = [pc |-> pc, pid |-> call[Main].pid, slot |-> s]]
        BY <3>6 DEF D!FreeForTune, D!At
      <4> QED
        BY <1>3, <2>4, <2>6, <3>1, <4>1, <4>2 DEF Starting
    <3> QED
      BY <2>8, <3>4, <3>5, <3>6 DEF TuneClear
  <2>9. CASE TuneParams(Main) \/ TuneFrontend(Main) \/ TuneSequence(Main) \/ TuneCount(Main)
    <3>1. /\ UNCHANGED <<call, filter>>
          /\ job'[Main].at \in {"frontend", "sequence", "count", "publish"}
      BY <2>0, <2>9 DEF TuneParams, TuneFrontend, TuneSequence, TuneCount, Advance, demuxVars, Wanted, JobRecord
    <3> QED
      BY <2>4, <2>5, <3>1
  <2>10. CASE TunePublish(Main)
    BY <2>0, <2>2, <2>10 DEF TunePublish
  <2>11. ~TuneEnd(Main)
    BY <1>3, <2>0 DEF TuneEnd, Tuning, Starting
  <2> QED
    BY <1>3, <2>7, <2>8, <2>9, <2>10, <2>11 DEF TuneStep
<1> QED
  BY <1>1, <1>2, <1>3, OnlyMain DEF Started

LEMMA TInit == Init => TInv
<1> SUFFICES ASSUME Init PROVE TInv
  OBVIOUS
<1> USE DEF Init, NoBase, NoDown, NoJob, NewJob
<1>1. Words
  BY ConstantFacts DEF Words
<1>2. Wanted
  <2>1. /\ NewJob(Freqs[1]) \in JobRecord
        /\ [at |-> "none", freq |-> NoFreq, seq |-> 0] \in JobRecord
    BY ConstantFacts DEF JobRecord
  <2> QED
    BY <2>1, ConstantFacts DEF Wanted
<1>3. Packets
  <2>1. Len(<<>>) = 0 /\ <<>> \in Seq([tp : FreqSet, pid : Pids]) /\ RingSize \in Nat
    BY BoundsAssumption
  <2> QED
    BY <2>1 DEF Packets
<1>4. Started
  <2>1. /\ \A t \in Threads : call[t] = P!NoCall
        /\ \A s \in P!Slots : filter[s] = Free
    BY SameInit DEF P!Init
  <2>2. P!NoCall.pc \notin P!AddPcs \cup P!RemovePcs \cup {"tuSame"}
    BY DEF P!NoCall, P!AddPcs, P!RemovePcs
  <2> QED
    BY <2>1, <2>2, PidFacts DEF Started, Starting
<1> QED
  BY <1>1, <1>2, <1>3, <1>4 DEF TInv

LEMMA TStep == IInv /\ OInv /\ TInv /\ [Next]_vars => TInv'
BY WordsStep, WantedStep, PacketsStep, StartedStep DEF IInv, OInv, TInv

LEMMA Invariants == Spec => [](IInv /\ OInv /\ TInv)
<1> DEFINE I == IInv /\ OInv /\ TInv
<1>1. Init => I
  BY InitInv, OInit, TInit
<1>2. I /\ [Next]_vars => I'
  BY InvStep, OStep, TStep
<1> HIDE DEF I
<1>3. Spec => []I
  BY <1>1, <1>2, PTL DEF Spec
<1> QED
  BY <1>3 DEF I

\* Every variable of the tuner keeps to its type: a program is only filed under
\* a frequency of frequency_ll, since none is received before main has tuned.
THEOREM TypeCorrect == Spec => []TypeOK
<1>1. IInv /\ TInv => TypeOK
  <2> SUFFICES ASSUME IInv, TInv PROVE TypeOK
    OBVIOUS
  <2> USE DEF IInv, TInv
  <2>1. D!TypeOK
    BY DEF P!IInv, P!TypeOK, D!TypeOK, P!Calls, D!Calls, P!Slots, D!Slots, P!Pcs, D!Pcs,
       P!AddPcs, D!AddPcs, P!RemovePcs, D!RemovePcs, P!TunePcs, D!TunePcs
  <2>2. \A t \in Threads :
          /\ job[t].at \in {"none", "call", "clear", "frontend", "sequence", "count", "publish", "end"}
          /\ job[t].freq \in FreqSet \cup {NoFreq} /\ job[t].seq \in 0 .. SequenceWidth - 1
          /\ todo[t] \in Seq(Pids)
    BY DEF Wanted, JobRecord, Frequencies, Numbers, ListsOfPids
  <2>3. \A b \in {curr, base} : b.freq \in FreqSet \cup {NoFreq} /\ b.no \in 0 .. SequenceWidth - 1
    BY DEF Words, Frequencies, Numbers
  <2> QED
    BY <2>1, <2>2, <2>3 DEF TypeOK, Words, Wanted, Packets, ListsOfPids, Frequencies, Numbers
<1> QED
  BY <1>1, Invariants, PTL

-----------------------------------------------------------------------------
(* Programs of an earlier transponder.                                      *)

\* Under the mutex one tune at most is between reading sequence and its end.
LEMMA OneCounts ==
    ASSUME IInv, TuneLocks, NEW t \in Threads, NEW u \in Threads,
           job[t].at \in {"count", "publish"}, job[u].at \in {"count", "publish"}
    PROVE  t = u
<1>1. call[t].pc = "tuDone" /\ call[u].pc = "tuDone"
  BY DEF IInv, JobsInCalls, PastClearing
<1> QED
  BY <1>1 DEF IInv, P!IInv, P!MutexHeld, P!InMutex

\* Outside tunes the numbers stay, and no tune is further than its start.
LEMMA NumbersStay ==
    ASSUME [Next]_vars, JobsInCalls, \A t \in Threads : ~TuneStep(t)
    PROVE  /\ UNCHANGED <<sequence, curr>> /\ base' \in {base, curr, NoBase}
           /\ \A t \in Threads : job'[t].at \in {"count", "publish"} => job'[t] = job[t]
<1> USE DEF tuneVars, readVars, hwVars
<1>1. /\ UNCHANGED <<sequence, curr>> /\ base' \in {base, curr, NoBase}
      /\ job' = job \/ \E t \in Threads : \E f : job' = [job EXCEPT ![t] = NewJob(f)]
  <2>1. \A t \in Threads : AddStep(t) => UNCHANGED <<sequence, curr, base, job>>
    BY DEF AddStep
  <2>2. Receive \/ (HwStep /\ ~HwScan) => UNCHANGED <<sequence, curr, job>> /\ base' \in {base, curr, NoBase}
    BY DEF Receive, HwStep, HwSync, HwBase, HwFile, HwWrite, HwWritten, HwReadDone, HwScanned
  <2>3. HwScan => /\ UNCHANGED <<sequence, curr, base>>
                  /\ job' = job \/ \E f : job' = [job EXCEPT ![Hw] = NewJob(f)]
    BY DEF HwScan
  <2>4. ASSUME NEW c \in Clients, AddNew(c) \/ ClientStep(c) \/ BeginDown(c)
        PROVE  /\ UNCHANGED <<sequence, curr, base>>
               /\ job' = job \/ \E f : job' = [job EXCEPT ![c] = NewJob(f)]
    <3>1. CASE WriteRefcnt(c)
      BY <3>1 DEF WriteRefcnt, ClientUnchanged
    <3>2. CASE ~WriteRefcnt(c)
      BY <2>4, <3>2 DEF AddNew, ClientStep, CheckRefcnt, SetBusy, Compare, ReadRefcnt,
         AppendSession, ClientUnchanged, BeginDown, DownUnchanged
    <3> QED
      BY <3>1, <3>2
  <2>5. DownStep => UNCHANGED <<sequence, curr, base, job>>
    BY DEF DownStep, DownRemoving, DownStream, DownReadRefcnt, DownWriteRefcnt, DownCheck,
       DownIdle, DownFree, DownUnchanged
  <2> QED
    BY <2>1, <2>2, <2>3, <2>4, <2>5, PidFacts DEF Next, vars
<1>2. ASSUME NEW t \in Threads, NEW f, job' = [job EXCEPT ![t] = NewJob(f)],
             NEW u \in Threads, job'[u].at \in {"count", "publish"}
      PROVE  job'[u] = job[u]
  <2>1. u # t
    BY <1>2 DEF JobsInCalls, NewJob
  <2> QED
    BY <1>2, <2>1 DEF JobsInCalls
<1> QED
  BY <1>1, <1>2

LEMMA NumberedStep ==
    ASSUME IInv, Words, Numbered, NoWrap, [Next]_vars
    PROVE  Numbered'
<1> SUFFICES ASSUME TuneLocks
             PROVE  /\ curr'.no <= sequence' /\ base'.no <= sequence'
                    /\ \A u \in Threads : job'[u].at \in {"count", "publish"} => job'[u].seq = sequence'
  BY DEF Numbered
<1> USE DEF tuneVars, readVars, hwVars
<1>0. /\ sequence \in Nat /\ curr.no \in Nat /\ base.no \in Nat
      /\ curr.no <= sequence /\ base.no <= sequence
      /\ \A u \in Threads : job[u].at \in {"count", "publish"} => job[u].seq = sequence
      /\ (sequence + 1) % SequenceWidth = sequence + 1
  <2>1. \A k \in Nat, w \in Nat \ {0} : k < w => k % w = k
    OBVIOUS
  <2>2. /\ sequence \in Nat /\ curr.no \in Nat /\ base.no \in Nat
        /\ SequenceWidth \in Nat \ {0} /\ sequence + 1 < SequenceWidth
    BY ConstantFacts DEF Words, Numbers, NoWrap
  <2>3. (sequence + 1) % SequenceWidth = sequence + 1
    BY <2>1, <2>2
  <2> QED
    BY <2>2, <2>3 DEF Numbered
<1>1. ASSUME NEW t \in Threads, TuneStep(t)
      PROVE  /\ curr'.no <= sequence' /\ base'.no <= sequence'
             /\ \A u \in Threads : job'[u].at \in {"count", "publish"} => job'[u].seq = sequence'
  <2>0. /\ base' = base
        /\ job = [u \in Threads |-> [at |-> job[u].at, freq |-> job[u].freq, seq |-> job[u].seq]]
    BY <1>1 DEF TuneStep, IInv, JobsInCalls
  <2>1. ASSUME NEW r, job' = [job EXCEPT ![t] = r]
         PROVE  job'[t] = r /\ \A u \in Threads : u # t => job'[u] = job[u]
    BY <2>0, <2>1
  <2>2. DOMAIN job[t] = {"at", "freq", "seq"}
    BY <2>0
  <2>3. CASE TuneCount(t)
    <3>0. job[t].at = "count" /\ job[t].seq = sequence
      BY <1>0, <2>3 DEF TuneCount, Tuning
    <3>1. job[t].at = "count" /\ sequence' = sequence + 1 /\ curr' = curr
      BY <1>0, <2>3, <3>0 DEF TuneCount
    <3>2. /\ job'[t].seq = sequence'
          /\ \A u \in Threads : u # t => job'[u] = job[u]
      BY <2>1, <2>2, <2>3 DEF TuneCount
    <3>3. \A u \in Threads : job[u].at \in {"count", "publish"} => u = t
      BY <3>1, OneCounts
    <3>4. curr'.no <= sequence' /\ base'.no <= sequence'
      BY <1>0, <2>0, <3>1
    <3> QED
      BY <3>2, <3>3, <3>4
  <2>4. CASE TuneSequence(t)
    <3>1. /\ UNCHANGED <<sequence, curr>> /\ job'[t].seq = sequence
          /\ \A u \in Threads : u # t => job'[u] = job[u]
      BY <2>1, <2>2, <2>4 DEF TuneSequence
    <3> QED
      BY <1>0, <2>0, <3>1
  <2>5. CASE TunePublish(t)
    <3>1. /\ curr'.no = sequence /\ sequence' = sequence /\ job'[t].at = "end"
          /\ \A u \in Threads : u # t => job'[u] = job[u]
      BY <1>0, <2>0, <2>5 DEF TunePublish, Tuning, Advance
    <3> QED
      BY <1>0, <2>0, <3>1
  <2>6. CASE TuneCall(t) \/ TuneClear(t) \/ TuneParams(t) \/ TuneFrontend(t) \/ TuneEnd(t)
    <3>1. UNCHANGED <<sequence, curr>>
      BY <2>6 DEF TuneCall, TuneClear, TuneParams, TuneFrontend, TuneEnd
    <3>2. \/ job' = job \/ job' = [job EXCEPT ![t] = NoJob]
          \/ \E at \in {"clear", "frontend", "sequence"} : job' = [job EXCEPT ![t].at = at]
      BY <2>6 DEF TuneCall, TuneClear, TuneParams, TuneFrontend, TuneEnd, Advance
    <3>3. \A u \in Threads : job'[u].at \in {"count", "publish"} => job'[u] = job[u]
      BY <2>0, <3>2 DEF NoJob
    <3> QED
      BY <1>0, <2>0, <3>1, <3>3
  <2> QED
    BY <1>1, <2>3, <2>4, <2>5, <2>6 DEF TuneStep
<1>2. CASE \A t \in Threads : ~TuneStep(t)
  <2>1. /\ UNCHANGED <<sequence, curr>> /\ base' \in {base, curr, NoBase}
        /\ \A t \in Threads : job'[t].at \in {"count", "publish"} => job'[t] = job[t]
    BY <1>2, NumbersStay DEF IInv
  <2> QED
    BY <1>0, <2>1 DEF NoBase
<1> QED
  BY <1>1, <1>2

LEMMA OnlyFiles ==
    ASSUME [Next]_vars, channels' # channels
    PROVE  HwFile
<1> USE DEF readVars, hwVars
<1>1. \A t \in Threads : ~TuneStep(t) /\ ~AddStep(t)
  BY DEF TuneStep, AddStep
<1>2. HwStep \/ Receive => HwFile
  BY DEF Receive, HwStep, HwSync, HwBase, HwWrite, HwWritten, HwReadDone, HwScan, HwScanned
<1>3. \A c \in Clients : ~AddNew(c) /\ ~ClientStep(c) /\ ~BeginDown(c)
  BY DEF AddNew, ClientStep, CheckRefcnt, SetBusy, Compare, ReadRefcnt, WriteRefcnt,
     AppendSession, ClientUnchanged, BeginDown, DownUnchanged
<1>4. ~DownStep
  BY DEF DownStep, DownRemoving, DownStream, DownReadRefcnt, DownWriteRefcnt, DownCheck,
     DownIdle, DownFree, DownUnchanged
<1> QED
  BY <1>1, <1>2, <1>3, <1>4 DEF Next, vars

\* What was read before a satellite tune counted up is not filed under that
\* tune's frequency, whoever tunes and whenever, as long as the counter of tunes,
\* an unsigned int, has not gone round.
THEOREM ReadBeforeRetune == Spec /\ []NoWrap => InFlightGuard
<1>1. Numbered /\ [Next]_vars => [TuneLocks /\ channels' # channels => base.no <= lastSequence]_vars
  <2>1. ASSUME Numbered, TuneLocks, HwFile, channels' # channels PROVE base.no <= lastSequence
    <3>1. lastSequence = sequence
      BY <2>1 DEF HwFile
    <3> QED
      BY <2>1, <3>1 DEF Numbered
  <2> QED
    BY <2>1, OnlyFiles
<1>2. IInv /\ OInv /\ TInv /\ Numbered /\ NoWrap /\ [Next]_vars => Numbered'
  BY NumberedStep DEF TInv
<1>3. Init => Numbered
  BY DEF Init, NoBase, NoJob, NewJob, Numbered
<1> QED
  BY <1>1, <1>2, <1>3, Invariants, PTL DEF Spec, InFlightGuard

-----------------------------------------------------------------------------
(* One client's session.                                                    *)

LEMMA CountedStep ==
    ASSUME IInv, OInv, Words, NEW c, Clients = {c}, Counted(c), [Next]_vars
    PROVE  Counted(c)'
<1> USE DEF clientVars, useVars, downVars, hwVars
<1>0. /\ DOMAIN cpc = Clients /\ tmp \in [Clients -> Int]
      /\ down = [at |-> down.at, who |-> down.who, tmp |-> down.tmp]
      /\ down.at # "none" => down.who = c /\ cpc[c] = "live"
  BY DEF OInv, Locked, Words
<1>1. CASE UNCHANGED <<currentState, refcnt, cpc, tmp, down>>
  BY <1>1 DEF Counted
<1>2. CASE AddNew(c) \/ ClientStep(c)
  <2>1. UNCHANGED down
    BY <1>2 DEF AddNew, ClientStep, CheckRefcnt, SetBusy, Compare, ReadRefcnt, WriteRefcnt,
       AppendSession, ClientUnchanged
  <2>2. \A at : cpc' = [cpc EXCEPT ![c] = at] => cpc'[c] = at
    BY <1>0
  <2>3. cpc[c] # "live" => down.at = "none"
    BY <1>0
  <2>4. CASE AddNew(c)
    BY <2>1, <2>2, <2>4 DEF AddNew, Goto, Counted
  <2>5. CASE CheckRefcnt(c)
    BY <2>1, <2>2, <2>5 DEF CheckRefcnt, Goto, Counted
  <2>6. CASE SetBusy(c)
    BY <2>1, <2>2, <2>6 DEF SetBusy, Goto, Counted
  <2>7. CASE Compare(c)
    BY <2>7 DEF Compare, Counted
  <2>8. CASE ReadRefcnt(c)
    <3>1. cpc[c] = "take" /\ cpc'[c] = "taken" /\ tmp'[c] = refcnt /\ UNCHANGED <<refcnt, currentState>>
      BY <1>0, <2>2, <2>8 DEF ReadRefcnt, Goto, Counted
    <3> QED
      BY <2>1, <3>1 DEF Counted
  <2>9. CASE WriteRefcnt(c)
    <3>1. /\ cpc[c] = "taken" /\ cpc'[c] = "append" /\ refcnt' = tmp[c] + 1
          /\ UNCHANGED currentState
      BY <2>2, <2>9 DEF WriteRefcnt, Goto, Counted
    <3> QED
      BY <2>1, <2>3, <3>1 DEF Counted
  <2>10. CASE AppendSession(c)
    <3>1. /\ cpc[c] = "append" /\ cpc'[c] = "live" /\ UNCHANGED <<tmp, refcnt, currentState>>
      BY <2>2, <2>10 DEF AppendSession, Goto
    <3> QED
      BY <2>1, <2>3, <3>1 DEF Counted
  <2> QED
    BY <1>2, <2>4, <2>5, <2>6, <2>7, <2>8, <2>9, <2>10 DEF ClientStep
<1>3. CASE BeginDown(c)
  <2>1. /\ cpc[c] = "live" /\ down.at = "none" /\ UNCHANGED <<currentState, refcnt, cpc, tmp>>
        /\ down'.at = "stream"
    BY <1>3 DEF BeginDown, DownUnchanged, NoDown
  <2> QED
    BY <2>1 DEF Counted
<1>4. CASE DownStep
  <2>1. CASE DownRemoving
    BY <1>1, <2>1 DEF DownRemoving, DownUnchanged
  <2>2. CASE DownStream \/ DownReadRefcnt \/ DownCheck
    <3>1. /\ UNCHANGED <<currentState, refcnt, cpc, tmp>>
          /\ \/ down.at = "stream" /\ down'.at = "read"
             \/ down.at = "read" /\ down'.at = "write" /\ down'.tmp = refcnt
             \/ down.at = "check" /\ down'.at \in {"idle", "free"}
      BY <1>0, <2>2 DEF DownStream, DownReadRefcnt, DownCheck, DownUnchanged
    <3> QED
      BY <1>0, <3>1 DEF Counted
  <2>3. CASE DownWriteRefcnt
    <3>1. /\ UNCHANGED <<currentState, cpc, tmp>>
          /\ down.at = "write" /\ down'.at = "check" /\ refcnt' = down.tmp - 1
      BY <1>0, <2>3 DEF DownWriteRefcnt, DownUnchanged
    <3> QED
      BY <1>0, <3>1 DEF Counted
  <2>4. CASE DownIdle
    <3>1. /\ UNCHANGED <<refcnt, cpc, tmp>>
          /\ down.at = "idle" /\ down'.at = "free"
      BY <1>0, <2>4 DEF DownIdle, DownUnchanged
    <3> QED
      BY <1>0, <3>1 DEF Counted
  <2>5. CASE DownFree
    <3>1. /\ UNCHANGED <<currentState, refcnt, tmp>> /\ down.at = "free"
          /\ cpc'[c] \in {"none", "gone"} /\ down'.at = "none"
      BY <1>0, <2>5 DEF DownFree, NoDown
    <3> QED
      BY <1>0, <3>1 DEF Counted
  <2> QED
    BY <1>4, <2>1, <2>2, <2>3, <2>4, <2>5 DEF DownStep
<1>5. CASE (\E t \in Threads : TuneStep(t) \/ AddStep(t)) \/ Receive \/ HwStep \/ UNCHANGED vars
  <2>1. UNCHANGED <<currentState, refcnt, cpc, tmp, down>>
    BY <1>5 DEF TuneStep, AddStep, Receive, HwStep, HwSync, HwBase, HwFile, HwWrite, HwWritten,
       HwReadDone, HwScan, HwScanned, vars
  <2> QED
    BY <1>1, <2>1
<1> QED
  BY <1>2, <1>3, <1>4, <1>5 DEF Next

\* With one client no scan begins from the moment it has marked the tuner busy until
\* its session is torn down; one begun just before may still tune. (With a second
\* client there are updates of the reference count that are lost, and it does not hold.)
THEOREM ScanSparesTheSession ==
    ASSUME NEW client, Clients = {client}
    PROVE  Spec => ScanSparesSessions
<1>1. ASSUME OInv, Counted(client), [Next]_vars, hpc = "loop", hpc' = "scan", NEW c \in Clients,
             cpc[c] \in {"take", "taken", "append", "live"}
      PROVE  down.who = c
  <2>1. HwScan
    <3> USE DEF readVars, hwVars
    <3>1. \A t \in Threads : ~TuneStep(t) /\ ~AddStep(t)
      BY <1>1 DEF TuneStep, AddStep
    <3>2. HwStep \/ Receive => HwScan
      BY <1>1 DEF Receive, HwStep, HwSync, HwBase, HwFile, HwWrite, HwWritten, HwReadDone, HwScanned
    <3>3. ~AddNew(client) /\ ~ClientStep(client) /\ ~BeginDown(client)
      BY <1>1 DEF AddNew, ClientStep, CheckRefcnt, SetBusy, Compare, ReadRefcnt, WriteRefcnt,
         AppendSession, ClientUnchanged, BeginDown, DownUnchanged
    <3>4. ~DownStep
      BY <1>1 DEF DownStep, DownRemoving, DownStream, DownReadRefcnt, DownWriteRefcnt, DownCheck,
         DownIdle, DownFree, DownUnchanged
    <3> QED
      BY <1>1, <3>1, <3>2, <3>3, <3>4 DEF Next, vars
  <2>2. currentState = "idle" /\ c = client
    BY <1>1, <2>1 DEF HwScan
  <2>3. down.at # "none"
    BY <1>1, <2>2 DEF Counted
  <2> QED
    BY <1>1, <2>3 DEF OInv, Locked
<1>2. OInv /\ Counted(client) /\ [Next]_vars
      => [hpc = "loop" /\ hpc' = "scan" =>
            \A c \in Clients : cpc[c] \in {"take", "taken", "append", "live"} => down.who = c]_vars
  BY <1>1
<1>3. IInv /\ OInv /\ TInv /\ Counted(client) /\ [Next]_vars => Counted(client)'
  BY CountedStep DEF TInv
<1>4. Init => Counted(client)
  BY DEF Init, Counted, NoDown
<1>5. Spec => []Counted(client)
  BY <1>3, <1>4, Invariants, PTL DEF Spec
<1> QED
  BY <1>2, <1>5, Invariants, PTL DEF Spec, ScanSparesSessions
=============================================================================
