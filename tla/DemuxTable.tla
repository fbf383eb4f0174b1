----------------------------- MODULE DemuxTable -----------------------------
(***************************************************************************)
(* The table of PID filters of one tuner (struct dvb_device_t: pids[],     *)
(* tunerLockMutex) and the three operations that change it: AddPID_to_Demux*)
(* and the clearing half of dvbs_tune / dvbt_tune, which any thread may     *)
(* call, and removePID_from_Demux, called by whoever tears a session down. *)
(* One action is one access to shared memory or one ioctl, so that the     *)
(* calls of different threads interleave as they do in the program: only   *)
(* AddPID_to_Demux and dvbs_tune take the tuner's mutex.                    *)
(***************************************************************************)
EXTENDS Naturals

CONSTANTS
    MaxFilterPid,   \* MAX_FILTER_PID, the number of slots
    Pids,           \* the PIDs anybody asks for
    Free,           \* 65535, the PID of an unused slot
    Threads,        \* the threads that call the operations
    Nobody,         \* no owner of the mutex
    TuneLocks,      \* TRUE for dvbs_tune, FALSE for dvbt_tune
    FiltersFail     \* whether the kernel may refuse to program a filter

ASSUME MaxFilterPidAssumption == MaxFilterPid \in Nat \ {0}
ASSUME FreeAssumption == Free \notin Pids
ASSUME NobodyAssumption == Nobody \notin Threads
ASSUME BooleanAssumption == TuneLocks \in BOOLEAN /\ FiltersFail \in BOOLEAN

Slots == 0 .. MaxFilterPid - 1

VARIABLES
    pids,      \* pids[s] = tuner->pids[s].pid
    filter,    \* the PID the filter behind pids[s].demuxHandle passes, or Free
    open,      \* whether that handle is still open
    lock,      \* the owner of tuner->tunerLockMutex
    call       \* where each thread is in its call: [pc, pid, slot]

vars == <<pids, filter, open, lock, call>>

NoCall == [pc |-> "idle", pid |-> Free, slot |-> 0]

AddPcs == {"addLock", "addDup", "addFree", "addClaim", "addStart"}
RemovePcs == {"rmFind", "rmStop", "rmFree"}
TunePcs == {"tuLock", "tuStop", "tuFree", "tuDone", "tuSame"}

Init ==
    /\ pids = [s \in Slots |-> Free]
    /\ filter = [s \in Slots |-> Free]
    /\ open = [s \in Slots |-> TRUE]
    /\ lock = Nobody
    /\ call = [t \in Threads |-> NoCall]

-----------------------------------------------------------------------------
(* Moving a call on, and returning from it.                                *)

At(t, pc, s) ==
    call' = [call EXCEPT ![t] = [pc |-> pc, pid |-> call[t].pid, slot |-> s]]

Enter(t, pc, p) ==
    /\ call[t] = NoCall
    /\ call' = [call EXCEPT ![t] = [pc |-> pc, pid |-> p, slot |-> 0]]

Return(t) == call' = [call EXCEPT ![t] = NoCall]

Acquire(t) == lock = Nobody /\ lock' = t

Release == lock' = Nobody

LastSlot(s) == s + 1 = MaxFilterPid

-----------------------------------------------------------------------------
(* AddPID_to_Demux(tuner, pid).                                            *)

CallAdd(t, p) ==
    /\ Enter(t, "addLock", p)
    /\ UNCHANGED <<pids, filter, open, lock>>

\* Seeded fault: the mutex is not taken.
LockForAddUnlocked(t) ==
    /\ call[t].pc = "addLock"
    /\ At(t, "addDup", 0)
    /\ UNCHANGED <<pids, filter, open, lock>>

LockForAdd(t) ==
    /\ call[t].pc = "addLock"
    /\ Acquire(t)
    /\ At(t, "addDup", 0)
    /\ UNCHANGED <<pids, filter, open>>

\* Seeded fault: the early return forgets to unlock.
DupScanKeepsLock(t) ==
    LET s == call[t].slot IN
    /\ call[t].pc = "addDup"
    /\ \/ pids[s] = call[t].pid /\ Return(t)
       \/ /\ pids[s] # call[t].pid
          /\ IF LastSlot(s) THEN At(t, "addFree", 0) ELSE At(t, "addDup", s + 1)
    /\ UNCHANGED <<pids, filter, open, lock>>

\* The first loop: a slot that lists the PID already ends the call.
DupScan(t) ==
    LET s == call[t].slot IN
    /\ call[t].pc = "addDup"
    /\ \/ /\ pids[s] = call[t].pid
          /\ Release
          /\ Return(t)
       \/ /\ pids[s] # call[t].pid
          /\ IF LastSlot(s) THEN At(t, "addFree", 0) ELSE At(t, "addDup", s + 1)
          /\ UNCHANGED lock
    /\ UNCHANGED <<pids, filter, open>>

\* The second loop: the first unused slot; without one the call returns -1.
FreeScan(t) ==
    LET s == call[t].slot IN
    /\ call[t].pc = "addFree"
    /\ \/ pids[s] = Free /\ At(t, "addClaim", s) /\ UNCHANGED lock
       \/ pids[s] # Free /\ ~LastSlot(s) /\ At(t, "addFree", s + 1) /\ UNCHANGED lock
       \/ pids[s] # Free /\ LastSlot(s) /\ Return(t) /\ Release
    /\ UNCHANGED <<pids, filter, open>>

\* Seeded fault: the mutex is released once the slot is claimed.
ClaimSlotUnlocks(t) ==
    LET s == call[t].slot IN
    /\ call[t].pc = "addClaim"
    /\ pids' = [pids EXCEPT ![s] = call[t].pid]
    /\ At(t, "addStart", s)
    /\ Release
    /\ UNCHANGED <<filter, open>>

ClaimSlot(t) ==
    LET s == call[t].slot IN
    /\ call[t].pc = "addClaim"
    /\ pids' = [pids EXCEPT ![s] = call[t].pid]
    /\ At(t, "addStart", s)
    /\ UNCHANGED <<filter, open, lock>>

\* DMX_SET_PES_FILTER with DMX_IMMEDIATE_START. When it fails the handle is
\* closed and the slot keeps its PID; a closed handle fails ever after.
StartFilter(t) ==
    LET s == call[t].slot IN
    /\ call[t].pc = "addStart"
    /\ \/ /\ open[s]
          /\ filter' = [filter EXCEPT ![s] = call[t].pid]
          /\ UNCHANGED open
       \/ /\ FiltersFail \/ ~open[s]
          /\ filter' = [filter EXCEPT ![s] = Free]
          /\ open' = [open EXCEPT ![s] = FALSE]
    /\ Release
    /\ Return(t)
    /\ UNCHANGED pids

-----------------------------------------------------------------------------
(* removePID_from_Demux(tuner, pid): no mutex. Sessions are torn down by   *)
(* session_stop and by the reaper, both under the sessions list's lock, so  *)
(* at most one call is in progress.                                        *)

CallRemove(t, p) ==
    /\ \A u \in Threads : call[u].pc \notin RemovePcs
    /\ Enter(t, "rmFind", p)
    /\ UNCHANGED <<pids, filter, open, lock>>

FindSlot(t) ==
    LET s == call[t].slot IN
    /\ call[t].pc = "rmFind"
    /\ \/ pids[s] = call[t].pid /\ At(t, "rmStop", s)
       \/ pids[s] # call[t].pid /\ ~LastSlot(s) /\ At(t, "rmFind", s + 1)
       \/ pids[s] # call[t].pid /\ LastSlot(s) /\ Return(t)
    /\ UNCHANGED <<pids, filter, open, lock>>

StopFilter(t) ==
    LET s == call[t].slot IN
    /\ call[t].pc = "rmStop"
    /\ filter' = [filter EXCEPT ![s] = Free]
    /\ At(t, "rmFree", s)
    /\ UNCHANGED <<pids, open, lock>>

FreeSlot(t) ==
    LET s == call[t].slot IN
    /\ call[t].pc = "rmFree"
    /\ pids' = [pids EXCEPT ![s] = Free]
    /\ Return(t)
    /\ UNCHANGED <<filter, open, lock>>

-----------------------------------------------------------------------------
(* dvbs_tune / dvbt_tune as far as the table is concerned: every slot is    *)
(* stopped and freed, unless the tuner is on the frequency already.        *)

CallTune(t) ==
    /\ Enter(t, "tuLock", Free)
    /\ UNCHANGED <<pids, filter, open, lock>>

LockForTune(t, same) ==
    /\ call[t].pc = "tuLock"
    /\ IF TuneLocks THEN Acquire(t) ELSE UNCHANGED lock
    /\ At(t, IF same THEN "tuSame" ELSE "tuStop", 0)
    /\ UNCHANGED <<pids, filter, open>>

\* Seeded fault: the mutex only covers the comparison of frequencies.
StopForTuneUnlocks(t) ==
    LET s == call[t].slot IN
    /\ call[t].pc = "tuStop"
    /\ filter' = [filter EXCEPT ![s] = Free]
    /\ At(t, "tuFree", s)
    /\ Release
    /\ UNCHANGED <<pids, open>>

StopForTune(t) ==
    LET s == call[t].slot IN
    /\ call[t].pc = "tuStop"
    /\ filter' = [filter EXCEPT ![s] = Free]
    /\ At(t, "tuFree", s)
    /\ UNCHANGED <<pids, open, lock>>

\* Seeded fault: the loop goes one slot too far.
FreeForTuneTooFar(t) ==
    LET s == call[t].slot IN
    /\ call[t].pc = "tuFree"
    /\ pids' = [pids EXCEPT ![s] = Free]
    /\ IF s = MaxFilterPid THEN At(t, "tuDone", s) ELSE At(t, "tuStop", s + 1)
    /\ UNCHANGED <<filter, open, lock>>

FreeForTune(t) ==
    LET s == call[t].slot IN
    /\ call[t].pc = "tuFree"
    /\ pids' = [pids EXCEPT ![s] = Free]
    /\ IF LastSlot(s) THEN At(t, "tuDone", s) ELSE At(t, "tuStop", s + 1)
    /\ UNCHANGED <<filter, open, lock>>

EndTune(t) ==
    /\ call[t].pc \in {"tuDone", "tuSame"}
    /\ IF TuneLocks THEN Release ELSE UNCHANGED lock
    /\ Return(t)
    /\ UNCHANGED <<pids, filter, open>>

-----------------------------------------------------------------------------
AddStep(t) ==
    LockForAdd(t) \/ DupScan(t) \/ FreeScan(t) \/ ClaimSlot(t) \/ StartFilter(t)

RemoveStep(t) == FindSlot(t) \/ StopFilter(t) \/ FreeSlot(t)

TuneStep(t) ==
    \/ \E same \in BOOLEAN : LockForTune(t, same)
    \/ StopForTune(t)
    \/ FreeForTune(t)
    \/ EndTune(t)

Step(t) == AddStep(t) \/ RemoveStep(t) \/ TuneStep(t)

Next ==
    \E t \in Threads :
        \/ \E p \in Pids : CallAdd(t, p) \/ CallRemove(t, p)
        \/ CallTune(t)
        \/ Step(t)

\* A thread inside a call keeps running; nobody is obliged to make a call.
Fairness == \A t \in Threads : WF_vars(Step(t))

Spec == Init /\ [][Next]_vars

FairSpec == Spec /\ Fairness

-----------------------------------------------------------------------------
Pcs == {"idle"} \cup AddPcs \cup RemovePcs \cup TunePcs

Calls == [Threads -> [pc : Pcs, pid : Pids \cup {Free}, slot : Slots]]

TypeOK ==
    /\ pids \in [Slots -> Pids \cup {Free}]
    /\ filter \in [Slots -> Pids \cup {Free}]
    /\ open \in [Slots -> BOOLEAN]
    /\ lock \in Threads \cup {Nobody}
    /\ call \in Calls

\* No PID is ever listed by two slots, although removePID_from_Demux and
\* dvbt_tune free slots without the mutex while AddPID_to_Demux scans them. (Of
\* the list only: a removal between ClaimSlot and StartFilter leaves the filter
\* running in a free slot, beside that of the slot the PID is listed in next.)
NoDuplicatePid ==
    \A i, j \in Slots : pids[i] = pids[j] /\ pids[i] # Free => i = j

\* A slot goes from one PID to another only by way of being unused: nobody's
\* filter is taken over while AddPID_to_Demux believes the slot unused.
NeverOverwrite ==
    [][\A s \in Slots : pids'[s] # pids[s] => Free \in {pids[s], pids'[s]}]_vars

\* The filter behind a slot passes the PID the slot lists, whatever slot its
\* handle served before, unless the call that claimed the slot has yet to
\* program it. (A slot that lists nothing may have a filter running: an
\* unlocked removal can free it just before its filter is started.)
FilterMatchesSlot ==
    \A s \in Slots :
        \/ filter[s] \in {Free, pids[s]}
        \/ pids[s] = Free
        \/ \E t \in Threads : call[t].pc = "addStart" /\ call[t].slot = s

\* When dvbs_tune has cleared the table, the table stays empty and every
\* filter stopped until the tune is over: no PID of the old transponder is
\* filtered on the new one.
QuietTune ==
    TuneLocks =>
        \A t \in Threads : call[t].pc = "tuDone" =>
            \A s \in Slots : pids[s] = Free /\ filter[s] = Free

\* What AddPID_to_Demux has seen stays true until it acts on it: the slots its
\* first loop passed do not list the PID, and the slot its second loop chose
\* is unused. (Slots freed behind its back do no harm; only a claim would, and
\* claims need the mutex.)
ScanOK(c) ==
    /\ c.pc = "addDup" => \A s \in Slots : s < c.slot => pids[s] # c.pid
    /\ c.pc \in {"addFree", "addClaim"} => \A s \in Slots : pids[s] # c.pid
    /\ c.pc = "addClaim" => pids[c.slot] = Free
    /\ c.pc = "addStart" => pids[c.slot] \in {Free, c.pid}

ScanStands == \A t \in Threads : ScanOK(call[t])

\* Every path through AddPID_to_Demux and dvbs_tune gives the mutex back.
LockIsReleased == \A t \in Threads : lock = t ~> lock # t

-----------------------------------------------------------------------------
(* The inductive invariant behind the safety properties.                   *)

InMutex == {"addDup", "addFree", "addClaim", "addStart"} \cup
           (IF TuneLocks THEN {"tuStop", "tuFree", "tuDone", "tuSame"} ELSE {})

\* A call is inside the mutex only as its owner, and is for a real PID.
MutexHeld ==
    \A t \in Threads :
        /\ call[t].pc \in InMutex => lock = t
        /\ call[t].pc \in AddPcs \cup RemovePcs => call[t].pid \in Pids

\* A locked tune leaves the slots it has passed empty and stopped.
TuneOK(c) ==
    /\ c.pc \in {"tuStop", "tuFree", "tuDone"} =>
          \A s \in Slots : s < c.slot => pids[s] = Free /\ filter[s] = Free
    /\ c.pc \in {"tuFree", "tuDone"} => filter[c.slot] = Free
    /\ c.pc = "tuDone" => pids[c.slot] = Free /\ LastSlot(c.slot)

TuneClears == TuneLocks => \A t \in Threads : TuneOK(call[t])

\* The mutex is taken only while its owner is inside: no way out of AddPID_to_Demux or dvbs_tune, the early ones
\* included, leaves it behind, so that nobody waits for a thread that is gone.
OwnerIsInside == lock # Nobody => call[lock].pc \in InMutex

IInv == TypeOK /\ MutexHeld /\ ScanStands /\ NoDuplicatePid /\ FilterMatchesSlot /\ TuneClears
=============================================================================
