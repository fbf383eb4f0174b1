-------------------------- MODULE DemuxTableProofs --------------------------
(***************************************************************************)
(* Proofs about the demux table, for any number of slots, PIDs and threads *)
(* and for both kinds of tuner.                                            *)
(***************************************************************************)
EXTENDS DemuxTable, TLAPS

LEMMA SlotsFacts ==
    /\ Slots \subseteq Nat
    /\ 0 \in Slots
    /\ \A s \in Slots : ~LastSlot(s) => s + 1 \in Slots
    /\ \A s, r \in Slots : LastSlot(s) => r < s \/ r = s
    /\ \A s, r \in Slots : r < s + 1 <=> r < s \/ r = s
    /\ \A s, r \in Slots : ~(r < 0) /\ (r < s => r # s)
BY MaxFilterPidAssumption DEF Slots, LastSlot

\* Moving a call on, and returning from it, keep the type of call, and say
\* what they leave of it.
LEMMA AtCall ==
    ASSUME call \in Calls, NEW t \in Threads, NEW pc \in Pcs, NEW s \in Slots, At(t, pc, s)
    PROVE  /\ call' \in Calls
           /\ call'[t] = [pc |-> pc, pid |-> call[t].pid, slot |-> s]
           /\ \A u \in Threads \ {t} : call'[u] = call[u]
BY DEF At, Calls

LEMMA ReturnCall ==
    ASSUME call \in Calls, NEW t \in Threads, Return(t)
    PROVE  /\ call' \in Calls
           /\ call'[t] = NoCall
           /\ \A u \in Threads \ {t} : call'[u] = call[u]
BY SlotsFacts DEF Return, Calls, NoCall, Pcs

LEMMA EnterCall ==
    ASSUME call \in Calls, NEW t \in Threads, NEW pc \in Pcs, NEW p \in Pids \cup {Free},
           Enter(t, pc, p)
    PROVE  /\ call' \in Calls
           /\ call'[t] = [pc |-> pc, pid |-> p, slot |-> 0]
           /\ \A u \in Threads \ {t} : call'[u] = call[u]
BY SlotsFacts DEF Enter, Calls, NoCall, Pcs

LEMMA SlotOfCall ==
    ASSUME call \in Calls, NEW t \in Threads
    PROVE  /\ call[t].slot \in Slots
           /\ call[t].pid \in Pids \cup {Free}
           /\ call[t].pc \in Pcs
BY DEF Calls

LEMMA PcFacts == "idle" \in Pcs /\ AddPcs \subseteq Pcs /\ RemovePcs \subseteq Pcs /\ TunePcs \subseteq Pcs
BY DEF Pcs

-----------------------------------------------------------------------------
LEMMA TypeStep == TypeOK /\ [Next]_vars => TypeOK'
<1> SUFFICES ASSUME TypeOK, [Next]_vars PROVE TypeOK'
  OBVIOUS
<1> USE DEF TypeOK
<1>1. CASE UNCHANGED vars
  BY <1>1 DEF vars
<1>2. ASSUME NEW t \in Threads, NEW p \in Pids, CallAdd(t, p) \/ CallRemove(t, p)
      PROVE  TypeOK'
  BY <1>2, EnterCall, PcFacts DEF CallAdd, CallRemove, AddPcs, RemovePcs
<1>3. ASSUME NEW t \in Threads, CallTune(t) PROVE TypeOK'
  BY <1>3, EnterCall, PcFacts DEF CallTune, TunePcs
<1>4. ASSUME NEW t \in Threads, Step(t) PROVE TypeOK'
  <2> DEFINE s == call[t].slot
  <2>s. /\ s \in Slots
        /\ 0 \in Slots
        /\ ~LastSlot(s) => s + 1 \in Slots
        /\ call[t].pid \in Pids \cup {Free}
    BY SlotsFacts, SlotOfCall
  <2>a. ASSUME NEW pc \in AddPcs \cup RemovePcs \cup TunePcs, NEW r \in Slots, At(t, pc, r)
        PROVE  call' \in Calls
    BY <2>a, AtCall, PcFacts
  <2>r. Return(t) => call' \in Calls
    BY ReturnCall
  <2> HIDE DEF s
  <2>1. CASE LockForAdd(t)
    BY <2>1, <2>s, <2>a DEF LockForAdd, Acquire, AddPcs
  <2>2. CASE DupScan(t)
    <3>1. call' \in Calls
      BY <2>2, <2>s, <2>a, <2>r DEF DupScan, AddPcs, s
    <3> QED
      BY <2>2, <3>1 DEF DupScan, Release
  <2>3. CASE FreeScan(t)
    <3>1. call' \in Calls
      BY <2>3, <2>s, <2>a, <2>r DEF FreeScan, AddPcs, s
    <3> QED
      BY <2>3, <3>1 DEF FreeScan, Release
  <2>4. CASE ClaimSlot(t)
    BY <2>4, <2>s, <2>a DEF ClaimSlot, AddPcs, s
  <2>5. CASE StartFilter(t)
    BY <2>5, <2>s, <2>r DEF StartFilter, Release, s
  <2>6. CASE FindSlot(t)
    BY <2>6, <2>s, <2>a, <2>r DEF FindSlot, RemovePcs, s
  <2>7. CASE StopFilter(t)
    BY <2>7, <2>s, <2>a DEF StopFilter, RemovePcs, s
  <2>8. CASE FreeSlot(t)
    BY <2>8, <2>s, <2>r DEF FreeSlot, s
  <2>9. ASSUME NEW same \in BOOLEAN, LockForTune(t, same) PROVE TypeOK'
    BY <2>9, <2>s, <2>a DEF LockForTune, Acquire, TunePcs
  <2>10. CASE StopForTune(t)
    BY <2>10, <2>s, <2>a DEF StopForTune, TunePcs, s
  <2>11. CASE FreeForTune(t)
    <3>1. call' \in Calls
      BY <2>11, <2>s, <2>a DEF FreeForTune, TunePcs, s
    <3> QED
      BY <2>11, <3>1 DEF FreeForTune
  <2>12. CASE EndTune(t)
    BY <2>12, <2>r DEF EndTune, Release
  <2> QED
    BY <1>4, <2>1, <2>2, <2>3, <2>4, <2>5, <2>6, <2>7, <2>8, <2>9, <2>10, <2>11, <2>12
    DEF Step, AddStep, RemoveStep, TuneStep
<1> QED
  BY <1>1, <1>2, <1>3, <1>4 DEF Next

\* Every variable keeps its type, for the whole behaviour.
THEOREM TypeCorrect == Spec => []TypeOK
<1>1. Init => TypeOK
  BY SlotsFacts DEF Init, TypeOK, NoCall, Calls, Pcs
<1> QED
  BY <1>1, TypeStep, PTL DEF Spec

-----------------------------------------------------------------------------
(* The inductive invariant, one conjunct at a time. A step of thread t is   *)
(* described by what it does to call[t], the mutex, and the table.          *)

\* A step of t concerns no other thread's call.
LEMMA OtherCalls ==
    ASSUME TypeOK, NEW t \in Threads, Step(t)
    PROVE  \A u \in Threads \ {t} : call'[u] = call[u]
<1> SUFFICES ASSUME NEW u \in Threads \ {t} PROVE call'[u] = call[u]
  OBVIOUS
<1>1. ASSUME NEW pc, NEW s, At(t, pc, s) PROVE call'[u] = call[u]
  BY <1>1 DEF At, TypeOK, Calls
<1>2. ASSUME Return(t) PROVE call'[u] = call[u]
  BY <1>2 DEF Return, TypeOK, Calls
<1>3. AddStep(t) => call'[u] = call[u]
  BY <1>1, <1>2 DEF AddStep, LockForAdd, DupScan, FreeScan, ClaimSlot, StartFilter
<1>4. RemoveStep(t) => call'[u] = call[u]
  BY <1>1, <1>2 DEF RemoveStep, FindSlot, StopFilter, FreeSlot
<1>5. TuneStep(t) => call'[u] = call[u]
  BY <1>1, <1>2 DEF TuneStep, LockForTune, StopForTune, FreeForTune, EndTune
<1> QED
  BY <1>3, <1>4, <1>5 DEF Step

\* Where a step takes the call it belongs to: it stays for the same PID, or
\* returns; and it is in the mutex afterwards only if it was, or takes it.
OwnMove(t) ==
    /\ call'[t] = NoCall \/ call'[t].pid = call[t].pid
    /\ call'[t].pc \in AddPcs => call[t].pc \in AddPcs
    /\ call'[t].pc \in RemovePcs => call[t].pc \in RemovePcs
    /\ call'[t].pc \in InMutex => (call[t].pc \in InMutex /\ lock' = lock) \/ lock' = t
    /\ lock' # lock => lock = Nobody \/ call[t].pc \in InMutex

LEMMA OwnCall == ASSUME TypeOK, NEW t \in Threads, Step(t) PROVE OwnMove(t)
<1> USE DEF OwnMove, AddPcs, RemovePcs, InMutex, Acquire, Release, At, Return, NoCall, TypeOK, Calls
<1>1. CASE LockForAdd(t)
  BY <1>1 DEF LockForAdd
<1>2. CASE DupScan(t)
  BY <1>2 DEF DupScan
<1>3. CASE FreeScan(t)
  BY <1>3 DEF FreeScan
<1>4. CASE ClaimSlot(t)
  BY <1>4 DEF ClaimSlot
<1>5. CASE StartFilter(t)
  BY <1>5 DEF StartFilter
<1>6. CASE RemoveStep(t)
  BY <1>6 DEF RemoveStep, FindSlot, StopFilter, FreeSlot
<1>7. ASSUME NEW same \in BOOLEAN, LockForTune(t, same) PROVE OwnMove(t)
  BY <1>7 DEF LockForTune
<1>8. CASE StopForTune(t)
  BY <1>8 DEF StopForTune
<1>9. CASE FreeForTune(t)
  BY <1>9 DEF FreeForTune
<1>10. CASE EndTune(t)
  BY <1>10 DEF EndTune
<1> QED
  BY <1>1, <1>2, <1>3, <1>4, <1>5, <1>6, <1>7, <1>8, <1>9, <1>10
  DEF Step, AddStep, TuneStep

\* The mutex is exclusive: a call is inside it only while it owns it.
LEMMA MutexHeldStep ==
    ASSUME TypeOK, MutexHeld, NEW t \in Threads, Step(t)
    PROVE  MutexHeld'
<1>1. ASSUME NEW u \in Threads
      PROVE  /\ call'[u].pc \in InMutex => lock' = u
             /\ call'[u].pc \in AddPcs \cup RemovePcs => call'[u].pid \in Pids
  <2>1. CASE u = t
    BY <2>1, OwnCall DEF OwnMove, MutexHeld, NoCall, AddPcs, RemovePcs
  <2>2. CASE u # t
    BY <2>2, OwnCall, OtherCalls, NobodyAssumption DEF OwnMove, MutexHeld
  <2> QED
    BY <2>1, <2>2
<1> QED
  BY <1>1 DEF MutexHeld, InMutex

\* Only ClaimSlot lists a PID; every other step leaves each slot or frees it.
LEMMA OnlyClaimsList ==
    ASSUME TypeOK, NEW t \in Threads, Step(t), ~ClaimSlot(t)
    PROVE  \A s \in Slots : pids'[s] \in {pids[s], Free}
<1> USE DEF TypeOK
<1>1. AddStep(t) => pids' = pids
  BY DEF AddStep, LockForAdd, DupScan, FreeScan, StartFilter
<1>2. RemoveStep(t) => \A s \in Slots : pids'[s] \in {pids[s], Free}
  BY DEF RemoveStep, FindSlot, StopFilter, FreeSlot
<1>3. TuneStep(t) => \A s \in Slots : pids'[s] \in {pids[s], Free}
  BY DEF TuneStep, LockForTune, StopForTune, FreeForTune, EndTune
<1> QED
  BY <1>1, <1>2, <1>3 DEF Step

\* ClaimSlot lists the PID of its call in a slot that was unused.
LEMMA Claim ==
    ASSUME TypeOK, NEW t \in Threads, ClaimSlot(t)
    PROVE  /\ call[t].slot \in Slots
           /\ pids'[call[t].slot] = call[t].pid
           /\ \A s \in Slots : s # call[t].slot => pids'[s] = pids[s]
           /\ call'[t].pc = "addStart"
           /\ call'[t].pid = call[t].pid
           /\ call'[t].slot = call[t].slot
BY DEF TypeOK, ClaimSlot, At, Calls

\* What t itself knows of the table after its step.
LEMMA OwnScan ==
    ASSUME TypeOK, MutexHeld, ScanStands, NEW t \in Threads, Step(t), ~ClaimSlot(t)
    PROVE  ScanOK(call'[t]) /\ call'[t].pc # "addStart"
<1> USE SlotsFacts DEF TypeOK, Calls, ScanStands, ScanOK, At, Return, NoCall
<1>1. CASE LockForAdd(t)
  BY <1>1 DEF LockForAdd
<1>2. CASE DupScan(t)
  <2>1. CASE pids[call[t].slot] = call[t].pid
    BY <1>2, <2>1 DEF DupScan
  <2>2. CASE pids[call[t].slot] # call[t].pid
    <3>1. \A s \in Slots : s < call[t].slot \/ s = call[t].slot => pids[s] # call[t].pid
      BY <1>2, <2>2 DEF DupScan
    <3>2. CASE LastSlot(call[t].slot)
      <4>1. \A s \in Slots : pids[s] # call[t].pid
        BY <3>1, <3>2, SlotOfCall
      <4> QED
        BY <1>2, <2>2, <3>2, <4>1 DEF DupScan
    <3>3. CASE ~LastSlot(call[t].slot)
      <4>1. \A s \in Slots : s < call[t].slot + 1 => pids[s] # call[t].pid
        BY <3>1, SlotOfCall
      <4> QED
        BY <1>2, <2>2, <3>3, <4>1 DEF DupScan
    <3> QED
      BY <3>2, <3>3
  <2> QED
    BY <2>1, <2>2
<1>3. CASE FreeScan(t)
  <2>1. \A s \in Slots : pids[s] # call[t].pid
    BY <1>3 DEF FreeScan
  <2> QED
    BY <1>3, <2>1 DEF FreeScan
<1>4. CASE StartFilter(t)
  BY <1>4 DEF StartFilter
<1>5. CASE RemoveStep(t)
  BY <1>5 DEF RemoveStep, FindSlot, StopFilter, FreeSlot
<1>6. CASE TuneStep(t)
  <2>1. ASSUME NEW same \in BOOLEAN, LockForTune(t, same) PROVE call'[t].pc \in TunePcs
    BY <2>1 DEF LockForTune, TunePcs
  <2>2. CASE StopForTune(t) \/ FreeForTune(t)
    BY <2>2 DEF StopForTune, FreeForTune
  <2>3. CASE EndTune(t)
    BY <2>3 DEF EndTune
  <2> QED
    BY <1>6, <2>1, <2>2, <2>3 DEF TuneStep, TunePcs
<1> QED
  BY <1>1, <1>2, <1>3, <1>4, <1>5, <1>6 DEF Step, AddStep

LEMMA ScanStandsStep ==
    ASSUME TypeOK, MutexHeld, ScanStands, NEW t \in Threads, Step(t)
    PROVE  ScanStands'
<1> SUFFICES ASSUME NEW u \in Threads PROVE ScanOK(call[u])'
  BY DEF ScanStands
<1>1. call'[u].pc \in AddPcs => call'[u].pid # Free
  BY MutexHeldStep, FreeAssumption DEF MutexHeld
<1>2. call' \in Calls
  BY TypeStep DEF Next, TypeOK
<1>3. CASE ClaimSlot(t)
  <2>1. CASE u = t
    <3>1. /\ call'[u].pc = "addStart"
          /\ call'[u].pid = call[t].pid
          /\ call'[u].slot = call[t].slot
      BY <1>3, <2>1, Claim
    <3>2. pids'[call'[u].slot] = call'[u].pid
      BY <1>3, <3>1, Claim
    <3>3. call'[u].pc # "addDup" /\ call'[u].pc \notin {"addFree", "addClaim"} /\ call'[u].pc # "addClaim"
      BY <3>1
    <3> QED
      BY <3>2, <3>3 DEF ScanOK
  <2>2. CASE u # t
    <3>1. call[u].pc \notin InMutex
      BY <1>3, <2>2 DEF ClaimSlot, MutexHeld, InMutex
    <3> QED
      BY <2>2, <3>1, OtherCalls DEF ScanOK, InMutex
  <2> QED
    BY <2>1, <2>2
<1>4. CASE ~ClaimSlot(t)
  <2>1. \A s \in Slots : pids'[s] \in {pids[s], Free}
    BY <1>4, OnlyClaimsList
  <2>2. CASE u = t
    BY <1>1, <1>2, <1>4, <2>1, <2>2, OwnScan DEF ScanOK, AddPcs, Calls
  <2>3. CASE u # t
    BY <1>1, <1>2, <2>1, <2>3, OtherCalls DEF ScanStands, ScanOK, AddPcs, Calls
  <2> QED
    BY <2>2, <2>3
<1> QED
  BY <1>3, <1>4

\* A claimed slot gets a PID no slot lists: the scan that said so still stands.
LEMMA NoDuplicatePidStep ==
    ASSUME TypeOK, ScanStands, NoDuplicatePid, NEW t \in Threads, Step(t)
    PROVE  NoDuplicatePid'
<1>1. CASE ClaimSlot(t)
  <2>1. \A s \in Slots : pids[s] # call[t].pid
    BY <1>1 DEF ClaimSlot, ScanStands, ScanOK
  <2>2. \A s \in Slots : pids'[s] = IF s = call[t].slot THEN call[t].pid ELSE pids[s]
    BY <1>1, Claim
  <2> QED
    BY <2>1, <2>2 DEF NoDuplicatePid
<1>2. CASE ~ClaimSlot(t)
  BY <1>2, OnlyClaimsList DEF NoDuplicatePid
<1> QED
  BY <1>1, <1>2

\* Only StartFilter makes a filter pass a PID; every other step stops it or
\* leaves it alone.
LEMMA OnlyStartsPass ==
    ASSUME TypeOK, NEW t \in Threads, Step(t), ~StartFilter(t)
    PROVE  \A s \in Slots : filter'[s] \in {filter[s], Free}
<1> USE DEF TypeOK
<1>1. AddStep(t) => filter' = filter
  BY DEF AddStep, LockForAdd, DupScan, FreeScan, ClaimSlot
<1>2. RemoveStep(t) => \A s \in Slots : filter'[s] \in {filter[s], Free}
  BY DEF RemoveStep, FindSlot, StopFilter, FreeSlot
<1>3. TuneStep(t) => \A s \in Slots : filter'[s] \in {filter[s], Free}
  BY DEF TuneStep, LockForTune, StopForTune, FreeForTune, EndTune
<1> QED
  BY <1>1, <1>2, <1>3 DEF Step

LEMMA FilterMatchesSlotStep ==
    ASSUME TypeOK, MutexHeld, ScanStands, FilterMatchesSlot, NEW t \in Threads, Step(t)
    PROVE  FilterMatchesSlot'
<1> SUFFICES ASSUME NEW s \in Slots
             PROVE  \/ filter'[s] \in {Free, pids'[s]}
                    \/ pids'[s] = Free
                    \/ \E u \in Threads : call'[u].pc = "addStart" /\ call'[u].slot = s
  BY DEF FilterMatchesSlot
<1>1. CASE ClaimSlot(t)
  <2>1. CASE call[t].slot = s
    <3>1. call'[t].pc = "addStart" /\ call'[t].slot = s
      BY <1>1, <2>1, Claim
    <3> QED
      BY <3>1
  <2>2. CASE call[t].slot # s
    <3>1. filter' = filter /\ pids'[s] = pids[s]
      BY <1>1, <2>2, Claim DEF ClaimSlot
    <3>2. \A u \in Threads : call[u].pc # "addStart"
      <4> SUFFICES ASSUME NEW u \in Threads, call[u].pc = "addStart" PROVE FALSE
        OBVIOUS
      <4>1. lock = u /\ lock = t
        BY <1>1 DEF ClaimSlot, MutexHeld, InMutex
      <4> QED
        BY <1>1, <4>1 DEF ClaimSlot
    <3> QED
      BY <3>1, <3>2 DEF FilterMatchesSlot
  <2> QED
    BY <2>1, <2>2
<1>2. CASE StartFilter(t)
  <2>1. pids' = pids
    BY <1>2 DEF StartFilter
  <2>2. CASE call[t].slot = s
    <3>1. filter'[s] \in {call[t].pid, Free}
      BY <1>2, <2>2 DEF StartFilter, TypeOK
    <3>2. pids[s] \in {Free, call[t].pid}
      BY <1>2, <2>2 DEF StartFilter, ScanStands, ScanOK
    <3> QED
      BY <2>1, <3>1, <3>2
  <2>3. CASE call[t].slot # s
    <3>1. filter'[s] = filter[s]
      BY <1>2, <2>3 DEF StartFilter, TypeOK
    <3>2. \A u \in Threads : call[u].pc = "addStart" => u = t
      BY <1>2 DEF StartFilter, MutexHeld, InMutex
    <3> QED
      BY <2>1, <2>3, <3>1, <3>2 DEF FilterMatchesSlot
  <2> QED
    BY <2>2, <2>3
<1>3. CASE ~ClaimSlot(t) /\ ~StartFilter(t)
  <2>1. pids'[s] \in {pids[s], Free} /\ filter'[s] \in {filter[s], Free}
    BY <1>3, OnlyClaimsList, OnlyStartsPass
  <2>2. call[t].pc # "addStart"
    <3>1. AddStep(t) => call[t].pc # "addStart"
      BY <1>3 DEF AddStep, LockForAdd, DupScan, FreeScan
    <3>2. RemoveStep(t) => call[t].pc # "addStart"
      BY DEF RemoveStep, FindSlot, StopFilter, FreeSlot
    <3>3. TuneStep(t) => call[t].pc # "addStart"
      BY DEF TuneStep, LockForTune, StopForTune, FreeForTune, EndTune
    <3> QED
      BY <3>1, <3>2, <3>3 DEF Step
  <2>3. \A u \in Threads : call[u].pc = "addStart" => call'[u] = call[u]
    BY <2>2, OtherCalls
  <2> QED
    BY <2>1, <2>3 DEF FilterMatchesSlot
<1> QED
  BY <1>1, <1>2, <1>3

\* Only a call inside the mutex lists a PID or starts a filter, and then it is
\* no tune; every other step leaves each slot and filter, or empties it.
LEMMA OnlyAddsFill ==
    ASSUME TypeOK, NEW t \in Threads, Step(t), call[t].pc \notin {"addClaim", "addStart"}
    PROVE  \A s \in Slots : pids'[s] \in {pids[s], Free} /\ filter'[s] \in {filter[s], Free}
BY OnlyClaimsList, OnlyStartsPass DEF ClaimSlot, StartFilter

\* What a tune knows of the table after its own step.
LEMMA OwnTune ==
    ASSUME TypeOK, NEW t \in Threads, TuneOK(call[t]), TuneStep(t)
    PROVE  TuneOK(call[t])'
<1> USE SlotsFacts, SlotOfCall DEF TypeOK, TuneOK, Calls, At, Return, NoCall
<1>1. ASSUME NEW same \in BOOLEAN, LockForTune(t, same) PROVE TuneOK(call[t])'
  BY <1>1 DEF LockForTune
<1>2. CASE StopForTune(t)
  <2>1. /\ call'[t].pc = "tuFree"
        /\ call'[t].slot = call[t].slot
    BY <1>2 DEF StopForTune
  <2>2. \A s \in Slots : s < call[t].slot => pids'[s] = Free /\ filter'[s] = Free
    BY <1>2 DEF StopForTune
  <2>3. filter'[call[t].slot] = Free
    BY <1>2 DEF StopForTune
  <2> QED
    BY <2>1, <2>2, <2>3
<1>3. CASE FreeForTune(t)
  <2>1. \A s \in Slots : s < call[t].slot \/ s = call[t].slot => pids'[s] = Free /\ filter'[s] = Free
    BY <1>3 DEF FreeForTune
  <2>2. CASE LastSlot(call[t].slot)
    <3>1. call'[t].pc = "tuDone" /\ call'[t].slot = call[t].slot
      BY <1>3, <2>2 DEF FreeForTune
    <3> QED
      BY <2>1, <2>2, <3>1
  <2>3. CASE ~LastSlot(call[t].slot)
    <3>1. call'[t].pc = "tuStop" /\ call'[t].slot = call[t].slot + 1
      BY <1>3, <2>3 DEF FreeForTune
    <3>2. \A s \in Slots : s < call[t].slot + 1 => pids'[s] = Free /\ filter'[s] = Free
      BY <2>1
    <3> QED
      BY <3>1, <3>2
  <2> QED
    BY <2>2, <2>3
<1>4. CASE EndTune(t)
  BY <1>4 DEF EndTune
<1> QED
  BY <1>1, <1>2, <1>3, <1>4 DEF TuneStep

LEMMA TuneClearsStep ==
    ASSUME TypeOK, MutexHeld, TuneClears, NEW t \in Threads, Step(t)
    PROVE  TuneClears'
<1> SUFFICES ASSUME TuneLocks, NEW u \in Threads PROVE TuneOK(call[u])'
  BY DEF TuneClears
<1>1. TuneOK(call[u])
  BY DEF TuneClears
<1>2. CASE u = t /\ TuneStep(t)
  BY <1>1, <1>2, OwnTune
<1>3. CASE u = t /\ ~TuneStep(t)
  <2>1. AddStep(t) => call'[t].pc \notin TunePcs
    BY DEF AddStep, LockForAdd, DupScan, FreeScan, ClaimSlot, StartFilter, At, Return,
           NoCall, TypeOK, Calls, TunePcs
  <2>2. RemoveStep(t) => call'[t].pc \notin TunePcs
    BY DEF RemoveStep, FindSlot, StopFilter, FreeSlot, At, Return, NoCall, TypeOK, Calls, TunePcs
  <2> QED
    BY <1>3, <2>1, <2>2 DEF Step, TuneOK, TunePcs
<1>4. CASE u # t
  <2>1. call'[u] = call[u]
    BY <1>4, OtherCalls
  <2>2. CASE call[u].pc \in {"tuStop", "tuFree", "tuDone"}
    <3>1. call[t].pc \notin {"addClaim", "addStart"}
      BY <1>4, <2>2 DEF MutexHeld, InMutex
    <3>2. \A s \in Slots : pids'[s] \in {pids[s], Free} /\ filter'[s] \in {filter[s], Free}
      BY <3>1, OnlyAddsFill
    <3>3. call[u].slot \in Slots
      BY SlotOfCall DEF TypeOK
    <3> QED
      BY <1>1, <2>1, <3>2, <3>3 DEF TuneOK
  <2>3. CASE call[u].pc \notin {"tuStop", "tuFree", "tuDone"}
    BY <2>1, <2>3 DEF TuneOK
  <2> QED
    BY <2>2, <2>3
<1> QED
  BY <1>2, <1>3, <1>4

-----------------------------------------------------------------------------
(* Making a call changes nothing but the caller's position.                *)

LEMMA CallsKeepIInv ==
    ASSUME IInv, NEW t \in Threads,
           CallTune(t) \/ \E p \in Pids : CallAdd(t, p) \/ CallRemove(t, p)
    PROVE  IInv'
<1> USE DEF IInv
<1>1. TypeOK'
  BY TypeStep DEF Next
<1>2. UNCHANGED <<pids, filter, open, lock>> /\ call[t] = NoCall
  BY DEF CallTune, CallAdd, CallRemove, Enter
<1>3. \A u \in Threads \ {t} : call'[u] = call[u]
  BY DEF CallTune, CallAdd, CallRemove, Enter, TypeOK, Calls
<1>4. /\ call'[t].pc \in {"addLock", "rmFind", "tuLock"}
      /\ call'[t].pc # "tuLock" => call'[t].pid \in Pids
  BY DEF CallTune, CallAdd, CallRemove, Enter, TypeOK, Calls
<1>5. MutexHeld'
  BY <1>2, <1>3, <1>4 DEF MutexHeld, InMutex, AddPcs, RemovePcs
<1>6. ScanStands'
  BY <1>2, <1>3, <1>4 DEF ScanStands, ScanOK
<1>7. NoDuplicatePid'
  BY <1>2 DEF NoDuplicatePid
<1>8. FilterMatchesSlot'
  <2>1. call[t].pc # "addStart"
    BY <1>2 DEF NoCall
  <2> QED
    BY <1>2, <1>3, <2>1 DEF FilterMatchesSlot
<1>9. TuneClears'
  BY <1>2, <1>3, <1>4 DEF TuneClears, TuneOK
<1> QED
  BY <1>1, <1>5, <1>6, <1>7, <1>8, <1>9

LEMMA InitIInv == Init => IInv
<1> SUFFICES ASSUME Init PROVE IInv
  OBVIOUS
<1>1. TypeOK
  BY SlotsFacts DEF Init, TypeOK, NoCall, Calls, Pcs
<1>2. \A t \in Threads : call[t].pc = "idle"
  BY DEF Init, NoCall
<1>3. \A s \in Slots : pids[s] = Free /\ filter[s] = Free
  BY DEF Init
<1> QED
  BY <1>1, <1>2, <1>3
  DEF IInv, MutexHeld, InMutex, AddPcs, RemovePcs, ScanStands, ScanOK, NoDuplicatePid,
      FilterMatchesSlot, TuneClears, TuneOK

LEMMA IInvStep == IInv /\ [Next]_vars => IInv'
<1> SUFFICES ASSUME IInv, [Next]_vars PROVE IInv'
  OBVIOUS
<1>1. CASE UNCHANGED vars
  BY <1>1 DEF vars, IInv, TypeOK, MutexHeld, ScanStands, ScanOK, NoDuplicatePid,
              FilterMatchesSlot, TuneClears, TuneOK
<1>2. ASSUME NEW t \in Threads, Step(t) PROVE IInv'
  <2>1. TypeOK'
    BY <1>2, TypeStep DEF IInv, Next
  <2> QED
    BY <1>2, <2>1, MutexHeldStep, ScanStandsStep, NoDuplicatePidStep, FilterMatchesSlotStep,
       TuneClearsStep DEF IInv
<1> QED
  BY <1>1, <1>2, CallsKeepIInv DEF Next

THEOREM Inductive == Spec => []IInv
BY InitIInv, IInvStep, PTL DEF Spec

-----------------------------------------------------------------------------
\* AddPID_to_Demux and the unlocked removals never list a PID twice.
THEOREM NoDuplicates == Spec => []NoDuplicatePid
<1>1. IInv => NoDuplicatePid
  BY DEF IInv
<1> QED
  BY <1>1, Inductive, PTL

\* What AddPID_to_Demux read from the table still holds when it acts on it.
THEOREM ScansStand == Spec => []ScanStands
<1>1. IInv => ScanStands
  BY DEF IInv
<1> QED
  BY <1>1, Inductive, PTL

\* A filter never passes a PID other than the one its slot lists.
THEOREM FiltersMatch == Spec => []FilterMatchesSlot
<1>1. IInv => FilterMatchesSlot
  BY DEF IInv
<1> QED
  BY <1>1, Inductive, PTL

\* dvbs_tune changes the frequency with every filter stopped.
THEOREM TuneIsQuiet == Spec => []QuietTune
<1>1. IInv => QuietTune
  <2> SUFFICES ASSUME IInv, TuneLocks, NEW t \in Threads, call[t].pc = "tuDone", NEW s \in Slots
               PROVE  pids[s] = Free /\ filter[s] = Free
    BY DEF QuietTune
  <2>1. TuneOK(call[t]) /\ call[t].slot \in Slots
    BY SlotOfCall DEF IInv, TypeOK, TuneClears
  <2>2. s < call[t].slot \/ s = call[t].slot
    BY <2>1, SlotsFacts DEF TuneOK
  <2> QED
    BY <2>1, <2>2 DEF TuneOK
<1> QED
  BY <1>1, Inductive, PTL

\* No operation takes over a slot that is in use.
THEOREM SlotsAreNotOverwritten == Spec => NeverOverwrite
<1>1. IInv /\ [Next]_vars => [\A s \in Slots : pids'[s] # pids[s] => Free \in {pids[s], pids'[s]}]_vars
  <2> SUFFICES ASSUME IInv, [Next]_vars, NEW s \in Slots, pids'[s] # pids[s]
               PROVE  Free \in {pids[s], pids'[s]}
    OBVIOUS
  <2>1. PICK t \in Threads : Step(t)
    BY DEF Next, vars, CallAdd, CallRemove, CallTune
  <2>2. CASE ClaimSlot(t)
    <3>1. pids[call[t].slot] = Free
      BY <2>2 DEF ClaimSlot, IInv, ScanStands, ScanOK
    <3> QED
      BY <2>2, <3>1, Claim DEF IInv
  <2>3. CASE ~ClaimSlot(t)
    BY <2>1, <2>3, OnlyClaimsList DEF IInv
  <2> QED
    BY <2>2, <2>3
<1> QED
  BY <1>1, Inductive, PTL DEF Spec, NeverOverwrite

-----------------------------------------------------------------------------
(* The safety half of LockIsReleased: the mutex is taken only by a thread  *)
(* that goes inside it, and given back by every step that leaves.          *)

LockMove(t) ==
    /\ call[t].pc \in InMutex => call'[t].pc \in InMutex \/ lock' = Nobody
    /\ lock' # lock => lock' = Nobody \/ (lock' = t /\ call'[t].pc \in InMutex)

LEMMA OwnLock == ASSUME TypeOK, NEW t \in Threads, Step(t) PROVE LockMove(t)
<1> USE DEF LockMove, InMutex, Acquire, Release, At, Return, NoCall, TypeOK, Calls
<1>1. CASE LockForAdd(t)
  BY <1>1 DEF LockForAdd
<1>2. CASE DupScan(t)
  BY <1>2 DEF DupScan
<1>3. CASE FreeScan(t)
  BY <1>3 DEF FreeScan
<1>4. CASE ClaimSlot(t)
  BY <1>4 DEF ClaimSlot
<1>5. CASE StartFilter(t)
  BY <1>5 DEF StartFilter
<1>6. CASE RemoveStep(t)
  BY <1>6 DEF RemoveStep, FindSlot, StopFilter, FreeSlot
<1>7. ASSUME NEW same \in BOOLEAN, LockForTune(t, same) PROVE LockMove(t)
  BY <1>7 DEF LockForTune
<1>8. CASE StopForTune(t)
  BY <1>8 DEF StopForTune
<1>9. CASE FreeForTune(t)
  BY <1>9 DEF FreeForTune
<1>10. CASE EndTune(t)
  BY <1>10 DEF EndTune
<1> QED
  BY <1>1, <1>2, <1>3, <1>4, <1>5, <1>6, <1>7, <1>8, <1>9, <1>10
  DEF Step, AddStep, TuneStep

LEMMA OwnerIsInsideStep == IInv /\ OwnerIsInside /\ [Next]_vars => OwnerIsInside'
<1> SUFFICES ASSUME IInv, OwnerIsInside, [Next]_vars, lock' # Nobody
             PROVE  call'[lock'].pc \in InMutex
  BY DEF OwnerIsInside, InMutex
<1>1. CASE UNCHANGED vars
  BY <1>1 DEF vars, OwnerIsInside
<1>2. ASSUME NEW t \in Threads, Step(t) PROVE call'[lock'].pc \in InMutex
  <2>1. CASE lock' # lock
    BY <1>2, <2>1, OwnLock DEF IInv, LockMove
  <2>2. CASE lock' = lock
    <3>1. lock \in Threads /\ call[lock].pc \in InMutex
      BY <2>2 DEF IInv, TypeOK, OwnerIsInside
    <3>2. CASE lock = t
      BY <1>2, <2>2, <3>1, <3>2, OwnLock DEF IInv, LockMove
    <3>3. CASE lock # t
      BY <1>2, <2>2, <3>1, <3>3, OtherCalls DEF IInv
    <3> QED
      BY <3>2, <3>3
  <2> QED
    BY <2>1, <2>2
<1>3. ASSUME NEW t \in Threads,
             CallTune(t) \/ \E p \in Pids : CallAdd(t, p) \/ CallRemove(t, p)
      PROVE  call'[lock'].pc \in InMutex
  <2>1. lock' = lock /\ call[t] = NoCall
    BY <1>3 DEF CallTune, CallAdd, CallRemove, Enter
  <2>2. lock \in Threads /\ call[lock].pc \in InMutex
    BY <2>1 DEF IInv, TypeOK, OwnerIsInside
  <2>3. lock # t
    BY <2>1, <2>2 DEF NoCall, InMutex
  <2>4. call'[lock] = call[lock]
    BY <1>3, <2>2, <2>3 DEF CallTune, CallAdd, CallRemove, Enter, IInv, TypeOK, Calls
  <2> QED
    BY <2>1, <2>2, <2>4
<1> QED
  BY <1>1, <1>2, <1>3 DEF Next

\* No call returns with the mutex: whoever owns it is still on its way to the
\* statement that gives it back.
THEOREM NobodyReturnsLocked == Spec => []OwnerIsInside
<1>1. Init => OwnerIsInside
  BY DEF Init, OwnerIsInside
<1> QED
  BY <1>1, Inductive, OwnerIsInsideStep, PTL DEF Spec
=============================================================================
