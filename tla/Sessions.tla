------------------------------ MODULE Sessions ------------------------------
(***************************************************************************)
(* The sessions (session.c) and their lists of destinations (destination.c):*)
(* who allocates, shares and frees them. A session belongs to one channel   *)
(* and sends it to all its destinations. Clients (the telnet thread and the *)
(* web server's threads) add a destination by session_addNew, which starts a*)
(* session unless the channel has one; the buffer threads of a session drop *)
(* destinations that have expired; the reaper frees sessions without        *)
(* destinations; session.stop frees a session with all it has.              *)
(*                                                                         *)
(* The lock of sessions_ll is a variable. The lock of a destination list is *)
(* held over several steps by buffer threads only (pc "inside"); every      *)
(* other critical section of it is one action. Tuners are left to module    *)
(* Tuner: here a session finds one it takes, one it shares, or none.        *)
(*                                                                         *)
(* Freed memory may still be used. What happens then is taken to be the     *)
(* likeliest outcome, that the old contents are still there.                *)
(***************************************************************************)
EXTENDS Naturals, Sequences, SequencesExt, FiniteSets

CONSTANTS
    SessionIds,  \* addresses of struct session_service_t
    Dests,       \* addresses of struct destination_t
    Channels,
    Clients,     \* threads that run session_addNew
    Telnet,      \* the telnet thread; it may be one of them, and runs session_stop
    Stops,       \* whether session.stop is used
    WebKinds,    \* what the web server's clients ask for: /stream and /live
    TelnetKinds, \* what session.start.url brings: any URL
    Reaper, Nobody, NoSession, NoDest

ASSUME ActorsAssumption ==
    /\ Telnet \notin {Reaper, Nobody} /\ {Reaper, Nobody} \cap Clients = {}
    /\ Reaper # Nobody /\ NoSession \notin SessionIds /\ NoDest \notin Dests
    /\ Stops \in BOOLEAN /\ WebKinds \subseteq {"http", "live"} /\ TelnetKinds \subseteq {"url", "http", "live"}

VARIABLES
    sessions,     \* sessions_ll
    sessionsLock, \* its owner
    session,      \* [mem, state, chan, list, dests]; list is destination_ll
    dest,         \* [mem, kind, expired, open]; open: a web connection reads it
    buf,          \* where the two buffer threads of a session are
    client,       \* session_addNew: [pc, chan, dest, sess, walk]
    reaper,       \* [pc, walk]
    stop,         \* session_stop: [pc, sess]
    crash         \* the null pointer that ended the program

vars == <<sessions, sessionsLock, session, dest, buf, client, reaper, stop, crash>>

NewSession == [mem |-> "free", state |-> 0, chan |-> "none", list |-> "null", dests |-> {}]
NewDest == [mem |-> "free", kind |-> "none", expired |-> FALSE, open |-> FALSE]
IdleClient == [pc |-> "idle", chan |-> "none", dest |-> NoDest, sess |-> NoSession, walk |-> 0]
IdleStop == [pc |-> "idle", sess |-> NoSession]

Init ==
    /\ sessions = <<>> /\ sessionsLock = Nobody
    /\ session = [s \in SessionIds |-> NewSession]
    /\ dest = [d \in Dests |-> NewDest]
    /\ buf = [s \in SessionIds |-> <<"none", "none">>]
    /\ client = [c \in Clients |-> IdleClient]
    /\ reaper = [pc |-> "sleep", walk |-> 0]
    /\ stop = IdleStop
    /\ crash = "none"

-----------------------------------------------------------------------------
(* Memory and locks.                                                       *)

Freed(s) == session[s].mem = "free"

\* The lock of s's destination list is free.
ListFree(s) == \A i \in 1 .. 2 : buf[s][i] # "inside"

Kept(s) ==
    \/ \E i \in 1 .. 2 : buf[s][i] \in {"loop", "copy", "enter", "inside"}
    \/ \E c \in Clients : client[c].sess = s
    \/ stop.sess = s

\* malloc returns an address nobody refers to.
CanAllocSession(s) == Freed(s) /\ ~Kept(s)

CanAllocDest(d) ==
    dest[d].mem = "free" /\ ~dest[d].open /\ \A c \in Clients : client[c].dest # d

\* destination_destroy of the destinations gone, which leave s's list.
Discard(s, gone) ==
    /\ session' = [session EXCEPT ![s].dests = @ \ gone]
    /\ dest' = [d \in Dests |-> IF d \in gone THEN [dest[d] EXCEPT !.mem = "free", !.expired = TRUE]
                                             ELSE dest[d]]

\* linkedList_destroy does nothing to a list with entries: it leaks.
DestroyList(s) ==
    session' = [session EXCEPT ![s].list = IF session[s].dests = {} THEN "freed" ELSE @]

-----------------------------------------------------------------------------
(* session_addNew(onid, channel_id, dest) for a channel some tuner knows.   *)

\* "url": neither http nor live.
Kinds(c) == IF c = Telnet THEN TelnetKinds ELSE WebKinds

Goto(c, pc) == client' = [client EXCEPT ![c].pc = pc]

\* The call returns; a web client's HTTP destination is from now on read by its
\* connection. (Nobody reads the one of an http:// URL of the telnet thread.)
Return(c) ==
    /\ client' = [client EXCEPT ![c] = IdleClient]
    /\ IF c # Telnet /\ dest[client[c].dest].kind = "http"
          THEN dest' = [dest EXCEPT ![client[c].dest].open = TRUE]
          ELSE UNCHANGED dest

AddNew(c) ==
    /\ client[c].pc = "idle" /\ (c = Telnet => stop.pc = "idle")
    /\ \E ch \in Channels, k \in Kinds(c) :
          \E d \in Dests :
             /\ CanAllocDest(d)
             /\ dest' = [dest EXCEPT ![d] = [mem |-> "allocated", kind |-> k,
                                             expired |-> FALSE, open |-> FALSE]]
             /\ client' = [client EXCEPT ![c] =
                   [pc |-> IF k = "live" THEN "closeType" ELSE "lookup",
                    chan |-> ch, dest |-> d, sess |-> NoSession, walk |-> 0]]
    /\ UNCHANGED <<sessions, sessionsLock, session, buf, reaper, stop, crash>>

\* session.start calls it with no destination, whose type it looks at first.
StartSession ==
    /\ Telnet \in Clients /\ client[Telnet].pc = "idle" /\ stop.pc = "idle"
    /\ crash' = "noDestination"
    /\ UNCHANGED <<sessions, sessionsLock, session, dest, buf, client, reaper, stop>>

\* session_stop_type(dest_live): every session's live destinations are
\* destroyed, under the lock of the sessions.
CloseType(c) ==
    /\ client[c].pc = "closeType" /\ sessionsLock = Nobody
    /\ sessionsLock' = c
    /\ client' = [client EXCEPT ![c].pc = "closing", ![c].walk = 1]
    /\ UNCHANGED <<sessions, session, dest, buf, reaper, stop, crash>>

\* Seeded fault: every kind of destination is closed.
CloseNextOfAnyKind(c) ==
    LET w == client[c].walk IN
    /\ client[c].pc = "closing"
    /\ IF w <= Len(sessions)
          THEN /\ ListFree(sessions[w])
               /\ Discard(sessions[w], session[sessions[w]].dests)
               /\ client' = [client EXCEPT ![c].walk = w + 1]
               /\ UNCHANGED sessionsLock
          ELSE /\ sessionsLock' = Nobody
               /\ client' = [client EXCEPT ![c].pc = "lookup", ![c].walk = 0]
               /\ UNCHANGED <<session, dest>>
    /\ UNCHANGED <<sessions, buf, reaper, stop, crash>>

\* Seeded fault: the walk ends one session early.
CloseNextButLast(c) ==
    LET w == client[c].walk IN
    /\ client[c].pc = "closing"
    /\ IF w < Len(sessions)
          THEN /\ ListFree(sessions[w])
               /\ Discard(sessions[w], {d \in session[sessions[w]].dests : dest[d].kind = "live"})
               /\ client' = [client EXCEPT ![c].walk = w + 1]
               /\ UNCHANGED sessionsLock
          ELSE /\ sessionsLock' = Nobody
               /\ client' = [client EXCEPT ![c].pc = "lookup", ![c].walk = 0]
               /\ UNCHANGED <<session, dest>>
    /\ UNCHANGED <<sessions, buf, reaper, stop, crash>>

CloseNext(c) ==
    LET w == client[c].walk IN
    /\ client[c].pc = "closing"
    /\ IF w <= Len(sessions)
          THEN /\ ListFree(sessions[w])
               /\ Discard(sessions[w], {d \in session[sessions[w]].dests : dest[d].kind = "live"})
               /\ client' = [client EXCEPT ![c].walk = w + 1]
               /\ UNCHANGED sessionsLock
          ELSE /\ sessionsLock' = Nobody
               /\ client' = [client EXCEPT ![c].pc = "lookup", ![c].walk = 0]
               /\ UNCHANGED <<session, dest>>
    /\ UNCHANGED <<sessions, buf, reaper, stop, crash>>

\* Under the lock: the first session of the channel. The lock is released
\* before the session found is used.
Lookup(c) ==
    LET mine(i) == session[sessions[i]].chan = client[c].chan IN
    /\ client[c].pc = "lookup" /\ sessionsLock = Nobody
    /\ \/ \E i \in 1 .. Len(sessions) :
             /\ mine(i) /\ \A j \in 1 .. i - 1 : ~mine(j)
             /\ client' = [client EXCEPT ![c].pc = "join", ![c].sess = sessions[i]]
       \/ /\ \A i \in 1 .. Len(sessions) : ~mine(i)
          /\ client' = [client EXCEPT ![c].pc = "create"]
    /\ UNCHANGED <<sessions, sessionsLock, session, dest, buf, reaper, stop, crash>>

\* No tuner: the call returns 0, and nobody frees the destination. A session
\* that takes its tuner starts a buffer thread before it is complete.
Create(c) ==
    /\ client[c].pc = "create"
    /\ \/ /\ client' = [client EXCEPT ![c] = IdleClient]
          /\ UNCHANGED <<session, buf>>
       \/ \E s \in SessionIds, takes \in BOOLEAN :
             /\ CanAllocSession(s)
             /\ session' = [session EXCEPT ![s] =
                   [mem |-> "allocated", state |-> 1, chan |-> "none", list |-> "null", dests |-> {}]]
             /\ buf' = [buf EXCEPT ![s] = <<IF takes THEN "loop" ELSE "none", "none">>]
             /\ client' = [client EXCEPT ![c].pc = "build", ![c].sess = s]
    /\ UNCHANGED <<sessions, sessionsLock, dest, reaper, stop, crash>>

Build(c) ==
    /\ client[c].pc = "build"
    /\ session' = [session EXCEPT ![client[c].sess] =
                      [@ EXCEPT !.chan = client[c].chan, !.list = "list", !.dests = {client[c].dest}]]
    /\ Goto(c, "append")
    /\ UNCHANGED <<sessions, sessionsLock, dest, buf, reaper, stop, crash>>

AppendSession(c) ==
    /\ client[c].pc = "append" /\ sessionsLock = Nobody
    /\ sessions' = Append(sessions, client[c].sess)
    /\ Goto(c, "start")
    /\ UNCHANGED <<sessionsLock, session, dest, buf, reaper, stop, crash>>

\* The last buffer thread; the session has been in the list for a while.
StartThread(c) ==
    LET s == client[c].sess IN
    /\ client[c].pc = "start"
    /\ buf' = [buf EXCEPT ![s][2] = "loop"]
    /\ Return(c)
    /\ UNCHANGED <<sessions, sessionsLock, session, reaper, stop, crash>>

\* "Already a session on this onid/channel_id - adding the destination".
Join(c) ==
    LET s == client[c].sess IN
    /\ client[c].pc = "join" /\ ListFree(s)
    /\ session' = [session EXCEPT ![s].dests = @ \cup {client[c].dest}]
    /\ Return(c)
    /\ UNCHANGED <<sessions, sessionsLock, buf, reaper, stop, crash>>

ClientStep(c) ==
    \/ CloseType(c) \/ CloseNext(c) \/ Lookup(c) \/ Create(c) \/ Build(c)
    \/ AppendSession(c) \/ StartThread(c) \/ Join(c)

-----------------------------------------------------------------------------
(* The web server has lost the connection: free_stream_callback.            *)

\* Seeded fault: the callback frees the destination itself.
HttpEndFrees(d) ==
    /\ dest[d].open
    /\ dest' = [dest EXCEPT ![d].open = FALSE, ![d].expired = TRUE, ![d].mem = "free"]
    /\ UNCHANGED <<sessions, sessionsLock, session, buf, client, reaper, stop, crash>>

HttpEnd(d) ==
    /\ dest[d].open
    /\ dest' = [dest EXCEPT ![d].open = FALSE, ![d].expired = TRUE]
    /\ UNCHANGED <<sessions, sessionsLock, session, buf, client, reaper, stop, crash>>

-----------------------------------------------------------------------------
(* destination_thread_run, thread i of session s.                           *)

BufUnchanged == UNCHANGED <<sessions, sessionsLock, client, reaper, stop>>

\* while (session->state == 1)
BufCheck(s, i) ==
    /\ buf[s][i] = "loop"
    /\ buf' = [buf EXCEPT ![s][i] = IF session[s].state = 1 THEN "copy" ELSE "none"]
    /\ UNCHANGED <<session, dest, crash>> /\ BufUnchanged

\* The session's buffer is taken over, and its list of destinations looked up.
BufCopy(s, i) ==
    /\ buf[s][i] = "copy"
    /\ buf' = [buf EXCEPT ![s][i] = "enter"]
    /\ crash' = IF session[s].list = "null" THEN "noList" ELSE crash
    /\ UNCHANGED <<session, dest>> /\ BufUnchanged

BufEnter(s, i) ==
    /\ buf[s][i] = "enter" /\ ListFree(s)
    /\ buf' = [buf EXCEPT ![s][i] = "inside"]
    /\ UNCHANGED <<session, dest, crash>> /\ BufUnchanged

\* Seeded fault: expired destinations are passed over.
BufLeaveIgnores(s, i) ==
    /\ buf[s][i] = "inside"
    /\ buf' = [buf EXCEPT ![s][i] = "loop"]
    /\ UNCHANGED <<session, dest, crash>> /\ BufUnchanged

\* destination_process: expired destinations are destroyed, the others served.
BufLeave(s, i) ==
    /\ buf[s][i] = "inside"
    /\ Discard(s, {d \in session[s].dests : dest[d].expired})
    /\ buf' = [buf EXCEPT ![s][i] = "loop"]
    /\ UNCHANGED crash /\ BufUnchanged

BufStep(s, i) == BufCheck(s, i) \/ BufCopy(s, i) \/ BufEnter(s, i) \/ BufLeave(s, i)

-----------------------------------------------------------------------------
(* session_thread_run, the reaper: one walk over the sessions every 100 ms. *)

ReaperUnchanged == UNCHANGED <<dest, buf, client, stop, crash>>

ReaperWake ==
    /\ reaper.pc = "sleep" /\ sessionsLock = Nobody
    /\ sessionsLock' = Reaper
    /\ reaper' = [pc |-> "look", walk |-> 1]
    /\ UNCHANGED <<sessions, session>> /\ ReaperUnchanged

\* Seeded fault: the first session is never looked at.
ReaperLookSkips ==
    LET w == reaper.walk IN
    /\ reaper.pc = "look"
    /\ IF w <= Len(sessions)
          THEN /\ ListFree(sessions[w])
               /\ reaper' = IF w > 1 /\ session[sessions[w]].dests = {}
                               THEN [pc |-> "stop", walk |-> w] ELSE [pc |-> "look", walk |-> w + 1]
               /\ UNCHANGED sessionsLock
          ELSE /\ reaper' = [pc |-> "sleep", walk |-> 0]
               /\ sessionsLock' = Nobody
    /\ UNCHANGED <<sessions, session>> /\ ReaperUnchanged

\* Seeded fault: the early exit out of a session that is served keeps the lock.
ReaperLookKeepsLock ==
    LET w == reaper.walk IN
    /\ reaper.pc = "look"
    /\ IF w <= Len(sessions)
          THEN /\ ListFree(sessions[w])
               /\ reaper' = IF session[sessions[w]].dests = {}
                               THEN [pc |-> "stop", walk |-> w] ELSE [pc |-> "sleep", walk |-> 0]
               /\ UNCHANGED sessionsLock
          ELSE /\ reaper' = [pc |-> "sleep", walk |-> 0]
               /\ sessionsLock' = Nobody
    /\ UNCHANGED <<sessions, session>> /\ ReaperUnchanged

\* linkedList_item_count, under the list's lock, which is released at once.
ReaperLook ==
    LET w == reaper.walk IN
    /\ reaper.pc = "look"
    /\ IF w <= Len(sessions)
          THEN /\ ListFree(sessions[w])
               /\ reaper' = IF session[sessions[w]].dests = {}
                               THEN [pc |-> "stop", walk |-> w] ELSE [pc |-> "look", walk |-> w + 1]
               /\ UNCHANGED sessionsLock
          ELSE /\ reaper' = [pc |-> "sleep", walk |-> 0]
               /\ sessionsLock' = Nobody
    /\ UNCHANGED <<sessions, session>> /\ ReaperUnchanged

ReaperStop ==
    /\ reaper.pc = "stop"
    /\ session' = [session EXCEPT ![sessions[reaper.walk]].state = 0]
    /\ reaper' = [reaper EXCEPT !.pc = "destroy"]
    /\ UNCHANGED <<sessions, sessionsLock>> /\ ReaperUnchanged

ReaperDestroy ==
    /\ reaper.pc = "destroy"
    /\ DestroyList(sessions[reaper.walk])
    /\ reaper' = [reaper EXCEPT !.pc = "free"]
    /\ UNCHANGED <<sessions, sessionsLock>> /\ ReaperUnchanged

\* Seeded fault: the session freed stays in the list.
ReaperFreeKeeps ==
    /\ reaper.pc = "free"
    /\ session' = [session EXCEPT ![sessions[reaper.walk]].mem = "free"]
    /\ reaper' = [pc |-> "look", walk |-> reaper.walk + 1]
    /\ UNCHANGED <<sessions, sessionsLock>> /\ ReaperUnchanged

\* Seeded fault: the walk goes on to the next session and passes one over.
ReaperFreeAdvances ==
    /\ reaper.pc = "free"
    /\ session' = [session EXCEPT ![sessions[reaper.walk]].mem = "free"]
    /\ sessions' = RemoveAt(sessions, reaper.walk)
    /\ reaper' = [pc |-> "look", walk |-> reaper.walk + 1]
    /\ UNCHANGED sessionsLock /\ ReaperUnchanged

\* Freed, and only then taken out of the list.
ReaperFree ==
    /\ reaper.pc = "free"
    /\ session' = [session EXCEPT ![sessions[reaper.walk]].mem = "free"]
    /\ sessions' = RemoveAt(sessions, reaper.walk)
    /\ reaper' = [reaper EXCEPT !.pc = "look"]
    /\ UNCHANGED sessionsLock /\ ReaperUnchanged

ReaperStep == ReaperWake \/ ReaperLook \/ ReaperStop \/ ReaperDestroy \/ ReaperFree

-----------------------------------------------------------------------------
(* session_stop(session_id), by the telnet thread.                          *)

StopUnchanged == UNCHANGED <<buf, client, reaper, crash>>

StopSession(s) ==
    /\ Stops /\ stop.pc = "idle" /\ (Telnet \in Clients => client[Telnet].pc = "idle")
    /\ sessionsLock = Nobody /\ s \in Range(sessions)
    /\ sessionsLock' = Telnet
    /\ stop' = [pc |-> "state", sess |-> s]
    /\ UNCHANGED <<sessions, session, dest>> /\ StopUnchanged

StopState ==
    /\ stop.pc = "state"
    /\ session' = [session EXCEPT ![stop.sess].state = 0]
    /\ stop' = [stop EXCEPT !.pc = "free"]
    /\ UNCHANGED <<sessions, sessionsLock, dest>> /\ StopUnchanged

StopFree ==
    /\ stop.pc = "free"
    /\ session' = [session EXCEPT ![stop.sess].mem = "free"]
    /\ \E i \in 1 .. Len(sessions) :
          sessions[i] = stop.sess /\ sessions' = RemoveAt(sessions, i)
    /\ sessionsLock' = Nobody
    /\ stop' = [stop EXCEPT !.pc = "closeAll"]
    /\ UNCHANGED dest /\ StopUnchanged

\* Seeded fault: the destinations are destroyed but stay in the list.
StopCloseAllKeeps ==
    /\ stop.pc = "closeAll" /\ ListFree(stop.sess)
    /\ dest' = [d \in Dests |-> IF d \in session[stop.sess].dests
                                   THEN [dest[d] EXCEPT !.mem = "free"] ELSE dest[d]]
    /\ stop' = [stop EXCEPT !.pc = "destroy"]
    /\ UNCHANGED <<sessions, sessionsLock, session>> /\ StopUnchanged

\* destination_close_all: the lock of the sessions is gone by now.
StopCloseAll ==
    /\ stop.pc = "closeAll" /\ ListFree(stop.sess)
    /\ Discard(stop.sess, session[stop.sess].dests)
    /\ stop' = [stop EXCEPT !.pc = "destroy"]
    /\ UNCHANGED <<sessions, sessionsLock>> /\ StopUnchanged

StopDestroy ==
    /\ stop.pc = "destroy"
    /\ DestroyList(stop.sess)
    /\ stop' = IdleStop
    /\ UNCHANGED <<sessions, sessionsLock, dest>> /\ StopUnchanged

StopStep == StopState \/ StopFree \/ StopCloseAll \/ StopDestroy

-----------------------------------------------------------------------------
\* Null pointers end the program.
Next ==
    /\ crash = "none"
    /\ \/ \E c \in Clients : AddNew(c) \/ ClientStep(c)
       \/ StartSession
       \/ \E d \in Dests : HttpEnd(d)
       \/ \E s \in SessionIds, i \in 1 .. 2 : BufStep(s, i)
       \/ ReaperStep
       \/ \E s \in SessionIds : StopSession(s)
       \/ StopStep

Spec == Init /\ [][Next]_vars

Run(step) == crash = "none" /\ step

\* Every thread goes on inside its calls. A thread waiting for one of the two
\* locks gets it in the end: the reaper and the buffer threads sleep without
\* them after every walk.
Fairness ==
    /\ \A c \in Clients : SF_vars(Run(ClientStep(c)))
    /\ \A s \in SessionIds, i \in 1 .. 2 : SF_vars(Run(BufStep(s, i)))
    /\ SF_vars(Run(ReaperStep))
    /\ SF_vars(Run(StopStep))

FairSpec == Spec /\ Fairness

-----------------------------------------------------------------------------
SessionRecord ==
    [mem : {"free", "allocated"}, state : 0 .. 1, chan : Channels \cup {"none"},
     list : {"null", "list", "freed"}, dests : SUBSET Dests]

DestRecord ==
    [mem : {"free", "allocated"}, kind : {"none", "http", "live", "url"},
     expired : BOOLEAN, open : BOOLEAN]

TypeOK ==
    /\ sessions \in Seq(SessionIds) /\ IsInjective(sessions)
    /\ sessionsLock \in Clients \cup {Telnet, Reaper, Nobody}
    /\ session \in [SessionIds -> SessionRecord]
    /\ dest \in [Dests -> DestRecord]
    /\ \A s \in SessionIds, i \in 1 .. 2 : buf[s][i] \in {"none", "loop", "copy", "enter", "inside"}
    /\ \A c \in Clients :
          /\ client[c].pc \in {"idle", "closeType", "closing", "lookup", "create", "build", "append",
                               "start", "join"}
          /\ client[c].walk \in 0 .. Len(sessions) + 1
          /\ client[c].pc \in {"build", "append", "start", "join"} => client[c].sess \in SessionIds
    /\ reaper.pc \in {"sleep", "look", "stop", "destroy", "free"}
    /\ reaper.walk \in 0 .. Len(sessions) + 1
    /\ stop.pc \in {"idle", "state", "free", "closeAll", "destroy"}
    /\ crash \in {"none", "noDestination", "noList"}

\* Whoever takes the lock of the sessions (session_write for every packet, the
\* reaper, session.show) finds complete, running sessions in the list: those
\* that free a session take it out of the list before they give the lock back.
ListedAreLive ==
    sessionsLock = Nobody =>
        \A s \in Range(sessions) :
            session[s].mem = "allocated" /\ session[s].state = 1 /\ session[s].list = "list"

\* The lock of the sessions is taken only by a thread that still walks the list:
\* no way out of session_stop_type, session_stop or the reaper's walk keeps it.
\* On the way such a thread waits for nothing but the lock of a list of
\* destinations, which a buffer thread gives back by itself.
SessionsLockIsUsed ==
    \/ sessionsLock = Nobody
    \/ sessionsLock = Reaper /\ reaper.pc # "sleep"
    \/ sessionsLock = Telnet /\ stop.pc \in {"state", "free"}
    \/ sessionsLock \in Clients /\ client[sessionsLock].pc = "closing"

\* A destination is in one list at most, and in one only while it is allocated:
\* the buffer threads, a new live client and session.stop, which all free
\* destinations, never free one twice and never serve a freed one.
ListedDestsAreAllocated ==
    /\ \A s \in SessionIds : \A d \in session[s].dests : dest[d].mem = "allocated"
    /\ \A s, t \in SessionIds : s # t => session[s].dests \cap session[t].dests = {}

\* While a web connection reads a destination it is not freed, as long as no
\* session is stopped by command. (session.stop frees it under its reader.)
HttpDestSurvives ==
    ~Stops => \A d \in Dests : dest[d].open => dest[d].mem = "allocated"

\* session_addNew has the destination still to itself.
Carries(c) == client[c].pc \in {"closeType", "closing", "lookup", "create", "build", "join"}

Allocated == {d \in Dests : dest[d].mem = "allocated"}

OwnersOf(d) ==
    {<<"client", c>> : c \in {c \in Clients : Carries(c) /\ client[c].dest = d}}
    \cup {<<"session", s>> : s \in {s \in SessionIds : d \in session[s].dests}}

O == INSTANCE Ownership WITH
        allocated <- Allocated,
        kind <- [d \in Dests |-> dest[d].kind],
        owners <- [d \in Dests |-> OwnersOf(d)],
        reading <- {d \in Dests : dest[d].open},
        ended <- {d \in Allocated : dest[d].expired},
        live <- {s \in SessionIds : session[s].mem = "allocated"}

\* Calls, buffer threads, the reaper and session.stop hand destinations on as
\* module Ownership says: one owner at a time, who alone frees them, no session
\* of two, and a reader's not before it has gone.
OwnsDests == O!Spec

\* A new live client turns the others out: among the sessions there is one live
\* destination at most, as long as one thread alone brings any. (Of two that come
\* at once, a web client and a live:// URL of session.start.url, both may stay.)
LiveIsExclusive ==
    (\E w \in Clients : \A c \in Clients \ {w} : "live" \notin Kinds(c)) =>
        \A d, e \in UNION {session[s].dests : s \in Range(sessions)} :
            dest[d].kind = "live" /\ dest[e].kind = "live" => d = e

\* A session nobody listens to is torn down, unless somebody joins it.
EmptyIsReaped ==
    \A s \in SessionIds :
        s \in Range(sessions) /\ session[s].dests = {}
        ~> crash # "none" \/ s \notin Range(sessions) \/ session[s].dests # {}

BeingReaped(s) ==
    reaper.pc \in {"stop", "destroy", "free"} /\ sessions[reaper.walk] = s

\* The destination of a web client that has gone is freed, by the buffer threads
\* or by session.stop. (Not so when it joined while its session was being
\* reaped: that list is leaked with all that is in it.)
ExpiredIsFreed ==
    \A d \in Dests, s \in SessionIds :
        /\ d \in session[s].dests /\ dest[d].expired
        /\ s \in Range(sessions) /\ ~BeingReaped(s)
        ~> crash # "none" \/ dest[d].mem = "free"

\* session_addNew returns: the two locks are never waited for in a circle.
AddNewReturns ==
    \A c \in Clients : client[c].pc # "idle" ~> client[c].pc = "idle" \/ crash # "none"

\* "Stop thread.." (session.c:306 and :662): when state is 0 the buffer threads
\* have stopped, and what is freed next is theirs no more.
BufferThreadsStop ==
    [][\A s \in SessionIds, i \in 1 .. 2 :
          buf[s][i] \in {"loop", "copy"} /\ buf'[s][i] # buf[s][i] => ~Freed(s)]_vars

\* "Already a session on this onid/channel_id - adding the destination"
\* (session.c:493): the session a destination is added to is one of the sessions.
JoinsASession ==
    [][\A c \in Clients : client[c].pc = "join" /\ client'[c].pc = "idle" =>
          client[c].sess \in Range(sessions)]_vars
=============================================================================
