--------------------------- MODULE SessionsProofs ---------------------------
(***************************************************************************)
(* What is in the list of sessions, and in the lists of destinations, may   *)
(* be used: for any number of sessions, destinations, channels and clients; *)
(* and destinations are owned as module Ownership promises.                 *)
(***************************************************************************)
EXTENDS Sessions, SequenceTheorems, TLAPS

ClientPcs == {"idle", "closeType", "closing", "lookup", "create", "build", "append", "start", "join"}
ReaperPcs == {"sleep", "look", "stop", "destroy", "free"}
StopPcs == {"idle", "state", "free", "closeAll", "destroy"}
BufPcs == {"none", "loop", "copy", "enter", "inside"}

ClientRecord ==
    [pc : ClientPcs, chan : Channels \cup {"none"}, dest : Dests \cup {NoDest},
     sess : SessionIds \cup {NoSession}, walk : Nat]

Typed ==
    /\ sessions \in Seq(SessionIds)
    /\ sessionsLock \in Clients \cup {Telnet, Reaper, Nobody}
    /\ session \in [SessionIds -> SessionRecord]
    /\ dest \in [Dests -> DestRecord]
    /\ buf \in [SessionIds -> [1 .. 2 -> BufPcs]]
    /\ client \in [Clients -> ClientRecord]
    /\ reaper \in [pc : ReaperPcs, walk : Nat]
    /\ stop \in [pc : StopPcs, sess : SessionIds \cup {NoSession}]
    /\ crash \in {"none", "noDestination", "noList"}

\* Who is inside the lock of the sessions owns it.
Owners ==
    /\ reaper.pc # "sleep" => sessionsLock = Reaper
    /\ stop.pc \in {"state", "free"} => sessionsLock = Telnet
    /\ \A c \in Clients : client[c].pc = "closing" => sessionsLock = c
    /\ stop.pc # "idle" /\ Telnet \in Clients => client[Telnet].pc = "idle"
    /\ ~Stops => stop.pc = "idle"

\* The walks over the list stand in it.
ReaperAt(i) == reaper.pc \in {"stop", "destroy", "free"} /\ reaper.walk = i

Walks ==
    /\ \A c \in Clients :
          IF client[c].pc = "closing" THEN client[c].walk \in 1 .. Len(sessions) + 1
                                      ELSE client[c].walk = 0
    /\ reaper.pc = "sleep" => reaper.walk = 0
    /\ reaper.pc = "look" => reaper.walk \in 1 .. Len(sessions) + 1
    /\ reaper.pc \in {"stop", "destroy", "free"} => reaper.walk \in 1 .. Len(sessions)
    /\ stop.pc # "idle" => stop.sess \in SessionIds
    /\ stop.pc \in {"state", "free"} => \E i \in 1 .. Len(sessions) : sessions[i] = stop.sess
    /\ stop.pc \in {"closeAll", "destroy"} => \A i \in 1 .. Len(sessions) : sessions[i] # stop.sess

\* A session in the list is whole, but for what its teardown has done to it.
Listed ==
    /\ IsInjective(sessions)
    /\ \A i \in 1 .. Len(sessions) :
          /\ session[sessions[i]].mem = "allocated"
          /\ \/ session[sessions[i]].state = 1
             \/ ReaperAt(i) /\ reaper.pc # "stop"
             \/ stop.pc = "free" /\ stop.sess = sessions[i]
          /\ \/ session[sessions[i]].list = "list"
             \/ ReaperAt(i) /\ reaper.pc = "free"

\* A session that session_addNew is still building is nobody else's.
Builds(c) == client[c].pc \in {"build", "append"}

Building ==
    \A c \in Clients :
        /\ client[c].pc \in {"build", "append", "start", "join"} => client[c].sess \in SessionIds
        /\ Builds(c) =>
              /\ session[client[c].sess].mem = "allocated" /\ session[client[c].sess].state = 1
              /\ client[c].pc = "append" => session[client[c].sess].list = "list"
              /\ \A i \in 1 .. Len(sessions) : sessions[i] # client[c].sess
              /\ stop.sess # client[c].sess
              /\ \A e \in Clients : Builds(e) /\ client[e].sess = client[c].sess => e = c

\* A destination is in one place: with its client until it is put in a list.
Destined ==
    /\ ListedDestsAreAllocated
    /\ \A c \in Clients :
          /\ client[c].pc = "idle" => client[c].dest = NoDest
          /\ client[c].pc # "idle" =>
                /\ client[c].dest \in Dests
                /\ \A e \in Clients : client[e].pc # "idle" /\ client[e].dest = client[c].dest => e = c
    /\ \A c \in Clients : Carries(c) =>
          /\ dest[client[c].dest].mem = "allocated"
          /\ \A s \in SessionIds : client[c].dest \notin session[s].dests

\* Without session.stop a web client's destination is whole until it has gone.
Read ==
    ~Stops =>
        /\ \A d \in Dests : dest[d].open =>
              /\ dest[d].kind = "http" /\ ~dest[d].expired /\ dest[d].mem = "allocated"
              /\ \A c \in Clients : client[c].dest # d
        /\ \A c \in Clients : client[c].pc # "idle" /\ dest[client[c].dest].kind = "http" =>
              ~dest[client[c].dest].expired /\ dest[client[c].dest].mem = "allocated"

IInv == Typed /\ Owners /\ Walks /\ Listed /\ Building /\ Destined /\ Read

-----------------------------------------------------------------------------
(* What the steps do to each part of the state.                             *)

LEMMA ListFacts ==
    ASSUME Typed
    PROVE  /\ Len(sessions) \in Nat /\ DOMAIN sessions = 1 .. Len(sessions)
           /\ \A i \in 1 .. Len(sessions) : sessions[i] \in SessionIds
           /\ Range(sessions) = {sessions[i] : i \in 1 .. Len(sessions)}
<1>1. Len(sessions) \in Nat /\ DOMAIN sessions = 1 .. Len(sessions)
  BY LenProperties DEF Typed
<1>2. \A i \in 1 .. Len(sessions) : sessions[i] \in SessionIds
  BY ElementOfSeq DEF Typed
<1> QED
  BY <1>1, <1>2 DEF Range

\* A client moves on: c alone, and only in some fields.
Moves(c, pc, sess, walk) ==
    /\ client' \in [Clients -> ClientRecord]
    /\ \A e \in Clients : e # c => client'[e] = client[e]
    /\ client'[c].pc = pc /\ client'[c].sess = sess /\ client'[c].walk = walk
    /\ client'[c].dest = client[c].dest

\* A record of a session, or of a client, is replaced by another one.
LEMMA Replacing ==
    /\ \A s \in SessionIds, r \in SessionRecord :
          session \in [SessionIds -> SessionRecord] /\ session' = [session EXCEPT ![s] = r] =>
             /\ session' \in [SessionIds -> SessionRecord] /\ session'[s] = r
             /\ \A t \in SessionIds : t # s => session'[t] = session[t]
    /\ \A c \in Clients, r \in ClientRecord :
          client \in [Clients -> ClientRecord] /\ client' = [client EXCEPT ![c] = r] =>
             /\ client' \in [Clients -> ClientRecord] /\ client'[c] = r
             /\ \A e \in Clients : e # c => client'[e] = client[e]
OBVIOUS

LEMMA Moving ==
    ASSUME client \in [Clients -> ClientRecord], NEW c \in Clients, NEW pc \in ClientPcs,
           NEW sess \in SessionIds \cup {NoSession}, NEW walk \in Nat
    PROVE  /\ client' = [client EXCEPT ![c].pc = pc]
              => Moves(c, pc, client[c].sess, client[c].walk)
           /\ client' = [client EXCEPT ![c].walk = walk]
              => Moves(c, client[c].pc, client[c].sess, walk)
           /\ client' = [client EXCEPT ![c].pc = pc, ![c].walk = walk]
              => Moves(c, pc, client[c].sess, walk)
           /\ client' = [client EXCEPT ![c].pc = pc, ![c].sess = sess]
              => Moves(c, pc, sess, client[c].walk)
<1> DEFINE r == client[c]
<1>r. r \in ClientRecord
  OBVIOUS
<1>1. ASSUME client' = [client EXCEPT ![c].pc = pc]
      PROVE  Moves(c, pc, client[c].sess, client[c].walk)
  <2> DEFINE q == [r EXCEPT !.pc = pc]
  <2>1. /\ q.pc = pc /\ q.sess = client[c].sess /\ q.walk = client[c].walk
        /\ q.dest = client[c].dest
    BY <1>r DEF ClientRecord
  <2>2. q \in ClientRecord
    BY <1>r DEF ClientRecord
  <2>3. client' = [client EXCEPT ![c] = q]
    BY <1>1
  <2> HIDE DEF q
  <2> QED
    BY <2>1, <2>2, <2>3, Replacing DEF Moves
<1>2. ASSUME client' = [client EXCEPT ![c].walk = walk]
      PROVE  Moves(c, client[c].pc, client[c].sess, walk)
  <2> DEFINE q == [r EXCEPT !.walk = walk]
  <2>1. /\ q.pc = client[c].pc /\ q.sess = client[c].sess /\ q.walk = walk
        /\ q.dest = client[c].dest
    BY <1>r DEF ClientRecord
  <2>2. q \in ClientRecord
    BY <1>r DEF ClientRecord
  <2>3. client' = [client EXCEPT ![c] = q]
    BY <1>2
  <2> HIDE DEF q
  <2> QED
    BY <2>1, <2>2, <2>3, Replacing DEF Moves
<1>3. ASSUME client' = [client EXCEPT ![c].pc = pc, ![c].walk = walk]
      PROVE  Moves(c, pc, client[c].sess, walk)
  <2> DEFINE q == [r EXCEPT !.pc = pc, !.walk = walk]
  <2>1. /\ q.pc = pc /\ q.sess = client[c].sess /\ q.walk = walk
        /\ q.dest = client[c].dest
    BY <1>r DEF ClientRecord
  <2>2. q \in ClientRecord
    BY <1>r DEF ClientRecord
  <2>3. client' = [client EXCEPT ![c] = q]
    BY <1>3
  <2> HIDE DEF q
  <2> QED
    BY <2>1, <2>2, <2>3, Replacing DEF Moves
<1>4. ASSUME client' = [client EXCEPT ![c].pc = pc, ![c].sess = sess]
      PROVE  Moves(c, pc, sess, client[c].walk)
  <2> DEFINE q == [r EXCEPT !.pc = pc, !.sess = sess]
  <2>1. /\ q.pc = pc /\ q.sess = sess /\ q.walk = client[c].walk
        /\ q.dest = client[c].dest
    BY <1>r DEF ClientRecord
  <2>2. q \in ClientRecord
    BY <1>r DEF ClientRecord
  <2>3. client' = [client EXCEPT ![c] = q]
    BY <1>4
  <2> HIDE DEF q
  <2> QED
    BY <2>1, <2>2, <2>3, Replacing DEF Moves
<1> QED
  BY <1>1, <1>2, <1>3, <1>4

\* A session keeps what the list of sessions needs of it.
Same(s) ==
    /\ session'[s].mem = session[s].mem /\ session'[s].state = session[s].state
    /\ session'[s].list = session[s].list

LEMMA Discarding ==
    ASSUME Typed, NEW s \in SessionIds, NEW gone, Discard(s, gone)
    PROVE  /\ session' \in [SessionIds -> SessionRecord] /\ dest' \in [Dests -> DestRecord]
           /\ \A t \in SessionIds :
                 /\ Same(t)
                 /\ session'[t].dests = IF t = s THEN session[t].dests \ gone ELSE session[t].dests
           /\ \A d \in Dests : d \notin gone => dest'[d] = dest[d]
           /\ \A d \in Dests : dest'[d].kind = dest[d].kind /\ dest'[d].open = dest[d].open
<1>1. session' = [session EXCEPT ![s].dests = @ \ gone]
  BY DEF Discard
<1>2. session \in [SessionIds -> SessionRecord] /\ dest \in [Dests -> DestRecord]
  BY DEF Typed
<1>3. session' \in [SessionIds -> SessionRecord]
  BY <1>1, <1>2 DEF SessionRecord
<1>4. \A t \in SessionIds :
         /\ Same(t)
         /\ session'[t].dests = IF t = s THEN session[t].dests \ gone ELSE session[t].dests
  BY <1>1, <1>2 DEF SessionRecord, Same
<1>5. dest' \in [Dests -> DestRecord]
  BY <1>2 DEF Discard, DestRecord
<1>6. /\ \A d \in Dests : d \notin gone => dest'[d] = dest[d]
      /\ \A d \in Dests : dest'[d].kind = dest[d].kind /\ dest'[d].open = dest[d].open
  BY <1>2 DEF Discard, DestRecord
<1> QED
  BY <1>3, <1>4, <1>5, <1>6

LEMMA Destroying ==
    ASSUME Typed, NEW s \in SessionIds, DestroyList(s)
    PROVE  /\ session' \in [SessionIds -> SessionRecord]
           /\ \A t \in SessionIds :
                 /\ session'[t].mem = session[t].mem /\ session'[t].state = session[t].state
                 /\ t # s => session'[t].list = session[t].list
                 /\ session'[t].dests = session[t].dests
<1>1. session \in [SessionIds -> SessionRecord]
  BY DEF Typed
<1>2. PICK l \in {"null", "list", "freed"} : session' = [session EXCEPT ![s].list = l]
  BY <1>1 DEF DestroyList, SessionRecord
<1> QED
  BY <1>1, <1>2 DEF SessionRecord

\* A session's state, or memory, is given up.
LEMMA GivingUp ==
    ASSUME Typed, NEW s \in SessionIds
    PROVE  /\ session' = [session EXCEPT ![s].state = 0] =>
                /\ session' \in [SessionIds -> SessionRecord]
                /\ \A t \in SessionIds :
                      /\ session'[t].mem = session[t].mem /\ session'[t].list = session[t].list
                      /\ t # s => session'[t].state = session[t].state
                      /\ session'[t].dests = session[t].dests
           /\ session' = [session EXCEPT ![s].mem = "free"] =>
                /\ session' \in [SessionIds -> SessionRecord]
                /\ \A t \in SessionIds :
                      /\ t # s => session'[t] = session[t]
                      /\ session'[t].dests = session[t].dests
<1>1. session \in [SessionIds -> SessionRecord]
  BY DEF Typed
<1>2. session' = [session EXCEPT ![s].state = 0] =>
         /\ session' \in [SessionIds -> SessionRecord]
         /\ \A t \in SessionIds :
               /\ session'[t].mem = session[t].mem /\ session'[t].list = session[t].list
               /\ t # s => session'[t].state = session[t].state
               /\ session'[t].dests = session[t].dests
  BY <1>1 DEF SessionRecord
<1>3. session' = [session EXCEPT ![s].mem = "free"] =>
         /\ session' \in [SessionIds -> SessionRecord]
         /\ \A t \in SessionIds :
               /\ t # s => session'[t] = session[t]
               /\ session'[t].dests = session[t].dests
  BY <1>1 DEF SessionRecord
<1> QED
  BY <1>2, <1>3

\* A list less its k-th element.
LEMMA Removed ==
    ASSUME NEW S, NEW s \in Seq(S), NEW k \in 1 .. Len(s)
    PROVE  /\ RemoveAt(s, k) \in Seq(S)
           /\ Len(RemoveAt(s, k)) = Len(s) - 1
           /\ \A i \in 1 .. Len(s) - 1 : RemoveAt(s, k)[i] = IF i < k THEN s[i] ELSE s[i + 1]
<1> DEFINE a == SubSeq(s, 1, k - 1)
<1> DEFINE b == SubSeq(s, k + 1, Len(s))
<1>1. RemoveAt(s, k) = a \o b
  BY DEF RemoveAt
<1>2. a \in Seq(S) /\ Len(a) = k - 1 /\ \A i \in 1 .. k - 1 : a[i] = s[i]
  OBVIOUS
<1>3. b \in Seq(S) /\ Len(b) = Len(s) - k /\ \A i \in 1 .. Len(s) - k : b[i] = s[k + i]
  OBVIOUS
<1> HIDE DEF a, b
<1>4. /\ a \o b \in Seq(S) /\ Len(a \o b) = Len(a) + Len(b)
      /\ \A i \in 1 .. Len(a) + Len(b) : (a \o b)[i] = IF i <= Len(a) THEN a[i] ELSE b[i - Len(a)]
  BY <1>2, <1>3, ConcatProperties
<1>5. Len(s) \in Nat /\ Len(a) + Len(b) = Len(s) - 1
  BY <1>2, <1>3, LenProperties
<1>6. ASSUME NEW i \in 1 .. Len(s) - 1
      PROVE  (a \o b)[i] = IF i < k THEN s[i] ELSE s[i + 1]
  <2>1. (a \o b)[i] = IF i <= k - 1 THEN a[i] ELSE b[i - (k - 1)]
    BY <1>2, <1>4, <1>5
  <2>2. i < k => i \in 1 .. k - 1
    BY <1>5
  <2>3. ~(i < k) => i - (k - 1) \in 1 .. Len(s) - k /\ k + (i - (k - 1)) = i + 1 /\ ~(i <= k - 1)
    BY <1>5
  <2> QED
    BY <1>2, <1>3, <2>1, <2>2, <2>3
<1> QED
  BY <1>1, <1>4, <1>5, <1>6

\* The list of sessions grows by one, and shrinks by one.
LEMMA Growing ==
    ASSUME Typed, IsInjective(sessions), NEW s \in SessionIds,
           \A i \in 1 .. Len(sessions) : sessions[i] # s, sessions' = Append(sessions, s)
    PROVE  /\ sessions' \in Seq(SessionIds) /\ Len(sessions') = Len(sessions) + 1
           /\ IsInjective(sessions')
           /\ \A i \in 1 .. Len(sessions) : sessions'[i] = sessions[i]
           /\ \A i \in 1 .. Len(sessions') : sessions'[i] = s \/ i \in 1 .. Len(sessions)
<1>1. /\ sessions' \in Seq(SessionIds) /\ Len(sessions') = Len(sessions) + 1
      /\ \A i \in 1 .. Len(sessions) + 1 : sessions'[i] = IF i = Len(sessions) + 1 THEN s ELSE sessions[i]
  BY DEF Typed
<1>2. Len(sessions) \in Nat /\ DOMAIN sessions = 1 .. Len(sessions)
  BY ListFacts
<1>3. DOMAIN sessions' = 1 .. Len(sessions) + 1
  BY <1>1, LenProperties
<1>4. ASSUME NEW i \in 1 .. Len(sessions) + 1, NEW j \in 1 .. Len(sessions) + 1,
             sessions'[i] = sessions'[j]
      PROVE  i = j
  <2>1. CASE i = Len(sessions) + 1 \/ j = Len(sessions) + 1
    BY <1>1, <1>2, <1>4, <2>1
  <2>2. CASE i # Len(sessions) + 1 /\ j # Len(sessions) + 1
    <3>1. i \in 1 .. Len(sessions) /\ j \in 1 .. Len(sessions) /\ sessions[i] = sessions[j]
      BY <1>1, <1>2, <1>4, <2>2
    <3> QED
      BY <1>2, <3>1 DEF IsInjective
  <2> QED
    BY <2>1, <2>2
<1>5. IsInjective(sessions')
  BY <1>3, <1>4 DEF IsInjective
<1> QED
  BY <1>1, <1>2, <1>5

LEMMA Shrinking ==
    ASSUME Typed, IsInjective(sessions), NEW k \in 1 .. Len(sessions),
           sessions' = RemoveAt(sessions, k)
    PROVE  /\ sessions' \in Seq(SessionIds) /\ Len(sessions') = Len(sessions) - 1
           /\ IsInjective(sessions')
           /\ \A i \in 1 .. Len(sessions') :
                 /\ sessions'[i] # sessions[k]
                 /\ \E j \in 1 .. Len(sessions) : sessions'[i] = sessions[j]
<1>1. /\ sessions' \in Seq(SessionIds) /\ Len(sessions') = Len(sessions) - 1
      /\ \A i \in 1 .. Len(sessions) - 1 : sessions'[i] = IF i < k THEN sessions[i] ELSE sessions[i + 1]
  <2>1. sessions \in Seq(SessionIds)
    BY DEF Typed
  <2> QED
    BY <2>1, Removed
<1>2. Len(sessions) \in Nat /\ DOMAIN sessions = 1 .. Len(sessions)
  BY ListFacts
<1>3. DOMAIN sessions' = 1 .. Len(sessions) - 1
  BY <1>1, LenProperties
<1>4. ASSUME NEW i \in 1 .. Len(sessions) - 1
      PROVE  \E m \in 1 .. Len(sessions) :
                sessions'[i] = sessions[m] /\ m # k /\ m = (IF i < k THEN i ELSE i + 1)
  <2>1. CASE i < k
    BY <1>1, <1>2, <2>1
  <2>2. CASE ~(i < k)
    <3>1. i + 1 \in 1 .. Len(sessions) /\ i + 1 # k /\ sessions'[i] = sessions[i + 1]
      BY <1>1, <1>2, <2>2
    <3> QED
      BY <2>2, <3>1
  <2> QED
    BY <2>1, <2>2
<1>5. \A i \in 1 .. Len(sessions), j \in 1 .. Len(sessions) : sessions[i] = sessions[j] => i = j
  BY <1>2 DEF IsInjective
<1>6. ASSUME NEW i \in 1 .. Len(sessions) - 1, NEW j \in 1 .. Len(sessions) - 1,
             sessions'[i] = sessions'[j]
      PROVE  i = j
  <2>1. PICK m \in 1 .. Len(sessions) :
           sessions'[i] = sessions[m] /\ m # k /\ m = (IF i < k THEN i ELSE i + 1)
    BY <1>4
  <2>2. PICK n \in 1 .. Len(sessions) :
           sessions'[j] = sessions[n] /\ n # k /\ n = (IF j < k THEN j ELSE j + 1)
    BY <1>4
  <2>3. m = n
    BY <1>5, <1>6, <2>1, <2>2
  <2> QED
    BY <2>1, <2>2, <2>3
<1>7. IsInjective(sessions')
  BY <1>3, <1>6 DEF IsInjective
<1>8. ASSUME NEW i \in 1 .. Len(sessions) - 1
      PROVE  sessions'[i] # sessions[k] /\ \E j \in 1 .. Len(sessions) : sessions'[i] = sessions[j]
  BY <1>4, <1>5
<1> QED
  BY <1>1, <1>7, <1>8

\* session_addNew returns: its destination may be read now, if it is a web client's.
LEMMA Returning ==
    ASSUME Typed, NEW c \in Clients, client[c].dest \in Dests, Return(c)
    PROVE  /\ client' \in [Clients -> ClientRecord] /\ dest' \in [Dests -> DestRecord]
           /\ \A e \in Clients : e # c => client'[e] = client[e]
           /\ client'[c] = IdleClient
           /\ \A d \in Dests :
                 /\ dest'[d].mem = dest[d].mem /\ dest'[d].kind = dest[d].kind
                 /\ dest'[d].expired = dest[d].expired
                 /\ d # client[c].dest => dest'[d].open = dest[d].open
           /\ \A d \in Dests : dest'[d].open => dest[d].open \/ dest[d].kind = "http"
<1>1. client \in [Clients -> ClientRecord] /\ dest \in [Dests -> DestRecord]
  BY DEF Typed
<1>2. IdleClient \in ClientRecord
  BY DEF IdleClient, ClientRecord, ClientPcs
<1>3. /\ client' \in [Clients -> ClientRecord] /\ client'[c] = IdleClient
      /\ \A e \in Clients : e # c => client'[e] = client[e]
  BY <1>1, <1>2 DEF Return
<1>4. \/ dest' = dest
      \/ /\ dest[client[c].dest].kind = "http"
         /\ dest' = [dest EXCEPT ![client[c].dest].open = TRUE]
  BY DEF Return
<1>5. dest' \in [Dests -> DestRecord]
  <2>1. [dest[client[c].dest] EXCEPT !.open = TRUE] \in DestRecord
    BY <1>1 DEF DestRecord
  <2>2. dest' = dest \/ dest' = [dest EXCEPT ![client[c].dest] = [dest[client[c].dest] EXCEPT !.open = TRUE]]
    BY <1>4
  <2> QED
    BY <1>1, <2>1, <2>2
<1>6. \A d \in Dests : /\ dest'[d].mem = dest[d].mem /\ dest'[d].kind = dest[d].kind
                       /\ dest'[d].expired = dest[d].expired
                       /\ d # client[c].dest => dest'[d].open = dest[d].open
  BY <1>1, <1>4 DEF DestRecord
<1>7. \A d \in Dests : dest'[d].open => dest[d].open \/ dest[d].kind = "http"
  <2>1. CASE dest' = dest
    BY <2>1
  <2>2. CASE /\ dest[client[c].dest].kind = "http"
             /\ dest' = [dest EXCEPT ![client[c].dest].open = TRUE]
    BY <1>1, <2>2
  <2> QED
    BY <1>4, <2>1, <2>2
<1> QED
  BY <1>3, <1>5, <1>6, <1>7

LEMMA InitInv == Init => IInv
<1> SUFFICES ASSUME Init PROVE IInv
  OBVIOUS
<1> USE DEF Init
<1>1. Len(sessions) = 0 /\ sessions \in Seq(SessionIds) /\ DOMAIN sessions = 1 .. Len(sessions)
  BY LenProperties
<1>2. Typed
  <2>1. session \in [SessionIds -> SessionRecord]
    BY DEF NewSession, SessionRecord
  <2>2. dest \in [Dests -> DestRecord]
    BY DEF NewDest, DestRecord
  <2>3. client \in [Clients -> ClientRecord]
    BY DEF IdleClient, ClientRecord, ClientPcs
  <2>4. buf \in [SessionIds -> [1 .. 2 -> BufPcs]]
    BY DEF BufPcs
  <2>5. reaper \in [pc : ReaperPcs, walk : Nat] /\ stop \in [pc : StopPcs, sess : SessionIds \cup {NoSession}]
    BY DEF ReaperPcs, StopPcs, IdleStop
  <2> QED
    BY <1>1, <2>1, <2>2, <2>3, <2>4, <2>5 DEF Typed
<1>3. Owners
  BY DEF Owners, IdleStop, IdleClient
<1>4. Walks
  BY <1>1 DEF Walks, IdleStop, IdleClient
<1>5. Listed
  BY <1>1 DEF Listed, IsInjective
<1>6. Building
  BY DEF Building, Builds, IdleClient
<1>7. Destined
  BY DEF Destined, ListedDestsAreAllocated, Carries, IdleClient, NewSession
<1>8. Read
  BY DEF Read, IdleClient, NewDest
<1> QED
  BY <1>2, <1>3, <1>4, <1>5, <1>6, <1>7, <1>8 DEF IInv

-----------------------------------------------------------------------------
(* session_addNew keeps the invariant.                                      *)

\* Nothing that Listed looks at has changed.
LEMMA ListedStays ==
    ASSUME Typed, Listed, \A i \in 1 .. Len(sessions) : Same(sessions[i]),
           UNCHANGED <<sessions, reaper, stop>>
    PROVE  Listed'
BY ListFacts DEF Listed, Same, ReaperAt

LEMMA AddNewInv ==
    ASSUME IInv, NEW c \in Clients, AddNew(c)
    PROVE  IInv'
<1> USE DEF IInv
<1>1. PICK ch \in Channels, k \in Kinds(c), d \in Dests :
         /\ CanAllocDest(d)
         /\ dest' = [dest EXCEPT ![d] = [mem |-> "allocated", kind |-> k,
                                         expired |-> FALSE, open |-> FALSE]]
         /\ client' = [client EXCEPT ![c] =
               [pc |-> IF k = "live" THEN "closeType" ELSE "lookup",
                chan |-> ch, dest |-> d, sess |-> NoSession, walk |-> 0]]
  BY DEF AddNew
<1>2. /\ client[c].pc = "idle" /\ (c = Telnet => stop.pc = "idle")
      /\ UNCHANGED <<sessions, sessionsLock, session, buf, reaper, stop, crash>>
  BY DEF AddNew
<1>3. /\ client' \in [Clients -> ClientRecord]
      /\ \A e \in Clients : e # c => client'[e] = client[e]
      /\ client'[c].pc \in {"closeType", "lookup"} /\ client'[c].dest = d /\ client'[c].walk = 0
  BY <1>1 DEF Typed, ClientRecord, ClientPcs
<1>4. /\ dest' \in [Dests -> DestRecord]
      /\ \A x \in Dests : x # d => dest'[x] = dest[x]
      /\ dest'[d].mem = "allocated" /\ ~dest'[d].expired /\ ~dest'[d].open
  <2>1. k \in {"http", "live", "url"}
    BY <1>1, ActorsAssumption DEF Kinds
  <2> QED
    BY <1>1, <2>1 DEF Typed, DestRecord
<1>5. dest[d].mem = "free" /\ ~dest[d].open /\ \A e \in Clients : client[e].dest # d
  BY <1>1 DEF CanAllocDest
<1>6. Typed'
  BY <1>2, <1>3, <1>4 DEF Typed
<1>7. Owners'
  BY <1>2, <1>3 DEF Owners
<1>8. Walks'
  BY <1>2, <1>3 DEF Walks
<1>9. Listed'
  BY <1>2, ListedStays DEF Same
<1>10. Building'
  BY <1>2, <1>3 DEF Building, Builds
<1>11. Destined'
  <2>1. \A s \in SessionIds : d \notin session[s].dests /\ session[s].dests \subseteq Dests
    BY <1>5 DEF Destined, ListedDestsAreAllocated, Typed, SessionRecord
  <2>2. ListedDestsAreAllocated'
    BY <1>2, <1>4, <2>1 DEF Destined, ListedDestsAreAllocated
  <2>3. \A e \in Clients :
          /\ client'[e].pc = "idle" => client'[e].dest = NoDest
          /\ client'[e].pc # "idle" =>
               /\ client'[e].dest \in Dests
               /\ \A f \in Clients : client'[f].pc # "idle" /\ client'[f].dest = client'[e].dest => f = e
    BY <1>3, <1>5 DEF Destined
  <2>4. ASSUME NEW e \in Clients, Carries(e)'
        PROVE  /\ dest'[client'[e].dest].mem = "allocated"
               /\ \A s \in SessionIds : client'[e].dest \notin session'[s].dests
    BY <1>2, <1>3, <1>4, <1>5, <2>1, <2>4 DEF Destined, Carries
  <2> QED
    BY <2>2, <2>3, <2>4 DEF Destined
<1>12. Read'
  BY <1>3, <1>4, <1>5 DEF Read, Destined
<1> QED
  BY <1>6, <1>7, <1>8, <1>9, <1>10, <1>11, <1>12

LEMMA CloseTypeInv ==
    ASSUME IInv, NEW c \in Clients, CloseType(c)
    PROVE  IInv'
<1> USE DEF IInv, CloseType
<1>1. Moves(c, "closing", client[c].sess, 1)
  BY Moving DEF Typed, ClientPcs
<1>2. Typed'
  BY <1>1 DEF Typed, Moves
<1>3. Owners'
  <2>1. reaper.pc = "sleep" /\ stop.pc \notin {"state", "free"}
    BY ActorsAssumption DEF Owners
  <2>2. c = Telnet => stop.pc = "idle"
    BY DEF Owners
  <2>3. \A e \in Clients : client[e].pc # "closing"
    BY ActorsAssumption DEF Owners
  <2> QED
    BY <1>1, <2>1, <2>2, <2>3 DEF Owners, Moves
<1>4. Walks'
  BY <1>1, ListFacts DEF Walks, Moves
<1>5. Listed'
  BY ListedStays DEF Same
<1>6. Building'
  BY <1>1 DEF Building, Builds, Moves
<1>7. Destined'
  BY <1>1 DEF Destined, ListedDestsAreAllocated, Carries, Moves
<1>8. Read'
  BY <1>1 DEF Read, Moves
<1> QED
  BY <1>2, <1>3, <1>4, <1>5, <1>6, <1>7, <1>8

\* Destinations of one list are destroyed: the other lists, and the clients
\* that still carry theirs, are not concerned.
LEMMA DiscardKeeps ==
    ASSUME IInv, NEW s \in SessionIds, NEW gone, gone \subseteq session[s].dests, Discard(s, gone),
           \A e \in Clients : client'[e].pc = client[e].pc /\ client'[e].dest = client[e].dest
    PROVE  Destined'
<1> USE DEF IInv
<1>1. /\ \A t \in SessionIds : session'[t].dests = IF t = s THEN session[t].dests \ gone ELSE session[t].dests
      /\ \A d \in Dests : d \notin gone => dest'[d] = dest[d]
  BY Discarding
<1>2. \A t \in SessionIds : session[t].dests \subseteq Dests
  BY DEF Typed, SessionRecord
<1>3. \A t \in SessionIds : t # s => session[t].dests \cap gone = {}
  BY DEF Destined, ListedDestsAreAllocated
<1>4. ListedDestsAreAllocated'
  <2>1. \A t \in SessionIds : session'[t].dests \subseteq session[t].dests
    BY <1>1
  <2>2. \A t \in SessionIds : \A d \in session'[t].dests : d \in Dests /\ d \notin gone
    BY <1>1, <1>2, <1>3
  <2>3. \A t \in SessionIds : \A d \in session'[t].dests : dest'[d].mem = "allocated"
    BY <1>1, <2>1, <2>2 DEF Destined, ListedDestsAreAllocated
  <2>4. \A t, u \in SessionIds : t # u => session'[t].dests \cap session'[u].dests = {}
    BY <2>1 DEF Destined, ListedDestsAreAllocated
  <2> QED
    BY <2>3, <2>4 DEF ListedDestsAreAllocated
<1>6. \A e \in Clients : Carries(e)' => Carries(e)
  BY DEF Carries
<1>7. \A e \in Clients :
        /\ client'[e].pc = "idle" => client'[e].dest = NoDest
        /\ client'[e].pc # "idle" =>
             /\ client'[e].dest \in Dests
             /\ \A f \in Clients : client'[f].pc # "idle" /\ client'[f].dest = client'[e].dest => f = e
  BY DEF Destined
<1>8. ASSUME NEW e \in Clients, Carries(e)'
      PROVE  /\ dest'[client'[e].dest].mem = "allocated"
             /\ \A t \in SessionIds : client'[e].dest \notin session'[t].dests
  <2>1. /\ Carries(e) /\ client[e].dest \in Dests /\ dest[client[e].dest].mem = "allocated"
        /\ \A t \in SessionIds : client[e].dest \notin session[t].dests
    BY <1>6, <1>8 DEF Destined, Carries
  <2> QED
    BY <1>1, <2>1
<1> QED
  BY <1>4, <1>7, <1>8 DEF Destined

LEMMA CloseNextInv ==
    ASSUME IInv, NEW c \in Clients, CloseNext(c)
    PROVE  IInv'
<1> USE DEF IInv
<1> DEFINE w == client[c].walk
<1>1. /\ client[c].pc = "closing" /\ sessionsLock = c
      /\ UNCHANGED <<sessions, buf, reaper, stop, crash>>
  BY DEF CloseNext, Owners
<1>2. w \in Nat /\ w \in 1 .. Len(sessions) + 1 /\ Len(sessions) \in Nat
  BY <1>1, ListFacts DEF Walks
<1>3. CASE w <= Len(sessions)
  <2> DEFINE s == sessions[w]
  <2> DEFINE gone == {d \in session[s].dests : dest[d].kind = "live"}
  <2>1. s \in SessionIds /\ Discard(s, gone) /\ UNCHANGED sessionsLock
    BY <1>2, <1>3, ListFacts DEF CloseNext
  <2>2. Moves(c, client[c].pc, client[c].sess, w + 1)
    <3>1. client' = [client EXCEPT ![c].walk = w + 1]
      BY <1>3 DEF CloseNext
    <3>2. w + 1 \in Nat /\ client[c].pc \in ClientPcs /\ client[c].sess \in SessionIds \cup {NoSession}
      BY <1>2 DEF Typed, ClientRecord
    <3> QED
      BY <3>1, <3>2, Moving DEF Typed
  <2> HIDE DEF w
  <2>3. /\ session' \in [SessionIds -> SessionRecord] /\ dest' \in [Dests -> DestRecord]
        /\ \A t \in SessionIds : Same(t)
        /\ \A d \in Dests : d \notin gone => dest'[d] = dest[d]
        /\ \A d \in Dests : dest'[d].kind = dest[d].kind /\ dest'[d].open = dest[d].open
    BY <2>1, Discarding
  <2>4. Typed'
    BY <1>1, <2>1, <2>2, <2>3 DEF Typed, Moves
  <2>5. Owners'
    BY <1>1, <2>1, <2>2 DEF Owners, Moves
  <2>6. Walks'
    BY <1>1, <1>2, <1>3, <2>2 DEF Walks, Moves
  <2>7. Listed'
    BY <1>1, <2>3, ListFacts, ListedStays
  <2>8. Building'
    BY <1>1, <2>2, <2>3 DEF Building, Builds, Same, Moves
  <2>9. Destined'
    <3>1. \A e \in Clients : client'[e].pc = client[e].pc /\ client'[e].dest = client[e].dest
      BY <2>2 DEF Moves
    <3>2. gone \subseteq session[s].dests
      OBVIOUS
    <3> HIDE DEF s, gone, IInv
    <3> QED
      BY <2>1, <3>1, <3>2, DiscardKeeps
  <2>10. Read'
    <3>1. \A d \in Dests : dest[d].kind = "http" => dest'[d] = dest[d]
      BY <2>3
    <3>2. \A e \in Clients : client'[e].dest = client[e].dest /\ (client'[e].pc # "idle" => client[e].pc # "idle")
      BY <2>2 DEF Moves
    <3> QED
      BY <2>3, <3>1, <3>2 DEF Read, Destined
  <2> QED
    BY <2>4, <2>5, <2>6, <2>7, <2>8, <2>9, <2>10
<1>4. CASE ~(w <= Len(sessions))
  <2>1. sessionsLock' = Nobody /\ UNCHANGED <<session, dest>> /\ Moves(c, "lookup", client[c].sess, 0)
    BY <1>4, Moving DEF CloseNext, Typed, ClientPcs
  <2>2. Typed'
    BY <1>1, <2>1 DEF Typed, Moves
  <2>3. Owners'
    <3>1. reaper.pc = "sleep" /\ \A e \in Clients : e # c => client[e].pc # "closing"
      BY <1>1, ActorsAssumption DEF Owners
    <3>2. stop.pc \notin {"state", "free"}
      BY <1>1 DEF Owners
    <3> QED
      BY <1>1, <2>1, <3>1, <3>2 DEF Owners, Moves
  <2>4. Walks'
    BY <1>1, <2>1 DEF Walks, Moves
  <2>5. Listed'
    BY <1>1, <2>1, ListedStays DEF Same
  <2>6. Building'
    BY <1>1, <2>1 DEF Building, Builds, Moves
  <2>7. Destined'
    BY <1>1, <2>1 DEF Destined, ListedDestsAreAllocated, Carries, Moves
  <2>8. Read'
    BY <1>1, <2>1 DEF Read, Moves
  <2> QED
    BY <2>2, <2>3, <2>4, <2>5, <2>6, <2>7, <2>8
<1> QED
  BY <1>3, <1>4

LEMMA LookupInv ==
    ASSUME IInv, NEW c \in Clients, Lookup(c)
    PROVE  IInv'
<1> USE DEF IInv
<1>1. /\ client[c].pc = "lookup"
      /\ UNCHANGED <<sessions, sessionsLock, session, dest, buf, reaper, stop, crash>>
  BY DEF Lookup
<1>2. PICK pc \in {"join", "create"}, sess \in SessionIds \cup {NoSession} :
         Moves(c, pc, sess, client[c].walk) /\ (pc = "join" => sess \in SessionIds)
  <2>1. ASSUME NEW i \in 1 .. Len(sessions),
               client' = [client EXCEPT ![c].pc = "join", ![c].sess = sessions[i]]
        PROVE  sessions[i] \in SessionIds /\ Moves(c, "join", sessions[i], client[c].walk)
    BY <2>1, ListFacts, Moving DEF Typed, ClientPcs
  <2>2. ASSUME client' = [client EXCEPT ![c].pc = "create"]
        PROVE  client[c].sess \in SessionIds \cup {NoSession} /\ Moves(c, "create", client[c].sess, client[c].walk)
    BY <2>2, Moving DEF Typed, ClientPcs, ClientRecord
  <2> QED
    BY <2>1, <2>2 DEF Lookup
<1>3. Typed'
  BY <1>1, <1>2 DEF Typed, Moves
<1>4. Owners' /\ Walks'
  BY <1>1, <1>2 DEF Owners, Walks, Moves
<1>5. Listed'
  BY <1>1, ListedStays DEF Same
<1>6. Building'
  BY <1>1, <1>2 DEF Building, Builds, Moves
<1>7. Destined'
  BY <1>1, <1>2 DEF Destined, ListedDestsAreAllocated, Carries, Moves
<1>8. Read'
  BY <1>1, <1>2 DEF Read, Moves
<1> QED
  BY <1>3, <1>4, <1>5, <1>6, <1>7, <1>8

LEMMA CreateInv ==
    ASSUME IInv, NEW c \in Clients, Create(c)
    PROVE  IInv'
<1> USE DEF IInv
<1>1. /\ client[c].pc = "create"
      /\ UNCHANGED <<sessions, sessionsLock, dest, reaper, stop, crash>>
  BY DEF Create
<1>2. CASE client' = [client EXCEPT ![c] = IdleClient] /\ UNCHANGED <<session, buf>>
  <2>1. /\ client' \in [Clients -> ClientRecord] /\ client'[c] = IdleClient
        /\ \A e \in Clients : e # c => client'[e] = client[e]
    <3>1. IdleClient \in ClientRecord
      BY DEF IdleClient, ClientRecord, ClientPcs
    <3> QED
      BY <1>2, <3>1 DEF Typed
  <2>2. Typed'
    BY <1>1, <1>2, <2>1 DEF Typed
  <2>3. Owners' /\ Walks'
    BY <1>1, <2>1 DEF Owners, Walks, IdleClient
  <2>4. Listed'
    BY <1>1, <1>2, ListedStays DEF Same
  <2>5. Building'
    BY <1>1, <1>2, <2>1 DEF Building, Builds, IdleClient
  <2>6. Destined'
    BY <1>1, <1>2, <2>1 DEF Destined, ListedDestsAreAllocated, Carries, IdleClient
  <2>7. Read'
    BY <1>1, <2>1, ActorsAssumption DEF Read, IdleClient
  <2> QED
    BY <2>2, <2>3, <2>4, <2>5, <2>6, <2>7
<1>3. ASSUME NEW s \in SessionIds, NEW takes \in BOOLEAN, CanAllocSession(s),
             session' = [session EXCEPT ![s] =
                   [mem |-> "allocated", state |-> 1, chan |-> "none", list |-> "null", dests |-> {}]],
             buf' = [buf EXCEPT ![s] = <<IF takes THEN "loop" ELSE "none", "none">>],
             client' = [client EXCEPT ![c].pc = "build", ![c].sess = s]
      PROVE  IInv'
  <2>1. Moves(c, "build", s, client[c].walk)
    BY <1>3, Moving DEF Typed, ClientPcs
  <2>2. /\ session' \in [SessionIds -> SessionRecord]
        /\ session'[s].mem = "allocated" /\ session'[s].state = 1 /\ session'[s].dests = {}
        /\ \A t \in SessionIds : t # s => session'[t] = session[t]
    BY <1>3 DEF Typed, SessionRecord
  <2>3. buf' \in [SessionIds -> [1 .. 2 -> BufPcs]]
    BY <1>3 DEF Typed, BufPcs
  <2>4. /\ session[s].mem = "free" /\ stop.sess # s /\ \A e \in Clients : client[e].sess # s
        /\ \A i \in 1 .. Len(sessions) : sessions[i] # s
    BY <1>3 DEF CanAllocSession, Freed, Kept, Listed
  <2>5. Typed'
    BY <1>1, <2>1, <2>2, <2>3 DEF Typed, Moves
  <2>6. Owners' /\ Walks'
    BY <1>1, <2>1 DEF Owners, Walks, Moves
  <2>7. Listed'
    BY <1>1, <2>2, <2>4, ListFacts, ListedStays DEF Same
  <2>8. Building'
    BY <1>1, <2>1, <2>2, <2>4 DEF Building, Builds, Moves
  <2>9. Destined'
    BY <1>1, <2>1, <2>2 DEF Destined, ListedDestsAreAllocated, Carries, Moves
  <2>10. Read'
    BY <1>1, <2>1 DEF Read, Moves
  <2> QED
    BY <2>5, <2>6, <2>7, <2>8, <2>9, <2>10
<1> QED
  BY <1>2, <1>3 DEF Create

LEMMA BuildInv ==
    ASSUME IInv, NEW c \in Clients, Build(c)
    PROVE  IInv'
<1> USE DEF IInv
<1> DEFINE s == client[c].sess
<1> DEFINE d == client[c].dest
<1>1. /\ client[c].pc = "build" /\ s \in SessionIds /\ d \in Dests
      /\ UNCHANGED <<sessions, sessionsLock, dest, buf, reaper, stop, crash>>
  BY DEF Build, Building, Destined
<1>2. Moves(c, "append", s, client[c].walk)
  BY Moving DEF Build, Goto, Typed, ClientPcs
<1>3. /\ session' \in [SessionIds -> SessionRecord]
      /\ session'[s].mem = session[s].mem /\ session'[s].state = session[s].state
      /\ session'[s].list = "list" /\ session'[s].dests = {d}
      /\ \A t \in SessionIds : t # s => session'[t] = session[t]
  <2> DEFINE r == [session[s] EXCEPT !.chan = client[c].chan, !.list = "list", !.dests = {d}]
  <2>1. client[c].chan \in Channels \cup {"none"} /\ session[s] \in SessionRecord
    BY <1>1 DEF Typed, ClientRecord
  <2>2. r.mem = session[s].mem /\ r.state = session[s].state /\ r.list = "list" /\ r.dests = {d}
    BY <2>1 DEF SessionRecord
  <2>3. r \in SessionRecord
    BY <1>1, <2>1 DEF SessionRecord
  <2>4. session' = [session EXCEPT ![s] = r]
    BY DEF Build
  <2> HIDE DEF r
  <2> QED
    BY <1>1, <2>2, <2>3, <2>4, Replacing DEF Typed
<1>4. /\ \A i \in 1 .. Len(sessions) : sessions[i] # s
      /\ session[s].mem = "allocated" /\ session[s].state = 1 /\ stop.sess # s
      /\ \A e \in Clients : Builds(e) /\ client[e].sess = s => e = c
  BY <1>1 DEF Building, Builds
<1>5. dest[d].mem = "allocated" /\ \A t \in SessionIds : d \notin session[t].dests
  BY <1>1 DEF Destined, Carries
<1> HIDE DEF s, d
<1>6. Typed'
  BY <1>1, <1>2, <1>3 DEF Typed, Moves
<1>7. Owners' /\ Walks'
  BY <1>1, <1>2 DEF Owners, Walks, Moves
<1>8. Listed'
  BY <1>1, <1>3, <1>4, ListFacts, ListedStays DEF Same
<1>9. Building'
  BY <1>1, <1>2, <1>3, <1>4 DEF Building, Builds, Moves
<1>10. Destined'
  <2>1. ListedDestsAreAllocated'
    BY <1>1, <1>3, <1>5 DEF Destined, ListedDestsAreAllocated
  <2>2. \A e \in Clients : Carries(e)' => Carries(e) /\ e # c
    BY <1>2 DEF Carries, Moves
  <2>3. \A e \in Clients : client'[e].dest = client[e].dest
           /\ (client'[e].pc # "idle" <=> client[e].pc # "idle")
    BY <1>1, <1>2 DEF Moves
  <2>4. \A e \in Clients : e # c /\ client[e].pc # "idle" => client[e].dest # d
    BY <1>1 DEF Destined, d
  <2>5. ASSUME NEW e \in Clients, Carries(e)'
        PROVE  /\ dest'[client'[e].dest].mem = "allocated"
               /\ \A t \in SessionIds : client'[e].dest \notin session'[t].dests
    <3>1. Carries(e) /\ e # c /\ client[e].dest # d
      BY <2>2, <2>4, <2>5 DEF Carries
    <3> QED
      BY <1>1, <1>3, <2>3, <3>1 DEF Destined
  <2>6. \A e \in Clients :
          /\ client'[e].pc = "idle" => client'[e].dest = NoDest
          /\ client'[e].pc # "idle" =>
               /\ client'[e].dest \in Dests
               /\ \A f \in Clients : client'[f].pc # "idle" /\ client'[f].dest = client'[e].dest => f = e
    BY <2>3 DEF Destined
  <2> QED
    BY <2>1, <2>5, <2>6 DEF Destined
<1>11. Read'
  BY <1>1, <1>2 DEF Read, Moves
<1> QED
  BY <1>6, <1>7, <1>8, <1>9, <1>10, <1>11

LEMMA AppendSessionInv ==
    ASSUME IInv, NEW c \in Clients, AppendSession(c)
    PROVE  IInv'
<1> USE DEF IInv
<1> DEFINE s == client[c].sess
<1>1. /\ client[c].pc = "append" /\ sessionsLock = Nobody /\ s \in SessionIds
      /\ UNCHANGED <<sessionsLock, session, dest, buf, reaper, stop, crash>>
  BY DEF AppendSession, Building
<1>2. Moves(c, "start", s, client[c].walk)
  BY Moving DEF AppendSession, Goto, Typed, ClientPcs
<1>3. /\ \A i \in 1 .. Len(sessions) : sessions[i] # s
      /\ session[s].mem = "allocated" /\ session[s].state = 1 /\ session[s].list = "list"
      /\ stop.sess # s /\ \A e \in Clients : Builds(e) /\ client[e].sess = s => e = c
  BY <1>1 DEF Building, Builds
<1>4. /\ sessions' \in Seq(SessionIds) /\ Len(sessions') = Len(sessions) + 1
      /\ IsInjective(sessions')
      /\ \A i \in 1 .. Len(sessions) : sessions'[i] = sessions[i]
      /\ \A i \in 1 .. Len(sessions') : sessions'[i] = s \/ i \in 1 .. Len(sessions)
  BY <1>1, <1>3, Growing DEF AppendSession, Listed
<1>5. reaper.pc = "sleep" /\ stop.pc \notin {"state", "free"} /\ \A e \in Clients : client[e].pc # "closing"
  BY <1>1, ActorsAssumption DEF Owners
<1> HIDE DEF s
<1>6. Typed'
  BY <1>1, <1>2, <1>4 DEF Typed, Moves
<1>7. Owners'
  BY <1>1, <1>2 DEF Owners, Moves
<1>8. Walks'
  BY <1>1, <1>2, <1>3, <1>4, <1>5 DEF Walks, Moves
<1>9. Listed'
  BY <1>1, <1>3, <1>4, <1>5 DEF Listed, ReaperAt
<1>10. Building'
  <2>1. \A e \in Clients : Builds(e)' => Builds(e) /\ e # c /\ client[e].sess # s
    BY <1>2, <1>3 DEF Builds, Moves
  <2>2. \A e \in Clients : e # c => client'[e] = client[e]
    BY <1>2 DEF Moves
  <2>3. \A e \in Clients : Builds(e)' => \A i \in 1 .. Len(sessions') : sessions'[i] # client'[e].sess
    BY <1>4, <2>1, <2>2 DEF Building
  <2> QED
    BY <1>1, <1>2, <2>1, <2>2, <2>3 DEF Building, Builds, Moves
<1>11. Destined'
  BY <1>1, <1>2 DEF Destined, ListedDestsAreAllocated, Carries, Moves
<1>12. Read'
  BY <1>1, <1>2 DEF Read, Moves
<1> QED
  BY <1>6, <1>7, <1>8, <1>9, <1>10, <1>11, <1>12

\* The end of session_addNew: the client is idle again.
LEMMA ReturnKeeps ==
    ASSUME IInv, NEW c \in Clients, client[c].pc \in {"start", "join"}, Return(c)
    PROVE  /\ client' \in [Clients -> ClientRecord] /\ dest' \in [Dests -> DestRecord]
           /\ (\A s \in SessionIds : Same(s)) /\ UNCHANGED <<sessions, stop, sessionsLock, reaper>>
              => Owners' /\ Walks' /\ Listed' /\ Building'
           /\ Read'
<1> USE DEF IInv
<1>1. client[c].dest \in Dests
  BY DEF Destined
<1>2. /\ client' \in [Clients -> ClientRecord] /\ dest' \in [Dests -> DestRecord]
      /\ \A e \in Clients : e # c => client'[e] = client[e]
      /\ client'[c] = IdleClient
      /\ \A d \in Dests :
            /\ dest'[d].mem = dest[d].mem /\ dest'[d].kind = dest[d].kind
            /\ dest'[d].expired = dest[d].expired
            /\ d # client[c].dest => dest'[d].open = dest[d].open
      /\ dest'[client[c].dest].open => dest[client[c].dest].open \/ dest[client[c].dest].kind = "http"
  BY <1>1, Returning
<1>3. ASSUME \A s \in SessionIds : Same(s), UNCHANGED <<sessions, stop, sessionsLock, reaper>>
      PROVE  Owners' /\ Walks' /\ Listed' /\ Building'
  <2>1. Owners' /\ Walks'
    BY <1>2, <1>3 DEF Owners, Walks, IdleClient
  <2>2. Listed'
    BY <1>3, ListFacts, ListedStays
  <2>3. Building'
    BY <1>2, <1>3 DEF Building, Builds, IdleClient, Same
  <2> QED
    BY <2>1, <2>2, <2>3
<1>4. Read'
  <2> SUFFICES ASSUME ~Stops PROVE Read'
    BY DEF Read
  <2>1. \/ ~dest[client[c].dest].expired /\ dest[client[c].dest].mem = "allocated"
        \/ dest[client[c].dest].kind # "http"
    BY DEF Read
  <2>2. \A e \in Clients : client'[e].dest # client[c].dest
    BY <1>1, <1>2, ActorsAssumption DEF Destined, IdleClient
  <2>3. ASSUME NEW d \in Dests, dest'[d].open
        PROVE  /\ dest'[d].kind = "http" /\ ~dest'[d].expired /\ dest'[d].mem = "allocated"
               /\ \A e \in Clients : client'[e].dest # d
    <3>1. CASE d = client[c].dest
      <4>1. ~dest[d].open
        BY <3>1 DEF Read
      <4> QED
        BY <1>2, <2>1, <2>2, <2>3, <3>1, <4>1
    <3>2. CASE d # client[c].dest
      BY <1>2, <2>3, <3>2, ActorsAssumption DEF Read, IdleClient
    <3> QED
      BY <3>1, <3>2
  <2>4. \A e \in Clients : client'[e].pc # "idle" /\ dest'[client'[e].dest].kind = "http" =>
           ~dest'[client'[e].dest].expired /\ dest'[client'[e].dest].mem = "allocated"
    BY <1>2 DEF Read, Destined, IdleClient
  <2> QED
    BY <2>3, <2>4 DEF Read
<1> QED
  BY <1>2, <1>3, <1>4

LEMMA StartThreadInv ==
    ASSUME IInv, NEW c \in Clients, StartThread(c)
    PROVE  IInv'
<1> USE DEF IInv
<1>1. /\ client[c].pc = "start" /\ Return(c) /\ client[c].sess \in SessionIds
      /\ client[c].dest \in Dests
      /\ UNCHANGED <<sessions, sessionsLock, session, reaper, stop, crash>>
  BY DEF StartThread, Building, Destined
<1>2. buf' \in [SessionIds -> [1 .. 2 -> BufPcs]]
  <2>1. buf' = [buf EXCEPT ![client[c].sess] = [buf[client[c].sess] EXCEPT ![2] = "loop"]]
    BY DEF StartThread
  <2>2. [buf[client[c].sess] EXCEPT ![2] = "loop"] \in [1 .. 2 -> BufPcs]
    BY <1>1 DEF Typed, BufPcs
  <2> QED
    BY <1>1, <2>1, <2>2 DEF Typed
<1>3. /\ client' \in [Clients -> ClientRecord] /\ dest' \in [Dests -> DestRecord]
      /\ Owners' /\ Walks' /\ Listed' /\ Building' /\ Read'
  BY <1>1, ReturnKeeps DEF Same
<1>4. Typed'
  BY <1>1, <1>2, <1>3 DEF Typed
<1>5. Destined'
  <2>1. /\ \A e \in Clients : e # c => client'[e] = client[e]
        /\ client'[c] = IdleClient
        /\ \A d \in Dests : dest'[d].mem = dest[d].mem
    BY <1>1, Returning
  <2>2. ListedDestsAreAllocated'
    BY <1>1, <2>1 DEF Destined, ListedDestsAreAllocated, Typed, SessionRecord
  <2> QED
    BY <1>1, <2>1, <2>2 DEF Destined, Carries, IdleClient
<1> QED
  BY <1>3, <1>4, <1>5

LEMMA JoinInv ==
    ASSUME IInv, NEW c \in Clients, Join(c)
    PROVE  IInv'
<1> USE DEF IInv
<1> DEFINE s == client[c].sess
<1> DEFINE d == client[c].dest
<1>1. /\ client[c].pc = "join" /\ Return(c) /\ s \in SessionIds /\ d \in Dests
      /\ UNCHANGED <<sessions, sessionsLock, buf, reaper, stop, crash>>
  BY DEF Join, Building, Destined
<1>2. session' = [session EXCEPT ![s].dests = @ \cup {d}]
  BY DEF Join
<1>3. /\ session' \in [SessionIds -> SessionRecord]
      /\ \A t \in SessionIds : Same(t)
      /\ \A t \in SessionIds : session'[t].dests = IF t = s THEN session[t].dests \cup {d} ELSE session[t].dests
  <2> DEFINE r == [session[s] EXCEPT !.dests = @ \cup {d}]
  <2>1. session[s] \in SessionRecord
    BY <1>1 DEF Typed
  <2>2. /\ r.mem = session[s].mem /\ r.state = session[s].state /\ r.list = session[s].list
        /\ r.dests = session[s].dests \cup {d}
    BY <2>1 DEF SessionRecord
  <2>3. r \in SessionRecord
    BY <1>1, <2>1 DEF SessionRecord
  <2>4. session' = [session EXCEPT ![s] = r]
    BY <1>2
  <2> HIDE DEF r
  <2>5. /\ session' \in [SessionIds -> SessionRecord] /\ session'[s] = r
        /\ \A t \in SessionIds : t # s => session'[t] = session[t]
    BY <1>1, <2>3, <2>4, Replacing DEF Typed
  <2> QED
    BY <2>2, <2>5 DEF Same
<1>4. /\ client' \in [Clients -> ClientRecord] /\ dest' \in [Dests -> DestRecord]
      /\ Owners' /\ Walks' /\ Listed' /\ Building' /\ Read'
  BY <1>1, <1>3, ReturnKeeps
<1>5. Typed'
  BY <1>1, <1>3, <1>4 DEF Typed
<1>6. Destined'
  <2>1. /\ \A e \in Clients : e # c => client'[e] = client[e]
        /\ client'[c] = IdleClient
        /\ \A x \in Dests : dest'[x].mem = dest[x].mem
    BY <1>1, Returning
  <2>2. dest[d].mem = "allocated" /\ \A t \in SessionIds : d \notin session[t].dests
    BY <1>1 DEF Destined, Carries
  <2>3. \A t \in SessionIds : session[t].dests \subseteq Dests
    BY DEF Typed, SessionRecord
  <2>4. ListedDestsAreAllocated'
    <3> HIDE DEF s, d
    <3>1. ASSUME NEW t \in SessionIds, NEW x \in session'[t].dests
          PROVE  dest'[x].mem = "allocated"
      <4>1. x = d \/ x \in session[t].dests
        BY <1>3
      <4>2. x \in Dests /\ dest[x].mem = "allocated"
        BY <1>1, <2>2, <2>3, <4>1 DEF Destined, ListedDestsAreAllocated
      <4> QED
        BY <2>1, <4>2
    <3>2. \A t, u \in SessionIds : t # u => session'[t].dests \cap session'[u].dests = {}
      BY <1>3, <2>2 DEF Destined, ListedDestsAreAllocated
    <3> QED
      BY <3>1, <3>2 DEF ListedDestsAreAllocated
  <2>5. \A e \in Clients : e # c /\ client[e].pc # "idle" => client[e].dest # d
    BY <1>1 DEF Destined
  <2>6. ASSUME NEW e \in Clients, Carries(e)'
        PROVE  /\ dest'[client'[e].dest].mem = "allocated"
               /\ \A t \in SessionIds : client'[e].dest \notin session'[t].dests
    <3>1. e # c /\ client'[e] = client[e] /\ Carries(e) /\ client[e].pc # "idle"
      BY <2>1, <2>6 DEF Carries, IdleClient
    <3>2. client[e].dest \in Dests /\ client[e].dest # d /\ dest[client[e].dest].mem = "allocated"
          /\ \A t \in SessionIds : client[e].dest \notin session[t].dests
      BY <2>5, <3>1 DEF Destined
    <3> HIDE DEF d, s
    <3> QED
      BY <1>3, <2>1, <3>1, <3>2
  <2>7. \A e \in Clients :
          /\ client'[e].pc = "idle" => client'[e].dest = NoDest
          /\ client'[e].pc # "idle" =>
               /\ client'[e].dest \in Dests
               /\ \A f \in Clients : client'[f].pc # "idle" /\ client'[f].dest = client'[e].dest => f = e
    BY <2>1 DEF Destined, IdleClient
  <2> QED
    BY <2>4, <2>6, <2>7 DEF Destined
<1> QED
  BY <1>4, <1>5, <1>6

LEMMA ClientInv ==
    ASSUME IInv, NEW c \in Clients, AddNew(c) \/ ClientStep(c)
    PROVE  IInv'
<1>1. CASE AddNew(c) \/ CloseType(c) \/ CloseNext(c) \/ Lookup(c)
  BY <1>1, AddNewInv, CloseTypeInv, CloseNextInv, LookupInv
<1>2. CASE Create(c) \/ Build(c) \/ AppendSession(c) \/ StartThread(c) \/ Join(c)
  BY <1>2, CreateInv, BuildInv, AppendSessionInv, StartThreadInv, JoinInv
<1> QED
  BY <1>1, <1>2 DEF ClientStep

-----------------------------------------------------------------------------
(* The web connections, the buffer threads, the reaper and session_stop.    *)

LEMMA HttpEndInv ==
    ASSUME IInv, NEW d \in Dests, HttpEnd(d)
    PROVE  IInv'
<1> USE DEF IInv
<1>1. dest[d].open /\ UNCHANGED <<sessions, sessionsLock, session, buf, client, reaper, stop, crash>>
  BY DEF HttpEnd
<1>2. /\ dest' \in [Dests -> DestRecord]
      /\ \A x \in Dests : x # d => dest'[x] = dest[x]
      /\ dest'[d].mem = dest[d].mem /\ ~dest'[d].open /\ dest'[d].kind = dest[d].kind
  BY DEF HttpEnd, Typed, DestRecord
<1>3. Typed'
  BY <1>1, <1>2 DEF Typed
<1>4. Owners' /\ Walks' /\ Building'
  BY <1>1 DEF Owners, Walks, Building, Builds
<1>5. Listed'
  BY <1>1, ListedStays DEF Same
<1>6. Destined'
  <2>1. \A s \in SessionIds : session[s].dests \subseteq Dests
    BY DEF Typed, SessionRecord
  <2>2. \A x \in Dests : dest'[x].mem = dest[x].mem
    BY <1>2
  <2>3. ListedDestsAreAllocated'
    BY <1>1, <2>1, <2>2 DEF Destined, ListedDestsAreAllocated
  <2> QED
    BY <1>1, <2>2, <2>3 DEF Destined, Carries
<1>7. Read'
  BY <1>1, <1>2 DEF Read, Destined
<1> QED
  BY <1>3, <1>4, <1>5, <1>6, <1>7

\* A buffer thread moves on.
LEMMA BufTyped ==
    ASSUME Typed, NEW s \in SessionIds, NEW i \in 1 .. 2, NEW pc \in BufPcs,
           buf' = [buf EXCEPT ![s][i] = pc]
    PROVE  buf' \in [SessionIds -> [1 .. 2 -> BufPcs]]
<1>1. buf' = [buf EXCEPT ![s] = [buf[s] EXCEPT ![i] = pc]]
  OBVIOUS
<1>2. [buf[s] EXCEPT ![i] = pc] \in [1 .. 2 -> BufPcs]
  BY DEF Typed
<1> QED
  BY <1>1, <1>2 DEF Typed

LEMMA BufInv ==
    ASSUME IInv, NEW s \in SessionIds, NEW i \in 1 .. 2, BufStep(s, i)
    PROVE  IInv'
<1> USE DEF IInv
<1>1. UNCHANGED <<sessions, sessionsLock, client, reaper, stop>>
  BY DEF BufStep, BufCheck, BufCopy, BufEnter, BufLeave, BufUnchanged
<1>2. PICK pc \in BufPcs : buf' = [buf EXCEPT ![s][i] = pc]
  BY DEF BufStep, BufCheck, BufCopy, BufEnter, BufLeave, BufPcs
<1>3. buf' \in [SessionIds -> [1 .. 2 -> BufPcs]]
  BY <1>2, BufTyped
<1>4. Owners' /\ Walks'
  BY <1>1 DEF Owners, Walks
<1>5. CASE BufLeave(s, i)
  <2> DEFINE gone == {d \in session[s].dests : dest[d].expired}
  <2>1. Discard(s, gone) /\ gone \subseteq session[s].dests /\ UNCHANGED crash
    BY <1>5 DEF BufLeave
  <2>2. /\ session' \in [SessionIds -> SessionRecord] /\ dest' \in [Dests -> DestRecord]
        /\ \A t \in SessionIds : Same(t)
        /\ \A d \in Dests : d \notin gone => dest'[d] = dest[d]
        /\ \A d \in Dests : dest'[d].kind = dest[d].kind /\ dest'[d].open = dest[d].open
    BY <2>1, Discarding
  <2>3. Typed'
    BY <1>1, <1>3, <2>1, <2>2 DEF Typed
  <2>4. Listed'
    BY <1>1, <2>2, ListFacts, ListedStays
  <2>5. Building'
    BY <1>1, <2>2 DEF Building, Builds, Same
  <2>6. Destined'
    BY <1>1, <2>1, DiscardKeeps
  <2>7. Read'
    <3>1. \A d \in Dests : ~dest[d].expired => dest'[d] = dest[d]
      BY <2>2
    <3> QED
      BY <1>1, <2>2, <3>1 DEF Read, Destined
  <2> QED
    BY <1>4, <2>3, <2>4, <2>5, <2>6, <2>7
<1>6. CASE BufCheck(s, i) \/ BufCopy(s, i) \/ BufEnter(s, i)
  <2>1. UNCHANGED <<session, dest>> /\ crash' \in {"noList", crash}
    BY <1>6 DEF BufCheck, BufCopy, BufEnter
  <2>2. Typed'
    BY <1>1, <1>3, <2>1 DEF Typed
  <2>3. Listed'
    BY <1>1, <2>1, ListedStays DEF Same
  <2>4. Building' /\ Read'
    BY <1>1, <2>1 DEF Building, Builds, Read
  <2>5. Destined'
    BY <1>1, <2>1 DEF Destined, ListedDestsAreAllocated, Carries
  <2> QED
    BY <1>4, <2>2, <2>3, <2>4, <2>5
<1> QED
  BY <1>5, <1>6 DEF BufStep

\* The sessions change, the destinations and their places do not.
LEMMA DestinedStays ==
    ASSUME Destined, \A s \in SessionIds : session'[s].dests = session[s].dests,
           UNCHANGED <<dest, client>>
    PROVE  Destined'
<1>1. ListedDestsAreAllocated'
  BY DEF Destined, ListedDestsAreAllocated
<1> QED
  BY <1>1 DEF Destined, Carries

LEMMA ReaperInv ==
    ASSUME IInv, ReaperStep
    PROVE  IInv'
<1> USE DEF IInv
<1>1. UNCHANGED <<dest, buf, client, stop, crash>>
  BY DEF ReaperStep, ReaperWake, ReaperLook, ReaperStop, ReaperDestroy, ReaperFree, ReaperUnchanged
<1>2. Read' /\ Len(sessions) \in Nat
  BY <1>1, ListFacts DEF Read
<1>3. CASE ReaperWake
  <2>1. /\ reaper.pc = "sleep" /\ sessionsLock = Nobody /\ sessionsLock' = Reaper
        /\ reaper' = [pc |-> "look", walk |-> 1] /\ UNCHANGED <<sessions, session>>
    BY <1>3 DEF ReaperWake
  <2>2. Typed'
    BY <1>1, <2>1 DEF Typed, ReaperPcs
  <2>3. Owners'
    BY <1>1, <2>1, ActorsAssumption DEF Owners
  <2>4. Walks'
    BY <1>1, <1>2, <2>1 DEF Walks
  <2>5. Listed'
    BY <1>1, <2>1 DEF Listed, ReaperAt
  <2>6. Building' /\ Destined'
    BY <1>1, <2>1, DestinedStays DEF Building, Builds
  <2> QED
    BY <1>2, <2>2, <2>3, <2>4, <2>5, <2>6
<1>4. CASE ReaperLook
  <2>1. /\ reaper.pc = "look" /\ sessionsLock = Reaper /\ reaper.walk \in 1 .. Len(sessions) + 1
        /\ UNCHANGED <<sessions, session>>
    BY <1>4 DEF ReaperLook, Owners, Walks
  <2>2. \/ /\ reaper' \in {[pc |-> "stop", walk |-> reaper.walk], [pc |-> "look", walk |-> reaper.walk + 1]}
           /\ reaper.walk <= Len(sessions) /\ UNCHANGED sessionsLock
        \/ reaper' = [pc |-> "sleep", walk |-> 0] /\ sessionsLock' = Nobody
    BY <1>4 DEF ReaperLook
  <2>3. Typed'
    BY <1>1, <1>2, <2>1, <2>2 DEF Typed, ReaperPcs
  <2>4. Owners'
    BY <1>1, <2>1, <2>2, ActorsAssumption DEF Owners
  <2>5. Walks'
    BY <1>1, <1>2, <2>1, <2>2 DEF Walks
  <2>6. Listed'
    BY <1>1, <2>1, <2>2 DEF Listed, ReaperAt
  <2>7. Building' /\ Destined'
    BY <1>1, <2>1, DestinedStays DEF Building, Builds
  <2> QED
    BY <1>2, <2>3, <2>4, <2>5, <2>6, <2>7
<1>5. CASE ReaperStop \/ ReaperDestroy \/ ReaperFree
  <2> DEFINE k == reaper.walk
  <2> DEFINE s == sessions[k]
  <2>1. /\ reaper.pc \in {"stop", "destroy", "free"} /\ sessionsLock = Reaper
        /\ k \in 1 .. Len(sessions) /\ s \in SessionIds /\ UNCHANGED sessionsLock
        /\ \A i \in 1 .. Len(sessions) : sessions[i] = s => i = k
        /\ \A c \in Clients : Builds(c) => client[c].sess # s
    <3>1. reaper.pc \in {"stop", "destroy", "free"} /\ UNCHANGED sessionsLock
      BY <1>5 DEF ReaperStop, ReaperDestroy, ReaperFree
    <3>2. sessionsLock = Reaper /\ k \in 1 .. Len(sessions)
      BY <3>1 DEF Owners, Walks
    <3> QED
      BY <3>1, <3>2, ListFacts DEF Listed, IsInjective, Building
  <2>2. stop.pc \notin {"state", "free"} /\ \A c \in Clients : client[c].pc # "closing"
    BY <2>1, ActorsAssumption DEF Owners
  <2>3. CASE ReaperStop
    <3>1. /\ reaper.pc = "stop" /\ reaper' = [pc |-> "destroy", walk |-> k] /\ UNCHANGED sessions
          /\ session' = [session EXCEPT ![s].state = 0]
      BY <2>3 DEF ReaperStop, Typed
    <3> HIDE DEF s
    <3>2. /\ session' \in [SessionIds -> SessionRecord]
          /\ \A t \in SessionIds :
                /\ session'[t].mem = session[t].mem /\ session'[t].list = session[t].list
                /\ t # s => session'[t].state = session[t].state
                /\ session'[t].dests = session[t].dests
      BY <2>1, <3>1, GivingUp
    <3>3. Typed'
      BY <1>1, <2>1, <3>1, <3>2 DEF Typed, ReaperPcs
    <3>4. Owners' /\ Walks'
      BY <1>1, <2>1, <3>1 DEF Owners, Walks
    <3>5. Listed'
      BY <1>1, <2>1, <3>1, <3>2, ListFacts DEF Listed, ReaperAt
    <3>6. Building'
      BY <1>1, <2>1, <3>1, <3>2 DEF Building, Builds
    <3>7. Destined'
      BY <1>1, <3>2, DestinedStays
    <3> QED
      BY <1>2, <3>3, <3>4, <3>5, <3>6, <3>7
  <2>4. CASE ReaperDestroy
    <3>1. /\ reaper.pc = "destroy" /\ reaper' = [pc |-> "free", walk |-> k] /\ UNCHANGED sessions
          /\ DestroyList(s)
      BY <2>4 DEF ReaperDestroy, Typed
    <3> HIDE DEF s
    <3>2. /\ session' \in [SessionIds -> SessionRecord]
          /\ \A t \in SessionIds :
                /\ session'[t].mem = session[t].mem /\ session'[t].state = session[t].state
                /\ t # s => session'[t].list = session[t].list
                /\ session'[t].dests = session[t].dests
      BY <2>1, <3>1, Destroying
    <3>3. Typed'
      BY <1>1, <2>1, <3>1, <3>2 DEF Typed, ReaperPcs
    <3>4. Owners' /\ Walks'
      BY <1>1, <2>1, <3>1 DEF Owners, Walks
    <3>5. Listed'
      BY <1>1, <2>1, <3>1, <3>2, ListFacts DEF Listed, ReaperAt
    <3>6. Building'
      BY <1>1, <2>1, <3>1, <3>2 DEF Building, Builds
    <3>7. Destined'
      BY <1>1, <3>2, DestinedStays
    <3> QED
      BY <1>2, <3>3, <3>4, <3>5, <3>6, <3>7
  <2>5. CASE ReaperFree
    <3>1. /\ reaper.pc = "free" /\ reaper' = [pc |-> "look", walk |-> k]
          /\ session' = [session EXCEPT ![s].mem = "free"] /\ sessions' = RemoveAt(sessions, k)
      BY <2>5 DEF ReaperFree, Typed
    <3>2. /\ sessions' \in Seq(SessionIds) /\ Len(sessions') = Len(sessions) - 1
          /\ IsInjective(sessions')
          /\ \A i \in 1 .. Len(sessions') :
                /\ sessions'[i] # s
                /\ \E j \in 1 .. Len(sessions) : sessions'[i] = sessions[j]
      BY <2>1, <3>1, Shrinking DEF Listed
    <3> HIDE DEF s
    <3>3. /\ session' \in [SessionIds -> SessionRecord]
          /\ \A t \in SessionIds :
                /\ t # s => session'[t] = session[t]
                /\ session'[t].dests = session[t].dests
      BY <2>1, <3>1, GivingUp
    <3>4. Typed'
      BY <1>1, <2>1, <3>1, <3>2, <3>3 DEF Typed, ReaperPcs
    <3>5. Owners' /\ Walks'
      BY <1>1, <1>2, <2>1, <2>2, <3>1, <3>2 DEF Owners, Walks
    <3>6. Listed'
      <4>1. ASSUME NEW i \in 1 .. Len(sessions')
            PROVE  /\ session'[sessions'[i]].mem = "allocated" /\ session'[sessions'[i]].state = 1
                   /\ session'[sessions'[i]].list = "list"
        <5>1. PICK j \in 1 .. Len(sessions) : sessions'[i] = sessions[j] /\ sessions[j] # s
          BY <3>2
        <5>2. j # k /\ sessions[j] \in SessionIds
          BY <5>1, ListFacts DEF s
        <5> QED
          BY <2>1, <2>2, <3>3, <5>1, <5>2 DEF Listed, ReaperAt
      <4> QED
        BY <3>2, <4>1 DEF Listed
    <3>7. Building'
      BY <1>1, <2>1, <3>2, <3>3 DEF Building, Builds
    <3>8. Destined'
      BY <1>1, <3>3, DestinedStays
    <3> QED
      BY <1>2, <3>4, <3>5, <3>6, <3>7, <3>8
  <2> QED
    BY <1>5, <2>3, <2>4, <2>5
<1> QED
  BY <1>3, <1>4, <1>5 DEF ReaperStep

LEMMA StopSessionInv ==
    ASSUME IInv, NEW s \in SessionIds, StopSession(s)
    PROVE  IInv'
<1> USE DEF IInv
<1>1. /\ Stops /\ stop.pc = "idle" /\ (Telnet \in Clients => client[Telnet].pc = "idle")
      /\ sessionsLock = Nobody /\ sessionsLock' = Telnet /\ stop' = [pc |-> "state", sess |-> s]
      /\ UNCHANGED <<sessions, session, dest, buf, client, reaper, crash>>
      /\ \E i \in 1 .. Len(sessions) : sessions[i] = s
  BY ListFacts DEF StopSession, StopUnchanged
<1>2. Typed'
  BY <1>1 DEF Typed, StopPcs
<1>3. Owners'
  BY <1>1, ActorsAssumption DEF Owners
<1>4. Walks'
  BY <1>1 DEF Walks
<1>5. Listed'
  BY <1>1 DEF Listed, ReaperAt
<1>6. Building'
  BY <1>1 DEF Building, Builds
<1>7. Destined' /\ Read'
  BY <1>1, DestinedStays DEF Read
<1> QED
  BY <1>2, <1>3, <1>4, <1>5, <1>6, <1>7

LEMMA StopInv ==
    ASSUME IInv, StopStep
    PROVE  IInv'
<1> USE DEF IInv
<1> DEFINE s == stop.sess
<1>1. UNCHANGED <<buf, client, reaper, crash>>
  BY DEF StopStep, StopState, StopFree, StopCloseAll, StopDestroy, StopUnchanged
<1>2. stop.pc # "idle" /\ s \in SessionIds /\ Stops
  BY DEF StopStep, StopState, StopFree, StopCloseAll, StopDestroy, Walks, Owners
<1>3. Read'
  BY <1>2 DEF Read
<1>4. \A c \in Clients : Builds(c) => client[c].sess # s
  BY DEF Building
<1>5. CASE StopState \/ StopFree
  <2>1. /\ sessionsLock = Telnet /\ reaper.pc = "sleep" /\ reaper.walk = 0
        /\ \A c \in Clients : client[c].pc # "closing"
    <3>1. stop.pc \in {"state", "free"}
      BY <1>5 DEF StopState, StopFree
    <3>2. sessionsLock = Telnet /\ reaper.pc = "sleep"
      BY <3>1, ActorsAssumption DEF Owners
    <3>3. \A c \in Clients : client[c].pc # "closing"
      BY <1>2, <3>2 DEF Owners
    <3> QED
      BY <3>2, <3>3 DEF Walks
  <2>2. CASE StopState
    <3>1. /\ stop.pc = "state" /\ stop' = [pc |-> "free", sess |-> s]
          /\ session' = [session EXCEPT ![s].state = 0] /\ UNCHANGED <<sessions, sessionsLock, dest>>
      BY <2>2 DEF StopState, Typed
    <3>2. /\ session' \in [SessionIds -> SessionRecord]
          /\ \A t \in SessionIds :
                /\ session'[t].mem = session[t].mem /\ session'[t].list = session[t].list
                /\ t # s => session'[t].state = session[t].state
                /\ session'[t].dests = session[t].dests
      BY <1>2, <3>1, GivingUp
    <3>3. Typed'
      BY <1>1, <1>2, <3>1, <3>2 DEF Typed, StopPcs
    <3>4. Owners' /\ Walks'
      BY <1>1, <3>1 DEF Owners, Walks
    <3>5. Listed'
      BY <1>1, <2>1, <3>1, <3>2, ListFacts DEF Listed, ReaperAt
    <3>6. Building'
      BY <1>1, <1>4, <3>1, <3>2 DEF Building, Builds
    <3>7. Destined'
      BY <1>1, <3>1, <3>2, DestinedStays
    <3> QED
      BY <1>3, <3>3, <3>4, <3>5, <3>6, <3>7
  <2>3. CASE StopFree
    <3>1. /\ stop.pc = "free" /\ stop' = [pc |-> "closeAll", sess |-> s]
          /\ session' = [session EXCEPT ![s].mem = "free"] /\ sessionsLock' = Nobody
          /\ UNCHANGED dest
      BY <2>3 DEF StopFree, Typed
    <3>2. PICK k \in 1 .. Len(sessions) : sessions[k] = s /\ sessions' = RemoveAt(sessions, k)
      BY <2>3 DEF StopFree
    <3>3. /\ sessions' \in Seq(SessionIds) /\ Len(sessions') = Len(sessions) - 1
          /\ IsInjective(sessions')
          /\ \A i \in 1 .. Len(sessions') :
                /\ sessions'[i] # s
                /\ \E j \in 1 .. Len(sessions) : sessions'[i] = sessions[j]
      BY <3>2, Shrinking DEF Listed
    <3>4. /\ session' \in [SessionIds -> SessionRecord]
          /\ \A t \in SessionIds :
                /\ t # s => session'[t] = session[t]
                /\ session'[t].dests = session[t].dests
      BY <1>2, <3>1, GivingUp
    <3>5. Typed'
      BY <1>1, <1>2, <3>1, <3>3, <3>4 DEF Typed, StopPcs
    <3>6. Owners'
      BY <1>1, <1>2, <2>1, <3>1 DEF Owners
    <3>7. Walks'
      BY <1>1, <1>2, <2>1, <3>1, <3>3 DEF Walks
    <3>8. Listed'
      <4>1. ASSUME NEW i \in 1 .. Len(sessions')
            PROVE  /\ session'[sessions'[i]].mem = "allocated" /\ session'[sessions'[i]].state = 1
                   /\ session'[sessions'[i]].list = "list"
        <5>1. PICK j \in 1 .. Len(sessions) : sessions'[i] = sessions[j] /\ sessions[j] # s
          BY <3>3
        <5>2. sessions[j] \in SessionIds
          BY <5>1, ListFacts
        <5> QED
          BY <2>1, <3>4, <5>1, <5>2 DEF Listed, ReaperAt
      <4> QED
        BY <3>3, <4>1 DEF Listed
    <3>9. Building'
      BY <1>1, <1>4, <3>1, <3>3, <3>4 DEF Building, Builds
    <3>10. Destined'
      BY <1>1, <3>1, <3>4, DestinedStays
    <3> QED
      BY <1>3, <3>5, <3>6, <3>7, <3>8, <3>9, <3>10
  <2> QED
    BY <1>5, <2>2, <2>3
<1>6. CASE StopCloseAll \/ StopDestroy
  <2>1. /\ stop.pc \in {"closeAll", "destroy"} /\ UNCHANGED <<sessions, sessionsLock>>
        /\ \A i \in 1 .. Len(sessions) : sessions[i] # s /\ sessions[i] \in SessionIds
    BY <1>6, ListFacts DEF StopCloseAll, StopDestroy, Walks
  <2>2. /\ \/ stop' = [pc |-> "destroy", sess |-> s]
           \/ stop' = IdleStop
        /\ stop' \in [pc : StopPcs, sess : SessionIds \cup {NoSession}]
    BY <1>2, <1>6 DEF StopCloseAll, StopDestroy, Typed, StopPcs, IdleStop
  <2>3. Owners' /\ Walks'
    BY <1>1, <1>2, <2>1, <2>2 DEF Owners, Walks, IdleStop
  <2>4. ASSUME session' \in [SessionIds -> SessionRecord],
               \A t \in SessionIds :
                  /\ session'[t].mem = session[t].mem /\ session'[t].state = session[t].state
                  /\ t # s => session'[t].list = session[t].list
        PROVE  Listed' /\ Building'
    <3>1. Listed'
      BY <1>1, <2>1, <2>4 DEF Listed, ReaperAt
    <3>2. \A c \in Clients : Builds(c) => stop'.sess # client[c].sess
      BY <1>4, <2>2, ActorsAssumption DEF IdleStop, Building, Builds
    <3>3. Building'
      BY <1>1, <1>4, <2>1, <2>4, <3>2 DEF Building, Builds
    <3> QED
      BY <3>1, <3>3
  <2>5. CASE StopCloseAll
    <3>1. Discard(s, session[s].dests)
      BY <2>5 DEF StopCloseAll
    <3>2. /\ session' \in [SessionIds -> SessionRecord] /\ dest' \in [Dests -> DestRecord]
          /\ \A t \in SessionIds : Same(t)
      BY <1>2, <3>1, Discarding
    <3>3. Typed'
      BY <1>1, <2>1, <2>2, <3>2 DEF Typed
    <3>4. Listed' /\ Building'
      BY <2>4, <3>2 DEF Same
    <3>5. Destined'
      BY <1>1, <1>2, <3>1, DiscardKeeps
    <3> QED
      BY <1>3, <2>3, <3>3, <3>4, <3>5
  <2>6. CASE StopDestroy
    <3>1. DestroyList(s) /\ UNCHANGED dest
      BY <2>6 DEF StopDestroy
    <3>2. /\ session' \in [SessionIds -> SessionRecord]
          /\ \A t \in SessionIds :
                /\ session'[t].mem = session[t].mem /\ session'[t].state = session[t].state
                /\ t # s => session'[t].list = session[t].list
                /\ session'[t].dests = session[t].dests
      BY <1>2, <3>1, Destroying
    <3>3. Typed'
      BY <1>1, <2>1, <2>2, <3>1, <3>2 DEF Typed
    <3>4. Listed' /\ Building'
      BY <2>4, <3>2
    <3>5. Destined'
      BY <1>1, <3>1, <3>2, DestinedStays
    <3> QED
      BY <1>3, <2>3, <3>3, <3>4, <3>5
  <2> QED
    BY <1>6, <2>5, <2>6
<1> QED
  BY <1>5, <1>6 DEF StopStep

LEMMA StutterInv ==
    ASSUME IInv, UNCHANGED vars \/ StartSession
    PROVE  IInv'
<1> USE DEF IInv
<1>1. /\ UNCHANGED <<sessions, sessionsLock, session, dest, buf, client, reaper, stop>>
      /\ crash' \in {crash, "noDestination"}
  BY DEF vars, StartSession
<1>2. Typed' /\ Owners' /\ Walks'
  BY <1>1 DEF Typed, Owners, Walks
<1>3. Listed' /\ Building' /\ Read'
  BY <1>1 DEF Listed, ReaperAt, Building, Builds, Read
<1>4. Destined'
  BY <1>1, DestinedStays
<1> QED
  BY <1>2, <1>3, <1>4

LEMMA InvStep == IInv /\ [Next]_vars => IInv'
<1> SUFFICES ASSUME IInv, [Next]_vars PROVE IInv'
  OBVIOUS
<1>1. CASE \E c \in Clients : AddNew(c) \/ ClientStep(c)
  BY <1>1, ClientInv
<1>2. CASE \E d \in Dests : HttpEnd(d)
  BY <1>2, HttpEndInv
<1>3. CASE \E s \in SessionIds, i \in 1 .. 2 : BufStep(s, i)
  BY <1>3, BufInv
<1>4. CASE ReaperStep
  BY <1>4, ReaperInv
<1>5. CASE \E s \in SessionIds : StopSession(s)
  BY <1>5, StopSessionInv
<1>6. CASE StopStep
  BY <1>6, StopInv
<1>7. CASE UNCHANGED vars \/ StartSession
  BY <1>7, StutterInv
<1> QED
  BY <1>1, <1>2, <1>3, <1>4, <1>5, <1>6, <1>7 DEF Next

-----------------------------------------------------------------------------
(* The theorems.                                                           *)

\* The list of sessions, the locks, the calls under way and the places of the
\* destinations fit together in every state (session.c, destination.c).
THEOREM Inductive == Spec => []IInv
BY InitInv, InvStep, PTL DEF Spec

\* Every variable has its type: no walk leaves the list, no session is in it twice.
THEOREM TypeCorrect == Spec => []TypeOK
<1>1. IInv => TypeOK
  <2> SUFFICES ASSUME IInv PROVE TypeOK
    OBVIOUS
  <2> USE DEF IInv
  <2>1. Len(sessions) \in Nat
    BY ListFacts
  <2>2. reaper.walk \in 0 .. Len(sessions) + 1
    BY <2>1 DEF Walks, Typed, ReaperPcs
  <2>3. \A c \in Clients :
           /\ client[c].pc \in ClientPcs
           /\ client[c].walk \in 0 .. Len(sessions) + 1
           /\ client[c].pc \in {"build", "append", "start", "join"} => client[c].sess \in SessionIds
    BY <2>1 DEF Walks, Typed, ClientRecord, Building
  <2>4. \A s \in SessionIds, i \in 1 .. 2 : buf[s][i] \in BufPcs
    BY DEF Typed
  <2>5. /\ sessions \in Seq(SessionIds) /\ IsInjective(sessions)
        /\ sessionsLock \in Clients \cup {Telnet, Reaper, Nobody}
        /\ session \in [SessionIds -> SessionRecord] /\ dest \in [Dests -> DestRecord]
        /\ reaper.pc \in ReaperPcs /\ stop.pc \in StopPcs
        /\ crash \in {"none", "noDestination", "noList"}
    BY DEF Typed, Listed
  <2> QED
    BY <2>2, <2>3, <2>4, <2>5 DEF TypeOK, ClientPcs, ReaperPcs, StopPcs, BufPcs
<1> QED
  BY <1>1, Inductive, PTL

\* Who takes the lock of the sessions finds only whole, running sessions: a
\* teardown unlinks a session before it gives the lock back (session.c:313, :672).
THEOREM ListsHoldTheLiving == Spec => []ListedAreLive
<1>1. IInv => ListedAreLive
  <2> SUFFICES ASSUME IInv, sessionsLock = Nobody,
                      NEW s \in Range(sessions)
               PROVE  session[s].mem = "allocated" /\ session[s].state = 1 /\ session[s].list = "list"
    BY DEF ListedAreLive
  <2> USE DEF IInv
  <2>1. PICK i \in 1 .. Len(sessions) : s = sessions[i]
    BY ListFacts
  <2>2. reaper.pc = "sleep" /\ stop.pc \notin {"state", "free"}
    BY ActorsAssumption DEF Owners
  <2> QED
    BY <2>1, <2>2 DEF Listed, ReaperAt
<1> QED
  BY <1>1, Inductive, PTL

\* A destination is in one list at most and allocated while it is in one: none
\* is served after it is freed, or freed twice (destination.c:88, :326, :376).
THEOREM DestinationsAreAllocated == Spec => []ListedDestsAreAllocated
BY Inductive, PTL DEF IInv, Destined

\* Without session.stop the destination of a web client is never freed while its
\* connection reads it (webserv.c:39).
THEOREM ReadersAreSafe == Spec => []HttpDestSurvives
<1>1. IInv => HttpDestSurvives
  BY DEF IInv, Read, HttpDestSurvives
<1> QED
  BY <1>1, Inductive, PTL

-----------------------------------------------------------------------------
(* One live destination, with one client w that brings live ones.           *)

LiveDests(s) == {d \in session[s].dests : dest[d].kind = "live"}
NoneLive == \A i \in 1 .. Len(sessions) : LiveDests(sessions[i]) = {}

OneLive ==
    \A i, j \in 1 .. Len(sessions) :
        \A d \in LiveDests(sessions[i]), e \in LiveDests(sessions[j]) : d = e

\* From the end of session_stop_type until its session is listed, or joined, w's
\* destination is the only live one; during the walk none is behind it.
TurnedOut(w) ==
    /\ client[w].pc = "closing" =>
          \A i \in 1 .. Len(sessions) : i < client[w].walk => LiveDests(sessions[i]) = {}
    /\ client[w].pc \in {"lookup", "create", "build", "append", "join"} =>
          (dest[client[w].dest].kind = "live" => NoneLive)

\* Nobody but w has a live destination, and none comes by an unfinished session.
Apart(w) ==
    /\ \A c \in Clients \ {w} : client[c].pc # "idle" => dest[client[c].dest].kind # "live"
    /\ \A c \in Clients : client[c].pc = "append" => LiveDests(client[c].sess) \subseteq {client[c].dest}
    /\ \A c, e \in Clients : Builds(e) /\ c # e => client[c].sess # client[e].sess

Alone(w) == OneLive /\ TurnedOut(w) /\ Apart(w)

OnlyBringer(w) == \A c \in Clients \ {w} : "live" \notin Kinds(c)

-----------------------------------------------------------------------------
(* One such client, and the live destinations.                              *)

\* What the lists of destinations have lost is no live destination more.
LEMMA LessLive ==
    ASSUME IInv, \A s \in SessionIds : session'[s].dests \subseteq session[s].dests,
           \A d \in Dests : dest'[d].kind = dest[d].kind
    PROVE  \A s \in SessionIds : LiveDests(s)' \subseteq LiveDests(s)
<1>1. \A s \in SessionIds : session[s].dests \subseteq Dests
  BY DEF IInv, Typed, SessionRecord
<1> QED
  BY <1>1 DEF LiveDests

LEMMA FewerLive ==
    ASSUME \A i \in 1 .. Len(sessions') : \E j \in 1 .. Len(sessions) :
              LiveDests(sessions[i])' \subseteq LiveDests(sessions[j])
    PROVE  (OneLive => OneLive') /\ (NoneLive => NoneLive')
<1>1. ASSUME OneLive PROVE OneLive'
  BY <1>1 DEF OneLive
<1>2. ASSUME NoneLive PROVE NoneLive'
  BY <1>2 DEF NoneLive
<1> QED
  BY <1>1, <1>2

\* The list of sessions stays, or the teardown takes one out of it.
LEMMA SameOrShorter ==
    ASSUME IInv, sessions' = sessions \/ \E k \in 1 .. Len(sessions) : sessions' = RemoveAt(sessions, k),
           \A t \in SessionIds : (\E i \in 1 .. Len(sessions) : sessions[i] = t) =>
              LiveDests(t)' \subseteq LiveDests(t)
    PROVE  (OneLive => OneLive') /\ (NoneLive => NoneLive')
<1>1. \A i \in 1 .. Len(sessions) : sessions[i] \in SessionIds
  BY ListFacts DEF IInv
<1>2. ASSUME NEW i \in 1 .. Len(sessions')
      PROVE  \E j \in 1 .. Len(sessions) : sessions'[i] = sessions[j]
  <2>1. CASE sessions' = sessions
    BY <2>1
  <2>2. ASSUME NEW k \in 1 .. Len(sessions), sessions' = RemoveAt(sessions, k)
        PROVE  \E j \in 1 .. Len(sessions) : sessions'[i] = sessions[j]
    <3>1. Len(sessions) \in Nat /\ sessions \in Seq(SessionIds)
      BY ListFacts DEF IInv, Typed
    <3>2. /\ Len(sessions') = Len(sessions) - 1
          /\ \A j \in 1 .. Len(sessions) - 1 :
                sessions'[j] = IF j < k THEN sessions[j] ELSE sessions[j + 1]
      BY <2>2, <3>1, Removed
    <3>3. i \in 1 .. Len(sessions) - 1 /\ sessions'[i] = IF i < k THEN sessions[i] ELSE sessions[i + 1]
      BY <3>2
    <3>4. i \in 1 .. Len(sessions) /\ i + 1 \in 1 .. Len(sessions)
      BY <3>1, <3>3
    <3> QED
      BY <3>3, <3>4
  <2> QED
    BY <2>1, <2>2
<1>3. ASSUME NEW i \in 1 .. Len(sessions')
      PROVE  \E j \in 1 .. Len(sessions) : LiveDests(sessions[i])' \subseteq LiveDests(sessions[j])
  <2>1. PICK j \in 1 .. Len(sessions) : sessions'[i] = sessions[j]
    BY <1>2
  <2>2. PICK t \in SessionIds : t = sessions[j]
    BY <1>1
  <2>3. LiveDests(t)' \subseteq LiveDests(t)
    BY <2>2
  <2>4. LiveDests(sessions[i])' \subseteq LiveDests(sessions[j])
    BY <2>1, <2>2, <2>3 DEF LiveDests
  <2> QED
    BY <2>4
<1> QED
  BY <1>3, FewerLive

\* w stands where it stood, and nothing live has come into the list.
LEMMA StillTurnedOut ==
    ASSUME IInv, NEW w \in Clients, TurnedOut(w), client'[w] = client[w], NoneLive => NoneLive',
           client[w].pc # "idle" => dest'[client[w].dest].kind = dest[client[w].dest].kind,
           client[w].pc = "closing" =>
              /\ sessions' = sessions
              /\ \A t \in SessionIds : (\E i \in 1 .. Len(sessions) : sessions[i] = t) =>
                    LiveDests(t)' \subseteq LiveDests(t)
    PROVE  TurnedOut(w)'
<1>1. ASSUME client[w].pc = "closing", NEW i \in 1 .. Len(sessions), i < client[w].walk
      PROVE  LiveDests(sessions[i])' = {}
  <2>1. PICK t \in SessionIds : t = sessions[i]
    BY ListFacts DEF IInv
  <2>2. LiveDests(t) = {} /\ LiveDests(t)' \subseteq LiveDests(t) /\ sessions' = sessions
    BY <1>1, <2>1 DEF TurnedOut
  <2>3. LiveDests(t)' = {}
    BY <2>2
  <2> QED
    BY <2>1, <2>2, <2>3 DEF LiveDests
<1>2. client'[w].pc = "closing" =>
         \A i \in 1 .. Len(sessions') : i < client'[w].walk => LiveDests(sessions[i])' = {}
  BY <1>1
<1>3. client'[w].pc \in {"lookup", "create", "build", "append", "join"} =>
         (dest'[client'[w].dest].kind = "live" => NoneLive')
  BY DEF TurnedOut
<1> QED
  BY <1>2, <1>3 DEF TurnedOut

\* One client moves on.
LEMMA StillApart ==
    ASSUME IInv, NEW w \in Clients, NEW c \in Clients, Apart(w),
           \A e \in Clients : e # c => client'[e] = client[e],
           \A e \in Clients : e # c /\ client[e].pc # "idle" =>
              dest'[client[e].dest].kind = dest[client[e].dest].kind,
           \A e \in Clients, t \in SessionIds : e # c /\ client[e].pc = "append" /\ t = client[e].sess =>
              LiveDests(t)' \subseteq LiveDests(t),
           c # w /\ client'[c].pc # "idle" => dest'[client'[c].dest].kind # "live",
           client'[c].pc = "append" => LiveDests(client[c].sess)' \subseteq {client'[c].dest},
           \A e \in Clients : e # c /\ (Builds(e) \/ Builds(c)') => client'[c].sess # client[e].sess
    PROVE  Apart(w)'
<1>1. \A e \in Clients \ {w} : client'[e].pc # "idle" => dest'[client'[e].dest].kind # "live"
  BY DEF Apart
<1>2. ASSUME NEW e \in Clients, client'[e].pc = "append"
      PROVE  LiveDests(client[e].sess)' \subseteq {client'[e].dest}
  <2>1. CASE e = c
    BY <1>2, <2>1
  <2>2. CASE e # c
    <3>1. client'[e] = client[e] /\ client[e].pc = "append" /\ client[e].sess \in SessionIds
      BY <1>2, <2>2 DEF IInv, Building
    <3>2. PICK t \in SessionIds : t = client[e].sess
      BY <3>1
    <3>3. LiveDests(t)' \subseteq LiveDests(t) /\ LiveDests(t) \subseteq {client[e].dest}
      BY <2>2, <3>1, <3>2 DEF Apart
    <3> QED
      BY <3>1, <3>2, <3>3 DEF LiveDests
  <2> QED
    BY <2>1, <2>2
<1>3. ASSUME NEW e \in Clients, NEW f \in Clients, Builds(f)', e # f
      PROVE  client'[e].sess # client'[f].sess
  <2>1. f # c => Builds(f)
    BY <1>3 DEF Builds
  <2> QED
    BY <1>3, <2>1 DEF Apart
<1> QED
  BY <1>1, <1>2, <1>3 DEF Apart

\* Session_addNew does not run, and at most the teardown of another thread
\* takes a session out of the list.
LEMMA QuietAlone ==
    ASSUME IInv, NEW w \in Clients, Alone(w), client' = client,
           \A s \in SessionIds : session'[s].dests \subseteq session[s].dests,
           \A d \in Dests : dest'[d].kind = dest[d].kind,
           \/ sessions' = sessions
           \/ client[w].pc # "closing" /\ \E k \in 1 .. Len(sessions) : sessions' = RemoveAt(sessions, k)
    PROVE  Alone(w)'
<1>1. \A t \in SessionIds : LiveDests(t)' \subseteq LiveDests(t)
  BY LessLive
<1>2. OneLive' /\ (NoneLive => NoneLive')
  BY <1>1, SameOrShorter DEF Alone
<1>3. \A e \in Clients : client[e].pc # "idle" => dest'[client[e].dest].kind = dest[client[e].dest].kind
  BY DEF IInv, Destined
<1>4. TurnedOut(w)'
  BY <1>1, <1>2, <1>3, StillTurnedOut DEF Alone
<1>5. Apart(w)'
  <2>1. client'[w].pc = "append" => LiveDests(client[w].sess)' \subseteq {client'[w].dest}
    <3> SUFFICES ASSUME client[w].pc = "append" PROVE LiveDests(client[w].sess)' \subseteq {client[w].dest}
      OBVIOUS
    <3>1. PICK t \in SessionIds : t = client[w].sess
      BY DEF IInv, Building
    <3>2. LiveDests(t)' \subseteq LiveDests(t) /\ LiveDests(t) \subseteq {client[w].dest}
      BY <1>1, <3>1 DEF Alone, Apart
    <3> QED
      BY <3>1, <3>2 DEF LiveDests
  <2>2. \A e \in Clients : e # w /\ (Builds(e) \/ Builds(w)') => client'[w].sess # client[e].sess
    BY DEF Alone, Apart, Builds
  <2> QED
    BY <1>1, <1>3, <2>1, <2>2, StillApart DEF Alone
<1> QED
  BY <1>2, <1>4, <1>5 DEF Alone

\* A step of session_addNew that leaves the list of sessions as it is, and fills
\* no list of destinations but that of x, a session c is building.
LEMMA ClientKeeps ==
    ASSUME IInv, NEW w \in Clients, NEW c \in Clients, Alone(w), sessions' = sessions,
           \A e \in Clients : e # c => client'[e] = client[e],
           \A d \in Dests : dest'[d].kind = dest[d].kind,
           NEW x \in SessionIds \cup {NoSession},
           \A t \in SessionIds : t # x => LiveDests(t)' \subseteq LiveDests(t),
           \A i \in 1 .. Len(sessions) : sessions[i] # x,
           \A e \in Clients : e # c /\ client[e].pc = "append" => client[e].sess # x,
           client'[c].pc # "idle" => client'[c].dest = client[c].dest /\ client[c].pc # "idle",
           client'[c].pc = "append" => LiveDests(client[c].sess)' \subseteq {client'[c].dest},
           \A e \in Clients : e # c /\ (Builds(e) \/ Builds(c)') => client'[c].sess # client[e].sess,
           c = w /\ (NoneLive => NoneLive') => TurnedOut(w)'
    PROVE  Alone(w)'
<1>1. \A t \in SessionIds : (\E i \in 1 .. Len(sessions) : sessions[i] = t) =>
         LiveDests(t)' \subseteq LiveDests(t)
  OBVIOUS
<1>2. OneLive' /\ (NoneLive => NoneLive')
  BY <1>1, SameOrShorter DEF Alone
<1>3. \A e \in Clients : client[e].pc # "idle" => dest'[client[e].dest].kind = dest[client[e].dest].kind
  BY DEF IInv, Destined
<1>4. TurnedOut(w)'
  BY <1>1, <1>2, <1>3, StillTurnedOut DEF Alone
<1>5. Apart(w)'
  <2>1. c # w /\ client'[c].pc # "idle" => dest'[client'[c].dest].kind # "live"
    BY <1>3 DEF Alone, Apart
  <2> QED
    BY <1>3, <2>1, StillApart DEF Alone
<1> QED
  BY <1>2, <1>4, <1>5 DEF Alone

LEMMA AddNewAlone ==
    ASSUME IInv, NEW w \in Clients, OnlyBringer(w), Alone(w), NEW c \in Clients, AddNew(c)
    PROVE  Alone(w)'
<1>1. PICK ch \in Channels, k \in Kinds(c), d \in Dests :
         /\ CanAllocDest(d)
         /\ dest' = [dest EXCEPT ![d] = [mem |-> "allocated", kind |-> k,
                                         expired |-> FALSE, open |-> FALSE]]
         /\ client' = [client EXCEPT ![c] =
               [pc |-> IF k = "live" THEN "closeType" ELSE "lookup",
                chan |-> ch, dest |-> d, sess |-> NoSession, walk |-> 0]]
  BY DEF AddNew
<1>2. client[c].pc = "idle" /\ UNCHANGED <<sessions, session>>
  BY DEF AddNew
<1>3. /\ \A e \in Clients : e # c => client'[e] = client[e]
      /\ client'[c].pc = IF k = "live" THEN "closeType" ELSE "lookup"
      /\ client'[c].dest = d /\ client'[c].sess = NoSession
  BY <1>1 DEF IInv, Typed, ClientRecord, ClientPcs
<1>4. (\A y \in Dests : y # d => dest'[y] = dest[y]) /\ dest'[d].kind = k
  BY <1>1 DEF IInv, Typed, DestRecord
<1>5. dest[d].mem = "free" /\ \A e \in Clients : client[e].dest # d
  BY <1>1 DEF CanAllocDest
<1>6. c # w => k # "live"
  BY <1>1 DEF OnlyBringer
<1>7. \A s \in SessionIds : d \notin session[s].dests /\ session[s].dests \subseteq Dests
  BY <1>5 DEF IInv, Destined, ListedDestsAreAllocated, Typed, SessionRecord
<1>8. \A t \in SessionIds : LiveDests(t)' \subseteq LiveDests(t)
  BY <1>2, <1>4, <1>7 DEF LiveDests
<1>9. OneLive' /\ (NoneLive => NoneLive')
  BY <1>2, <1>8, SameOrShorter DEF Alone
<1>10. \A e \in Clients : client[e].pc # "idle" => dest'[client[e].dest].kind = dest[client[e].dest].kind
  BY <1>4, <1>5 DEF IInv, Destined
<1>11. TurnedOut(w)'
  <2>1. CASE c = w
    BY <1>3, <1>4, <2>1 DEF TurnedOut
  <2>2. CASE c # w
    BY <1>2, <1>3, <1>8, <1>9, <1>10, <2>2, StillTurnedOut DEF Alone
  <2> QED
    BY <2>1, <2>2
<1>12. Apart(w)'
  <2>1. c # w /\ client'[c].pc # "idle" => dest'[client'[c].dest].kind # "live"
    BY <1>3, <1>4, <1>6
  <2>2. client'[c].pc # "append" /\ ~Builds(c)'
    BY <1>3 DEF Builds
  <2>3. \A e \in Clients : e # c /\ Builds(e) => client'[c].sess # client[e].sess
    BY <1>3, ActorsAssumption DEF IInv, Building, Builds
  <2> QED
    BY <1>3, <1>8, <1>10, <2>1, <2>2, <2>3, StillApart DEF Alone
<1> QED
  BY <1>9, <1>11, <1>12 DEF Alone

LEMMA CloseAlone ==
    ASSUME IInv, NEW w \in Clients, Alone(w), NEW c \in Clients, CloseType(c) \/ CloseNext(c)
    PROVE  Alone(w)'
<1>1. /\ sessions' = sessions /\ client[c].pc \in {"closeType", "closing"}
      /\ Len(sessions) \in Nat /\ client[c].walk \in Nat
  BY ListFacts DEF CloseType, CloseNext, IInv, Typed, ClientRecord
<1>2. \A e \in Clients : e # c /\ Builds(e) => client[c].sess # client[e].sess
  BY DEF Alone, Apart
<1>3. NoSession \notin SessionIds /\ \A i \in 1 .. Len(sessions) : sessions[i] # NoSession
  BY ActorsAssumption, ListFacts DEF IInv
<1>4. \A e \in Clients : client[e].pc = "append" => client[e].sess # NoSession
  BY <1>3 DEF IInv, Building
<1>5. CASE CloseType(c)
  <2>1. Moves(c, "closing", client[c].sess, 1) /\ UNCHANGED <<session, dest>>
    BY <1>5, Moving DEF CloseType, IInv, Typed, ClientPcs
  <2>2. c = w => TurnedOut(w)'
    BY <1>1, <2>1 DEF TurnedOut, Moves
  <2>3. \A t \in SessionIds : LiveDests(t)' \subseteq LiveDests(t)
    BY <2>1 DEF LiveDests
  <2>4. client'[c].pc # "append" /\ ~Builds(c)'
    BY <2>1 DEF Moves, Builds
  <2> QED
    BY <1>1, <1>2, <1>3, <1>4, <2>1, <2>2, <2>3, <2>4, ClientKeeps DEF Moves
<1>6. CASE CloseNext(c) /\ client[c].walk <= Len(sessions)
  <2> DEFINE k == client[c].walk
  <2>1. k \in 1 .. Len(sessions)
    BY <1>1, <1>6, ListFacts DEF CloseNext, IInv, Walks
  <2>2. PICK s \in SessionIds : s = sessions[k]
    BY <2>1, ListFacts DEF IInv
  <2> DEFINE gone == {d \in session[s].dests : dest[d].kind = "live"}
  <2>3. Discard(s, gone) /\ client' = [client EXCEPT ![c].walk = k + 1] /\ client[c].pc = "closing"
    BY <1>6, <2>2 DEF CloseNext
  <2>4. Moves(c, "closing", client[c].sess, k + 1)
    <3>1. k + 1 \in Nat /\ client[c].pc \in ClientPcs /\ client[c].sess \in SessionIds \cup {NoSession}
      BY <2>1 DEF IInv, Typed, ClientRecord
    <3> HIDE DEF k
    <3> QED
      BY <2>3, <3>1, Moving DEF IInv, Typed
  <2>5. /\ \A t \in SessionIds :
             session'[t].dests = IF t = s THEN session[t].dests \ gone ELSE session[t].dests
        /\ \A d \in Dests : dest'[d].kind = dest[d].kind
    <3> HIDE DEF gone
    <3> QED
      BY <2>3, Discarding DEF IInv
  <2>6. \A t \in SessionIds : LiveDests(t)' \subseteq LiveDests(t)
    BY <2>5, LessLive
  <2>7. LiveDests(s)' = {}
    <3>1. session[s].dests \subseteq Dests
      BY DEF IInv, Typed, SessionRecord
    <3> QED
      BY <2>5, <3>1 DEF LiveDests
  <2>8. ASSUME c = w PROVE TurnedOut(w)'
    <3>1. ASSUME NEW i \in 1 .. Len(sessions), i < k + 1 PROVE LiveDests(sessions[i])' = {}
      <4>1. PICK t \in SessionIds : t = sessions[i]
        BY ListFacts DEF IInv
      <4>2. CASE i = k
        BY <1>1, <2>2, <2>7, <4>2 DEF LiveDests
      <4>3. CASE i < k
        <5>1. LiveDests(t) = {}
          BY <2>3, <2>8, <4>1, <4>3 DEF Alone, TurnedOut
        <5>2. LiveDests(t)' = {}
          BY <2>6, <5>1
        <5> QED
          BY <1>1, <4>1, <5>2 DEF LiveDests
      <4> QED
        BY <1>1, <2>1, <3>1, <4>2, <4>3
    <3> HIDE DEF k
    <3> QED
      BY <1>1, <2>4, <2>8, <3>1 DEF TurnedOut, Moves
  <2>9. client'[c].pc # "append" /\ ~Builds(c)'
    BY <2>4 DEF Moves, Builds
  <2> HIDE DEF gone, k
  <2> QED
    BY <1>1, <1>2, <1>3, <1>4, <2>4, <2>5, <2>6, <2>8, <2>9, ClientKeeps DEF Moves
<1>7. CASE CloseNext(c) /\ ~(client[c].walk <= Len(sessions))
  <2>1. Moves(c, "lookup", client[c].sess, 0) /\ UNCHANGED <<session, dest>> /\ client[c].pc = "closing"
    BY <1>7, Moving DEF CloseNext, IInv, Typed, ClientPcs
  <2>2. \A t \in SessionIds : LiveDests(t)' \subseteq LiveDests(t)
    BY <2>1 DEF LiveDests
  <2>3. ASSUME c = w, NoneLive => NoneLive' PROVE TurnedOut(w)'
    <3>1. NoneLive
      <4>1. \A i \in 1 .. Len(sessions) : i < client[w].walk
        BY <1>1, <1>7, <2>3
      <4> QED
        BY <2>1, <2>3, <4>1 DEF Alone, TurnedOut, NoneLive
    <3> QED
      BY <2>1, <2>3, <3>1 DEF TurnedOut, Moves
  <2>4. client'[c].pc # "append" /\ ~Builds(c)'
    BY <2>1 DEF Moves, Builds
  <2> QED
    BY <1>1, <1>2, <1>3, <1>4, <2>1, <2>2, <2>3, <2>4, ClientKeeps DEF Moves
<1> QED
  BY <1>5, <1>6, <1>7

LEMMA LookupAlone ==
    ASSUME IInv, NEW w \in Clients, Alone(w), NEW c \in Clients, Lookup(c)
    PROVE  Alone(w)'
<1>1. client[c].pc = "lookup" /\ UNCHANGED <<sessions, session, dest>>
  BY DEF Lookup
<1>2. NoSession \notin SessionIds /\ \A i \in 1 .. Len(sessions) : sessions[i] # NoSession
  BY ActorsAssumption, ListFacts DEF IInv
<1>3. \A e \in Clients : client[e].pc = "append" => client[e].sess # NoSession
  BY <1>2 DEF IInv, Building
<1>4. PICK pc \in {"join", "create"}, sess \in SessionIds \cup {NoSession} :
         /\ Moves(c, pc, sess, client[c].walk)
         /\ sess = client[c].sess \/ \E i \in 1 .. Len(sessions) : sessions[i] = sess
  <2>1. ASSUME NEW i \in 1 .. Len(sessions),
               client' = [client EXCEPT ![c].pc = "join", ![c].sess = sessions[i]]
        PROVE  sessions[i] \in SessionIds /\ Moves(c, "join", sessions[i], client[c].walk)
    BY <2>1, ListFacts, Moving DEF IInv, Typed, ClientPcs
  <2>2. ASSUME client' = [client EXCEPT ![c].pc = "create"]
        PROVE  client[c].sess \in SessionIds \cup {NoSession} /\ Moves(c, "create", client[c].sess, client[c].walk)
    BY <2>2, Moving DEF IInv, Typed, ClientPcs, ClientRecord
  <2> QED
    BY <2>1, <2>2 DEF Lookup
<1>5. \A e \in Clients : e # c /\ Builds(e) => client'[c].sess # client[e].sess
  BY <1>4 DEF Moves, Alone, Apart, IInv, Building
<1>6. \A t \in SessionIds : LiveDests(t)' \subseteq LiveDests(t)
  BY <1>1 DEF LiveDests
<1>7. ASSUME c = w, NoneLive => NoneLive' PROVE TurnedOut(w)'
  BY <1>1, <1>4, <1>7 DEF Alone, TurnedOut, Moves
<1>8. client'[c].pc # "append" /\ ~Builds(c)'
  BY <1>4 DEF Moves, Builds
<1> QED
  BY <1>1, <1>2, <1>3, <1>4, <1>5, <1>6, <1>7, <1>8, ClientKeeps DEF Moves

LEMMA CreateAlone ==
    ASSUME IInv, NEW w \in Clients, Alone(w), NEW c \in Clients, Create(c)
    PROVE  Alone(w)'
<1>1. client[c].pc = "create" /\ UNCHANGED <<sessions, dest>>
  BY DEF Create
<1>2. NoSession \notin SessionIds /\ \A i \in 1 .. Len(sessions) : sessions[i] # NoSession
  BY ActorsAssumption, ListFacts DEF IInv
<1>3. \A e \in Clients : Builds(e) => client[e].sess # NoSession
  BY <1>2 DEF IInv, Building, Builds
<1>4. CASE client' = [client EXCEPT ![c] = IdleClient] /\ UNCHANGED session
  <2>1. client'[c] = IdleClient /\ \A e \in Clients : e # c => client'[e] = client[e]
    BY <1>4 DEF IInv, Typed
  <2>2. client'[c].pc = "idle" /\ client'[c].sess = NoSession /\ ~Builds(c)'
    BY <2>1 DEF IdleClient, Builds
  <2>3. \A t \in SessionIds : LiveDests(t)' \subseteq LiveDests(t)
    BY <1>1, <1>4 DEF LiveDests
  <2>4. c = w => TurnedOut(w)'
    BY <2>2 DEF TurnedOut
  <2> QED
    BY <1>1, <1>2, <1>3, <2>1, <2>2, <2>3, <2>4, ClientKeeps DEF Builds
<1>5. ASSUME NEW s \in SessionIds, CanAllocSession(s),
             session' = [session EXCEPT ![s] =
                   [mem |-> "allocated", state |-> 1, chan |-> "none", list |-> "null", dests |-> {}]],
             client' = [client EXCEPT ![c].pc = "build", ![c].sess = s]
      PROVE  Alone(w)'
  <2>1. Moves(c, "build", s, client[c].walk)
    BY <1>5, Moving DEF IInv, Typed, ClientPcs
  <2>2. \A t \in SessionIds : session'[t].dests \subseteq session[t].dests
    BY <1>5 DEF IInv, Typed, SessionRecord
  <2>3. \A t \in SessionIds : LiveDests(t)' \subseteq LiveDests(t)
    BY <1>1, <2>2, LessLive
  <2>4. \A e \in Clients : client'[c].sess # client[e].sess
    BY <1>5, <2>1 DEF CanAllocSession, Kept, Moves
  <2>5. ASSUME c = w, NoneLive => NoneLive' PROVE TurnedOut(w)'
    BY <1>1, <2>1, <2>5 DEF Alone, TurnedOut, Moves
  <2> QED
    BY <1>1, <1>2, <1>3, <2>1, <2>3, <2>4, <2>5, ClientKeeps DEF Moves, Builds
<1> QED
  BY <1>4, <1>5 DEF Create

LEMMA BuildAlone ==
    ASSUME IInv, NEW w \in Clients, Alone(w), NEW c \in Clients, Build(c)
    PROVE  Alone(w)'
<1>1. PICK s \in SessionIds, d \in Dests : s = client[c].sess /\ d = client[c].dest
  BY DEF Build, IInv, Building, Destined
<1>2. client[c].pc = "build" /\ UNCHANGED <<sessions, dest>>
  BY DEF Build
<1>3. Moves(c, "append", s, client[c].walk)
  BY <1>1, Moving DEF Build, Goto, IInv, Typed, ClientPcs
<1>4. /\ session'[s].dests = {d}
      /\ \A t \in SessionIds : t # s => session'[t] = session[t]
  <2>1. session \in [SessionIds -> SessionRecord]
    BY DEF IInv, Typed
  <2>2. session' = [session EXCEPT ![s] = [session[s] EXCEPT !.chan = client[c].chan, !.list = "list",
                                                              !.dests = {d}]]
    BY <1>1 DEF Build
  <2> QED
    BY <2>1, <2>2 DEF SessionRecord
<1>5. /\ \A i \in 1 .. Len(sessions) : sessions[i] # s
      /\ \A e \in Clients : e # c /\ Builds(e) => client[e].sess # s
      /\ \A e \in Clients : e # c => client[e].sess # s
  BY <1>1, <1>2 DEF IInv, Building, Builds, Alone, Apart
<1>6. \A t \in SessionIds : t # s => LiveDests(t)' \subseteq LiveDests(t)
  BY <1>2, <1>4 DEF LiveDests
<1>7. LiveDests(client[c].sess)' \subseteq {client'[c].dest}
  BY <1>1, <1>3, <1>4 DEF LiveDests, Moves
<1>8. ASSUME c = w, NoneLive => NoneLive' PROVE TurnedOut(w)'
  BY <1>2, <1>3, <1>8 DEF Alone, TurnedOut, Moves
<1> QED
  BY <1>2, <1>3, <1>5, <1>6, <1>7, <1>8, ClientKeeps DEF Moves, Builds

\* The destination that comes into the list with the session is live only if it
\* is w's, and then the only one.
LEMMA AppendAlone ==
    ASSUME IInv, NEW w \in Clients, Alone(w), NEW c \in Clients, AppendSession(c)
    PROVE  Alone(w)'
<1>1. PICK s \in SessionIds, d \in Dests : s = client[c].sess /\ d = client[c].dest
  BY DEF AppendSession, IInv, Building, Destined
<1>2. client[c].pc = "append" /\ sessionsLock = Nobody /\ UNCHANGED <<session, dest>>
  BY DEF AppendSession
<1>3. Moves(c, "start", s, client[c].walk)
  BY <1>1, Moving DEF AppendSession, Goto, IInv, Typed, ClientPcs
<1>4. /\ Len(sessions) \in Nat /\ Len(sessions') = Len(sessions) + 1
      /\ \A i \in 1 .. Len(sessions) : sessions'[i] = sessions[i]
      /\ \A i \in 1 .. Len(sessions') : sessions'[i] = s \/ i \in 1 .. Len(sessions)
  <2>1. \A i \in 1 .. Len(sessions) : sessions[i] # s
    BY <1>1, <1>2 DEF IInv, Building, Builds
  <2>2. sessions' = Append(sessions, s)
    BY <1>1 DEF AppendSession
  <2> QED
    BY <2>1, <2>2, Growing, ListFacts DEF IInv, Listed
<1>5. \A t \in SessionIds : LiveDests(t)' = LiveDests(t)
  BY <1>2 DEF LiveDests
<1>6. LiveDests(s) \subseteq {d} /\ (dest[d].kind # "live" => LiveDests(s) = {})
  BY <1>1, <1>2 DEF Alone, Apart, LiveDests
<1>7. dest[d].kind = "live" => c = w /\ NoneLive
  BY <1>1, <1>2 DEF Alone, Apart, TurnedOut
<1>8. ASSUME NEW i \in 1 .. Len(sessions')
      PROVE  \/ LiveDests(sessions[i])' \subseteq LiveDests(s)
             \/ i \in 1 .. Len(sessions) /\ LiveDests(sessions[i])' = LiveDests(sessions[i])
  BY <1>2, <1>4 DEF LiveDests
<1>9. OneLive' /\ (dest[d].kind # "live" /\ NoneLive => NoneLive')
  <2>1. CASE dest[d].kind = "live"
    <3>1. \A i \in 1 .. Len(sessions') : LiveDests(sessions[i])' \subseteq {d}
      BY <1>6, <1>7, <1>8, <2>1 DEF NoneLive
    <3> QED
      BY <2>1, <3>1 DEF OneLive
  <2>2. CASE dest[d].kind # "live"
    <3>1. \A i \in 1 .. Len(sessions') :
             \/ LiveDests(sessions[i])' = {}
             \/ i \in 1 .. Len(sessions) /\ LiveDests(sessions[i])' = LiveDests(sessions[i])
      BY <1>6, <1>8, <2>2
    <3>2. OneLive'
      <4>1. OneLive
        BY DEF Alone
      <4>2. ASSUME NEW i \in 1 .. Len(sessions'), NEW j \in 1 .. Len(sessions'),
                   NEW x \in LiveDests(sessions[i])', NEW y \in LiveDests(sessions[j])'
            PROVE  x = y
        <5>1. i \in 1 .. Len(sessions) /\ x \in LiveDests(sessions[i])
          BY <3>1, <4>2
        <5>2. j \in 1 .. Len(sessions) /\ y \in LiveDests(sessions[j])
          BY <3>1, <4>2
        <5> QED
          BY <4>1, <5>1, <5>2 DEF OneLive
      <4> QED
        BY <4>2 DEF OneLive
    <3>3. NoneLive => NoneLive'
      BY <3>1 DEF NoneLive
    <3> QED
      BY <3>2, <3>3
  <2> QED
    BY <2>1, <2>2
<1>10. TurnedOut(w)'
  <2>1. CASE c = w
    BY <1>3, <2>1 DEF TurnedOut, Moves
  <2>2. CASE c # w
    <3>1. client[w].pc # "closing"
      BY <1>2, ActorsAssumption DEF IInv, Owners
    <3>2. client'[w] = client[w] /\ (NoneLive => NoneLive')
      BY <1>3, <1>7, <1>9, <2>2 DEF Moves
    <3> QED
      BY <1>2, <3>1, <3>2, StillTurnedOut DEF Alone
  <2> QED
    BY <2>1, <2>2
<1>11. Apart(w)'
  <2>1. /\ \A e \in Clients : e # c => client'[e] = client[e]
        /\ client'[c].dest = client[c].dest /\ client'[c].pc # "append" /\ ~Builds(c)'
        /\ client'[c].sess = client[c].sess
    BY <1>1, <1>3 DEF Moves, Builds
  <2>2. \A e \in Clients : e # c /\ Builds(e) => client'[c].sess # client[e].sess
    BY <2>1 DEF Alone, Apart
  <2>3. c # w => dest'[client'[c].dest].kind # "live"
    BY <1>2, <2>1 DEF Alone, Apart
  <2> QED
    BY <1>2, <1>5, <2>1, <2>2, <2>3, StillApart DEF Alone
<1> QED
  BY <1>9, <1>10, <1>11 DEF Alone

LEMMA StartThreadAlone ==
    ASSUME IInv, NEW w \in Clients, Alone(w), NEW c \in Clients, StartThread(c)
    PROVE  Alone(w)'
<1>1. client[c].pc = "start" /\ UNCHANGED <<sessions, session>> /\ client[c].dest \in Dests /\ Return(c)
  BY DEF StartThread, IInv, Destined
<1>2. /\ \A e \in Clients : e # c => client'[e] = client[e]
      /\ client'[c] = IdleClient
      /\ \A d \in Dests : dest'[d].kind = dest[d].kind
  BY <1>1, Returning DEF IInv
<1>3. client'[c].pc = "idle" /\ client'[c].sess = NoSession /\ ~Builds(c)'
  BY <1>2 DEF IdleClient, Builds
<1>4. NoSession \notin SessionIds /\ \A i \in 1 .. Len(sessions) : sessions[i] # NoSession
  BY ActorsAssumption, ListFacts DEF IInv
<1>5. \A e \in Clients : Builds(e) => client[e].sess # NoSession
  BY <1>4 DEF IInv, Building, Builds
<1>6. \A t \in SessionIds : LiveDests(t)' \subseteq LiveDests(t)
  BY <1>1, <1>2, LessLive
<1>7. c = w => TurnedOut(w)'
  BY <1>3 DEF TurnedOut
<1> QED
  BY <1>1, <1>2, <1>3, <1>4, <1>5, <1>6, <1>7, ClientKeeps DEF Builds

\* The destination that joins a session is live only if it is w's, and then the
\* only one: those of the list have been turned out, and a session that is being
\* built is not the one that is joined.
LEMMA JoinAlone ==
    ASSUME IInv, NEW w \in Clients, Alone(w), NEW c \in Clients, Join(c)
    PROVE  Alone(w)'
<1>1. PICK s \in SessionIds, d \in Dests : s = client[c].sess /\ d = client[c].dest
  BY DEF Join, IInv, Building, Destined
<1>2. client[c].pc = "join" /\ UNCHANGED sessions /\ Return(c)
  BY DEF Join
<1>3. /\ \A e \in Clients : e # c => client'[e] = client[e]
      /\ client'[c] = IdleClient
      /\ \A y \in Dests : dest'[y].kind = dest[y].kind
  BY <1>1, <1>2, Returning DEF IInv
<1>4. client'[c].pc = "idle" /\ client'[c].sess = NoSession /\ ~Builds(c)'
  BY <1>3 DEF IdleClient, Builds
<1>5. \A t \in SessionIds : session'[t].dests \subseteq
         IF t = s THEN session[t].dests \cup {d} ELSE session[t].dests
  <2>1. session' = [session EXCEPT ![s].dests = @ \cup {d}]
    BY <1>1 DEF Join
  <2> QED
    BY <2>1 DEF IInv, Typed, SessionRecord
<1>6. \A t \in SessionIds : session[t].dests \subseteq Dests
  BY DEF IInv, Typed, SessionRecord
<1>7. \A t \in SessionIds : t # s \/ dest[d].kind # "live" => LiveDests(t)' \subseteq LiveDests(t)
  BY <1>3, <1>5, <1>6 DEF LiveDests
<1>8. \A t \in SessionIds : LiveDests(t)' \subseteq LiveDests(t) \cup {d}
  BY <1>3, <1>5, <1>6 DEF LiveDests
<1>9. NoSession \notin SessionIds /\ \A i \in 1 .. Len(sessions) : sessions[i] \in SessionIds
  BY ActorsAssumption, ListFacts DEF IInv
<1>10. \A e \in Clients : Builds(e) => client[e].sess # NoSession
  BY <1>9 DEF IInv, Building, Builds
<1>11. CASE dest[d].kind # "live"
  <2>1. c = w => TurnedOut(w)'
    BY <1>4 DEF TurnedOut
  <2>2. \A i \in 1 .. Len(sessions) : sessions[i] # NoSession
    BY <1>9
  <2>3. \A t \in SessionIds : LiveDests(t)' \subseteq LiveDests(t)
    BY <1>7, <1>11
  <2>4. /\ \A e \in Clients : client[e].pc = "append" => client[e].sess # NoSession
        /\ \A e \in Clients : Builds(e) \/ Builds(c)' => client'[c].sess # client[e].sess
    BY <1>4, <1>10 DEF Builds
  <2>5. sessions' = sessions /\ client'[c].pc = "idle"
    BY <1>2, <1>4
  <2> QED
    BY <1>3, <2>1, <2>2, <2>3, <2>4, <2>5, ClientKeeps
<1>12. CASE dest[d].kind = "live"
  <2>1. c = w /\ NoneLive
    BY <1>1, <1>2, <1>12 DEF Alone, Apart, TurnedOut
  <2>2. OneLive'
    <3>1. ASSUME NEW i \in 1 .. Len(sessions) PROVE LiveDests(sessions[i])' \subseteq {d}
      <4>1. PICK t \in SessionIds : t = sessions[i]
        BY <1>9
      <4>2. LiveDests(t) = {} /\ LiveDests(t)' \subseteq LiveDests(t) \cup {d}
        BY <1>8, <2>1, <4>1 DEF NoneLive
      <4>3. LiveDests(t)' \subseteq {d}
        BY <4>2
      <4>4. LiveDests(sessions[i])' = LiveDests(t)'
        BY <1>2, <4>1 DEF LiveDests
      <4> QED
        BY <4>3, <4>4
    <3>2. \A i \in 1 .. Len(sessions') : LiveDests(sessions[i])' \subseteq {d}
      BY <1>2, <3>1
    <3> QED
      BY <3>2 DEF OneLive
  <2>3. TurnedOut(w)'
    BY <1>4, <2>1 DEF TurnedOut
  <2>4. Apart(w)'
    <3>1. \A e \in Clients : client[e].pc # "idle" => dest'[client[e].dest].kind = dest[client[e].dest].kind
      BY <1>3 DEF IInv, Destined
    <3>2. \A e \in Clients : e # c /\ client[e].pc = "append" => client[e].sess # s
      BY <1>1 DEF Alone, Apart, Builds
    <3> QED
      BY <1>3, <1>4, <1>7, <1>10, <2>1, <3>1, <3>2, StillApart DEF Alone
  <2> QED
    BY <2>2, <2>3, <2>4 DEF Alone
<1> QED
  BY <1>11, <1>12

\* The web connections, the buffer threads, the reaper and session_stop only
\* take destinations, and sessions, out of the lists.
LEMMA OthersAlone ==
    ASSUME IInv, NEW w \in Clients, Alone(w),
           \/ StartSession \/ ReaperStep \/ StopStep \/ UNCHANGED vars
           \/ \E d \in Dests : HttpEnd(d)
           \/ \E s \in SessionIds, i \in 1 .. 2 : BufStep(s, i)
           \/ \E s \in SessionIds : StopSession(s)
    PROVE  Alone(w)'
<1> DEFINE Less == /\ \A s \in SessionIds : session'[s].dests \subseteq session[s].dests
                   /\ \A d \in Dests : dest'[d].kind = dest[d].kind
<1>1. client' = client
  BY DEF StartSession, ReaperStep, ReaperWake, ReaperLook, ReaperStop, ReaperDestroy, ReaperFree,
     ReaperUnchanged, StopStep, StopState, StopFree, StopCloseAll, StopDestroy, StopUnchanged, vars,
     HttpEnd, BufStep, BufCheck, BufCopy, BufEnter, BufLeave, BufUnchanged, StopSession
<1>2. /\ \A i \in 1 .. Len(sessions) : sessions[i] \in SessionIds
      /\ reaper.pc \in {"stop", "destroy", "free"} => sessions[reaper.walk] \in SessionIds
      /\ stop.pc # "idle" => stop.sess \in SessionIds
  BY ListFacts DEF IInv, Walks
<1>3. CASE UNCHANGED <<sessions, session, dest>>
  <2>1. Less
    BY <1>3
  <2> QED
    BY <1>1, <1>3, <2>1, QuietAlone
<1>4. ASSUME NEW d \in Dests, HttpEnd(d) PROVE Alone(w)'
  <2>1. Less /\ sessions' = sessions
    BY <1>4 DEF HttpEnd, IInv, Typed, DestRecord
  <2> QED
    BY <1>1, <2>1, QuietAlone
<1>5. ASSUME NEW s \in SessionIds, NEW gone, Discard(s, gone), sessions' = sessions PROVE Alone(w)'
  <2>1. Less
    BY <1>5, Discarding DEF IInv
  <2> QED
    BY <1>1, <1>5, <2>1, QuietAlone
<1>6. ASSUME NEW s \in SessionIds, DestroyList(s), UNCHANGED <<sessions, dest>> PROVE Alone(w)'
  <2>1. Less
    BY <1>6, Destroying DEF IInv
  <2> QED
    BY <1>1, <1>6, <2>1, QuietAlone
<1>7. ASSUME NEW s \in SessionIds, session' = [session EXCEPT ![s].state = 0],
             UNCHANGED <<sessions, dest>>
      PROVE  Alone(w)'
  <2>1. Less
    BY <1>7, GivingUp DEF IInv
  <2> QED
    BY <1>1, <1>7, <2>1, QuietAlone
<1>8. ASSUME NEW s \in SessionIds, session' = [session EXCEPT ![s].mem = "free"], UNCHANGED dest,
             client[w].pc # "closing", NEW k \in 1 .. Len(sessions), sessions' = RemoveAt(sessions, k)
      PROVE  Alone(w)'
  <2>1. Less
    BY <1>8, GivingUp DEF IInv
  <2> QED
    BY <1>1, <1>8, <2>1, QuietAlone
<1> HIDE DEF Less
<1>9. ASSUME NEW s \in SessionIds, NEW i \in 1 .. 2, BufStep(s, i) PROVE Alone(w)'
  BY <1>3, <1>5, <1>9 DEF BufStep, BufCheck, BufCopy, BufEnter, BufLeave, BufUnchanged
<1>10. CASE ReaperStep
  <2>1. CASE ReaperWake \/ ReaperLook
    BY <1>3, <2>1 DEF ReaperWake, ReaperLook, ReaperUnchanged
  <2>2. CASE ReaperStop
    BY <1>2, <1>7, <2>2 DEF ReaperStop, ReaperUnchanged
  <2>3. CASE ReaperDestroy
    BY <1>2, <1>6, <2>3 DEF ReaperDestroy, ReaperUnchanged
  <2>4. CASE ReaperFree
    <3>1. client[w].pc # "closing" /\ reaper.walk \in 1 .. Len(sessions)
      BY <2>4, ActorsAssumption DEF ReaperFree, IInv, Owners, Walks
    <3> QED
      BY <1>2, <1>8, <2>4, <3>1 DEF ReaperFree, ReaperUnchanged
  <2> QED
    BY <1>10, <2>1, <2>2, <2>3, <2>4 DEF ReaperStep
<1>11. CASE StopStep
  <2>1. CASE StopState
    BY <1>2, <1>7, <2>1 DEF StopState, StopUnchanged
  <2>2. CASE StopFree
    <3>1. client[w].pc # "closing"
      BY <2>2, ActorsAssumption DEF StopFree, IInv, Owners
    <3> QED
      BY <1>2, <1>8, <2>2, <3>1 DEF StopFree
  <2>3. CASE StopCloseAll
    BY <1>2, <1>5, <2>3 DEF StopCloseAll
  <2>4. CASE StopDestroy
    BY <1>2, <1>6, <2>4 DEF StopDestroy
  <2> QED
    BY <1>11, <2>1, <2>2, <2>3, <2>4 DEF StopStep
<1>12. CASE StartSession \/ UNCHANGED vars \/ \E s \in SessionIds : StopSession(s)
  BY <1>3, <1>12 DEF StartSession, vars, StopSession, StopUnchanged
<1> QED
  BY <1>4, <1>9, <1>10, <1>11, <1>12

LEMMA AloneStep ==
    ASSUME IInv, NEW w \in Clients, OnlyBringer(w), Alone(w), [Next]_vars
    PROVE  Alone(w)'
<1>1. ASSUME NEW c \in Clients, AddNew(c) \/ ClientStep(c) PROVE Alone(w)'
  BY <1>1, AddNewAlone, CloseAlone, LookupAlone, CreateAlone, BuildAlone, AppendAlone,
     StartThreadAlone, JoinAlone DEF ClientStep
<1> QED
  BY <1>1, OthersAlone DEF Next

LEMMA AloneInit ==
    ASSUME Init, NEW w \in Clients
    PROVE  Alone(w)
<1>1. sessions = <<>> /\ \A c \in Clients : client[c].pc = "idle"
  BY DEF Init, IdleClient
<1>2. OneLive
  BY <1>1 DEF OneLive
<1>3. TurnedOut(w)
  BY <1>1 DEF TurnedOut
<1>4. Apart(w)
  BY <1>1 DEF Apart, Builds
<1> QED
  BY <1>2, <1>3, <1>4 DEF Alone

\* As long as one thread alone brings live destinations, a new one turns the
\* others out of every session: session_stop_type walks the whole list while
\* session.start, session.stop, the reaper and the buffer threads go on, and what
\* is listed or joined before the new destination is in its place is not live.
THEOREM OneLiveViewer == Spec => []LiveIsExclusive
<1>1. CASE ~\E w \in Clients : OnlyBringer(w)
  <2>1. LiveIsExclusive
    BY <1>1 DEF LiveIsExclusive, OnlyBringer
  <2> QED
    BY <2>1, PTL
<1>2. CASE \E w \in Clients : OnlyBringer(w)
  <2>1. PICK w \in Clients : OnlyBringer(w)
    BY <1>2
  <2> DEFINE I == IInv /\ Alone(w)
  <2>3. Init => I
    BY <2>1, InitInv, AloneInit
  <2>4. I /\ [Next]_vars => I'
    BY <2>1, InvStep, AloneStep
  <2>5. I => LiveIsExclusive
    <3> SUFFICES ASSUME I,
                        NEW x \in UNION {session[s].dests : s \in Range(sessions)},
                        NEW y \in UNION {session[s].dests : s \in Range(sessions)},
                        dest[x].kind = "live", dest[y].kind = "live"
                 PROVE  x = y
      BY DEF LiveIsExclusive
    <3>1. Range(sessions) = {sessions[i] : i \in 1 .. Len(sessions)}
      BY ListFacts DEF IInv
    <3>2. PICK i \in 1 .. Len(sessions) : x \in session[sessions[i]].dests
      BY <3>1
    <3>3. PICK j \in 1 .. Len(sessions) : y \in session[sessions[j]].dests
      BY <3>1
    <3> QED
      BY <3>2, <3>3 DEF Alone, OneLive, LiveDests
  <2> HIDE DEF I
  <2> QED
    BY <2>3, <2>4, <2>5, PTL DEF Spec
<1> QED
  BY <1>1, <1>2

-----------------------------------------------------------------------------
(* The destinations, and module Ownership.                                 *)

\* A session being built is its builder's alone and empty until it is filled.
Fresh ==
    /\ \A c, e \in Clients : Builds(e) /\ c # e => client[c].sess # client[e].sess
    /\ \A c \in Clients : client[c].pc = "build" => session[client[c].sess].dests = {}

OnlyHttpIsRead == \A d \in Dests : dest[d].open => dest[d].kind = "http"

\* A step in which session_addNew does not run: lists of destinations at most
\* lose some, connections at most end.
LEMMA QuietFresh ==
    ASSUME IInv, Fresh, OnlyHttpIsRead, client' = client,
           \A s \in SessionIds : session'[s].dests \subseteq session[s].dests,
           \A d \in Dests : dest'[d].kind = dest[d].kind /\ (dest'[d].open => dest[d].open)
    PROVE  Fresh' /\ OnlyHttpIsRead'
<1>1. Fresh'
  BY DEF Fresh, Builds, IInv, Building
<1> QED
  BY <1>1 DEF OnlyHttpIsRead

\* A step of c: whom it meets, and what it leaves in the sessions of others.
LEMMA ClientFresh ==
    ASSUME IInv, Fresh, NEW c \in Clients,
           \A e \in Clients : e # c => client'[e] = client[e],
           \A e \in Clients : e # c /\ (Builds(e) \/ Builds(c)') => client'[c].sess # client[e].sess,
           \A e \in Clients : e # c /\ client[e].pc = "build" =>
              session'[client[e].sess].dests \subseteq session[client[e].sess].dests,
           client'[c].pc = "build" => session'[client'[c].sess].dests = {}
    PROVE  Fresh'
<1>1. ASSUME NEW b \in Clients, NEW e \in Clients, Builds(e)', b # e
      PROVE  client'[b].sess # client'[e].sess
  <2>1. CASE b = c
    BY <1>1, <2>1 DEF Builds
  <2>2. CASE e = c
    BY <1>1, <2>2 DEF Builds
  <2>3. CASE b # c /\ e # c
    BY <1>1, <2>3 DEF Builds, Fresh
  <2> QED
    BY <2>1, <2>2, <2>3
<1>2. ASSUME NEW e \in Clients, client'[e].pc = "build"
      PROVE  session'[client'[e].sess].dests = {}
  BY <1>2 DEF Fresh
<1> QED
  BY <1>1, <1>2 DEF Fresh

-----------------------------------------------------------------------------
(* What the state of Ownership is, and when it stays.                       *)

\* What a client carries, or a list holds, is that one's alone.
LEMMA Owning ==
    ASSUME IInv
    PROVE  /\ \A c \in Clients : Carries(c) =>
                 client[c].dest \in Dests /\ OwnersOf(client[c].dest) = {<<"client", c>>}
           /\ \A s \in SessionIds : \A d \in session[s].dests :
                 d \in Dests /\ OwnersOf(d) = {<<"session", s>>}
           /\ \A d \in Dests : OwnersOf(d) # {} => dest[d].mem = "allocated"
<1> USE DEF IInv
<1>1. ASSUME NEW c \in Clients, Carries(c)
      PROVE  client[c].dest \in Dests /\ OwnersOf(client[c].dest) = {<<"client", c>>}
  <2>1. client[c].pc # "idle"
    BY <1>1 DEF Carries
  <2>2. /\ client[c].dest \in Dests
        /\ \A e \in Clients : Carries(e) /\ client[e].dest = client[c].dest => e = c
        /\ \A s \in SessionIds : client[c].dest \notin session[s].dests
    BY <1>1, <2>1 DEF Destined, Carries
  <2>3. {e \in Clients : Carries(e) /\ client[e].dest = client[c].dest} = {c}
    BY <1>1, <2>2
  <2>4. {s \in SessionIds : client[c].dest \in session[s].dests} = {}
    BY <2>2
  <2> QED
    BY <2>2, <2>3, <2>4 DEF OwnersOf
<1>2. ASSUME NEW s \in SessionIds, NEW d \in session[s].dests
      PROVE  d \in Dests /\ OwnersOf(d) = {<<"session", s>>}
  <2>1. d \in Dests
    BY DEF Typed, SessionRecord
  <2>2. {e \in Clients : Carries(e) /\ client[e].dest = d} = {}
    BY DEF Destined
  <2>3. {t \in SessionIds : d \in session[t].dests} = {s}
    BY DEF Destined, ListedDestsAreAllocated
  <2> QED
    BY <2>1, <2>2, <2>3 DEF OwnersOf
<1>3. ASSUME NEW d \in Dests, OwnersOf(d) # {}
      PROVE  dest[d].mem = "allocated"
  BY <1>3 DEF OwnersOf, Destined, ListedDestsAreAllocated
<1> QED
  BY <1>1, <1>2, <1>3

\* No client picks d up or puts it down, no list gains or loses it.
LEMMA OwnersStay ==
    ASSUME NEW d,
           \A c \in Clients : (Carries(c) /\ client[c].dest = d)' <=> Carries(c) /\ client[c].dest = d,
           \A s \in SessionIds : d \in session'[s].dests <=> d \in session[s].dests
    PROVE  OwnersOf(d)' = OwnersOf(d)
<1>1. {c \in Clients : Carries(c)' /\ client'[c].dest = d} = {c \in Clients : Carries(c) /\ client[c].dest = d}
  OBVIOUS
<1>2. {s \in SessionIds : d \in session'[s].dests} = {s \in SessionIds : d \in session[s].dests}
  OBVIOUS
<1> QED
  BY <1>1, <1>2 DEF OwnersOf

\* A step that moves no destination.
LEMMA Stuttering ==
    ASSUME dest' = dest,
           \A c \in Clients : (Carries(c)' <=> Carries(c)) /\ client'[c].dest = client[c].dest,
           \A s \in SessionIds : session'[s].mem = session[s].mem /\ session'[s].dests = session[s].dests
    PROVE  UNCHANGED O!vars
<1>1. \A d \in Dests : OwnersOf(d)' = OwnersOf(d)
  BY OwnersStay
<1>2. [d \in Dests |-> OwnersOf(d)]' = [d \in Dests |-> OwnersOf(d)]
  BY <1>1
<1>3. {s \in SessionIds : session[s].mem = "allocated"}' = {s \in SessionIds : session[s].mem = "allocated"}
  OBVIOUS
<1> QED
  BY <1>2, <1>3 DEF O!vars, Allocated

\* Destinations of a list are destroyed, by whoever may.
LEMMA Freeing ==
    ASSUME IInv, NEW s \in SessionIds, NEW gone, gone \subseteq session[s].dests, Discard(s, gone),
           \A c \in Clients : (Carries(c)' <=> Carries(c)) /\ client'[c].dest = client[c].dest,
           \A d \in gone : Stops \/ dest[d].kind = "live" \/ dest[d].expired
    PROVE  O!Next
<1> USE DEF IInv
<1>1. /\ \A t \in SessionIds :
            /\ Same(t)
            /\ session'[t].dests = IF t = s THEN session[t].dests \ gone ELSE session[t].dests
      /\ \A d \in Dests : d \notin gone => dest'[d] = dest[d]
      /\ \A d \in Dests : dest'[d].kind = dest[d].kind /\ dest'[d].open = dest[d].open
  BY Discarding
<1>2. \A d \in gone : d \in Dests /\ OwnersOf(d) = {<<"session", s>>} /\ dest[d].mem = "allocated"
  BY Owning
<1>3. \A d \in gone : dest'[d].mem = "free"
  <2>1. \A d \in gone : dest'[d] = [dest[d] EXCEPT !.mem = "free", !.expired = TRUE]
    BY <1>2 DEF Discard
  <2>2. \A d \in gone : dest[d] \in DestRecord
    BY <1>2 DEF Typed
  <2> QED
    BY <2>1, <2>2 DEF DestRecord
<1>4. gone \in SUBSET Allocated
  BY <1>2 DEF Allocated
<1>5. ASSUME NEW d \in gone
      PROVE  Stops \/ (~dest[d].open /\ (dest[d].kind = "live" \/ dest[d].expired))
  BY <1>2, <1>5 DEF Read
<1>6. Allocated' = Allocated \ gone
  BY <1>1, <1>2, <1>3 DEF Allocated
<1>7. {d \in Allocated : dest[d].expired}' = {d \in Allocated : dest[d].expired} \ gone
  BY <1>1, <1>3, <1>6 DEF Allocated
<1>8. ASSUME NEW d \in Dests
      PROVE  OwnersOf(d)' = IF d \in gone THEN {} ELSE OwnersOf(d)
  <2>1. CASE d \in gone
    <3>1. \A t \in SessionIds : d \notin session'[t].dests
      BY <1>1, <2>1 DEF Destined, ListedDestsAreAllocated
    <3>2. \A c \in Clients : ~(Carries(c)' /\ client'[c].dest = d)
      BY <2>1 DEF Destined
    <3>3. {c \in Clients : Carries(c)' /\ client'[c].dest = d} = {}
      BY <3>2
    <3>4. {t \in SessionIds : d \in session'[t].dests} = {}
      BY <3>1
    <3> QED
      BY <2>1, <3>3, <3>4 DEF OwnersOf
  <2>2. CASE d \notin gone
    BY <1>1, <2>2, OwnersStay
  <2> QED
    BY <2>1, <2>2
<1>9. O!Free(s)
  <2>1. \A d \in gone : [e \in Dests |-> OwnersOf(e)][d] = {O!BySession(s)}
    BY <1>2 DEF O!BySession
  <2>2. \A d \in gone : O!MayFree(d)
    BY <1>2, <1>5, <1>4 DEF O!MayFree
  <2>3. [d \in Dests |-> OwnersOf(d)]' = [d \in Dests |-> IF d \in gone THEN {} ELSE [e \in Dests |-> OwnersOf(e)][d]]
    BY <1>8
  <2>4. UNCHANGED <<[d \in Dests |-> dest[d].kind], {d \in Dests : dest[d].open},
                    {t \in SessionIds : session[t].mem = "allocated"}>>
    BY <1>1 DEF Same
  <2> QED
    BY <1>4, <1>6, <1>7, <2>1, <2>2, <2>3, <2>4 DEF O!Free
<1> QED
  BY <1>9 DEF O!Next

LEMMA AddNewOwns ==
    ASSUME IInv, Fresh, OnlyHttpIsRead, NEW c \in Clients, AddNew(c)
    PROVE  Fresh' /\ OnlyHttpIsRead' /\ O!Next
<1> USE DEF IInv
<1>1. PICK d \in Dests, k \in Kinds(c), ch \in Channels :
         /\ client[c].pc = "idle" /\ CanAllocDest(d)
         /\ dest' = [dest EXCEPT ![d] = [mem |-> "allocated", kind |-> k, expired |-> FALSE, open |-> FALSE]]
         /\ client' = [client EXCEPT ![c] =
               [pc |-> IF k = "live" THEN "closeType" ELSE "lookup",
                chan |-> ch, dest |-> d, sess |-> NoSession, walk |-> 0]]
         /\ UNCHANGED session
  BY DEF AddNew
<1>2. k \in {"http", "live", "url"}
  BY ActorsAssumption DEF Kinds
<1>3. /\ \A e \in Clients : e # c => client'[e] = client[e]
      /\ client'[c].pc \in {"closeType", "lookup"} /\ client'[c].dest = d /\ client'[c].sess = NoSession
  BY <1>1 DEF Typed
<1>4. /\ \A e \in Dests : e # d => dest'[e] = dest[e]
      /\ dest'[d].mem = "allocated" /\ dest'[d].kind = k /\ ~dest'[d].expired /\ ~dest'[d].open
  BY <1>1 DEF Typed
<1>5. dest[d].mem = "free" /\ ~dest[d].open /\ \A e \in Clients : client[e].dest # d
  BY <1>1 DEF CanAllocDest
<1>6. Fresh'
  BY <1>1, <1>3, ClientFresh, ActorsAssumption DEF Builds, Building
<1>7. OnlyHttpIsRead'
  BY <1>4 DEF OnlyHttpIsRead
<1>8. \A s \in SessionIds : d \notin session[s].dests
  BY <1>5 DEF Destined, ListedDestsAreAllocated
<1>9. OwnersOf(d)' = {<<"client", c>>}
  <2>1. {e \in Clients : Carries(e)' /\ client'[e].dest = d} = {c}
    BY <1>3, <1>5 DEF Carries
  <2>2. {s \in SessionIds : d \in session'[s].dests} = {}
    BY <1>1, <1>8
  <2> QED
    BY <2>1, <2>2 DEF OwnersOf
<1>10. ASSUME NEW e \in Dests, e # d
       PROVE  OwnersOf(e)' = OwnersOf(e)
  BY <1>1, <1>3, <1>10, OwnersStay DEF Carries
<1>11. ASSUME NEW e \in Dests PROVE <<"client", c>> \notin OwnersOf(e)
  BY <1>1 DEF OwnersOf, Carries
<1>12. O!Take(c, d, k)
  <2>1. d \notin Allocated \cup {e \in Dests : dest[e].open}
    BY <1>5 DEF Allocated
  <2>2. \A e \in Dests : O!ByClient(c) \notin [x \in Dests |-> OwnersOf(x)][e]
    BY <1>11 DEF O!ByClient
  <2>3. Allocated' = Allocated \cup {d}
    BY <1>4 DEF Allocated
  <2>4. [e \in Dests |-> dest[e].kind]' = [[e \in Dests |-> dest[e].kind] EXCEPT ![d] = k]
    BY <1>4
  <2>5. [e \in Dests |-> OwnersOf(e)]' = [[e \in Dests |-> OwnersOf(e)] EXCEPT ![d] = {O!ByClient(c)}]
    BY <1>9, <1>10 DEF O!ByClient
  <2>6. {e \in Dests : dest[e].open}' = {e \in Dests : dest[e].open}
    BY <1>4, <1>5
  <2>7. {e \in Allocated : dest[e].expired}' = {e \in Allocated : dest[e].expired}
    BY <1>4, <1>5 DEF Allocated
  <2>8. UNCHANGED {s \in SessionIds : session[s].mem = "allocated"}
    BY <1>1
  <2> QED
    BY <2>1, <2>2, <2>3, <2>4, <2>5, <2>6, <2>7, <2>8 DEF O!Take
<1> QED
  BY <1>2, <1>6, <1>7, <1>12 DEF O!Next

\* session_addNew waits, looks up, and puts its session into the list.
LEMMA WalkOwns ==
    ASSUME IInv, Fresh, OnlyHttpIsRead, NEW c \in Clients,
           CloseType(c) \/ Lookup(c) \/ AppendSession(c)
    PROVE  Fresh' /\ OnlyHttpIsRead' /\ UNCHANGED O!vars
<1> USE DEF IInv
<1>1. client \in [Clients -> ClientRecord] /\ UNCHANGED <<session, dest>>
  BY DEF CloseType, Lookup, AppendSession, Typed
<1>2. /\ \A e \in Clients : e # c => client'[e] = client[e]
      /\ client'[c].dest = client[c].dest /\ (Carries(c)' <=> Carries(c)) /\ client'[c].pc # "build"
      /\ \A e \in Clients : e # c /\ (Builds(e) \/ Builds(c)') => client'[c].sess # client[e].sess
  <2>1. CASE CloseType(c)
    <3>1. Moves(c, "closing", client[c].sess, 1) /\ client[c].pc = "closeType"
      BY <1>1, <2>1, Moving DEF CloseType, ClientPcs, Typed, ClientRecord
    <3> QED
      BY <3>1 DEF Moves, Carries, Builds, Fresh
  <2>2. CASE Lookup(c)
    <3>1. /\ client[c].pc = "lookup"
          /\ \/ \E i \in 1 .. Len(sessions) : Moves(c, "join", sessions[i], client[c].walk)
             \/ Moves(c, "create", client[c].sess, client[c].walk)
      <4>1. client[c].pc = "lookup" /\ client[c].walk \in Nat /\ client[c].sess \in SessionIds \cup {NoSession}
        BY <1>1, <2>2 DEF Lookup, ClientRecord
      <4>2. CASE client' = [client EXCEPT ![c].pc = "create"]
        BY <1>1, <4>1, <4>2, Moving DEF ClientPcs
      <4>3. ASSUME NEW i \in 1 .. Len(sessions),
                   client' = [client EXCEPT ![c].pc = "join", ![c].sess = sessions[i]]
            PROVE  Moves(c, "join", sessions[i], client[c].walk)
        BY <1>1, <4>1, <4>3, ListFacts, Moving DEF ClientPcs
      <4> QED
        BY <2>2, <4>1, <4>2, <4>3 DEF Lookup
    <3>2. \A i \in 1 .. Len(sessions), e \in Clients : Builds(e) => sessions[i] # client[e].sess
      BY DEF Building
    <3> QED
      BY <3>1, <3>2 DEF Moves, Carries, Builds, Fresh
  <2>3. CASE AppendSession(c)
    <3>1. Moves(c, "start", client[c].sess, client[c].walk) /\ client[c].pc = "append"
      BY <1>1, <2>3, Moving DEF AppendSession, Goto, ClientPcs, ClientRecord
    <3> QED
      BY <3>1 DEF Moves, Carries, Builds, Fresh
  <2> QED
    BY <2>1, <2>2, <2>3
<1>3. Fresh'
  BY <1>1, <1>2, ClientFresh
<1>4. UNCHANGED O!vars
  <2>1. \A e \in Clients : (Carries(e)' <=> Carries(e)) /\ client'[e].dest = client[e].dest
    BY <1>2 DEF Carries
  <2> QED
    BY <1>1, <2>1, Stuttering
<1> QED
  BY <1>1, <1>3, <1>4 DEF OnlyHttpIsRead

LEMMA CloseNextOwns ==
    ASSUME IInv, Fresh, OnlyHttpIsRead, NEW c \in Clients, CloseNext(c)
    PROVE  Fresh' /\ OnlyHttpIsRead' /\ [O!Next]_(O!vars)
<1> USE DEF IInv
<1>1. client \in [Clients -> ClientRecord] /\ client[c].pc = "closing" /\ Len(sessions) \in Nat
      /\ client[c].walk \in 1 .. Len(sessions) + 1
  BY ListFacts DEF CloseNext, Typed, Walks
<1>2. CASE client[c].walk <= Len(sessions)
  <2> DEFINE s == sessions[client[c].walk]
  <2> DEFINE gone == {d \in session[s].dests : dest[d].kind = "live"}
  <2>1. s \in SessionIds /\ Discard(s, gone) /\ client' = [client EXCEPT ![c].walk = client[c].walk + 1]
    BY <1>1, <1>2, ListFacts DEF CloseNext
  <2>2. Moves(c, "closing", client[c].sess, client[c].walk + 1)
    <3>1. client[c].walk + 1 \in Nat /\ client[c].pc \in ClientPcs /\ client[c].sess \in SessionIds \cup {NoSession}
      BY <1>1 DEF ClientRecord
    <3> HIDE DEF gone, s
    <3> QED
      BY <1>1, <2>1, <3>1, Moving
  <2>3. \A e \in Clients : (Carries(e)' <=> Carries(e)) /\ client'[e].dest = client[e].dest
    BY <1>1, <2>2 DEF Moves, Carries
  <2>4. /\ \A t \in SessionIds : session'[t].dests \subseteq session[t].dests
        /\ \A d \in Dests : dest'[d].kind = dest[d].kind /\ dest'[d].open = dest[d].open
    BY <2>1, Discarding
  <2>5. \A e \in Clients : client[e].pc = "build" => client[e].sess \in SessionIds
    BY DEF Building
  <2>6. Fresh'
    <3>1. \A e \in Clients : e # c /\ (Builds(e) \/ Builds(c)') => client'[c].sess # client[e].sess
      BY <2>2 DEF Moves, Fresh, Builds
    <3> HIDE DEF gone, s
    <3> QED
      BY <2>2, <2>4, <2>5, <3>1, ClientFresh DEF Moves
  <2>7. O!Next
    <3>1. \A d \in gone : Stops \/ dest[d].kind = "live" \/ dest[d].expired
      OBVIOUS
    <3>2. gone \subseteq session[s].dests
      OBVIOUS
    <3> HIDE DEF gone, s
    <3> QED
      BY <2>1, <2>3, <3>1, <3>2, Freeing
  <2> QED
    BY <2>4, <2>6, <2>7 DEF OnlyHttpIsRead
<1>3. CASE ~(client[c].walk <= Len(sessions))
  <2>1. client' = [client EXCEPT ![c].pc = "lookup", ![c].walk = 0] /\ UNCHANGED <<session, dest>>
    BY <1>3 DEF CloseNext
  <2>2. Moves(c, "lookup", client[c].sess, 0)
    BY <1>1, <2>1, Moving DEF ClientRecord, ClientPcs
  <2>3. \A e \in Clients : (Carries(e)' <=> Carries(e)) /\ client'[e].dest = client[e].dest
    BY <1>1, <2>2 DEF Moves, Carries
  <2>4. UNCHANGED O!vars
    BY <2>1, <2>3, Stuttering
  <2>5. \A e \in Clients : e # c /\ (Builds(e) \/ Builds(c)') => client'[c].sess # client[e].sess
    BY <2>2 DEF Moves, Fresh, Builds
  <2>6. Fresh'
    BY <2>1, <2>2, <2>5, ClientFresh DEF Moves
  <2> QED
    BY <2>1, <2>4, <2>6 DEF OnlyHttpIsRead
<1> QED
  BY <1>2, <1>3

LEMMA CreateOwns ==
    ASSUME IInv, Fresh, OnlyHttpIsRead, NEW c \in Clients, Create(c)
    PROVE  Fresh' /\ OnlyHttpIsRead' /\ O!Next
<1> USE DEF IInv
<1>1. /\ client \in [Clients -> ClientRecord] /\ session \in [SessionIds -> SessionRecord]
      /\ client[c].pc = "create" /\ UNCHANGED dest
  BY DEF Create, Typed
<1>2. OnlyHttpIsRead'
  BY <1>1 DEF OnlyHttpIsRead
<1>3. CASE client' = [client EXCEPT ![c] = IdleClient] /\ UNCHANGED session
  <2>1. /\ \A e \in Clients : e # c => client'[e] = client[e]
        /\ client'[c].pc = "idle" /\ client'[c].sess = NoSession
    BY <1>1, <1>3 DEF IdleClient
  <2>2. Fresh'
    BY <1>3, <2>1, ClientFresh, ActorsAssumption DEF Builds, Building
  <2>3. ASSUME NEW d \in Dests
        PROVE  OwnersOf(d)' = OwnersOf(d) \ {<<"client", c>>}
    <3>1. {e \in Clients : Carries(e)' /\ client'[e].dest = d}
             = {e \in Clients : Carries(e) /\ client[e].dest = d} \ {c}
      BY <2>1 DEF Carries
    <3>2. {s \in SessionIds : d \in session'[s].dests} = {s \in SessionIds : d \in session[s].dests}
      BY <1>3
    <3> QED
      BY <3>1, <3>2 DEF OwnersOf
  <2>4. O!Forget(c)
    BY <1>1, <1>3, <2>3 DEF O!Forget, O!ByClient, Allocated
  <2> QED
    BY <1>2, <2>2, <2>4 DEF O!Next
<1>4. ASSUME NEW s \in SessionIds, CanAllocSession(s),
             session' = [session EXCEPT ![s] =
                [mem |-> "allocated", state |-> 1, chan |-> "none", list |-> "null", dests |-> {}]],
             client' = [client EXCEPT ![c].pc = "build", ![c].sess = s]
      PROVE  Fresh' /\ O!Next
  <2>1. Moves(c, "build", s, client[c].walk)
    BY <1>1, <1>4, Moving DEF ClientPcs, ClientRecord
  <2>2. /\ \A t \in SessionIds : t # s => session'[t] = session[t]
        /\ session'[s].mem = "allocated" /\ session'[s].dests = {}
    BY <1>1, <1>4
  <2>3. session[s].mem = "free" /\ \A e \in Clients : client[e].sess # s
    BY <1>4 DEF CanAllocSession, Freed, Kept
  <2>4. Fresh'
    <3>1. \A e \in Clients : client[e].pc = "build" => session'[client[e].sess] = session[client[e].sess]
      BY <2>2, <2>3 DEF Building
    <3> QED
      BY <2>1, <2>2, <2>3, <3>1, ClientFresh DEF Moves
  <2>5. ASSUME NEW d \in Dests
        PROVE  OwnersOf(d)' = OwnersOf(d) \ {<<"session", s>>}
    <3>1. {e \in Clients : Carries(e)' /\ client'[e].dest = d}
             = {e \in Clients : Carries(e) /\ client[e].dest = d}
      BY <1>1, <2>1 DEF Carries, Moves
    <3>2. {t \in SessionIds : d \in session'[t].dests} = {t \in SessionIds : d \in session[t].dests} \ {s}
      BY <2>2
    <3> QED
      BY <3>1, <3>2 DEF OwnersOf
  <2>6. {t \in SessionIds : session[t].mem = "allocated"}'
           = {t \in SessionIds : session[t].mem = "allocated"} \cup {s}
    BY <2>2
  <2>7. O!Open(s)
    BY <1>1, <2>3, <2>5, <2>6 DEF O!Open, O!BySession, Allocated
  <2> QED
    BY <2>4, <2>7 DEF O!Next
<1> QED
  BY <1>2, <1>3, <1>4 DEF Create

\* What is needed of a step that puts c's destination into the list of s, to be
\* Ownership's Give.
LEMMA Giving ==
    ASSUME IInv, NEW c \in Clients, Carries(c), NEW s \in SessionIds,
           \A e \in Clients : e # c => client'[e] = client[e],
           ~Carries(c)',
           \A t \in SessionIds :
              /\ session'[t].mem = session[t].mem
              /\ session'[t].dests = session[t].dests \cup (IF t = s THEN {client[c].dest} ELSE {})
    PROVE  /\ OwnersOf(client[c].dest) = {<<"client", c>>}
           /\ [d \in Dests |-> OwnersOf(d)]'
                 = [[d \in Dests |-> OwnersOf(d)] EXCEPT ![client[c].dest] = {<<"session", s>>}]
           /\ UNCHANGED {t \in SessionIds : session[t].mem = "allocated"}
<1> USE DEF IInv
<1>1. PICK x \in Dests : x = client[c].dest /\ OwnersOf(x) = {<<"client", c>>}
  BY Owning
<1>2. /\ \A e \in Clients : Carries(e) /\ client[e].dest = x => e = c
      /\ \A t \in SessionIds : x \notin session[t].dests
  BY <1>1 DEF Destined, Carries
<1>3. OwnersOf(x)' = {<<"session", s>>}
  <2>1. {e \in Clients : Carries(e)' /\ client'[e].dest = x} = {}
    BY <1>2 DEF Carries
  <2>2. {t \in SessionIds : x \in session'[t].dests} = {s}
    BY <1>1, <1>2
  <2> QED
    BY <2>1, <2>2 DEF OwnersOf
<1>4. ASSUME NEW d \in Dests, d # x
      PROVE  OwnersOf(d)' = OwnersOf(d)
  BY <1>1, <1>4, OwnersStay DEF Carries
<1>5. UNCHANGED {t \in SessionIds : session[t].mem = "allocated"}
  OBVIOUS
<1>6. [d \in Dests |-> OwnersOf(d)]'
         = [[d \in Dests |-> OwnersOf(d)] EXCEPT ![x] = {<<"session", s>>}]
  BY <1>3, <1>4
<1> QED
  BY <1>1, <1>5, <1>6

LEMMA BuildOwns ==
    ASSUME IInv, Fresh, OnlyHttpIsRead, NEW c \in Clients, Build(c)
    PROVE  Fresh' /\ OnlyHttpIsRead' /\ O!Next
<1> USE DEF IInv
<1>1. /\ client[c].pc = "build" /\ Carries(c) /\ UNCHANGED dest
      /\ client \in [Clients -> ClientRecord] /\ session \in [SessionIds -> SessionRecord]
      /\ client' = [client EXCEPT ![c].pc = "append"]
  BY DEF Build, Goto, Typed, Carries
<1>2. PICK s \in SessionIds : s = client[c].sess
  BY <1>1 DEF Building
<1>3. Moves(c, "append", s, client[c].walk)
  BY <1>1, <1>2, Moving DEF ClientPcs, ClientRecord
<1>4. /\ \A t \in SessionIds : t # s => session'[t] = session[t]
      /\ session'[s].mem = session[s].mem /\ session'[s].dests = {client[c].dest}
  <2>1. session' = [session EXCEPT ![s] = [session[s] EXCEPT
           !.chan = client[c].chan, !.list = "list", !.dests = {client[c].dest}]]
    BY <1>2 DEF Build
  <2>2. session[s] \in SessionRecord
    BY <1>1
  <2> QED
    BY <1>1, <2>1, <2>2 DEF SessionRecord
<1>5. session[s].dests = {}
  BY <1>1, <1>2 DEF Fresh
<1>6. Fresh'
  <2>1. \A e \in Clients : e # c => client[e].sess # s
    BY <1>1, <1>2 DEF Fresh, Builds
  <2>2. \A e \in Clients : e # c /\ client[e].pc = "build" =>
           session'[client[e].sess] = session[client[e].sess]
    BY <1>4, <2>1 DEF Building
  <2> QED
    BY <1>3, <2>1, <2>2, ClientFresh DEF Moves
<1>7. /\ OwnersOf(client[c].dest) = {<<"client", c>>}
      /\ [d \in Dests |-> OwnersOf(d)]'
            = [[d \in Dests |-> OwnersOf(d)] EXCEPT ![client[c].dest] = {<<"session", s>>}]
      /\ UNCHANGED {t \in SessionIds : session[t].mem = "allocated"}
  <2>1. ~Carries(c)' /\ \A e \in Clients : e # c => client'[e] = client[e]
    BY <1>3 DEF Moves, Carries
  <2>2. \A t \in SessionIds :
           /\ session'[t].mem = session[t].mem
           /\ session'[t].dests = session[t].dests \cup (IF t = s THEN {client[c].dest} ELSE {})
    BY <1>4, <1>5
  <2> QED
    BY <1>1, <2>1, <2>2, Giving
<1>8. PICK d \in Dests : d = client[c].dest
  BY <1>1 DEF Destined
<1>9. O!Give(c, s, d)
  BY <1>1, <1>7, <1>8 DEF O!Give, O!ByClient, O!BySession, Allocated
<1> QED
  BY <1>1, <1>6, <1>8, <1>9 DEF O!Next, OnlyHttpIsRead

\* The call returns: a web connection begins to read, if it is a web client's.
LEMMA ReturnReads ==
    ASSUME IInv, OnlyHttpIsRead, NEW c \in Clients, client[c].pc \in {"start", "join"}, Return(c),
           NEW d \in Dests, d = client[c].dest
    PROVE  /\ OnlyHttpIsRead'
           /\ UNCHANGED <<Allocated, [x \in Dests |-> dest[x].kind], {x \in Allocated : dest[x].expired}>>
           /\ O!Read(d) \/ UNCHANGED {x \in Dests : dest[x].open}
<1> DEFINE Reads == c # Telnet /\ dest[d].kind = "http"
<1> USE DEF IInv
<1>1. dest \in [Dests -> DestRecord]
  BY DEF Typed
<1>2. dest[d] \in DestRecord /\ dest' = IF Reads THEN [dest EXCEPT ![d] = [dest[d] EXCEPT !.open = TRUE]] ELSE dest
  BY <1>1 DEF Return
<1>3. CASE Reads
  <2>1. /\ \A x \in Dests : x # d => dest'[x] = dest[x]
        /\ dest'[d].mem = dest[d].mem /\ dest'[d].kind = dest[d].kind /\ dest'[d].expired = dest[d].expired
        /\ dest'[d].open
    BY <1>1, <1>2, <1>3 DEF DestRecord
  <2>2. OnlyHttpIsRead'
    BY <1>3, <2>1 DEF OnlyHttpIsRead
  <2>3. UNCHANGED <<Allocated, [x \in Dests |-> dest[x].kind], {x \in Allocated : dest[x].expired}>>
    BY <2>1 DEF Allocated
  <2>4. {x \in Dests : dest[x].open}' = {x \in Dests : dest[x].open} \cup {d}
    BY <2>1
  <2>5. Stops \/ d \in Allocated \ {x \in Allocated : dest[x].expired}
    BY <1>3 DEF Read, Allocated
  <2>6. O!Read(d)
    BY <1>3, <2>4, <2>5 DEF O!Read, O!Readable
  <2> QED
    BY <2>2, <2>3, <2>6
<1>4. CASE ~Reads
  <2>1. dest' = dest
    BY <1>2, <1>4
  <2> QED
    BY <2>1 DEF OnlyHttpIsRead, Allocated
<1> QED
  BY <1>3, <1>4

LEMMA StartThreadOwns ==
    ASSUME IInv, Fresh, OnlyHttpIsRead, NEW c \in Clients, StartThread(c)
    PROVE  Fresh' /\ OnlyHttpIsRead' /\ [O!Next]_(O!vars)
<1> USE DEF IInv
<1>1. client[c].pc = "start" /\ Return(c) /\ UNCHANGED session
  BY DEF StartThread
<1>2. PICK d \in Dests : d = client[c].dest
  BY <1>1 DEF Destined
<1>3. (\A e \in Clients : e # c => client'[e] = client[e]) /\ client'[c] = IdleClient
  BY <1>1, <1>2, Returning
<1>4. Fresh'
  BY <1>1, <1>3, ClientFresh, ActorsAssumption DEF Builds, Building, IdleClient
<1>5. /\ OnlyHttpIsRead'
      /\ UNCHANGED <<Allocated, [x \in Dests |-> dest[x].kind], {x \in Allocated : dest[x].expired}>>
      /\ O!Read(d) \/ UNCHANGED {x \in Dests : dest[x].open}
  BY <1>1, <1>2, ReturnReads
<1>6. ASSUME NEW x \in Dests PROVE OwnersOf(x)' = OwnersOf(x)
  BY <1>1, <1>3, OwnersStay DEF Carries, IdleClient
<1>7. UNCHANGED <<[x \in Dests |-> OwnersOf(x)], {s \in SessionIds : session[s].mem = "allocated"}>>
  BY <1>1, <1>6
<1>8. O!Begin(d) \/ UNCHANGED O!vars
  BY <1>5, <1>7 DEF O!Begin, O!vars
<1> QED
  BY <1>4, <1>5, <1>8 DEF O!Next

LEMMA JoinOwns ==
    ASSUME IInv, Fresh, OnlyHttpIsRead, NEW c \in Clients, Join(c)
    PROVE  Fresh' /\ OnlyHttpIsRead' /\ O!Next
<1> USE DEF IInv
<1>1. /\ client[c].pc = "join" /\ Carries(c) /\ Return(c)
      /\ session \in [SessionIds -> SessionRecord]
  BY DEF Join, Carries, Typed
<1>2. PICK d \in Dests, s \in SessionIds : d = client[c].dest /\ s = client[c].sess
  BY <1>1 DEF Destined, Building
<1>3. (\A e \in Clients : e # c => client'[e] = client[e]) /\ client'[c] = IdleClient
  BY <1>1, <1>2, Returning
<1>4. \A t \in SessionIds :
         /\ session'[t].mem = session[t].mem
         /\ session'[t].dests = session[t].dests \cup (IF t = s THEN {d} ELSE {})
         /\ t # s => session'[t] = session[t]
  <2>1. session' = [session EXCEPT ![s] = [session[s] EXCEPT !.dests = session[s].dests \cup {d}]]
    BY <1>2 DEF Join
  <2>2. session[s] \in SessionRecord
    BY <1>1
  <2>3. session'[s].mem = session[s].mem /\ session'[s].dests = session[s].dests \cup {d}
    BY <1>1, <2>1, <2>2 DEF SessionRecord
  <2> QED
    BY <1>1, <2>1, <2>3
<1>5. Fresh'
  <2>1. \A e \in Clients : e # c /\ Builds(e) => client[e].sess \in SessionIds /\ client[e].sess # s
    BY <1>2 DEF Fresh, Building, Builds
  <2>2. \A e \in Clients : e # c /\ client[e].pc = "build" =>
           session'[client[e].sess] = session[client[e].sess]
    BY <1>4, <2>1 DEF Builds
  <2> QED
    BY <1>3, <2>1, <2>2, ClientFresh, ActorsAssumption DEF Builds, Building, IdleClient
<1>6. /\ OnlyHttpIsRead'
      /\ UNCHANGED <<Allocated, [x \in Dests |-> dest[x].kind], {x \in Allocated : dest[x].expired}>>
      /\ O!Read(d) \/ UNCHANGED {x \in Dests : dest[x].open}
  BY <1>1, <1>2, ReturnReads
<1>7. /\ OwnersOf(d) = {<<"client", c>>}
      /\ [x \in Dests |-> OwnersOf(x)]' = [[x \in Dests |-> OwnersOf(x)] EXCEPT ![d] = {<<"session", s>>}]
      /\ UNCHANGED {t \in SessionIds : session[t].mem = "allocated"}
  <2>1. ~Carries(c)'
    BY <1>3 DEF Carries, IdleClient
  <2> QED
    BY <1>1, <1>2, <1>3, <1>4, <2>1, Giving
<1>8. O!Give(c, s, d)
  BY <1>6, <1>7 DEF O!Give, O!ByClient, O!BySession
<1> QED
  BY <1>5, <1>6, <1>8 DEF O!Next

LEMMA ClientOwns ==
    ASSUME IInv, Fresh, OnlyHttpIsRead, NEW c \in Clients, AddNew(c) \/ ClientStep(c)
    PROVE  Fresh' /\ OnlyHttpIsRead' /\ [O!Next]_(O!vars)
BY AddNewOwns, WalkOwns, CloseNextOwns, CreateOwns, BuildOwns, StartThreadOwns, JoinOwns DEF ClientStep

-----------------------------------------------------------------------------
(* The other threads, and module Ownership.                                 *)

LEMMA HttpEndOwns ==
    ASSUME IInv, Fresh, OnlyHttpIsRead, NEW d \in Dests, HttpEnd(d)
    PROVE  Fresh' /\ OnlyHttpIsRead' /\ O!Next
<1> USE DEF IInv
<1>1. /\ dest[d].open /\ UNCHANGED <<session, client>> /\ dest \in [Dests -> DestRecord]
      /\ dest' = [dest EXCEPT ![d] = [dest[d] EXCEPT !.open = FALSE, !.expired = TRUE]]
  BY DEF HttpEnd, Typed
<1>2. /\ \A x \in Dests : x # d => dest'[x] = dest[x]
      /\ dest'[d].mem = dest[d].mem /\ dest'[d].kind = dest[d].kind /\ dest'[d].expired /\ ~dest'[d].open
  <2>1. dest[d] \in DestRecord
    BY <1>1
  <2> QED
    BY <1>1, <2>1 DEF DestRecord
<1>3. Fresh' /\ OnlyHttpIsRead'
  BY <1>1, <1>2, QuietFresh
<1>4. ASSUME NEW x \in Dests PROVE OwnersOf(x)' = OwnersOf(x)
  BY <1>1, OwnersStay DEF Carries
<1>5. O!End(d)
  <2>1. Allocated' = Allocated
    BY <1>2 DEF Allocated
  <2>2. {x \in Allocated : dest[x].expired}' = {x \in Allocated : dest[x].expired} \cup ({d} \cap Allocated)
    <3>1. \A x \in Dests : dest'[x].expired <=> (dest[x].expired \/ x = d)
      BY <1>2
    <3>2. Allocated \subseteq Dests
      BY DEF Allocated
    <3> QED
      BY <2>1, <3>1, <3>2
  <2>3. {x \in Dests : dest[x].open}' = {x \in Dests : dest[x].open} \ {d}
    BY <1>2
  <2>4. UNCHANGED <<[x \in Dests |-> OwnersOf(x)], {s \in SessionIds : session[s].mem = "allocated"},
                    [x \in Dests |-> dest[x].kind]>>
    BY <1>1, <1>2, <1>4
  <2> QED
    BY <1>1, <2>1, <2>2, <2>3, <2>4 DEF O!End
<1> QED
  BY <1>3, <1>5 DEF O!Next

\* A step of a thread that moves no destination and frees no session.
LEMMA QuietOwns ==
    ASSUME IInv, Fresh, OnlyHttpIsRead, UNCHANGED <<client, dest>>,
           \A s \in SessionIds : session'[s].mem = session[s].mem /\ session'[s].dests = session[s].dests
    PROVE  Fresh' /\ OnlyHttpIsRead' /\ UNCHANGED O!vars
<1>1. Fresh' /\ OnlyHttpIsRead'
  BY QuietFresh
<1>2. UNCHANGED O!vars
  BY Stuttering DEF Carries
<1> QED
  BY <1>1, <1>2

\* A list of destinations loses those that may be freed.
LEMMA DiscardOwns ==
    ASSUME IInv, Fresh, OnlyHttpIsRead, NEW s \in SessionIds, NEW gone, gone \subseteq session[s].dests,
           Discard(s, gone), client' = client,
           \A d \in gone : Stops \/ dest[d].kind = "live" \/ dest[d].expired
    PROVE  Fresh' /\ OnlyHttpIsRead' /\ O!Next
<1>1. O!Next
  BY Freeing DEF Carries
<1>2. /\ \A t \in SessionIds : session'[t].dests \subseteq session[t].dests
      /\ \A d \in Dests : dest'[d].kind = dest[d].kind /\ dest'[d].open = dest[d].open
  BY Discarding DEF IInv
<1> QED
  BY <1>1, <1>2, QuietFresh

\* A session is freed, with whatever is in its list.
LEMMA FreeOwns ==
    ASSUME IInv, Fresh, OnlyHttpIsRead, NEW s \in SessionIds, session[s].mem = "allocated",
           session' = [session EXCEPT ![s].mem = "free"], UNCHANGED <<client, dest>>
    PROVE  Fresh' /\ OnlyHttpIsRead' /\ O!Next
<1> USE DEF IInv
<1>1. /\ \A t \in SessionIds : t # s => session'[t] = session[t]
      /\ \A t \in SessionIds : session'[t].dests = session[t].dests
      /\ session'[s].mem = "free"
  BY GivingUp DEF Typed, SessionRecord
<1>2. Fresh' /\ OnlyHttpIsRead'
  BY <1>1, QuietFresh
<1>3. ASSUME NEW d \in Dests PROVE OwnersOf(d)' = OwnersOf(d)
  BY <1>1, OwnersStay DEF Carries
<1>4. O!Close(s)
  <2>1. {t \in SessionIds : session[t].mem = "allocated"}'
           = {t \in SessionIds : session[t].mem = "allocated"} \ {s}
    BY <1>1
  <2> QED
    BY <1>3, <2>1 DEF O!Close, Allocated
<1> QED
  BY <1>2, <1>4 DEF O!Next

LEMMA BufOwns ==
    ASSUME IInv, Fresh, OnlyHttpIsRead, NEW s \in SessionIds, NEW i \in 1 .. 2, BufStep(s, i)
    PROVE  Fresh' /\ OnlyHttpIsRead' /\ [O!Next]_(O!vars)
<1>1. UNCHANGED client
  BY DEF BufStep, BufCheck, BufCopy, BufEnter, BufLeave, BufUnchanged
<1>2. CASE BufLeave(s, i)
  <2> DEFINE gone == {d \in session[s].dests : dest[d].expired}
  <2>1. Discard(s, gone) /\ gone \subseteq session[s].dests /\ \A d \in gone : dest[d].expired
    BY <1>2 DEF BufLeave
  <2> HIDE DEF gone
  <2> QED
    BY <1>1, <2>1, DiscardOwns
<1>3. CASE BufCheck(s, i) \/ BufCopy(s, i) \/ BufEnter(s, i)
  <2>1. UNCHANGED <<session, dest>>
    BY <1>3 DEF BufCheck, BufCopy, BufEnter
  <2> QED
    BY <1>1, <2>1, QuietOwns
<1> QED
  BY <1>2, <1>3 DEF BufStep

LEMMA ReaperOwns ==
    ASSUME IInv, Fresh, OnlyHttpIsRead, ReaperStep
    PROVE  Fresh' /\ OnlyHttpIsRead' /\ [O!Next]_(O!vars)
<1> USE DEF IInv
<1>1. UNCHANGED <<client, dest>>
  BY DEF ReaperStep, ReaperWake, ReaperLook, ReaperStop, ReaperDestroy, ReaperFree, ReaperUnchanged
<1>2. CASE ReaperWake \/ ReaperLook
  BY <1>1, <1>2, QuietOwns DEF ReaperWake, ReaperLook
<1>3. CASE ReaperStop \/ ReaperDestroy \/ ReaperFree
  <2>1. PICK s \in SessionIds : s = sessions[reaper.walk] /\ session[s].mem = "allocated"
    BY <1>3, ListFacts DEF ReaperStop, ReaperDestroy, ReaperFree, Walks, Listed
  <2>2. CASE ReaperStop
    BY <1>1, <2>1, <2>2, GivingUp, QuietOwns DEF ReaperStop
  <2>3. CASE ReaperDestroy
    BY <1>1, <2>1, <2>3, Destroying, QuietOwns DEF ReaperDestroy
  <2>4. CASE ReaperFree
    BY <1>1, <2>1, <2>4, FreeOwns DEF ReaperFree
  <2> QED
    BY <1>3, <2>2, <2>3, <2>4
<1> QED
  BY <1>2, <1>3 DEF ReaperStep

LEMMA StopOwns ==
    ASSUME IInv, Fresh, OnlyHttpIsRead, StopStep
    PROVE  Fresh' /\ OnlyHttpIsRead' /\ [O!Next]_(O!vars)
<1> USE DEF IInv
<1>1. UNCHANGED client /\ Stops
  BY DEF StopStep, StopState, StopFree, StopCloseAll, StopDestroy, StopUnchanged, Owners
<1>2. PICK s \in SessionIds : s = stop.sess
  BY DEF StopStep, StopState, StopFree, StopCloseAll, StopDestroy, Walks
<1>3. CASE StopState
  BY <1>1, <1>2, <1>3, GivingUp, QuietOwns DEF StopState
<1>4. CASE StopFree
  <2>1. session[s].mem = "allocated"
    BY <1>2, <1>4, ListFacts DEF StopFree, Walks, Listed
  <2> QED
    BY <1>1, <1>2, <1>4, <2>1, FreeOwns DEF StopFree
<1>5. CASE StopCloseAll
  BY <1>1, <1>2, <1>5, DiscardOwns DEF StopCloseAll
<1>6. CASE StopDestroy
  BY <1>1, <1>2, <1>6, Destroying, QuietOwns DEF StopDestroy
<1> QED
  BY <1>3, <1>4, <1>5, <1>6 DEF StopStep

LEMMA OwnsStep ==
    ASSUME IInv, Fresh, OnlyHttpIsRead, [Next]_vars
    PROVE  Fresh' /\ OnlyHttpIsRead' /\ [O!Next]_(O!vars)
<1>1. CASE \E c \in Clients : AddNew(c) \/ ClientStep(c)
  BY <1>1, ClientOwns
<1>2. CASE \E d \in Dests : HttpEnd(d)
  BY <1>2, HttpEndOwns
<1>3. CASE \E s \in SessionIds, i \in 1 .. 2 : BufStep(s, i)
  BY <1>3, BufOwns
<1>4. CASE ReaperStep
  BY <1>4, ReaperOwns
<1>5. CASE StopStep
  BY <1>5, StopOwns
<1>6. CASE UNCHANGED vars \/ StartSession \/ \E s \in SessionIds : StopSession(s)
  BY <1>6, QuietOwns DEF vars, StartSession, StopSession, StopUnchanged
<1> QED
  BY <1>1, <1>2, <1>3, <1>4, <1>5, <1>6 DEF Next

LEMMA OwnsInit == Init => Fresh /\ OnlyHttpIsRead /\ O!Init
<1> SUFFICES ASSUME Init PROVE Fresh /\ OnlyHttpIsRead /\ O!Init
  OBVIOUS
<1>1. /\ \A c \in Clients : client[c] = IdleClient
      /\ \A d \in Dests : dest[d] = NewDest
      /\ \A s \in SessionIds : session[s] = NewSession
  BY DEF Init
<1>2. Fresh /\ OnlyHttpIsRead
  BY <1>1 DEF Fresh, OnlyHttpIsRead, Builds, IdleClient, NewDest
<1>3. \A d \in Dests : OwnersOf(d) = {}
  BY <1>1 DEF OwnersOf, Carries, IdleClient, NewSession
<1>4. Allocated = {} /\ {d \in Dests : dest[d].open} = {}
  BY <1>1 DEF Allocated, NewDest
<1>5. {s \in SessionIds : session[s].mem = "allocated"} = {}
  BY <1>1 DEF NewSession
<1>6. [d \in Dests |-> dest[d].kind] = [d \in Dests |-> "none"]
  BY <1>1 DEF NewDest
<1>7. [d \in Dests |-> OwnersOf(d)] = [d \in Dests |-> {}]
  BY <1>3
<1> QED
  BY <1>2, <1>4, <1>5, <1>6, <1>7 DEF O!Init

\* Destinations are owned as module Ownership promises, for any number of them,
\* of clients and of sessions (session.c:357, :492, destination.c:88, :326, :376):
\* the web server's readers, the buffer threads, new live clients, the reaper and
\* session.stop never free one that another owns.
THEOREM DestinationsHaveOwners == Spec => OwnsDests
<1>1. IInv /\ Fresh /\ OnlyHttpIsRead /\ [Next]_vars
         => (IInv /\ Fresh /\ OnlyHttpIsRead)' /\ [O!Next]_(O!vars)
  BY InvStep, OwnsStep
<1>2. Init => IInv /\ Fresh /\ OnlyHttpIsRead /\ O!Init
  BY InitInv, OwnsInit
<1> QED
  BY <1>1, <1>2, PTL DEF Spec, O!Spec, OwnsDests

-----------------------------------------------------------------------------
(* The lock of the sessions, the safety half of AddNewReturns. What a step  *)
(* of one thread does to it, and where that thread stands then.             *)

\* A client takes the lock to turn live viewers out, and gives it back at the end of its walk.
LEMMA ClientLock ==
    ASSUME IInv, SessionsLockIsUsed, NEW c \in Clients, AddNew(c) \/ ClientStep(c)
    PROVE  SessionsLockIsUsed'
<1> USE DEF IInv, SessionsLockIsUsed
<1>1. UNCHANGED <<reaper, stop>>
  BY DEF AddNew, ClientStep, CloseType, CloseNext, Lookup, Create, Build, AppendSession, StartThread,
         Join
<1>2. \A e \in Clients \ {c} : client'[e] = client[e]
  BY DEF AddNew, ClientStep, CloseType, CloseNext, Lookup, Create, Build, AppendSession, StartThread,
         Join, Return, Goto, Typed
<1>3. CASE CloseType(c)
  <2>1. sessionsLock' = c /\ client'[c].pc = "closing"
    BY <1>3 DEF CloseType, Typed, ClientRecord
  <2> QED
    BY <2>1
<1>4. CASE CloseNext(c)
  <2>1. sessionsLock = c
    BY <1>4 DEF CloseNext, Owners
  <2>2. \/ sessionsLock' = Nobody
        \/ sessionsLock' = c /\ client'[c].pc = "closing"
    BY <1>4, <2>1 DEF CloseNext, Typed, ClientRecord
  <2> QED
    BY <2>2
<1>5. CASE AddNew(c) \/ Lookup(c) \/ Create(c) \/ Build(c) \/ AppendSession(c) \/ StartThread(c) \/ Join(c)
  <2>1. UNCHANGED sessionsLock /\ client[c].pc # "closing"
    BY <1>5 DEF AddNew, Lookup, Create, Build, AppendSession, StartThread, Join
  <2> QED
    BY <1>1, <1>2, <2>1
<1> QED
  BY <1>3, <1>4, <1>5 DEF ClientStep

LEMMA ReaperLock ==
    ASSUME IInv, SessionsLockIsUsed, ReaperStep
    PROVE  SessionsLockIsUsed'
<1> USE DEF IInv, SessionsLockIsUsed
<1>1. CASE ReaperWake
  BY <1>1 DEF ReaperWake
<1>2. CASE ~ReaperWake
  <2>1. reaper.pc # "sleep" /\ sessionsLock = Reaper
    BY <1>2 DEF ReaperStep, ReaperLook, ReaperStop, ReaperDestroy, ReaperFree, Owners
  <2>2. \/ sessionsLock' = Nobody
        \/ sessionsLock' = sessionsLock /\ reaper'.pc # "sleep"
    BY <1>2 DEF ReaperStep, ReaperLook, ReaperStop, ReaperDestroy, ReaperFree, Typed
  <2> QED
    BY <2>1, <2>2
<1> QED
  BY <1>1, <1>2

LEMMA StopLock ==
    ASSUME IInv, SessionsLockIsUsed, StopStep \/ \E s \in SessionIds : StopSession(s)
    PROVE  SessionsLockIsUsed'
<1> USE DEF IInv, SessionsLockIsUsed
<1>1. UNCHANGED <<client, reaper>>
  BY DEF StopStep, StopState, StopFree, StopCloseAll, StopDestroy, StopSession, StopUnchanged
<1>2. CASE \E s \in SessionIds : StopSession(s)
  BY <1>2 DEF StopSession
<1>3. CASE StopState
  BY <1>3 DEF StopState, Owners, Typed
<1>4. CASE StopFree
  BY <1>4 DEF StopFree
<1>5. CASE StopCloseAll \/ StopDestroy
  <2>1. UNCHANGED sessionsLock /\ stop.pc \notin {"state", "free"}
    BY <1>5 DEF StopCloseAll, StopDestroy
  <2> QED
    BY <1>1, <2>1
<1> QED
  BY <1>2, <1>3, <1>4, <1>5 DEF StopStep

LEMMA LockStep == IInv /\ SessionsLockIsUsed /\ [Next]_vars => SessionsLockIsUsed'
<1> SUFFICES ASSUME IInv, SessionsLockIsUsed, [Next]_vars PROVE SessionsLockIsUsed'
  OBVIOUS
<1>1. CASE \E c \in Clients : AddNew(c) \/ ClientStep(c)
  BY <1>1, ClientLock
<1>2. CASE ReaperStep
  BY <1>2, ReaperLock
<1>3. CASE StopStep \/ \E s \in SessionIds : StopSession(s)
  BY <1>3, StopLock
<1>4. CASE \/ UNCHANGED vars \/ StartSession \/ \E d \in Dests : HttpEnd(d)
           \/ \E s \in SessionIds, i \in 1 .. 2 : BufStep(s, i)
  <2>1. UNCHANGED <<sessionsLock, client, reaper, stop>>
    BY <1>4 DEF vars, StartSession, HttpEnd, BufStep, BufCheck, BufCopy, BufEnter, BufLeave,
                BufUnchanged
  <2> QED
    BY <2>1 DEF SessionsLockIsUsed
<1> QED
  BY <1>1, <1>2, <1>3, <1>4 DEF Next

\* Nobody walks away with the lock of the sessions: neither the reaper, whose
\* walk has one way out, nor a new live client, nor session.stop (session.c:313,
\* :672): the lock is theirs only until they give it back.
THEOREM NobodyKeepsTheSessions == Spec => []SessionsLockIsUsed
<1>1. Init => SessionsLockIsUsed
  BY DEF Init, SessionsLockIsUsed
<1> QED
  BY <1>1, Inductive, LockStep, PTL DEF Spec
=============================================================================
