------------------------------ MODULE Ownership ------------------------------
(***************************************************************************)
(* What session.c and destination.c promise about a destination: it belongs *)
(* to the client that made it, then to one session, and only that session   *)
(* frees it: once, and for a reason. A web connection that reads it keeps   *)
(* it until the connection has gone, unless sessions are stopped by command.*)
(* A destination may be lost (allocated, and nobody's) in two ways only: its*)
(* client finds no tuner, or its session is already gone and the address is *)
(* used again.                                                              *)
(***************************************************************************)
CONSTANTS Dests, Clients, SessionIds,
          Stops  \* whether sessions are stopped by command

VARIABLES
    allocated,  \* the destinations there are
    kind,       \* of each: http, live, url
    owners,     \* of each: the client that carries it, or the session it is served by
    reading,    \* those a web connection reads
    ended,      \* those whose web connection has gone
    live        \* the sessions there are

vars == <<allocated, kind, owners, reading, ended, live>>

ByClient(c) == <<"client", c>>
BySession(s) == <<"session", s>>

Init ==
    /\ allocated = {} /\ reading = {} /\ ended = {} /\ live = {}
    /\ kind = [d \in Dests |-> "none"]
    /\ owners = [d \in Dests |-> {}]

\* A client makes one destination at a time.
Take(c, d, k) ==
    /\ d \notin allocated \cup reading
    /\ \A e \in Dests : ByClient(c) \notin owners[e]
    /\ allocated' = allocated \cup {d}
    /\ kind' = [kind EXCEPT ![d] = k]
    /\ owners' = [owners EXCEPT ![d] = {ByClient(c)}]
    /\ UNCHANGED <<reading, ended, live>>

Readable(d) == kind[d] = "http" /\ (Stops \/ d \in allocated \ ended)

Read(d) == Readable(d) /\ reading' = reading \cup {d}

\* From the client, which carried it alone, to a session; with that its call
\* may be over and the reading begin.
Give(c, s, d) ==
    /\ owners[d] = {ByClient(c)}
    /\ owners' = [owners EXCEPT ![d] = {BySession(s)}]
    /\ Read(d) \/ UNCHANGED reading
    /\ UNCHANGED <<allocated, kind, ended, live>>

Begin(d) == Read(d) /\ UNCHANGED <<allocated, kind, owners, ended, live>>

End(d) ==
    /\ d \in reading /\ reading' = reading \ {d}
    /\ ended' = ended \cup ({d} \cap allocated)
    /\ UNCHANGED <<allocated, kind, owners, live>>

MayFree(d) == Stops \/ (d \notin reading /\ (kind[d] = "live" \/ d \in ended))

\* A session frees what is its own.
Free(s) ==
    \E gone \in SUBSET allocated :
        /\ \A d \in gone : owners[d] = {BySession(s)} /\ MayFree(d)
        /\ allocated' = allocated \ gone /\ ended' = ended \ gone
        /\ owners' = [d \in Dests |-> IF d \in gone THEN {} ELSE owners[d]]
        /\ UNCHANGED <<kind, reading, live>>

\* No tuner.
Forget(c) ==
    /\ owners' = [d \in Dests |-> owners[d] \ {ByClient(c)}]
    /\ UNCHANGED <<allocated, kind, reading, ended, live>>

\* What an earlier session of this address had left is lost.
Open(s) ==
    /\ s \notin live /\ live' = live \cup {s}
    /\ owners' = [d \in Dests |-> owners[d] \ {BySession(s)}]
    /\ UNCHANGED <<allocated, kind, reading, ended>>

Close(s) ==
    /\ s \in live /\ live' = live \ {s}
    /\ UNCHANGED <<allocated, kind, owners, reading, ended>>

Next ==
    \/ \E c \in Clients, d \in Dests, k \in {"http", "live", "url"} : Take(c, d, k)
    \/ \E c \in Clients, s \in SessionIds, d \in Dests : Give(c, s, d)
    \/ \E d \in Dests : Begin(d) \/ End(d)
    \/ \E s \in SessionIds : Free(s) \/ Open(s) \/ Close(s)
    \/ \E c \in Clients : Forget(c)

Spec == Init /\ [][Next]_vars
=============================================================================
