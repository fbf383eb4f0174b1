------------------------------- MODULE Console -------------------------------
(***************************************************************************)
(* The telnet console: the select loop of socketserver.c and the users of   *)
(* telnetservermanager.c. The loop is one thread, and every callback keeps  *)
(* the lock of TELNET_USERS from its first access to its last; each byte    *)
(* that arrives is one step. Users are found by descriptor, which the kernel*)
(* hands out again, and an entry outlives a connection that ends with an    *)
(* error.                                                                   *)
(***************************************************************************)
EXTENDS Naturals, Sequences, SequencesExt

CONSTANTS
    Fds, Nobody,
    Printable,          \* characters
    Accounts,           \* <<name, password>>: the lines of the user file
    Quit,               \* the line "quit"
    MaxFailed,          \* failedLogin >= 2
    SkipGuard,          \* 50: bytes of a subnegotiation
    MaxLine             \* bound: longest line typed, within MAX_TELNET_STRING

ASSUME NobodyAssumption == Nobody \notin Fds
ASSUME BoundsAssumption == SkipGuard \in Nat /\ SkipGuard >= 3 /\ {MaxFailed, MaxLine} \subseteq Nat

VARIABLES
    master,     \* descriptors the loop selects on, the listener aside
    users,      \* TELNET_USERS_LL
    phase,      \* of each client: where it is in a negotiation, and the bytes of one
    ran         \* history: whose command has just run

vars == <<master, users, phase, ran>>

Lines == SeqOf(Printable, MaxLine)
Typing == [at |-> "plain", sent |-> 0]

Init == master = {} /\ users = <<>> /\ phase = [f \in Fds |-> Typing] /\ ran = Nobody

-----------------------------------------------------------------------------
\* The first entry telnet_process finds for a descriptor.
Entry(f) == CHOOSE i \in 1 .. Len(users) :
                users[i].fd = f /\ \A j \in 1 .. i - 1 : users[j].fd # f
User(f) == users[Entry(f)]

\* The walks of telnet_onconnect and telnet_ondisconnect drop what they find
\* of a descriptor, of which there is one entry at most (OneEntryEach).
Others(f) == IF \E i \in 1 .. Len(users) : users[i].fd = f THEN RemoveAt(users, Entry(f)) ELSE users

\* Seeded fault: the entry of an earlier connection stays.
FreshAfterStale(f, l) ==
    Append(users, [fd |-> f, name |-> <<>>, failedLogin |-> 0, authenticated |-> 0,
                   buf |-> l, currentPtr |-> 0, skipChars |-> 0])

\* telnet_onconnect. What malloc returns holds any line (and any
\* name, which is not read before it is given).
Fresh(f, l) ==
    Append(Others(f), [fd |-> f, name |-> <<>>, failedLogin |-> 0, authenticated |-> 0,
                       buf |-> l, currentPtr |-> 0, skipChars |-> 0])

Connect(f) ==
    /\ f \notin master /\ master' = master \cup {f}
    /\ \E l \in Lines : users' = Fresh(f, l)
    /\ phase' = [phase EXCEPT ![f] = Typing]
    /\ ran' = Nobody

Update(f, u) == users' = [users EXCEPT ![Entry(f)] = u]

Disconnect(f) ==
    /\ master' = master \ {f}
    /\ users' = Others(f)
    /\ phase' = [phase EXCEPT ![f] = Typing]
    /\ ran' = Nobody

\* recv returns 0.
HangUp(f) == f \in master /\ Disconnect(f)

\* recv fails: the user is not told.
RecvFails(f) ==
    /\ f \in master /\ master' = master \ {f}
    /\ phase' = [phase EXCEPT ![f] = Typing]
    /\ ran' = Nobody
    /\ UNCHANGED users

-----------------------------------------------------------------------------
(* telnet_process. The buffer is the string up to its first zero; currentPtr *)
(* may have gone back without it.                                           *)

\* Outside of negotiations.
Plain(f) == f \in master /\ phase[f] = Typing /\ User(f).skipChars = 0

TypeChar(f) ==
    /\ Plain(f) /\ User(f).currentPtr < MaxLine
    /\ \E c \in Printable :
          Update(f, [User(f) EXCEPT !.buf = Append(SubSeq(@, 1, User(f).currentPtr), c),
                                    !.currentPtr = @ + 1])
    /\ ran' = Nobody /\ UNCHANGED <<master, phase>>

\* Seeded fault: nothing before the beginning of the line is looked out for.
EraseBlindly(f) ==
    /\ Plain(f)
    /\ Update(f, [User(f) EXCEPT !.buf = SubSeq(@, 1, User(f).currentPtr - 1), !.currentPtr = @ - 1])
    /\ ran' = Nobody /\ UNCHANGED <<master, phase>>

Erase(f) ==
    /\ Plain(f)
    /\ IF User(f).currentPtr > 0
          THEN Update(f, [User(f) EXCEPT !.buf = SubSeq(@, 1, User(f).currentPtr - 1),
                                         !.currentPtr = @ - 1])
          ELSE UNCHANGED users
    /\ ran' = Nobody /\ UNCHANGED <<master, phase>>

\* Seeded fault: only the pointer goes back.
EmptyPtr(u) == [u EXCEPT !.currentPtr = 0]

\* After every line.
Empty(u) == [u EXCEPT !.buf = <<>>, !.currentPtr = 0]

EnterName(f) ==
    /\ User(f).authenticated = 0
    /\ Update(f, Empty([User(f) EXCEPT !.name = User(f).buf, !.authenticated = 1]))
    /\ ran' = Nobody /\ UNCHANGED <<master, phase>>

EnterPassword(f) ==
    LET u == User(f)
        right == <<u.name, u.buf>> \in Accounts
    IN
    /\ u.authenticated = 1
    /\ \/ /\ right
          /\ Update(f, Empty([u EXCEPT !.authenticated = 2, !.failedLogin = 0]))
          /\ ran' = Nobody /\ UNCHANGED <<master, phase>>
       \/ /\ ~right /\ u.failedLogin < MaxFailed
          /\ Update(f, Empty([u EXCEPT !.authenticated = 0, !.failedLogin = @ + 1]))
          /\ ran' = Nobody /\ UNCHANGED <<master, phase>>
       \/ ~right /\ u.failedLogin >= MaxFailed /\ Disconnect(f)

EnterCommand(f) ==
    /\ User(f).authenticated = 2 /\ User(f).buf # Quit
    /\ Update(f, Empty(User(f)))
    /\ ran' = IF User(f).currentPtr > 0 THEN f ELSE Nobody
    /\ UNCHANGED <<master, phase>>

EnterQuit(f) ==
    /\ User(f).authenticated = 2 /\ User(f).buf = Quit
    /\ Disconnect(f)

Enter(f) == Plain(f) /\ (EnterName(f) \/ EnterPassword(f) \/ EnterCommand(f) \/ EnterQuit(f))

\* Seeded fault: one byte of a command is skipped.
BeginSkipOne(u) == [u EXCEPT !.skipChars = 1, !.currentPtr = 0]

BeginSkip(u) == [u EXCEPT !.skipChars = 2, !.currentPtr = 0]

\* A byte that is skipped: 250 begins a subnegotiation, 240 ends it.
Skip(u, b) == [u EXCEPT !.skipChars = CASE b = "SB" -> SkipGuard [] b = "SE" -> 0 [] OTHER -> @ - 1]

\* What telnet_process does with a byte of a negotiation, none of which is printable.
Byte(f, b) ==
    IF User(f).skipChars > 0 THEN Update(f, Skip(User(f), b))
    ELSE IF b = "IAC" THEN Update(f, BeginSkip(User(f)))
    ELSE UNCHANGED users

\* A client negotiates: IAC WILL x and its like, or IAC SB x ... IAC SE.
Negotiate(f) ==
    /\ f \in master
    /\ \E b \in {"IAC", "Verb", "Data", "SB", "SE"}, at \in {"plain", "iac", "option", "sub", "end"} :
          /\ <<phase[f].at, b, at>> \in
                {<<"plain", "IAC", "iac">>, <<"iac", "Verb", "option">>, <<"option", "Data", "plain">>,
                 <<"iac", "SB", "sub">>, <<"sub", "Data", "sub">>, <<"sub", "IAC", "end">>,
                 <<"end", "SE", "plain">>}
          /\ at = "sub" => phase[f].sent < SkipGuard - 1
          /\ phase' = [phase EXCEPT ![f] = [at |-> at, sent |-> IF at = "sub" THEN @.sent + 1 ELSE 0]]
          /\ Byte(f, b)
    /\ ran' = Nobody /\ UNCHANGED master

-----------------------------------------------------------------------------
Next ==
    \E f \in Fds :
        \/ Connect(f) \/ HangUp(f) \/ RecvFails(f)
        \/ TypeChar(f) \/ Erase(f) \/ Enter(f) \/ Negotiate(f)

Spec == Init /\ [][Next]_vars

-----------------------------------------------------------------------------
Entries ==
    [fd : Fds, name : Lines, failedLogin : 0 .. MaxFailed, authenticated : 0 .. 2,
     buf : Lines, currentPtr : 0 .. MaxLine, skipChars : 0 .. SkipGuard]

TypeOK ==
    /\ master \subseteq Fds
    /\ users \in Seq(Entries)
    /\ \A i \in 1 .. Len(users) : users[i].currentPtr <= Len(users[i].buf)
    /\ phase \in [Fds -> [at : {"plain", "iac", "option", "sub", "end"}, sent : 0 .. SkipGuard - 1]]
    /\ ran \in Fds \cup {Nobody}

\* However connections end, a connection has one entry, its own, and no
\* descriptor two: telnet_onconnect drops what an earlier connection left
\* (telnetservermanager.c:63-71), since a failing recv does not
\* (socketserver.c:175).
OneEntryEach ==
    /\ \A i, j \in 1 .. Len(users) : users[i].fd = users[j].fd => i = j
    /\ \A f \in master : \E i \in 1 .. Len(users) : users[i].fd = f

\* The bytes of a negotiation are skipped, and not one more: skipChars is 0
\* just when the client is typing (telnetservermanager.c:120-129, :204-207).
\* Subnegotiations are shorter than the guard counts.
NegotiationsAreSkipped ==
    \A i \in 1 .. Len(users) : users[i].fd \in master =>
        (users[i].skipChars = 0 <=> phase[users[i].fd] = Typing)

\* What is behind it: how many bytes of a negotiation are still to be skipped.
StillToSkip(p, n) ==
    \/ p = Typing /\ n = 0
    \/ p.at = "iac" /\ p.sent = 0 /\ n = 2
    \/ p.at = "option" /\ p.sent = 0 /\ n = 1
    \/ p.at = "sub" /\ p.sent > 0 /\ n + p.sent = SkipGuard + 1
    \/ p.at = "end" /\ p.sent = 0 /\ n > 0

Skipping ==
    \A i \in 1 .. Len(users) : users[i].fd \in master =>
        StillToSkip(phase[users[i].fd], users[i].skipChars)

\* Commands run only for connections that gave a listed name and password,
\* entered since they were accepted, and the third failure ends one: module
\* Login, whatever descriptors are reused and entries left behind.
OfConnection(g(_), none) == [f \in Fds |-> IF f \in master THEN g(User(f)) ELSE none]
Stage(u) == <<"name", "password", "in">>[u.authenticated + 1]

Promise == INSTANCE Login WITH
    stage <- OfConnection(Stage, "closed"),
    name <- OfConnection(LAMBDA u : u.name, <<>>),
    line <- OfConnection(LAMBDA u : u.buf, <<>>),
    fails <- OfConnection(LAMBDA u : u.failedLogin, 0)

KeepsLogin == Promise!Spec
=============================================================================
