---------------------------- MODULE ConsoleProofs ----------------------------
(***************************************************************************)
(* The telnet console keeps one entry for each connection, skips the bytes  *)
(* of negotiations and no others, and lets nobody in but as module Login    *)
(* promises: for any descriptors, accounts, lengths of lines and bounds.    *)
(***************************************************************************)
EXTENDS Console, Integers, SequenceTheorems, TLAPS

-----------------------------------------------------------------------------
(* Lists of entries as sets: which entries there are matters, not where.    *)

Has(s, u) == \E i \in 1 .. Len(s) : s[i] = u

OneEach(s) == \A i, j \in 1 .. Len(s) : s[i].fd = s[j].fd => i = j

\* A line is a short sequence of characters.
LEMMA LineIs ==
    ASSUME NEW l \in Lines
    PROVE  l \in Seq(Printable) /\ Len(l) <= MaxLine /\ Len(l) \in Nat
<1>1. PICK m \in 0 .. MaxLine : l \in [1 .. m -> Printable]
  BY DEF Lines, SeqOf
<1> QED
  BY <1>1, BoundsAssumption

LEMMA LineOf ==
    ASSUME NEW l \in Seq(Printable), Len(l) <= MaxLine
    PROVE  l \in Lines
<1>1. Len(l) \in 0 .. MaxLine /\ l \in [1 .. Len(l) -> Printable]
  BY BoundsAssumption, LenProperties
<1> QED
  BY <1>1 DEF Lines, SeqOf

\* The entry of a descriptor is found, and is the only one.
EntryIn(s, f) == CHOOSE i \in 1 .. Len(s) : s[i].fd = f /\ \A j \in 1 .. i - 1 : s[j].fd # f

LEMMA Found ==
    ASSUME NEW s \in Seq(Entries), OneEach(s), NEW k \in 1 .. Len(s)
    PROVE  EntryIn(s, s[k].fd) = k
<1>1. Len(s) \in Nat
  BY LenProperties
<1>2. \A j \in 1 .. k - 1 : s[j].fd # s[k].fd
  BY <1>1 DEF OneEach
<1>3. \A i \in 1 .. Len(s) : s[i].fd = s[k].fd => i = k
  BY DEF OneEach
<1> QED
  BY <1>2, <1>3 DEF EntryIn

LEMMA UserOf ==
    ASSUME users \in Seq(Entries), OneEach(users), NEW f,
           \E i \in 1 .. Len(users) : users[i].fd = f
    PROVE  /\ Entry(f) \in 1 .. Len(users) /\ users[Entry(f)] = User(f)
           /\ User(f) \in Entries /\ User(f).fd = f /\ Has(users, User(f))
           /\ \A i \in 1 .. Len(users) : users[i].fd = f => i = Entry(f)
<1>1. PICK k \in 1 .. Len(users) : users[k].fd = f
  OBVIOUS
<1>2. Entry(f) = k /\ User(f) = users[k]
  BY <1>1, Found DEF EntryIn, Entry, User
<1>3. users[k] \in Entries
  BY ElementOfSeq
<1> QED
  BY <1>1, <1>2, <1>3 DEF OneEach, Has

\* Which is also so after a step.
LEMMA TheUser ==
    /\ users \in Seq(Entries) /\ OneEach(users)
          => \A f, u : Has(users, u) /\ u.fd = f => User(f) = u
    /\ users' \in Seq(Entries) /\ OneEach(users')
          => \A f, u : Has(users', u) /\ u.fd = f => User(f)' = u
<1>1. \A s \in Seq(Entries) : \A f, u : OneEach(s) /\ Has(s, u) /\ u.fd = f => s[EntryIn(s, f)] = u
  BY Found DEF Has
<1>2. \A f : User(f) = users[EntryIn(users, f)]
  BY DEF User, Entry, EntryIn
<1>3. \A f : User(f)' = users'[EntryIn(users', f)]
  BY DEF User, Entry, EntryIn
<1> QED
  BY <1>1, <1>2, <1>3

\* A list less its k-th element.
LEMMA Removed ==
    ASSUME NEW s \in Seq(Entries), NEW k \in 1 .. Len(s), OneEach(s)
    PROVE  /\ RemoveAt(s, k) \in Seq(Entries)
           /\ OneEach(RemoveAt(s, k))
           /\ \A u : Has(RemoveAt(s, k), u) <=> Has(s, u) /\ u.fd # s[k].fd
<1> DEFINE a == SubSeq(s, 1, k - 1)
<1> DEFINE b == SubSeq(s, k + 1, Len(s))
<1>0. Len(s) \in Nat /\ k \in Nat
  BY LenProperties
<1>1. RemoveAt(s, k) = a \o b
  BY DEF RemoveAt
<1>2. a \in Seq(Entries) /\ Len(a) = k - 1 /\ \A i \in 1 .. k - 1 : a[i] = s[i]
  OBVIOUS
<1>3. b \in Seq(Entries) /\ Len(b) = Len(s) - k /\ \A i \in 1 .. Len(s) - k : b[i] = s[k + i]
  OBVIOUS
<1> HIDE DEF a, b
<1> DEFINE r == a \o b
<1>4. /\ r \in Seq(Entries) /\ Len(r) = Len(a) + Len(b)
      /\ \A i \in 1 .. Len(a) + Len(b) : r[i] = IF i <= Len(a) THEN a[i] ELSE b[i - Len(a)]
  BY <1>2, <1>3, ConcatProperties
<1> HIDE DEF r
<1>5. Len(r) = Len(s) - 1
  BY <1>0, <1>2, <1>3, <1>4
<1>6. ASSUME NEW i \in 1 .. Len(s) - 1
      PROVE  r[i] = IF i < k THEN s[i] ELSE s[i + 1]
  <2>1. r[i] = IF i <= k - 1 THEN a[i] ELSE b[i - (k - 1)]
    BY <1>0, <1>2, <1>4, <1>5
  <2>2. i < k => i \in 1 .. k - 1
    BY <1>0
  <2>3. ~(i < k) => i - (k - 1) \in 1 .. Len(s) - k /\ k + (i - (k - 1)) = i + 1 /\ ~(i <= k - 1)
    BY <1>0
  <2> QED
    BY <1>2, <1>3, <2>1, <2>2, <2>3
<1>7. OneEach(r)
  <2> SUFFICES ASSUME NEW i \in 1 .. Len(s) - 1, NEW j \in 1 .. Len(s) - 1, r[i].fd = r[j].fd
               PROVE  i = j
    BY <1>5 DEF OneEach
  <2> DEFINE m == IF i < k THEN i ELSE i + 1
  <2> DEFINE n == IF j < k THEN j ELSE j + 1
  <2>1. m \in 1 .. Len(s) /\ n \in 1 .. Len(s) /\ (m = n => i = j)
    BY <1>0
  <2>2. r[i] = s[m] /\ r[j] = s[n]
    BY <1>6
  <2> QED
    BY <2>1, <2>2 DEF OneEach
<1>8. ASSUME NEW u, Has(r, u) PROVE Has(s, u) /\ u.fd # s[k].fd
  <2>1. PICK i \in 1 .. Len(s) - 1 : r[i] = u
    BY <1>5, <1>8 DEF Has
  <2> DEFINE m == IF i < k THEN i ELSE i + 1
  <2>2. m \in 1 .. Len(s) /\ m # k
    BY <1>0
  <2>3. u = s[m]
    BY <1>6, <2>1
  <2> HIDE DEF m
  <2> QED
    BY <2>2, <2>3 DEF Has, OneEach
<1>9. ASSUME NEW u, Has(s, u), u.fd # s[k].fd PROVE Has(r, u)
  <2>1. PICK m \in 1 .. Len(s) : s[m] = u
    BY <1>9 DEF Has
  <2>2. m # k
    BY <1>9, <2>1
  <2>3. CASE m < k
    <3>1. m \in 1 .. Len(s) - 1 /\ r[m] = u
      BY <1>0, <1>6, <2>1, <2>3
    <3> QED
      BY <1>5, <3>1 DEF Has
  <2>4. CASE m > k
    <3>1. m - 1 \in 1 .. Len(s) - 1 /\ ~(m - 1 < k) /\ (m - 1) + 1 = m
      BY <1>0, <2>4
    <3>2. r[m - 1] = u
      BY <1>6, <2>1, <3>1
    <3> QED
      BY <1>5, <3>1, <3>2 DEF Has
  <2> QED
    BY <1>0, <2>2, <2>3, <2>4
<1> QED
  BY <1>1, <1>4, <1>7, <1>8, <1>9 DEF r

\* The walk that drops a descriptor's entry.
LEMMA OthersAre ==
    ASSUME users \in Seq(Entries), OneEach(users), NEW f
    PROVE  /\ Others(f) \in Seq(Entries) /\ OneEach(Others(f))
           /\ \A u : Has(Others(f), u) <=> Has(users, u) /\ u.fd # f
<1>1. CASE \E i \in 1 .. Len(users) : users[i].fd = f
  <2>1. Others(f) = RemoveAt(users, Entry(f))
    BY <1>1 DEF Others
  <2>2. Entry(f) \in 1 .. Len(users) /\ users[Entry(f)].fd = f
    BY <1>1, UserOf
  <2> QED
    BY <2>1, <2>2, Removed
<1>2. CASE ~ \E i \in 1 .. Len(users) : users[i].fd = f
  BY <1>2 DEF Others, Has
<1> QED
  BY <1>1, <1>2

\* An entry more, of a descriptor that has none.
LEMMA Appended ==
    ASSUME NEW s \in Seq(Entries), OneEach(s), NEW e \in Entries,
           \A u : Has(s, u) => u.fd # e.fd
    PROVE  /\ Append(s, e) \in Seq(Entries) /\ OneEach(Append(s, e))
           /\ \A u : Has(Append(s, e), u) <=> u = e \/ Has(s, u)
<1> DEFINE r == Append(s, e)
<1>1. /\ r \in Seq(Entries) /\ Len(r) = Len(s) + 1
      /\ \A i \in 1 .. Len(s) + 1 : r[i] = IF i = Len(s) + 1 THEN e ELSE s[i]
  OBVIOUS
<1>2. Len(s) \in Nat
  BY LenProperties
<1> HIDE DEF r
<1>3. \A i \in 1 .. Len(s) : r[i] = s[i] /\ s[i].fd # e.fd
  BY <1>1, <1>2 DEF Has
<1>4. r[Len(s) + 1] = e
  BY <1>1, <1>2
<1>5. \A i \in 1 .. Len(r) : i \in 1 .. Len(s) \/ i = Len(s) + 1
  BY <1>1, <1>2
<1>6. OneEach(r)
  BY <1>3, <1>4, <1>5 DEF OneEach
<1>7. \A u : Has(r, u) => u = e \/ Has(s, u)
  BY <1>3, <1>4, <1>5 DEF Has
<1>8. 1 .. Len(s) \subseteq 1 .. Len(r) /\ Len(s) + 1 \in 1 .. Len(r)
  BY <1>1, <1>2
<1>9. \A u : u = e \/ Has(s, u) => Has(r, u)
  BY <1>3, <1>4, <1>8 DEF Has
<1> QED
  BY <1>1, <1>6, <1>7, <1>9 DEF r

\* An entry changed.
LEMMA Updated ==
    ASSUME users \in Seq(Entries), OneEach(users), NEW f,
           \E i \in 1 .. Len(users) : users[i].fd = f,
           NEW e \in Entries, e.fd = f, Update(f, e)
    PROVE  /\ users' \in Seq(Entries) /\ OneEach(users')
           /\ \A u : Has(users', u) <=> u = e \/ (Has(users, u) /\ u.fd # f)
<1>1. /\ Entry(f) \in 1 .. Len(users) /\ users[Entry(f)].fd = f
      /\ \A i \in 1 .. Len(users) : users[i].fd = f => i = Entry(f)
  BY UserOf
<1>2. PICK k \in 1 .. Len(users) : k = Entry(f) /\ users' = [users EXCEPT ![k] = e]
  BY <1>1 DEF Update
<1>3. /\ users' \in Seq(Entries) /\ Len(users') = Len(users)
      /\ \A i \in 1 .. Len(users) : users'[i] = IF i = k THEN e ELSE users[i]
  BY <1>2
<1>4. users[k].fd = f /\ \A i \in 1 .. Len(users) : users[i].fd = f => i = k
  BY <1>1, <1>2
<1>5. \A i \in 1 .. Len(users) : users'[i].fd = users[i].fd
  BY <1>3, <1>4
<1>6. OneEach(users')
  BY <1>3, <1>5 DEF OneEach
<1>7. \A u : Has(users', u) <=> u = e \/ (Has(users, u) /\ u.fd # f)
  <2>1. ASSUME NEW u, Has(users', u) PROVE u = e \/ (Has(users, u) /\ u.fd # f)
    BY <1>3, <1>4, <2>1 DEF Has
  <2>2. ASSUME NEW u, u = e \/ (Has(users, u) /\ u.fd # f) PROVE Has(users', u)
    BY <1>3, <1>4, <2>2 DEF Has
  <2> QED
    BY <2>1, <2>2
<1> QED
  BY <1>3, <1>6, <1>7

-----------------------------------------------------------------------------
(* The inductive invariant: the state is typed, a connection has one entry, *)
(* and an entry counts what is left of a negotiation.                       *)

IInv == TypeOK /\ OneEntryEach /\ Skipping

Phases == [at : {"plain", "iac", "option", "sub", "end"}, sent : 0 .. SkipGuard - 1]

EntryOK(u) ==
    /\ u.currentPtr <= Len(u.buf)
    /\ u.fd \in master => StillToSkip(phase[u.fd], u.skipChars)

\* The invariant in terms of the entries there are.
Kept ==
    /\ master \subseteq Fds /\ phase \in [Fds -> Phases] /\ ran \in Fds \cup {Nobody}
    /\ users \in Seq(Entries) /\ OneEach(users)
    /\ \A f \in master : \E u : Has(users, u) /\ u.fd = f
    /\ \A u : Has(users, u) => EntryOK(u)

LEMMA SameInv == IInv <=> Kept
<1>1. IInv => Kept
  BY DEF IInv, Kept, TypeOK, OneEntryEach, Skipping, EntryOK, Has, OneEach, Phases
<1>2. Kept => IInv
  BY DEF IInv, Kept, TypeOK, OneEntryEach, Skipping, EntryOK, Has, OneEach, Phases
<1> QED
  BY <1>1, <1>2

\* What Kept says of a connection's user.
LEMMA Connected ==
    ASSUME Kept, NEW f \in master
    PROVE  /\ f \in Fds /\ User(f) \in Entries /\ User(f).fd = f /\ Has(users, User(f))
           /\ User(f).currentPtr <= Len(User(f).buf)
           /\ StillToSkip(phase[f], User(f).skipChars)
           /\ \E i \in 1 .. Len(users) : users[i].fd = f
<1>1. \E i \in 1 .. Len(users) : users[i].fd = f
  BY DEF Kept, Has
<1>2. User(f) \in Entries /\ User(f).fd = f /\ Has(users, User(f))
  BY <1>1, UserOf DEF Kept
<1> QED
  BY <1>1, <1>2 DEF Kept, EntryOK

\* A step that changes the entry of f, and perhaps where f is in a negotiation.
Changes(f, e) ==
    /\ f \in master /\ master' = master
    /\ e \in Entries /\ e.fd = f /\ e.currentPtr <= Len(e.buf)
    /\ users' \in Seq(Entries) /\ OneEach(users')
    /\ \A u : Has(users', u) <=> u = e \/ (Has(users, u) /\ u.fd # f)

LEMMA ChangesKeep ==
    ASSUME Kept, NEW f, NEW e, Changes(f, e),
           phase' \in [Fds -> Phases], \A g \in Fds : g # f => phase'[g] = phase[g],
           StillToSkip(phase'[f], e.skipChars), ran' \in Fds \cup {Nobody}
    PROVE  Kept'
<1>1. \A g \in master' : \E u : Has(users', u) /\ u.fd = g
  BY DEF Kept, Changes
<1>2. ASSUME NEW u, Has(users', u) PROVE EntryOK(u)'
  <2>1. CASE u = e
    BY <2>1 DEF EntryOK, Changes
  <2>2. CASE u # e
    <3>1. Has(users, u) /\ u.fd # f
      BY <1>2, <2>2 DEF Changes
    <3> QED
      BY <3>1 DEF Kept, EntryOK, Changes
  <2> QED
    BY <2>1, <2>2
<1> QED
  BY <1>1, <1>2 DEF Kept, Changes

\* How the actions change an entry.
LEMMA UpdateChanges ==
    ASSUME Kept, NEW f \in master, NEW e \in Entries, e.fd = f, e.currentPtr <= Len(e.buf),
           Update(f, e), master' = master
    PROVE  Changes(f, e)
BY Connected, Updated DEF Kept, Changes

\* A connection that ends, with its entry and without.
Closes(f) ==
    /\ master' = master \ {f}
    /\ phase' = [phase EXCEPT ![f] = Typing]
    /\ ran' = Nobody
    /\ users' \in Seq(Entries) /\ OneEach(users')
    /\ \A u : Has(users', u) => Has(users, u)
    /\ \A u : Has(users, u) /\ u.fd # f => Has(users', u)

LEMMA TypingIsAPhase == Typing \in Phases
BY BoundsAssumption DEF Typing, Phases

LEMMA ClosesKeep ==
    ASSUME Kept, NEW f \in Fds, Closes(f)
    PROVE  Kept'
<1>1. \A g \in master' : \E u : Has(users', u) /\ u.fd = g
  BY DEF Kept, Closes
<1>2. phase' \in [Fds -> Phases] /\ \A g \in master' : phase'[g] = phase[g]
  BY TypingIsAPhase DEF Kept, Closes
<1>3. ASSUME NEW u, Has(users', u) PROVE EntryOK(u)'
  BY <1>2, <1>3 DEF Kept, EntryOK, Closes
<1> QED
  BY <1>1, <1>2, <1>3 DEF Kept, Closes

LEMMA DisconnectCloses ==
    ASSUME Kept, NEW f \in Fds, Disconnect(f)
    PROVE  Closes(f)
BY OthersAre DEF Kept, Closes, Disconnect

LEMMA RecvFailsCloses ==
    ASSUME Kept, NEW f \in Fds, RecvFails(f)
    PROVE  Closes(f)
BY DEF Kept, Closes, RecvFails

-----------------------------------------------------------------------------
(* The actions.                                                             *)

LEMMA EmptyLine == <<>> \in Lines /\ Len(<<>>) = 0
<1>1. <<>> \in Seq(Printable) /\ Len(<<>>) = 0
  OBVIOUS
<1>2. Len(<<>>) <= MaxLine
  BY <1>1, BoundsAssumption
<1> QED
  BY <1>1, <1>2, LineOf, Zenon

\* A line up to a point before its end.
LEMMA LineFront ==
    ASSUME NEW l \in Lines, NEW n \in Nat, n <= Len(l)
    PROVE  SubSeq(l, 1, n) \in Lines /\ Len(SubSeq(l, 1, n)) = n
<1>1. l \in Seq(Printable) /\ Len(l) <= MaxLine /\ Len(l) \in Nat /\ MaxLine \in Nat
  BY LineIs, BoundsAssumption
<1>2. SubSeq(l, 1, n) \in Seq(Printable) /\ Len(SubSeq(l, 1, n)) = n
  BY <1>1
<1>3. Len(SubSeq(l, 1, n)) <= MaxLine
  BY <1>1, <1>2
<1> QED
  BY <1>2, <1>3, LineOf, Zenon

LEMMA LineLonger ==
    ASSUME NEW l \in Lines, NEW c \in Printable, Len(l) < MaxLine
    PROVE  Append(l, c) \in Lines /\ Len(Append(l, c)) = Len(l) + 1
<1>1. l \in Seq(Printable) /\ Len(l) \in Nat /\ MaxLine \in Nat
  BY LineIs, BoundsAssumption
<1>2. Append(l, c) \in Seq(Printable) /\ Len(Append(l, c)) = Len(l) + 1
  BY <1>1
<1>3. Len(Append(l, c)) <= MaxLine
  BY <1>1, <1>2
<1> QED
  BY <1>2, <1>3, LineOf, Zenon

LEMMA Fields ==
    ASSUME NEW u \in Entries
    PROVE  /\ u.fd \in Fds /\ u.name \in Lines /\ u.buf \in Lines
           /\ u.failedLogin \in 0 .. MaxFailed /\ u.authenticated \in 0 .. 2
           /\ u.currentPtr \in 0 .. MaxLine /\ u.skipChars \in 0 .. SkipGuard
           /\ u.currentPtr \in Nat /\ u.skipChars \in Nat /\ u.failedLogin \in Nat
           /\ MaxLine \in Nat /\ MaxFailed \in Nat /\ SkipGuard \in Nat
           /\ Len(u.buf) \in Nat
<1>1. u.buf \in Lines
  BY DEF Entries
<1>2. Len(u.buf) \in Nat
  BY <1>1, LineIs
<1> QED
  BY <1>1, <1>2, BoundsAssumption DEF Entries

\* Nothing changes: the entry changes to itself.
LEMMA NoChange ==
    ASSUME Kept, NEW f \in master, UNCHANGED <<users, master>>
    PROVE  Changes(f, User(f))
<1>1. \A u : Has(users, u) /\ u.fd = f => User(f) = u
  BY TheUser DEF Kept
<1> QED
  BY <1>1, Connected DEF Kept, Changes

\* A byte or key that may change the line, and nothing else that is asked for.
Edits(f, e) ==
    /\ Changes(f, e)
    /\ e.name = User(f).name /\ e.authenticated = User(f).authenticated
    /\ e.failedLogin = User(f).failedLogin
    /\ Len(e.buf) <= Len(User(f).buf) + 1
    /\ StillToSkip(phase'[f], e.skipChars)
    /\ phase' \in [Fds -> Phases] /\ \A g \in Fds : g # f => phase'[g] = phase[g]
    /\ ran' = Nobody

LEMMA TypeCharEdits ==
    ASSUME Kept, NEW f \in Fds, TypeChar(f)
    PROVE  \E e : Edits(f, e)
<1> DEFINE u == User(f)
<1>1. f \in master /\ u.currentPtr < MaxLine /\ master' = master /\ phase' = phase /\ ran' = Nobody
  BY DEF TypeChar, Plain
<1>2. PICK c \in Printable :
         Update(f, [u EXCEPT !.buf = Append(SubSeq(@, 1, u.currentPtr), c), !.currentPtr = @ + 1])
  BY DEF TypeChar
<1>3. /\ u \in Entries /\ u.fd = f /\ u.currentPtr <= Len(u.buf)
      /\ StillToSkip(phase[f], u.skipChars)
  BY <1>1, Connected
<1> DEFINE line == Append(SubSeq(u.buf, 1, u.currentPtr), c)
<1> DEFINE e == [u EXCEPT !.buf = line, !.currentPtr = u.currentPtr + 1]
<1>4. Update(f, e)
  BY <1>2
<1> HIDE DEF u
<1>5. line \in Lines /\ Len(line) = u.currentPtr + 1
  <2> DEFINE front == SubSeq(u.buf, 1, u.currentPtr)
  <2>1. front \in Lines /\ Len(front) = u.currentPtr
    BY <1>3, Fields, LineFront
  <2> HIDE DEF front
  <2>2. Append(front, c) \in Lines /\ Len(Append(front, c)) = u.currentPtr + 1
    BY <1>1, <2>1, LineLonger
  <2> QED
    BY <2>2 DEF front
<1> HIDE DEF line
<1>6. u.currentPtr + 1 \in 0 .. MaxLine
  BY <1>1, <1>3, Fields
<1>7. e \in Entries /\ e.fd = f /\ e.buf = line /\ e.currentPtr = u.currentPtr + 1
      /\ e.name = u.name /\ e.authenticated = u.authenticated /\ e.failedLogin = u.failedLogin
      /\ e.skipChars = u.skipChars
  BY <1>3, <1>5, <1>6 DEF Entries
<1> HIDE DEF e
<1>8. Changes(f, e)
  BY <1>1, <1>4, <1>5, <1>7, Fields, UpdateChanges
<1>9. Len(e.buf) <= Len(u.buf) + 1
  BY <1>3, <1>5, <1>7, Fields
<1> QED
  BY <1>1, <1>3, <1>7, <1>8, <1>9 DEF Edits, Kept, u

LEMMA EraseEdits ==
    ASSUME Kept, NEW f \in Fds, Erase(f)
    PROVE  \E e : Edits(f, e)
<1> DEFINE u == User(f)
<1>1. f \in master /\ master' = master /\ phase' = phase /\ ran' = Nobody
  BY DEF Erase, Plain
<1>2. /\ u \in Entries /\ u.fd = f /\ u.currentPtr <= Len(u.buf)
      /\ StillToSkip(phase[f], u.skipChars)
  BY <1>1, Connected
<1>3. CASE u.currentPtr > 0
  <2> DEFINE line == SubSeq(u.buf, 1, u.currentPtr - 1)
  <2> DEFINE e == [u EXCEPT !.buf = line, !.currentPtr = u.currentPtr - 1]
  <2>1. Update(f, e)
    BY <1>3 DEF Erase
  <2> HIDE DEF u
  <2>2. u.currentPtr - 1 \in 0 .. MaxLine /\ u.currentPtr - 1 \in Nat /\ u.currentPtr - 1 <= Len(u.buf)
    BY <1>2, <1>3, Fields
  <2>3. line \in Lines /\ Len(line) = u.currentPtr - 1
    BY <1>2, <2>2, Fields, LineFront
  <2> HIDE DEF line
  <2>4. e \in Entries /\ e.fd = f /\ e.buf = line /\ e.currentPtr = u.currentPtr - 1
        /\ e.name = u.name /\ e.authenticated = u.authenticated /\ e.failedLogin = u.failedLogin
        /\ e.skipChars = u.skipChars
    BY <1>2, <2>2, <2>3 DEF Entries
  <2> HIDE DEF e
  <2>5. Changes(f, e)
    BY <1>1, <2>1, <2>2, <2>3, <2>4, UpdateChanges
  <2>6. Len(e.buf) <= Len(u.buf) + 1
    BY <1>2, <2>2, <2>3, <2>4, Fields
  <2> QED
    BY <1>1, <1>2, <2>4, <2>5, <2>6 DEF Edits, Kept, u
<1>4. CASE ~(u.currentPtr > 0)
  <2>1. Changes(f, u)
    BY <1>1, <1>4, NoChange DEF Erase
  <2>2. Len(u.buf) <= Len(u.buf) + 1
    BY <1>2, Fields
  <2> QED
    BY <1>1, <1>2, <2>1, <2>2 DEF Edits, Kept
<1> QED
  BY <1>3, <1>4

\* What a byte of a negotiation does to the entry.
AfterByte(u, b) ==
    IF u.skipChars > 0 THEN Skip(u, b) ELSE IF b = "IAC" THEN BeginSkip(u) ELSE u

LEMMA AfterByteFacts ==
    ASSUME NEW u \in Entries, NEW b, u.currentPtr <= Len(u.buf)
    PROVE  LET e == AfterByte(u, b) IN
           /\ e \in Entries /\ e.currentPtr <= Len(e.buf)
           /\ e.fd = u.fd /\ e.name = u.name /\ e.buf = u.buf
           /\ e.authenticated = u.authenticated /\ e.failedLogin = u.failedLogin
           /\ e.skipChars = IF u.skipChars > 0
                               THEN CASE b = "SB" -> SkipGuard [] b = "SE" -> 0
                                      [] OTHER -> u.skipChars - 1
                               ELSE IF b = "IAC" THEN 2 ELSE u.skipChars
<1>1. CASE u.skipChars > 0
  <2> DEFINE n == CASE b = "SB" -> SkipGuard [] b = "SE" -> 0 [] OTHER -> u.skipChars - 1
  <2>1. n \in 0 .. SkipGuard
    BY <1>1, Fields
  <2>2. AfterByte(u, b) = [u EXCEPT !.skipChars = n]
    BY <1>1 DEF AfterByte, Skip
  <2>3. b # "SB" /\ b # "SE" => n = u.skipChars - 1
    OBVIOUS
  <2>4. (b = "SB" => n = SkipGuard) /\ (b = "SE" => n = 0)
    OBVIOUS
  <2>5. n = CASE b = "SB" -> SkipGuard [] b = "SE" -> 0 [] OTHER -> u.skipChars - 1
    OBVIOUS
  <2> HIDE DEF n
  <2>6. [u EXCEPT !.skipChars = n] \in Entries
    BY <2>1 DEF Entries
  <2> QED
    BY <1>1, <2>2, <2>5, <2>6 DEF Entries
<1>2. CASE ~(u.skipChars > 0) /\ b = "IAC"
  <2>1. AfterByte(u, b) = [u EXCEPT !.skipChars = 2, !.currentPtr = 0]
    BY <1>2 DEF AfterByte, BeginSkip
  <2>2. 2 \in 0 .. SkipGuard /\ 0 \in 0 .. MaxLine /\ 0 <= Len(u.buf)
    BY Fields, BoundsAssumption
  <2>3. [u EXCEPT !.skipChars = 2, !.currentPtr = 0] \in Entries
    BY <2>2 DEF Entries
  <2> QED
    BY <1>2, <2>1, <2>2, <2>3 DEF Entries
<1>3. CASE ~(u.skipChars > 0) /\ b # "IAC"
  BY <1>3 DEF AfterByte
<1> QED
  BY <1>1, <1>2, <1>3

LEMMA ByteChanges ==
    ASSUME Kept, NEW f \in master, NEW b, Byte(f, b), master' = master
    PROVE  Changes(f, AfterByte(User(f), b))
<1> DEFINE e == AfterByte(User(f), b)
<1>1. e \in Entries /\ e.fd = f /\ e.currentPtr <= Len(e.buf)
  BY Connected, AfterByteFacts
<1>2. CASE Update(f, e)
  BY <1>1, <1>2, UpdateChanges
<1>3. CASE users' = users /\ e = User(f)
  BY <1>3, NoChange
<1>4. Update(f, e) \/ (users' = users /\ e = User(f))
  BY DEF Byte, AfterByte
<1> QED
  BY <1>2, <1>3, <1>4

\* A step of a negotiation: what is left to skip follows where the client is.
LEMMA NegotiateEdits ==
    ASSUME Kept, NEW f \in Fds, Negotiate(f)
    PROVE  \E e : Edits(f, e)
<1> DEFINE u == User(f)
<1>1. f \in master /\ master' = master /\ ran' = Nobody
  BY DEF Negotiate
<1>2. PICK b \in {"IAC", "Verb", "Data", "SB", "SE"}, at \in {"plain", "iac", "option", "sub", "end"} :
         /\ <<phase[f].at, b, at>> \in
               {<<"plain", "IAC", "iac">>, <<"iac", "Verb", "option">>, <<"option", "Data", "plain">>,
                <<"iac", "SB", "sub">>, <<"sub", "Data", "sub">>, <<"sub", "IAC", "end">>,
                <<"end", "SE", "plain">>}
         /\ at = "sub" => phase[f].sent < SkipGuard - 1
         /\ phase' = [phase EXCEPT ![f] = [at |-> at, sent |-> IF at = "sub" THEN @.sent + 1 ELSE 0]]
         /\ Byte(f, b)
  BY DEF Negotiate
<1> DEFINE was == phase[f]
<1> DEFINE is == [at |-> at, sent |-> IF at = "sub" THEN was.sent + 1 ELSE 0]
<1>3. u \in Entries /\ u.fd = f /\ u.currentPtr <= Len(u.buf) /\ StillToSkip(was, u.skipChars)
  BY <1>1, Connected
<1> DEFINE e == AfterByte(u, b)
<1>4. Changes(f, e)
  BY <1>1, <1>2, ByteChanges
<1>5. was \in Phases
  BY DEF Kept
<1>6. phase' = [phase EXCEPT ![f] = is]
  BY <1>2
<1>7. is \in Phases
  BY <1>2, <1>5, BoundsAssumption DEF Phases
<1>8. /\ e.fd = u.fd /\ e.name = u.name /\ e.buf = u.buf
      /\ e.authenticated = u.authenticated /\ e.failedLogin = u.failedLogin
      /\ e.skipChars = IF u.skipChars > 0
                          THEN CASE b = "SB" -> SkipGuard [] b = "SE" -> 0
                                 [] OTHER -> u.skipChars - 1
                          ELSE IF b = "IAC" THEN 2 ELSE u.skipChars
  BY <1>3, AfterByteFacts
<1>9. StillToSkip(is, e.skipChars)
  <2>0. /\ u.skipChars \in Nat /\ SkipGuard \in Nat /\ SkipGuard >= 3 /\ was.sent \in Nat
        /\ is.at = at /\ is.sent = (IF at = "sub" THEN was.sent + 1 ELSE 0)
        /\ Typing.at = "plain" /\ Typing.sent = 0 /\ (at = "plain" => is = Typing)
    BY <1>3, <1>5, Fields, BoundsAssumption DEF Phases, Typing
  <2>8. \/ was.at = "plain" /\ b = "IAC" /\ at = "iac"
        \/ was.at = "iac" /\ b = "Verb" /\ at = "option"
        \/ was.at = "option" /\ b = "Data" /\ at = "plain"
        \/ was.at = "iac" /\ b = "SB" /\ at = "sub"
        \/ was.at = "sub" /\ b = "Data" /\ at = "sub"
        \/ was.at = "sub" /\ b = "IAC" /\ at = "end"
        \/ was.at = "end" /\ b = "SE" /\ at = "plain"
    BY <1>2, Zenon
  <2>9. at = "sub" => was.sent < SkipGuard - 1
    BY <1>2
  <2> HIDE DEF is, was, e, u
  <2>1. CASE was.at = "plain" /\ b = "IAC" /\ at = "iac"
    BY <1>3, <1>8, <2>0, <2>1 DEF StillToSkip
  <2>2. CASE was.at = "iac" /\ b = "Verb" /\ at = "option"
    BY <1>3, <1>8, <2>0, <2>2 DEF StillToSkip
  <2>3. CASE was.at = "option" /\ b = "Data" /\ at = "plain"
    BY <1>3, <1>8, <2>0, <2>3 DEF StillToSkip
  <2>4. CASE was.at = "iac" /\ b = "SB" /\ at = "sub"
    BY <1>3, <1>8, <2>0, <2>4 DEF StillToSkip
  <2>5. CASE was.at = "sub" /\ b = "Data" /\ at = "sub"
    <3>1. u.skipChars + was.sent = SkipGuard + 1 /\ was.sent < SkipGuard - 1 /\ was.sent > 0
      BY <1>3, <2>0, <2>5, <2>9 DEF StillToSkip, Typing
    <3>2. u.skipChars > 0 /\ e.skipChars = u.skipChars - 1 /\ is.at = "sub" /\ is.sent = was.sent + 1
      BY <1>8, <2>0, <2>5, <3>1
    <3>3. is.sent > 0 /\ e.skipChars + is.sent = SkipGuard + 1
      BY <2>0, <3>1, <3>2
    <3> QED
      BY <3>2, <3>3 DEF StillToSkip
  <2>6. CASE was.at = "sub" /\ b = "IAC" /\ at = "end"
    BY <1>3, <1>5, <1>8, <2>0, <2>6 DEF StillToSkip, Phases
  <2>7. CASE was.at = "end" /\ b = "SE" /\ at = "plain"
    BY <1>3, <1>8, <2>0, <2>7 DEF StillToSkip
  <2> QED
    BY <2>8, <2>1, <2>2, <2>3, <2>4, <2>5, <2>6, <2>7
<1> HIDE DEF is, e, u
<1>10. /\ phase'[f] = is /\ phase' \in [Fds -> Phases]
       /\ \A g \in Fds : g # f => phase'[g] = phase[g]
  BY <1>6, <1>7 DEF Kept
<1>11. Len(e.buf) <= Len(u.buf) + 1
  BY <1>3, <1>8, Fields
<1> QED
  BY <1>1, <1>4, <1>8, <1>9, <1>10, <1>11 DEF Edits, u

\* A line is entered: what it is used for, and an empty line after it.
Answers(f, name, authenticated, failedLogin) ==
    \E e : /\ Changes(f, e)
          /\ e.name = name /\ e.authenticated = authenticated /\ e.failedLogin = failedLogin
          /\ e.buf = <<>> /\ e.skipChars = 0

LEMMA AnswerChanges ==
    ASSUME Kept, NEW f \in master, User(f).skipChars = 0, master' = master,
           NEW name \in Lines, NEW authenticated \in 0 .. 2, NEW failedLogin \in 0 .. MaxFailed,
           NEW u, u = [User(f) EXCEPT !.name = name, !.authenticated = authenticated,
                                      !.failedLogin = failedLogin],
           Update(f, Empty(u))
    PROVE  Answers(f, name, authenticated, failedLogin)
<1> DEFINE e == Empty(u)
<1>1. User(f) \in Entries /\ User(f).fd = f
  BY Connected
<1>2. u \in Entries /\ u.fd = f /\ u.name = name /\ u.authenticated = authenticated
      /\ u.failedLogin = failedLogin /\ u.skipChars = 0
  BY <1>1 DEF Entries
<1>3. 0 \in 0 .. MaxLine /\ <<>> \in Lines /\ Len(<<>>) = 0
  BY EmptyLine, BoundsAssumption
<1>4. e \in Entries /\ e.fd = f /\ e.name = name /\ e.authenticated = authenticated
      /\ e.failedLogin = failedLogin /\ e.skipChars = 0 /\ e.buf = <<>> /\ e.currentPtr = 0
  BY <1>2, <1>3 DEF Entries, Empty
<1>5. Update(f, e)
  OBVIOUS
<1> HIDE DEF e
<1>6. e.currentPtr <= Len(e.buf)
  BY <1>3, <1>4
<1>7. Changes(f, e)
  BY <1>4, <1>5, <1>6, UpdateChanges
<1> QED
  BY <1>4, <1>7 DEF Answers

\* Outside of a negotiation, a step that only answers keeps the invariant.
LEMMA AnswersKeep ==
    ASSUME Kept, NEW f, NEW name, NEW authenticated, NEW failedLogin,
           Answers(f, name, authenticated, failedLogin),
           phase[f] = Typing, phase' = phase, ran' \in Fds \cup {Nobody}
    PROVE  Kept'
<1>1. PICK e : Changes(f, e) /\ e.skipChars = 0
  BY DEF Answers
<1>2. StillToSkip(phase'[f], e.skipChars)
  BY <1>1 DEF StillToSkip
<1>3. phase' \in [Fds -> Phases] /\ \A g \in Fds : g # f => phase'[g] = phase[g]
  BY DEF Kept
<1> QED
  BY <1>1, <1>2, <1>3, ChangesKeep

LEMMA Failures ==
    ASSUME NEW u \in Entries
    PROVE  /\ 0 \in 0 .. MaxFailed /\ {0, 1, 2} \subseteq 0 .. 2
           /\ u.failedLogin < MaxFailed => u.failedLogin + 1 \in 0 .. MaxFailed
           /\ u.failedLogin >= MaxFailed => u.failedLogin = MaxFailed
BY Fields, BoundsAssumption

LEMMA NameAnswers ==
    ASSUME Kept, NEW f \in Fds, Plain(f), EnterName(f)
    PROVE  Answers(f, User(f).buf, 1, User(f).failedLogin) /\ User(f).authenticated = 0
<1> DEFINE u == [User(f) EXCEPT !.name = User(f).buf, !.authenticated = 1]
<1>1. f \in master /\ User(f).skipChars = 0 /\ master' = master /\ User(f).authenticated = 0
  BY DEF Plain, EnterName
<1>2. User(f) \in Entries
  BY <1>1, Connected
<1>3. User(f).buf \in Lines /\ User(f).failedLogin \in 0 .. MaxFailed /\ 1 \in 0 .. 2
  BY <1>2, Fields
<1>4. Update(f, Empty(u))
  BY DEF EnterName
<1>5. u = [User(f) EXCEPT !.name = User(f).buf, !.authenticated = 1,
                          !.failedLogin = User(f).failedLogin]
  BY <1>2 DEF Entries
<1> HIDE DEF u
<1> QED
  BY <1>1, <1>3, <1>4, <1>5, AnswerChanges

\* The three outcomes of a password.
LEMMA PasswordAnswers ==
    ASSUME Kept, NEW f \in Fds, Plain(f), EnterPassword(f)
    PROVE  LET u == User(f)
               right == <<u.name, u.buf>> \in Accounts
               same == ran' = Nobody /\ master' = master /\ phase' = phase
           IN  /\ u.authenticated = 1
               /\ \/ right /\ same /\ Answers(f, u.name, 2, 0)
                  \/ /\ ~right /\ u.failedLogin < MaxFailed /\ same
                     /\ Answers(f, u.name, 0, u.failedLogin + 1)
                  \/ ~right /\ u.failedLogin = MaxFailed /\ Closes(f)
<1> DEFINE u == User(f)
<1> DEFINE right == <<u.name, u.buf>> \in Accounts
<1> DEFINE same == ran' = Nobody /\ master' = master /\ phase' = phase
<1>1. f \in master /\ u.skipChars = 0 /\ u.authenticated = 1
  BY DEF Plain, EnterPassword
<1>2. u \in Entries
  BY <1>1, Connected
<1>3. u.name \in Lines
  BY <1>2, Fields
<1>4. CASE right /\ same /\ Update(f, Empty([u EXCEPT !.authenticated = 2, !.failedLogin = 0]))
  <2>1. [u EXCEPT !.authenticated = 2, !.failedLogin = 0]
          = [u EXCEPT !.name = u.name, !.authenticated = 2, !.failedLogin = 0]
    BY <1>2 DEF Entries
  <2>2. Answers(f, u.name, 2, 0)
    BY <1>1, <1>2, <1>3, <1>4, <2>1, Failures, AnswerChanges
  <2> QED
    BY <1>1, <1>4, <2>2
<1>5. CASE /\ ~right /\ u.failedLogin < MaxFailed /\ same
           /\ Update(f, Empty([u EXCEPT !.authenticated = 0, !.failedLogin = @ + 1]))
  <2>1. [u EXCEPT !.authenticated = 0, !.failedLogin = @ + 1]
          = [u EXCEPT !.name = u.name, !.authenticated = 0, !.failedLogin = u.failedLogin + 1]
    BY <1>2 DEF Entries
  <2>2. Answers(f, u.name, 0, u.failedLogin + 1)
    BY <1>1, <1>2, <1>3, <1>5, <2>1, Failures, AnswerChanges
  <2> QED
    BY <1>1, <1>5, <2>2
<1>6. CASE ~right /\ u.failedLogin >= MaxFailed /\ Disconnect(f)
  BY <1>1, <1>2, <1>6, Failures, DisconnectCloses
<1> QED
  BY <1>4, <1>5, <1>6 DEF EnterPassword

LEMMA CommandAnswers ==
    ASSUME Kept, NEW f \in Fds, Plain(f), EnterCommand(f)
    PROVE  Answers(f, User(f).name, 2, User(f).failedLogin) /\ User(f).authenticated = 2
<1>1. f \in master /\ User(f).skipChars = 0 /\ master' = master /\ User(f).authenticated = 2
  BY DEF Plain, EnterCommand
<1>2. User(f) \in Entries
  BY <1>1, Connected
<1>3. User(f).name \in Lines /\ User(f).failedLogin \in 0 .. MaxFailed /\ 2 \in 0 .. 2
  BY <1>2, Fields
<1>4. Update(f, Empty(User(f)))
  BY DEF EnterCommand
<1>5. User(f) = [User(f) EXCEPT !.name = User(f).name, !.authenticated = 2,
                                !.failedLogin = User(f).failedLogin]
  BY <1>1, <1>2 DEF Entries
<1> QED
  BY <1>1, <1>3, <1>4, <1>5, AnswerChanges

\* A connection is accepted: it has an entry of its own, and no other.
Opens(f, e) ==
    /\ f \notin master /\ master' = master \cup {f}
    /\ phase' = [phase EXCEPT ![f] = Typing] /\ ran' = Nobody
    /\ e \in Entries /\ e.fd = f /\ e.name = <<>>
    /\ e.failedLogin = 0 /\ e.authenticated = 0 /\ e.currentPtr = 0 /\ e.skipChars = 0
    /\ users' \in Seq(Entries) /\ OneEach(users')
    /\ \A u : Has(users', u) <=> u = e \/ (Has(users, u) /\ u.fd # f)

LEMMA ConnectOpens ==
    ASSUME Kept, NEW f \in Fds, Connect(f)
    PROVE  \E e : Opens(f, e)
<1>1. PICK l \in Lines : users' = Fresh(f, l)
  BY DEF Connect
<1> DEFINE e == [fd |-> f, name |-> <<>>, failedLogin |-> 0, authenticated |-> 0,
                 buf |-> l, currentPtr |-> 0, skipChars |-> 0]
<1>2. users' = Append(Others(f), e)
  BY <1>1 DEF Fresh
<1>3. 0 \in 0 .. MaxFailed /\ 0 \in 0 .. 2 /\ 0 \in 0 .. MaxLine /\ 0 \in 0 .. SkipGuard
  BY BoundsAssumption
<1>4. /\ e \in Entries /\ e.fd = f /\ e.name = <<>>
      /\ e.failedLogin = 0 /\ e.authenticated = 0 /\ e.currentPtr = 0 /\ e.skipChars = 0
  BY <1>3, EmptyLine DEF Entries
<1> HIDE DEF e
<1>5. /\ Others(f) \in Seq(Entries) /\ OneEach(Others(f))
      /\ \A u : Has(Others(f), u) <=> Has(users, u) /\ u.fd # f
  BY OthersAre DEF Kept
<1> DEFINE s == Others(f)
<1>6. s \in Seq(Entries) /\ OneEach(s) /\ \A u : Has(s, u) => u.fd # e.fd
  BY <1>4, <1>5
<1>7. users' = Append(s, e)
  BY <1>2
<1> HIDE DEF s
<1>8. /\ users' \in Seq(Entries) /\ OneEach(users')
      /\ \A u : Has(users', u) <=> u = e \/ Has(s, u)
  BY <1>4, <1>6, <1>7, Appended
<1>9. \A u : Has(users', u) <=> u = e \/ (Has(users, u) /\ u.fd # f)
  BY <1>5, <1>8 DEF s
<1> QED
  BY <1>4, <1>8, <1>9 DEF Opens, Connect

LEMMA OpensKeep ==
    ASSUME Kept, NEW f \in Fds, NEW e, Opens(f, e)
    PROVE  Kept'
<1>1. /\ phase' \in [Fds -> Phases] /\ phase'[f] = Typing
      /\ \A g \in Fds : g # f => phase'[g] = phase[g]
  BY TypingIsAPhase DEF Kept, Opens
<1>2. \A g \in master' : \E u : Has(users', u) /\ u.fd = g
  BY DEF Kept, Opens
<1>3. EntryOK(e)'
  <2>1. e.currentPtr <= Len(e.buf)
    BY Fields DEF Opens
  <2>2. StillToSkip(phase'[f], e.skipChars)
    BY <1>1 DEF StillToSkip, Opens
  <2> QED
    BY <2>1, <2>2 DEF EntryOK, Opens
<1>4. ASSUME NEW u, Has(users, u), u.fd # f PROVE EntryOK(u)'
  <2>1. EntryOK(u)
    BY <1>4 DEF Kept
  <2>2. u.fd \in master' => u.fd \in master /\ u.fd \in Fds
    BY <1>4 DEF Opens, Kept
  <2> QED
    BY <1>1, <1>4, <2>1, <2>2 DEF EntryOK
<1>5. master' \subseteq Fds /\ ran' \in Fds \cup {Nobody}
  BY DEF Kept, Opens
<1> QED
  BY <1>1, <1>2, <1>3, <1>4, <1>5 DEF Kept, Opens

LEMMA KeptStep ==
    ASSUME Kept, [Next]_vars
    PROVE  Kept'
<1>1. CASE UNCHANGED vars
  BY <1>1 DEF vars, Kept, EntryOK
<1>2. ASSUME NEW f \in Fds, Connect(f) PROVE Kept'
  BY <1>2, ConnectOpens, OpensKeep
<1>3. ASSUME NEW f \in Fds, HangUp(f) \/ RecvFails(f) PROVE Kept'
  BY <1>3, DisconnectCloses, RecvFailsCloses, ClosesKeep DEF HangUp
<1>4. ASSUME NEW f \in Fds, TypeChar(f) \/ Erase(f) \/ Negotiate(f) PROVE Kept'
  <2>1. PICK e : Edits(f, e)
    BY <1>4, TypeCharEdits, EraseEdits, NegotiateEdits
  <2> QED
    BY <2>1, ChangesKeep DEF Edits
<1>5. ASSUME NEW f \in Fds, Enter(f) PROVE Kept'
  <2>1. Plain(f) /\ phase[f] = Typing
    BY <1>5 DEF Enter, Plain
  <2>2. CASE EnterName(f)
    <3>1. phase' = phase /\ ran' = Nobody
      BY <2>2 DEF EnterName
    <3> QED
      BY <2>1, <2>2, <3>1, NameAnswers, AnswersKeep
  <2>3. CASE EnterPassword(f)
    BY <2>1, <2>3, PasswordAnswers, AnswersKeep, ClosesKeep
  <2>4. CASE EnterCommand(f)
    <3>1. phase' = phase /\ ran' \in Fds \cup {Nobody}
      BY <2>4 DEF EnterCommand
    <3> QED
      BY <2>1, <2>4, <3>1, CommandAnswers, AnswersKeep
  <2>5. CASE EnterQuit(f)
    BY <2>5, DisconnectCloses, ClosesKeep DEF EnterQuit
  <2> QED
    BY <1>5, <2>2, <2>3, <2>4, <2>5 DEF Enter
<1> QED
  BY <1>1, <1>2, <1>3, <1>4, <1>5 DEF Next

LEMMA KeptInit == Init => Kept
<1> SUFFICES ASSUME Init PROVE Kept
  OBVIOUS
<1>1. users = <<>> /\ Len(users) = 0 /\ users \in Seq(Entries) /\ master = {}
  BY DEF Init
<1>2. OneEach(users) /\ \A u : ~Has(users, u)
  BY <1>1 DEF OneEach, Has
<1> QED
  BY <1>1, <1>2, TypingIsAPhase DEF Init, Kept

THEOREM Inductive == Spec => []IInv
<1>1. Kept /\ [Next]_vars => Kept'
  BY KeptStep
<1>2. Spec => []Kept
  BY <1>1, KeptInit, PTL DEF Spec
<1> QED
  BY <1>2, SameInv, PTL

\* The state of the console is well typed, for any descriptors and any lines:
\* currentPtr, from which erasing takes, never goes below 0. (That it does not go
\* beyond the line is the bound MaxLine of the model, not the code's doing.)
THEOREM TypeCorrect == Spec => []TypeOK
BY Inductive, PTL DEF IInv

\* However connections end, with or without their users' entries, and however
\* often descriptors are handed out again, a connection has one entry, its own.
THEOREM EntriesAreOwn == Spec => []OneEntryEach
BY Inductive, PTL DEF IInv

\* The bytes of a client's negotiations are skipped and no others, as long as
\* its subnegotiations are shorter than the guard counts.
THEOREM SkipsNegotiations == Spec => []NegotiationsAreSkipped
<1>1. IInv => NegotiationsAreSkipped
  <2> SUFFICES ASSUME IInv, NEW i \in 1 .. Len(users), users[i].fd \in master
               PROVE  users[i].skipChars = 0 <=> phase[users[i].fd] = Typing
    BY DEF NegotiationsAreSkipped
  <2> DEFINE p == phase[users[i].fd]
  <2> DEFINE n == users[i].skipChars
  <2>1. StillToSkip(p, n)
    BY DEF IInv, Skipping
  <2>2. users[i] \in Entries /\ users[i].fd \in Fds
    BY ElementOfSeq DEF IInv, TypeOK
  <2>3. p.sent \in 0 .. SkipGuard - 1 /\ n \in Nat /\ SkipGuard \in Nat
    BY <2>2, Fields, BoundsAssumption DEF IInv, TypeOK
  <2> HIDE DEF p, n
  <2>4. n = 0 <=> p = Typing
    BY <2>1, <2>3 DEF StillToSkip, Typing
  <2> QED
    BY <2>4 DEF p, n
<1> QED
  BY <1>1, Inductive, PTL

-----------------------------------------------------------------------------
(* The console implements module Login.                                     *)

\* What Login sees of the users.
Stages == [f \in Fds |-> IF f \in master THEN Stage(User(f)) ELSE "closed"]
Names == [f \in Fds |-> IF f \in master THEN User(f).name ELSE <<>>]
Typed == [f \in Fds |-> IF f \in master THEN User(f).buf ELSE <<>>]
Failed == [f \in Fds |-> IF f \in master THEN User(f).failedLogin ELSE 0]

L == INSTANCE Login WITH stage <- Stages, name <- Names, line <- Typed, fails <- Failed

LEMMA SameInitAsLogin == L!Init => Promise!Init
BY DEF L!Init, Promise!Init, OfConnection, Stages, Names, Typed, Failed

LEMMA SameStepAsLogin == [L!Next]_(L!vars) => [Promise!Next]_(Promise!vars)
BY DEF L!Next, Promise!Next, L!vars, Promise!vars, OfConnection, Stages, Names, Typed, Failed,
       L!Accept, Promise!Accept, L!Key, Promise!Key, L!GiveName, Promise!GiveName,
       L!GivePassword, Promise!GivePassword, L!Command, Promise!Command, L!Leave, Promise!Leave,
       L!Close, Promise!Close

LEMMA Views ==
    /\ DOMAIN Stages = Fds /\ DOMAIN Names = Fds /\ DOMAIN Typed = Fds /\ DOMAIN Failed = Fds
    /\ \A g \in Fds :
          /\ g \in master => /\ Stages[g] = Stage(User(g)) /\ Names[g] = User(g).name
                            /\ Typed[g] = User(g).buf /\ Failed[g] = User(g).failedLogin
          /\ g \notin master => /\ Stages[g] = "closed" /\ Names[g] = <<>>
                               /\ Typed[g] = <<>> /\ Failed[g] = 0
BY DEF Stages, Names, Typed, Failed

\* The next state's users, as Login sees them, from what it sees of one of them.
Sees(f, stage, name, line, fails) ==
    /\ Stages' = [Stages EXCEPT ![f] = stage] /\ Names' = [Names EXCEPT ![f] = name]
    /\ Typed' = [Typed EXCEPT ![f] = line] /\ Failed' = [Failed EXCEPT ![f] = fails]

LEMMA ExceptOne ==
    ASSUME NEW f \in Fds, NEW h, NEW k, NEW v,
           h = [g \in Fds |-> h[g]], k = [g \in Fds |-> k[g]],
           k[f] = v, \A g \in Fds \ {f} : k[g] = h[g]
    PROVE  k = [h EXCEPT ![f] = v]
OBVIOUS

LEMMA NextViews ==
    /\ Stages' = [g \in Fds |-> Stages'[g]] /\ Names' = [g \in Fds |-> Names'[g]]
    /\ Typed' = [g \in Fds |-> Typed'[g]] /\ Failed' = [g \in Fds |-> Failed'[g]]
    /\ \A g \in Fds :
          /\ g \in master' => /\ Stages'[g] = Stage(User(g)') /\ Names'[g] = User(g)'.name
                             /\ Typed'[g] = User(g)'.buf /\ Failed'[g] = User(g)'.failedLogin
          /\ g \notin master' => /\ Stages'[g] = "closed" /\ Names'[g] = <<>>
                                /\ Typed'[g] = <<>> /\ Failed'[g] = 0
BY DEF Stages, Names, Typed, Failed

LEMMA Elsewhere ==
    ASSUME NEW f \in Fds, NEW stage, NEW name, NEW line, NEW fails,
           \A g \in Fds \ {f} :
              /\ g \in master' <=> g \in master
              /\ g \in master => User(g)' = User(g),
           IF f \in master'
             THEN /\ Stage(User(f)') = stage /\ User(f)'.name = name
                  /\ User(f)'.buf = line /\ User(f)'.failedLogin = fails
             ELSE stage = "closed" /\ name = <<>> /\ line = <<>> /\ fails = 0
    PROVE  Sees(f, stage, name, line, fails)
<1>1. Stages'[f] = stage /\ Names'[f] = name /\ Typed'[f] = line /\ Failed'[f] = fails
  BY NextViews
<1>2. ASSUME NEW g \in Fds \ {f}
      PROVE  /\ Stages'[g] = Stages[g] /\ Names'[g] = Names[g]
             /\ Typed'[g] = Typed[g] /\ Failed'[g] = Failed[g]
  <2>1. CASE g \in master
    <3>1. g \in master' /\ User(g)' = User(g)
      BY <2>1
    <3>2. Stage(User(g)') = Stage(User(g))
      BY <3>1
    <3> QED
      BY <2>1, <3>1, <3>2, NextViews, Views
  <2>2. CASE g \notin master
    BY <2>2, NextViews, Views
  <2> QED
    BY <2>1, <2>2
<1>3. /\ Stages = [g \in Fds |-> Stages[g]] /\ Names = [g \in Fds |-> Names[g]]
      /\ Typed = [g \in Fds |-> Typed[g]] /\ Failed = [g \in Fds |-> Failed[g]]
  BY DEF Stages, Names, Typed, Failed
<1>4. Stages' = [Stages EXCEPT ![f] = stage]
  BY <1>1, <1>2, <1>3, NextViews, ExceptOne
<1>5. Names' = [Names EXCEPT ![f] = name]
  BY <1>1, <1>2, <1>3, NextViews, ExceptOne
<1>6. Typed' = [Typed EXCEPT ![f] = line]
  BY <1>1, <1>2, <1>3, NextViews, ExceptOne
<1>7. Failed' = [Failed EXCEPT ![f] = fails]
  BY <1>1, <1>2, <1>3, NextViews, ExceptOne
<1> QED
  BY <1>4, <1>5, <1>6, <1>7 DEF Sees

LEMMA SeesChange ==
    ASSUME Kept, NEW f, NEW e, Changes(f, e)
    PROVE  f \in Fds /\ Sees(f, Stage(e), e.name, e.buf, e.failedLogin)
<1>1. f \in Fds /\ f \in master' /\ master' = master
  BY DEF Kept, Changes
<1>2. User(f)' = e
  BY TheUser DEF Changes
<1>3. \A g \in master \ {f} : User(g)' = User(g)
  BY TheUser, Connected DEF Changes
<1>4. Stage(User(f))' = Stage(e)
  BY <1>2 DEF Stage
<1> QED
  BY <1>1, <1>2, <1>3, <1>4, Elsewhere

LEMMA SeesClose ==
    ASSUME Kept, NEW f \in Fds, Closes(f)
    PROVE  Sees(f, "closed", <<>>, <<>>, 0)
<1>1. \A g \in master \ {f} : User(g)' = User(g)
  BY TheUser, Connected DEF Closes
<1>2. f \notin master' /\ \A g \in Fds \ {f} : g \in master' <=> g \in master
  BY DEF Closes
<1> QED
  BY <1>1, <1>2, Elsewhere

LEMMA SeesOpen ==
    ASSUME Kept, NEW f \in Fds, NEW e, Opens(f, e)
    PROVE  Sees(f, "name", <<>>, e.buf, 0)
<1>1. f \in master' /\ \A g \in Fds \ {f} : g \in master' <=> g \in master
  BY DEF Opens
<1>2. User(f)' = e
  BY TheUser DEF Opens
<1>3. \A g \in master : User(g)' = User(g)
  BY TheUser, Connected DEF Opens
<1>4. Stage(User(f))' = "name"
  BY <1>2 DEF Stage, Opens
<1> QED
  BY <1>1, <1>2, <1>3, <1>4, Elsewhere DEF Opens

\* What a step leaves alone.
LEMMA SeesSame ==
    ASSUME NEW f \in Fds, NEW stage, NEW name, NEW line, NEW fails,
           Sees(f, stage, name, line, fails)
    PROVE  /\ stage = Stages[f] => Stages' = Stages
           /\ name = Names[f] => Names' = Names
           /\ line = Typed[f] => Typed' = Typed
           /\ fails = Failed[f] => Failed' = Failed
BY DEF Sees, Stages, Names, Typed, Failed

-----------------------------------------------------------------------------
LEMMA CloseIsLeave ==
    ASSUME Kept, NEW f \in Fds, f \in master, Closes(f)
    PROVE  L!Leave(f)
<1>1. Stages[f] # "closed"
  <2>1. User(f).authenticated \in 0 .. 2 /\ Stages[f] = Stage(User(f))
    BY Connected, Fields, Views
  <2>2. User(f).authenticated + 1 \in {1, 2, 3}
    BY <2>1
  <2> QED
    BY <2>1, <2>2 DEF Stage
<1> QED
  BY <1>1, SeesClose DEF L!Leave, L!Close, Sees, Closes

LEMMA OpenIsAccept ==
    ASSUME Kept, NEW f \in Fds, NEW e, Opens(f, e)
    PROVE  L!Accept(f)
<1>1. Stages[f] = "closed" /\ Names[f] = <<>>
  BY Views DEF Opens
<1>2. e.buf \in Lines
  BY Fields DEF Opens
<1>3. Sees(f, "name", <<>>, e.buf, 0)
  BY SeesOpen
<1>4. Names' = Names
  BY <1>1, <1>3, SeesSame
<1> QED
  BY <1>1, <1>2, <1>3, <1>4 DEF L!Accept, Sees, Opens

LEMMA EditIsKey ==
    ASSUME Kept, NEW f \in Fds, NEW e, Edits(f, e)
    PROVE  L!Key(f)
<1> DEFINE u == User(f)
<1>1. f \in master /\ u \in Entries /\ u.authenticated \in 0 .. 2
  BY Connected, Fields DEF Edits, Changes
<1>2. Stages[f] = Stage(u) /\ Names[f] = u.name /\ Typed[f] = u.buf /\ Failed[f] = u.failedLogin
  BY <1>1, Views
<1>3. Stage(e) = Stage(u)
  BY DEF Edits, Stage
<1>4. Stages[f] # "closed"
  <2>1. u.authenticated + 1 \in {1, 2, 3}
    BY <1>1
  <2> QED
    BY <1>2, <2>1 DEF Stage
<1>5. Sees(f, Stage(e), e.name, e.buf, e.failedLogin)
  BY SeesChange DEF Edits
<1>6. Stages' = Stages /\ Names' = Names /\ Failed' = Failed
  BY <1>2, <1>3, <1>5, SeesSame DEF Edits
<1>7. e.buf \in Lines /\ Len(e.buf) <= Len(Typed[f]) + 1
  BY <1>2, Fields DEF Edits, Changes
<1>8. Typed' = [Typed EXCEPT ![f] = e.buf] /\ ran' = Nobody
  BY <1>5 DEF Sees, Edits
<1> QED
  BY <1>4, <1>6, <1>7, <1>8 DEF L!Key

\* What Login sees of a connection and of an answer to it.
LEMMA SeesUser ==
    ASSUME Kept, NEW f \in master
    PROVE  /\ f \in Fds /\ User(f) \in Entries
           /\ Stages[f] = Stage(User(f)) /\ Names[f] = User(f).name
           /\ Typed[f] = User(f).buf /\ Failed[f] = User(f).failedLogin
BY Connected, Views

LEMMA SeesAnswer ==
    ASSUME Kept, NEW f, NEW name, NEW authenticated, NEW failedLogin,
           Answers(f, name, authenticated, failedLogin)
    PROVE  /\ f \in master
           /\ Sees(f, <<"name", "password", "in">>[authenticated + 1], name, <<>>, failedLogin)
<1>1. PICK e : /\ Changes(f, e) /\ e.name = name /\ e.authenticated = authenticated
               /\ e.failedLogin = failedLogin /\ e.buf = <<>>
  BY DEF Answers
<1>2. f \in master /\ Sees(f, Stage(e), e.name, e.buf, e.failedLogin)
  BY <1>1, SeesChange DEF Changes
<1> QED
  BY <1>1, <1>2 DEF Stage

LEMMA NameIsGiven ==
    ASSUME Kept, NEW f \in Fds, Plain(f), EnterName(f)
    PROVE  L!GiveName(f)
<1> DEFINE u == User(f)
<1>1. Answers(f, u.buf, 1, u.failedLogin) /\ u.authenticated = 0
  BY NameAnswers
<1>2. f \in master /\ Sees(f, "password", u.buf, <<>>, u.failedLogin)
  <2>1. <<"name", "password", "in">>[1 + 1] = "password"
    OBVIOUS
  <2> QED
    BY <1>1, <2>1, SeesAnswer
<1>3. Stages[f] = "name" /\ Typed[f] = u.buf /\ Failed[f] = u.failedLogin
  BY <1>1, <1>2, SeesUser DEF Stage
<1>4. Failed' = Failed
  BY <1>2, <1>3, SeesSame
<1>5. ran' = Nobody
  BY DEF EnterName
<1> HIDE DEF u
<1> QED
  BY <1>2, <1>3, <1>4, <1>5 DEF L!GiveName, Sees

LEMMA PasswordIsGiven ==
    ASSUME Kept, NEW f \in Fds, Plain(f), EnterPassword(f)
    PROVE  L!GivePassword(f)
<1> DEFINE u == User(f)
<1> DEFINE right == <<u.name, u.buf>> \in Accounts
<1>1. /\ u.authenticated = 1
      /\ \/ right /\ ran' = Nobody /\ Answers(f, u.name, 2, 0)
         \/ ~right /\ u.failedLogin < MaxFailed /\ ran' = Nobody
            /\ Answers(f, u.name, 0, u.failedLogin + 1)
         \/ ~right /\ u.failedLogin = MaxFailed /\ Closes(f)
  BY PasswordAnswers
<1>2. f \in master
  BY DEF Plain
<1>3. /\ Stages[f] = "password" /\ Names[f] = u.name
      /\ Typed[f] = u.buf /\ Failed[f] = u.failedLogin
  BY <1>1, <1>2, SeesUser DEF Stage
<1>4. /\ <<"name", "password", "in">>[2 + 1] = "in"
      /\ <<"name", "password", "in">>[0 + 1] = "name"
  OBVIOUS
<1> HIDE DEF u
<1>5. CASE right /\ ran' = Nobody /\ Answers(f, u.name, 2, 0)
  <2>1. Sees(f, "in", u.name, <<>>, 0)
    BY <1>4, <1>5, SeesAnswer
  <2>2. Names' = Names
    BY <1>3, <2>1, SeesSame
  <2> QED
    BY <1>3, <1>5, <2>1, <2>2 DEF L!GivePassword, Sees
<1>6. CASE /\ ~right /\ u.failedLogin < MaxFailed /\ ran' = Nobody
           /\ Answers(f, u.name, 0, u.failedLogin + 1)
  <2>1. Sees(f, "name", u.name, <<>>, u.failedLogin + 1)
    BY <1>4, <1>6, SeesAnswer
  <2>2. Names' = Names
    BY <1>3, <2>1, SeesSame
  <2> QED
    BY <1>3, <1>6, <2>1, <2>2 DEF L!GivePassword, Sees
<1>7. CASE ~right /\ u.failedLogin = MaxFailed /\ Closes(f)
  <2>1. Sees(f, "closed", <<>>, <<>>, 0)
    BY <1>7, SeesClose
  <2>2. L!Close(f)
    BY <1>7, <2>1 DEF L!Close, Sees, Closes
  <2> QED
    BY <1>3, <1>7, <2>2 DEF L!GivePassword
<1> QED
  BY <1>1, <1>5, <1>6, <1>7

LEMMA CommandIsRun ==
    ASSUME Kept, NEW f \in Fds, Plain(f), EnterCommand(f)
    PROVE  L!Command(f)
<1> DEFINE u == User(f)
<1>1. Answers(f, u.name, 2, u.failedLogin) /\ u.authenticated = 2
  BY CommandAnswers
<1>2. f \in master
  BY DEF Plain
<1>3. Sees(f, "in", u.name, <<>>, u.failedLogin)
  <2>1. <<"name", "password", "in">>[2 + 1] = "in"
    OBVIOUS
  <2> QED
    BY <1>1, <2>1, SeesAnswer
<1>4. /\ Stages[f] = "in" /\ Names[f] = u.name
      /\ Typed[f] = u.buf /\ Failed[f] = u.failedLogin
  BY <1>1, <1>2, SeesUser DEF Stage
<1>5. Stages' = Stages /\ Names' = Names /\ Failed' = Failed
  BY <1>3, <1>4, SeesSame
<1>6. u.currentPtr > 0 => u.buf # <<>>
  <2>1. u \in Entries /\ u.currentPtr <= Len(u.buf)
    BY <1>2, Connected
  <2>2. u.currentPtr \in Nat /\ Len(u.buf) \in Nat /\ (u.buf = <<>> => Len(u.buf) = 0)
    BY <2>1, Fields
  <2> QED
    BY <2>1, <2>2
<1>7. ran' = IF u.currentPtr > 0 THEN f ELSE Nobody
  BY DEF EnterCommand
<1> HIDE DEF u
<1>8. (ran' = f /\ Typed[f] # <<>>) \/ ran' = Nobody
  BY <1>4, <1>6, <1>7
<1> QED
  BY <1>3, <1>4, <1>5, <1>8 DEF L!Command, Sees

\* Every step of the console is one of Login's, or changes nothing it sees.
LEMMA StepOfLogin ==
    ASSUME Kept, [Next]_vars
    PROVE  [L!Next]_(L!vars)
<1>1. CASE UNCHANGED vars
  <2>1. \A f : User(f)' = User(f)
    BY <1>1 DEF vars, User, Entry
  <2>2. \A f \in Fds : Stage(User(f)') = Stage(User(f))
    BY <2>1
  <2>3. master' = master /\ ran' = ran
    BY <1>1 DEF vars
  <2>4. ASSUME NEW g \in Fds
        PROVE  /\ Stages'[g] = Stages[g] /\ Names'[g] = Names[g]
               /\ Typed'[g] = Typed[g] /\ Failed'[g] = Failed[g]
    <3>1. CASE g \in master
      BY <2>1, <2>2, <2>3, <3>1, NextViews, Views
    <3>2. CASE g \notin master
      BY <2>3, <3>2, NextViews, Views
    <3> QED
      BY <3>1, <3>2
  <2>5. /\ Stages = [g \in Fds |-> Stages[g]] /\ Names = [g \in Fds |-> Names[g]]
        /\ Typed = [g \in Fds |-> Typed[g]] /\ Failed = [g \in Fds |-> Failed[g]]
    BY DEF Stages, Names, Typed, Failed
  <2>6. Stages' = Stages /\ Names' = Names /\ Typed' = Typed /\ Failed' = Failed
    BY <2>4, <2>5, NextViews
  <2> QED
    BY <2>3, <2>6 DEF L!vars
<1>2. ASSUME NEW f \in Fds, Connect(f) PROVE L!Accept(f)
  BY <1>2, ConnectOpens, OpenIsAccept
<1>3. ASSUME NEW f \in Fds, HangUp(f) \/ RecvFails(f) PROVE L!Leave(f)
  <2>1. f \in master
    BY <1>3 DEF HangUp, RecvFails
  <2>2. Closes(f)
    BY <1>3, DisconnectCloses, RecvFailsCloses DEF HangUp
  <2> QED
    BY <2>1, <2>2, CloseIsLeave
<1>4. ASSUME NEW f \in Fds, TypeChar(f) \/ Erase(f) \/ Negotiate(f) PROVE L!Key(f)
  <2>1. PICK e : Edits(f, e)
    BY <1>4, TypeCharEdits, EraseEdits, NegotiateEdits
  <2> QED
    BY <2>1, EditIsKey
<1>5. ASSUME NEW f \in Fds, Enter(f)
      PROVE  L!GiveName(f) \/ L!GivePassword(f) \/ L!Command(f) \/ L!Leave(f)
  <2>1. Plain(f) /\ f \in master
    BY <1>5 DEF Enter, Plain
  <2>2. CASE EnterQuit(f)
    BY <2>1, <2>2, DisconnectCloses, CloseIsLeave DEF EnterQuit
  <2> QED
    BY <1>5, <2>1, <2>2, NameIsGiven, PasswordIsGiven, CommandIsRun DEF Enter
<1>6. CASE Next
  <2>1. PICK f \in Fds : \/ Connect(f) \/ HangUp(f) \/ RecvFails(f)
                         \/ TypeChar(f) \/ Erase(f) \/ Enter(f) \/ Negotiate(f)
    BY <1>6 DEF Next
  <2>2. \/ L!Accept(f) \/ L!Key(f) \/ L!GiveName(f) \/ L!GivePassword(f)
        \/ L!Command(f) \/ L!Leave(f)
    BY <1>2, <1>3, <1>4, <1>5, <2>1
  <2> QED
    BY <2>2 DEF L!Next
<1> QED
  BY <1>1, <1>6

LEMMA InitOfLogin == Init => L!Init
BY DEF Init, L!Init, Stages, Names, Typed, Failed

\* Commands run only for connections that gave a listed name and password since
\* they were accepted, and too many failures end one, whatever descriptors are
\* handed out again and whatever entries are left behind: the console
\* implements Login.
THEOREM LoginIsKept == Spec => KeepsLogin
<1>1. Init => Promise!Init
  BY InitOfLogin, SameInitAsLogin
<1>2. Kept /\ [Next]_vars => [Promise!Next]_(Promise!vars)
  BY StepOfLogin, SameStepAsLogin
<1>3. Spec => []Kept
  BY Inductive, SameInv, PTL
<1> QED
  BY <1>1, <1>2, <1>3, PTL DEF Spec, KeepsLogin, Promise!Spec
=============================================================================
