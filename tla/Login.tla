-------------------------------- MODULE Login --------------------------------
(***************************************************************************)
(* What the telnet console promises each connection: a name, then a         *)
(* password, each on a line of its own; commands only after a pair that the *)
(* user file lists; the end of the connection after too many failures. A    *)
(* line that was entered is not there any more for the next question.       *)
(***************************************************************************)
EXTENDS Naturals, Sequences

CONSTANTS
    Fds,        \* descriptors, reused from connection to connection
    Lines, Accounts,        \* what can be typed; <<name, password>> in the user file
    MaxFailed,  \* failures that are forgiven
    Nobody

VARIABLES
    stage,      \* of each descriptor: closed, name, password, in
    name, line, \* the name given; the line being typed
    fails,      \* failures since the last success
    ran         \* who has just run a command

vars == <<stage, name, line, fails, ran>>

Init ==
    /\ stage = [f \in Fds |-> "closed"] /\ fails = [f \in Fds |-> 0]
    /\ name = [f \in Fds |-> <<>>] /\ line = [f \in Fds |-> <<>>]
    /\ ran = Nobody

\* The first line of a connection may begin as anything.
Accept(f) ==
    /\ stage[f] = "closed" /\ stage' = [stage EXCEPT ![f] = "name"]
    /\ fails' = [fails EXCEPT ![f] = 0]
    /\ \E l \in Lines : line' = [line EXCEPT ![f] = l]
    /\ ran' = Nobody
    /\ UNCHANGED name

\* A key changes the line, but not from nothing to more than one character.
Key(f) ==
    /\ stage[f] # "closed"
    /\ \E l \in Lines : line' = [line EXCEPT ![f] = l] /\ Len(l) <= Len(line[f]) + 1
    /\ ran' = Nobody
    /\ UNCHANGED <<stage, name, fails>>

GiveName(f) ==
    /\ stage[f] = "name" /\ stage' = [stage EXCEPT ![f] = "password"]
    /\ name' = [name EXCEPT ![f] = line[f]]
    /\ line' = [line EXCEPT ![f] = <<>>]
    /\ ran' = Nobody
    /\ UNCHANGED fails

Close(f) ==
    /\ stage' = [stage EXCEPT ![f] = "closed"] /\ fails' = [fails EXCEPT ![f] = 0]
    /\ name' = [name EXCEPT ![f] = <<>>] /\ line' = [line EXCEPT ![f] = <<>>]
    /\ ran' = Nobody

GivePassword(f) ==
    /\ stage[f] = "password"
    /\ \/ /\ <<name[f], line[f]>> \in Accounts
          /\ stage' = [stage EXCEPT ![f] = "in"] /\ fails' = [fails EXCEPT ![f] = 0]
          /\ line' = [line EXCEPT ![f] = <<>>]
          /\ ran' = Nobody /\ UNCHANGED name
       \/ /\ <<name[f], line[f]>> \notin Accounts /\ fails[f] < MaxFailed
          /\ stage' = [stage EXCEPT ![f] = "name"] /\ fails' = [fails EXCEPT ![f] = fails[f] + 1]
          /\ line' = [line EXCEPT ![f] = <<>>]
          /\ ran' = Nobody /\ UNCHANGED name
       \/ <<name[f], line[f]>> \notin Accounts /\ fails[f] = MaxFailed /\ Close(f)

\* A line may also say nothing.
Command(f) ==
    /\ stage[f] = "in"
    /\ \/ ran' = f /\ line[f] # <<>>
       \/ ran' = Nobody
    /\ line' = [line EXCEPT ![f] = <<>>]
    /\ UNCHANGED <<stage, name, fails>>

\* quit, or the client or the network closes the connection.
Leave(f) == stage[f] # "closed" /\ Close(f)

Next == \E f \in Fds : Accept(f) \/ Key(f) \/ GiveName(f) \/ GivePassword(f) \/ Command(f) \/ Leave(f)

Spec == Init /\ [][Next]_vars
=============================================================================
