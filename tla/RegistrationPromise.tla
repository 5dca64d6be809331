------------------------ MODULE RegistrationPromise ------------------------
(***************************************************************************)
(* What self-registration promises, without handlers, clocks, expiry or    *)
(* clean-up: a token stands for one application for ever, is mailed to the *)
(* address of that application only, is proven only after a mail of it     *)
(* arrived, and only a proven token becomes a candidate, whose order code  *)
(* no other candidate has.                                                 *)
(***************************************************************************)
CONSTANTS Tokens, Applications, NoApp

VARIABLES
    requested,  \* the application each token stands for
    inbox,      \* the mails that arrived
    proven,     \* the tokens whose link was followed
    registered  \* the candidates

promiseVars == <<requested, inbox, proven, registered>>

MailOf(t) == [email |-> requested[t].email, token |-> t]

Init ==
    /\ requested = [t \in Tokens |-> NoApp]
    /\ inbox = {}
    /\ proven = {}
    /\ registered = {}

Request(t, a) ==
    /\ requested[t] = NoApp
    /\ requested' = [requested EXCEPT ![t] = a]
    /\ UNCHANGED <<inbox, proven, registered>>

Deliver(t) ==
    /\ requested[t] # NoApp
    /\ inbox' = inbox \cup {MailOf(t)}
    /\ UNCHANGED <<requested, proven, registered>>

Prove(t) ==
    /\ \E m \in inbox : m.token = t
    /\ proven' = proven \cup {t}
    /\ UNCHANGED <<requested, inbox, registered>>

Register(t) ==
    /\ t \in proven
    /\ \A c \in registered : c.order # requested[t].order
    /\ registered' = registered \cup
         {[order |-> requested[t].order, identity |-> requested[t].identity,
           email |-> requested[t].email, token |-> t]}
    /\ UNCHANGED <<requested, inbox, proven>>

Next == \E t \in Tokens :
    \/ \E a \in Applications : Request(t, a)
    \/ Deliver(t)
    \/ Prove(t)
    \/ Register(t)

Spec == Init /\ [][Next]_promiseVars
=============================================================================
