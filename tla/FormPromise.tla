---------------------------- MODULE FormPromise ----------------------------
(***************************************************************************)
(* What the life of the forms promises, without codes, runs, handlers or   *)
(* the period: a form is only filled in by people it was mailed to, the    *)
(* candidate's own form names a recipient for every other form before it   *)
(* is handed in, and the others are mailed after that, to a recipient that *)
(* was named.  Nothing of this is taken back.                              *)
(***************************************************************************)
CONSTANTS Rows, Source, Linked

Entries == {"absent", "null", "given"}

VARIABLES
    asked,    \* the forms somebody was mailed
    entry,    \* what Source says of the recipient of each linked form
    handedIn  \* the forms that were submitted

promiseVars == <<asked, entry, handedIn>>

Init ==
    /\ asked = {}
    /\ entry = [f \in Linked |-> "absent"]
    /\ handedIn = {}

Ask(f) ==
    /\ f \in Linked => Source \in handedIn /\ entry[f] = "given"
    /\ asked' = asked \cup {f}
    /\ UNCHANGED <<entry, handedIn>>

\* Answering one question may show or hide others, which then have a row without
\* a value.
FillIn ==
    /\ Source \in asked
    /\ \E q \in Linked \cup {Source} :
          entry' \in {e \in [Linked -> Entries] :
                        \A f \in Linked : IF f = q THEN e[f] = "given"
                                          ELSE \/ e[f] = entry[f]
                                               \/ entry[f] = "absent" /\ e[f] = "null"}
    /\ UNCHANGED <<asked, handedIn>>

HandIn(f) ==
    /\ f \in asked
    /\ f = Source => \A g \in Linked : entry[g] # "absent"
    /\ handedIn' = handedIn \cup {f}
    /\ UNCHANGED <<asked, entry>>

Next == FillIn \/ \E f \in Rows : Ask(f) \/ HandIn(f)

Spec == Init /\ [][Next]_promiseVars
=============================================================================
