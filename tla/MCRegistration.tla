--------------------------- MODULE MCRegistration ---------------------------
(***************************************************************************)
(* Instances of Registration for TLC.                                      *)
(***************************************************************************)
EXTENDS Registration, TLC

CONSTANTS r1, r2, o1, o2, i1, e1, e2

MCRequests == {r1, r2}
MCOrders == {o1, o2}
MCIdentities == {i1}
MCEmails == {e1, e2}

\* One person: an order asked for with two addresses, and a second order.
OnePerson ==
    {[order |-> o1, identity |-> i1, email |-> e1],
     [order |-> o1, identity |-> i1, email |-> e2],
     [order |-> o2, identity |-> i1, email |-> e1]}

\* Two orders of one person: all that a double registration takes.
TwoOrders ==
    {[order |-> o, identity |-> i1, email |-> e1] : o \in {o1, o2}}

\* One order asked for with two addresses.
OneOrder ==
    {[order |-> o1, identity |-> i1, email |-> e] : e \in {e1, e2}}

\* Both slots run the same code; used where no liveness is checked.
SlotSymmetry == Permutations(MCRequests)
=============================================================================
