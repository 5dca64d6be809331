------------------------------ MODULE MCSignIn ------------------------------
(* Small instances of SignIn for TLC. *)
EXTENDS SignIn, TLC

CONSTANTS h1, h2, d1, d2

\* Two types of term for one role; the term of the first type waits to be followed on day
\* 2, and one row more may be added.
MCAdmins == {h1, h2}
MCDesks == {d1, d2}
MCFirstTerms == [t \in TermIds |->
    CASE t = 1 -> [pair |-> 1, begin |-> 0, end |-> 1, text |-> 1]
      [] t = 2 -> [pair |-> 1, begin |-> 2, end |-> Open, text |-> 2]
      [] OTHER -> NoTerm]
MCPairRole == [p \in Pairs |-> "candidate"]
SlotSymmetry == Permutations(MCAdmins) \cup Permutations(MCDesks)
=============================================================================
