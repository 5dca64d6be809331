--------------------------- MODULE MCRecipients ---------------------------
(***************************************************************************)
(* An instance of Recipients for TLC.                                      *)
(***************************************************************************)
EXTENDS Recipients

CONSTANTS qe, qf, x1, d1

\* Process 1 has the candidate's form, 1, and the minister's, 2; process 2 has
\* none, and its number is that of the minister's form.
MCForms == <<[process |-> 1, type |-> "candidate", question |-> None],
             [process |-> 1, type |-> "ministerial", question |-> qf]>>
MCKinds == (qe :> "email") @@ (qf :> "fields")
MCFormOf == x1 :> 2
MCAsked == x1 :> qf
MCNamed == x1 :> 1

Line(n, m) == [name |-> n, acronym |-> n,
               minister |-> IF m = None THEN None ELSE [name |-> m, contact |-> d1]]

MCFirst == <<Line(1, 1)>>

\* Another minister for the field; the one there is, for another field; a file
\* that replaces him and gives him a field whose acronym is taken.
MCFiles == {<<Line(1, 2)>>, <<Line(1, 1)>>, <<Line(2, 2)>>,
            <<Line(1, 2), [Line(2, 1) EXCEPT !.acronym = 1]>>}
=============================================================================
