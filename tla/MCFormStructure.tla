-------------------------- MODULE MCFormStructure --------------------------
(* Instance of FormStructure for TLC. *)
EXTENDS FormStructure, TLC

CONSTANTS f1, f2

MCForms == {f1, f2}

\* Two of each, or three sections, or three questions.
MCSizes == (0 .. 2) \X (0 .. 2) \cup {<<3, 0>>, <<1, 3>>}

\* Requests and forms are interchangeable.
Symmetry == Permutations(Requests) \cup Permutations(MCForms)
=============================================================================
