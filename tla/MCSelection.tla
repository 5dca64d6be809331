----------------------------- MODULE MCSelection -----------------------------
(* Small instances of Selection for TLC. *)
EXTENDS Selection, TLC

CONSTANTS ann, ben, cleo, dan, i, j, h1, h2, q, low, high

\* Two of one group, one of an older group of the same key, and one who handed
\* in the form: the first is of another key.
MCCandidates == {ann, ben, cleo, dan}
MCInterviewers == {i, j}
MCHandlers == {h1, h2}
MCMarital == [x \in MCCandidates |-> IF x = ann THEN "namorando" ELSE "casado/a"]
MCAge == [x \in MCCandidates |-> IF x = cleo THEN 31 ELSE 22]
MCStatuses == [x \in MCCandidates |-> IF x = dan THEN {0, 5} ELSE {0}]
MCOptionScores == [x \in {q} |-> (low :> 1 @@ high :> 9)]
MCAnswer == [x \in MCCandidates |-> [y \in {q} |-> IF x = ann THEN low ELSE high]]

\* Slots and interviewers take part in nothing that tells them apart.
SlotSymmetry == Permutations(MCHandlers) \cup Permutations(MCInterviewers)
=============================================================================
