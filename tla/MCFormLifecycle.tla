-------------------------- MODULE MCFormLifecycle --------------------------
(* Small instances of FormLifecycle for TLC. *)
EXTENDS FormLifecycle, TLC

CONSTANTS c, n

MCRows == {c, n}

\* Besides the own form, a form for a referee the candidate names.
RefereeForm == [f \in MCRows |-> IF f = c THEN "candidate" ELSE "normal"]

\* ... or for the minister of the field the candidate names: the cron finds the
\* minister or not, so it does all it does for a referee and more.
MinisterForm == [f \in MCRows |-> IF f = c THEN "candidate" ELSE "ministerial"]

\* The first code of the own form expires, the code the cron mails for the other
\* form is the second; or none expires.
MailedCodesExpire == [f \in MCRows |-> IF f = c THEN 1 ELSE 2]
NoCodeExpires == [f \in MCRows |-> 0]

SlotSymmetry == Permutations(Runs) \cup Permutations(Holders)
=============================================================================
