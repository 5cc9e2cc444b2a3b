--------------------------- MODULE MCSubscribeSaga ---------------------------
(* Constants for model checking SubscribeSaga. *)
EXTENDS SubscribeSaga, TLC

CONSTANT ThePair    \* every request asks for this (email, repository) pair

SamePair == [r \in Requests |-> ThePair]

\* Calls differ in nothing but their name.
CallSymmetry == Permutations(Calls)

\* Users who follow no link: what the system does on its own.
QuietSpec == Init /\ [][Next /\ UNCHANGED click]_vars /\ Fairness
=============================================================================
