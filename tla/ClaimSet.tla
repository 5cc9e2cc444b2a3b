------------------------------ MODULE ClaimSet ------------------------------
(***************************************************************************)
(* What the notifier asks of its dedupe cache: a set of claimed sagas.  A  *)
(* claim is granted when the saga is not claimed, a mark claims it in any  *)
(* case, a release frees it.  The set may forget: any step that adds a     *)
(* claim, and the passage of time, may drop others.  This is the cache as  *)
(* module Notifier sees it.                                                *)
(***************************************************************************)
CONSTANTS Sagas, NoSaga

VARIABLES
    claims,     \* the sagas that are claimed
    answer      \* the last call and what it returned

claimVars == <<claims, answer>>

Answer(op, s, result) == answer' = [op |-> op, saga |-> s, result |-> result]

Adds(s) == s \in claims' /\ claims' \subseteq claims \cup {s}

Init ==
    /\ claims = {}
    /\ answer = [op |-> "none", saga |-> NoSaga, result |-> FALSE]

Grant(s) == s \notin claims /\ Adds(s) /\ Answer("claim", s, TRUE)
Refuse(s) == s \in claims /\ UNCHANGED claims /\ Answer("claim", s, FALSE)
Mark(s) == Adds(s) /\ Answer("mark", s, TRUE)
Release(s) == claims' = claims \ {s} /\ Answer("release", s, TRUE)
Seen(s) == UNCHANGED claims /\ Answer("seen", s, s \in claims)
Forget == claims' \subseteq claims /\ UNCHANGED answer

Next ==
    \/ \E s \in Sagas : Grant(s) \/ Refuse(s) \/ Mark(s) \/ Release(s) \/ Seen(s)
    \/ Forget

Spec == Init /\ [][Next]_claimVars
=============================================================================
