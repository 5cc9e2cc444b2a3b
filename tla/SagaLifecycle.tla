---------------------------- MODULE SagaLifecycle ----------------------------
(***************************************************************************)
(* What a subscribe request goes through, seen from outside: it is refused *)
(* or gets a row; its link is mailed; the saga is completed and the link   *)
(* followed, in either order but neither before the mail; the row goes and *)
(* never comes back.                                                       *)
(***************************************************************************)
CONSTANT Requests

VARIABLES
    stage,      \* new, awaiting (a row, unconfirmed), active (confirmed) or closed
    completed,  \* requests whose row's saga is completed
    mailed      \* requests whose link has been mailed at least once

Init ==
    /\ stage = [r \in Requests |-> "new"]
    /\ completed = {} /\ mailed = {}

Moves(r, from, to) ==
    /\ stage[r] \in from
    /\ stage' = [stage EXCEPT ![r] = to]

Open(r) == Moves(r, {"new"}, "awaiting") /\ UNCHANGED <<completed, mailed>>

\* A link may still be mailed for a row that has gone meanwhile.
Mail(r) ==
    /\ stage[r] # "new"
    /\ mailed' = mailed \cup {r}
    /\ UNCHANGED <<stage, completed>>

Complete(r) ==
    /\ stage[r] \in {"awaiting", "active"} /\ r \in mailed
    /\ completed' = completed \cup {r}
    /\ UNCHANGED <<stage, mailed>>

Confirm(r) == r \in mailed /\ Moves(r, {"awaiting"}, "active") /\ UNCHANGED <<completed, mailed>>

Close(r) ==
    /\ Moves(r, {"new", "awaiting", "active"}, "closed")
    /\ completed' = completed \ {r}
    /\ UNCHANGED mailed

\* Requests whose handlers are cut off by one crash are refused together.
Refuse(R) ==
    /\ \A r \in R : stage[r] = "new"
    /\ stage' = [r \in Requests |-> IF r \in R THEN "closed" ELSE stage[r]]
    /\ UNCHANGED <<completed, mailed>>

Next ==
    \/ \E r \in Requests : Open(r) \/ Mail(r) \/ Complete(r) \/ Confirm(r) \/ Close(r)
    \/ \E R \in SUBSET Requests : Refuse(R)

Spec == Init /\ [][Next]_<<stage, completed, mailed>>
=============================================================================
