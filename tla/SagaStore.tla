------------------------------ MODULE SagaStore ------------------------------
(***************************************************************************)
(* The subscription database: the tables subscriptions and                 *)
(* subscription_sagas, and the repository methods that read and write them.*)
(*                                                                         *)
(* CreateWithSaga gives every subscribe request fresh UUIDs for its        *)
(* subscription, its saga and its two tokens, so one request identifier    *)
(* names all four here.  A request asks for one (email, repository) pair.  *)
(***************************************************************************)
EXTENDS Subscribers

VARIABLES
    subs,       \* row of table subscriptions, by request
    sagas,      \* row of table subscription_sagas, by request
    overdue     \* requests whose saga is older than SAGA_TIMEOUT

storeVars == <<subs, sagas, overdue>>

SubRows == {"absent", "unconfirmed", "confirmed"}
SagaStates == {"pending", "completed", "compensated", "timed_out"}

StoreInit ==
    /\ subs = [r \in Requests |-> "absent"]
    /\ sagas = [r \in Requests |-> "absent"]
    /\ overdue = {}

StoreTypeOK ==
    /\ subs \in [Requests -> SubRows]
    /\ sagas \in [Requests -> SagaStates \cup {"absent"}]
    /\ overdue \in SUBSET Requests

-----------------------------------------------------------------------------
(* Queries. *)

HasSub(r) == subs[r] # "absent"

ExistsByEmailAndRepoID(r) ==
    \E q \in Requests : PairOf[q] = PairOf[r] /\ HasSub(q)

IsPending(r) == sagas[r] = "pending"

GetPendingOlderThan == {r \in overdue : IsPending(r)}

-----------------------------------------------------------------------------
(* Statements.  An UPDATE or DELETE that matches no row changes nothing:   *)
(* the repository answers ErrNotFound, which every caller in the saga      *)
(* treats as success.                                                      *)

\* One transaction inserts both rows; the saga starts pending.
CreateWithSaga(r) ==
    /\ subs' = [subs EXCEPT ![r] = "unconfirmed"]
    /\ sagas' = [sagas EXCEPT ![r] = "pending"]
    /\ UNCHANGED overdue

\* Mutant: an upsert, which brings a deleted row back.
ConfirmUpserts(r) ==
    /\ subs' = [subs EXCEPT ![r] = "confirmed"]
    /\ UNCHANGED <<sagas, overdue>>

Confirm(r) ==
    /\ subs' = [subs EXCEPT ![r] = IF HasSub(r) THEN "confirmed" ELSE "absent"]
    /\ UNCHANGED <<sagas, overdue>>

\* Mutant: no cascade, the saga row stays.
DeleteWithoutCascade(r) ==
    /\ subs' = [subs EXCEPT ![r] = "absent"]
    /\ UNCHANGED <<sagas, overdue>>

\* subscription_sagas.subscription_id is a foreign key ON DELETE CASCADE, so
\* the saga row leaves with the subscription row.
Delete(r) ==
    /\ subs' = [subs EXCEPT ![r] = "absent"]
    /\ sagas' = [sagas EXCEPT ![r] = "absent"]
    /\ UNCHANGED overdue

markTerminal(r, newState) ==
    /\ sagas' = [sagas EXCEPT ![r] = IF IsPending(r) THEN newState ELSE @]
    /\ UNCHANGED <<subs, overdue>>

MarkCompleted(r) == markTerminal(r, "completed")
MarkCompensated(r) == markTerminal(r, "compensated")

\* SAGA_TIMEOUT passes since the saga's started_at.
Age(r) ==
    /\ IsPending(r)
    /\ r \notin overdue
    /\ overdue' = overdue \cup {r}
    /\ UNCHANGED <<subs, sagas>>
=============================================================================
