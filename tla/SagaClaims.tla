------------------------------ MODULE SagaClaims ------------------------------
(***************************************************************************)
(* What the repository's documents, comments and tests say of the saga and *)
(* the code does not do.  Each claim is refuted by one run.                *)
(***************************************************************************)
EXTENDS MCSubscribeSaga

\* docs/application-architecture.md: HandleFailed marks the saga compensated
\* and deletes the orphaned pending subscription.  So a compensation that
\* succeeds finds or leaves the saga recorded as compensated.
CompensationIsRecorded ==
    [][\A w \in Workers :
          (comp[w] = "mark" /\ comp'[w] = "nil") => sagas'[SagaOf(w)] = "compensated"]_vars

\* orchestrator.go: compensation deletes the orphaned pending subscription.
\* So a confirmed subscription is deleted by its user only.
CompensationSparesConfirmed ==
    [][\A r \in Requests :
          (subs[r] = "confirmed" /\ subs'[r] = "absent") => click[r] = "unsubscribe"]_vars

\* README.md: the notifier deduplicates by saga id, so a retry that races the
\* original delivery does not send a second email.
NoSecondEmail == \A r \in Requests : mailbox[r] <= 1

\* docs/system-design-document.md: UNIQUE (email, repo_id).
OneSubPerPair ==
    \A q, r \in Requests : (HasSub(q) /\ HasSub(r) /\ PairOf[q] = PairOf[r]) => q = r
=============================================================================
