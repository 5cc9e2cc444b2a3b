----------------------------- MODULE Subscribers -----------------------------
\* Both ends of the Subscribe saga outside the two processes: the POST
\* /api/subscribe requests that come in, each for one (email, repository) pair,
\* and the inboxes in which the confirmation links arrive.
EXTENDS Faults

CONSTANTS
    Requests,   \* the subscribe requests; each starts one saga
    NoRequest,  \* stands for a request where there is none
    PairOf      \* the (email, repository) pair of each request

ASSUME NoRequestAssumption == NoRequest \notin Requests

VARIABLE mailbox    \* how often each request's link was mailed

SubscribersInit ==
    /\ FaultsInit
    /\ mailbox = [r \in Requests |-> 0]

SubscribersTypeOK ==
    /\ FaultsTypeOK
    /\ mailbox \in [Requests -> Nat]
=============================================================================
