------------------------ MODULE ReleaseNotification ------------------------
(***************************************************************************)
(* The way of a release from GitHub to the inboxes of its subscribers: the *)
(* scanner, the queue, and the delivery goroutine of cmd/notifier with the *)
(* dead letters it leaves.                                                 *)
(***************************************************************************)
EXTENDS Scanner, FiniteSets

VARIABLES
    delivery,       \* the notification the delivery goroutine handles
    inbox,          \* release emails delivered, by subscription and release
    deadLetters     \* notifications in queue notifier.dead_letters

notifierVars == <<delivery, inbox, deadLetters>>
vars == <<scannerVars, deliveries, githubVars, faultVars, notifierVars>>

NoDelivery == [step |-> "idle", news |-> {}, stale |-> FALSE]

Init ==
    /\ FaultsInit /\ GithubInit /\ ScannerInit
    /\ delivery = NoDelivery
    /\ inbox = [n \in News |-> 0]
    /\ deadLetters = {}

-----------------------------------------------------------------------------
(* Consumer.dispatch of a release notification *)

ReceiveNews(n) ==
    /\ delivery.step = "idle"
    /\ deliveries[n] > 0
    /\ deliveries' = [deliveries EXCEPT ![n] = @ - 1]
    /\ delivery' = [step |-> "send", news |-> {n}, stale |-> FALSE]
    /\ UNCHANGED <<inbox, deadLetters, faultVars>>

Delivers(n) == inbox' = [inbox EXCEPT ![n] = @ + 1]

\* A send that fails may have delivered the email all the same.
SendNews(n) ==
    /\ delivery.step = "send"
    /\ n \in delivery.news
    /\ \/ /\ NoFault /\ Delivers(n)
          /\ delivery' = [delivery EXCEPT !.step = "ack"]
       \/ /\ NotifierFault /\ (Delivers(n) \/ UNCHANGED inbox)
          /\ delivery' = [delivery EXCEPT !.step = "nack"]
    /\ UNCHANGED <<deliveries, deadLetters>>

\* Mutant: the queue has no dead-letter exchange.
SettleNewsDropped ==
    /\ delivery.step \in {"ack", "nack"}
    /\ delivery' = NoDelivery
    /\ UNCHANGED <<deliveries, inbox, deadLetters, faultVars>>

\* Mutant: the delivery is settled and not forgotten.
SettleNewsKeeps ==
    /\ delivery.step \in {"ack", "nack"}
    /\ deadLetters' = IF delivery.step = "nack" /\ ~delivery.stale
                      THEN deadLetters \cup delivery.news
                      ELSE deadLetters
    /\ delivery' = [delivery EXCEPT !.step = "idle"]
    /\ UNCHANGED <<deliveries, inbox, faultVars>>

\* Nack without requeue: the broker moves the message to the dead letters.
\* After the session that made the delivery is gone, the broker knows of
\* neither ack nor nack.
SettleNews ==
    /\ delivery.step \in {"ack", "nack"}
    /\ deadLetters' = IF delivery.step = "nack" /\ ~delivery.stale
                      THEN deadLetters \cup delivery.news
                      ELSE deadLetters
    /\ delivery' = NoDelivery
    /\ UNCHANGED <<deliveries, inbox, faultVars>>

Requeued ==
    [n \in News |-> IF n \in delivery.news /\ ~delivery.stale
                    THEN deliveries[n] + 1 ELSE deliveries[n]]

\* The AMQP session ends under the handler: the broker requeues the delivery.
LoseSession ==
    /\ delivery.step # "idle" /\ ~delivery.stale
    /\ NotifierFault
    /\ deliveries' = Requeued
    /\ delivery' = [delivery EXCEPT !.stale = TRUE]
    /\ UNCHANGED <<inbox, deadLetters>>

NotifierCrash ==
    /\ delivery.step # "idle"
    /\ NotifierFault
    /\ deliveries' = Requeued
    /\ delivery' = NoDelivery
    /\ UNCHANGED <<inbox, deadLetters>>

DeliveryConsumer == (\E n \in News : ReceiveNews(n) \/ SendNews(n)) \/ SettleNews

NotifierNext == DeliveryConsumer \/ LoseSession \/ NotifierCrash

-----------------------------------------------------------------------------
Next ==
    \/ ScannerNext /\ UNCHANGED notifierVars
    \/ NotifierNext /\ UNCHANGED <<scannerVars, githubVars>>

Spec == Init /\ [][Next]_vars

\* The scanner's ticker fires for ever, the consumer redials for ever, entries
\* expire and the rate limit is renewed.
Fairness ==
    /\ WF_vars(Scan /\ UNCHANGED notifierVars)
    /\ WF_vars(DeliveryConsumer /\ UNCHANGED <<scannerVars, githubVars>>)
    /\ WF_vars(RenewQuota /\ UNCHANGED <<scannerVars, deliveries, faultVars, notifierVars>>)
    /\ \A p \in Repos :
          WF_vars(Expire(p) /\ UNCHANGED <<scannerVars, deliveries, faultVars, notifierVars>>)

FairSpec == Spec /\ Fairness

TypeOK ==
    /\ FaultsTypeOK /\ GithubTypeOK /\ ScannerTypeOK
    /\ delivery \in [step : {"idle", "send", "ack", "nack"}, news : SUBSET News, stale : BOOLEAN]
    /\ delivery.news = {} <=> delivery.step = "idle"
    /\ inbox \in [News -> Nat]
    /\ deadLetters \subseteq News

-----------------------------------------------------------------------------
(* Safety. *)

\* The notification is in the queue, in hand, in the inbox or a dead letter.
Reached(s, tag) ==
    LET n == <<s, tag>>
    IN  deliveries[n] > 0 \/ n \in delivery.news \/ inbox[n] > 0 \/ n \in deadLetters

\* When last_seen_tag moves on, a subscriber of the list who was not reached
\* costs a fault of the server's side: crashes between the publishes and the
\* update lose nobody, each failed publish at most one.
LossBound ==
    [][\A p \in Repos :
          lastSeen'[p] # lastSeen[p]
          => Cardinality({s \in scan.subs : ~Reached(s, scan.tag)}) <= serverFaults]_vars

\* At least once is at most once per fault: the same release is mailed to the
\* same subscriber again only after a fault, or when it is the latest again
\* because a later one was withdrawn.
DuplicateBound ==
    \A n \in News : inbox[n] <= 1 + serverFaults + notifierFaults + redisFaults + withdrawn

\* The tags are compared for equality only, yet the scanner never goes back to
\* an older release, and so never announces it as new, unless GitHub withdrew
\* one or Redis failed: an entry older than last_seen_tag is left behind only
\* by a lookup that went past the cache.
OldNewsNeedsCause ==
    [][\A p \in Repos : lastSeen'[p] < lastSeen[p] => redisFaults + withdrawn > 0]_vars

\* A user who did not confirm gets no release emails.
UnconfirmedHearNothing ==
    \A s \in Subs, tag \in 1..MaxTag : Reached(s, tag) => subs[s] \in {"confirmed", "deleted"}

\* A user who left hears of no release that was not already queued for them:
\* only a list read before they left may still serve them, and no later one
\* takes them up again.
LeaversAreForgotten ==
    [][\A s \in Subs :
          subs[s] = "deleted" /\ s \notin scan.subs
          => /\ s \notin scan'.subs
             /\ \A tag \in 1..MaxTag : Reached(s, tag)' => Reached(s, tag)]_vars

-----------------------------------------------------------------------------
(* Liveness. *)

\* The scanner catches up with every repository that has subscribers,
\* whatever failed before, provided the rate limit covers one round.  (The tag
\* of a repository that has lost its only release stays.)
CatchesUp ==
    \A p \in Repos :
        (lastSeen[p] # latest[p]) ~> \/ lastSeen[p] = latest[p] \/ latest[p] = 0
                                     \/ p \notin GetAllWithConfirmedSubscriptions

\* Every notification of the queue ends in an inbox or among the dead letters.
NewsArrives ==
    \A n \in News : (deliveries[n] > 0) ~> (inbox[n] > 0 \/ n \in deadLetters)
=============================================================================
