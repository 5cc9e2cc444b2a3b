---------------------------- MODULE SubscribeSaga ----------------------------
(***************************************************************************)
(* The Subscribe saga: server, notifier, database, broker and gRPC         *)
(* together, and what the saga promises.                                   *)
(***************************************************************************)
EXTENDS Orchestrator, Notifier

vars == <<storeVars, transportVars, serverVars, notifierVars, mailbox, faultVars>>

Init ==
    /\ SubscribersInit /\ StoreInit /\ TransportInit
    /\ ServerInit /\ NotifierInit

ServerStep == OrchestratorNext /\ UNCHANGED notifierVars
NotifierStep == NotifierNext /\ UNCHANGED <<storeVars, serverVars>>

Next == ServerStep \/ NotifierStep

Spec == Init /\ [][Next]_vars

TypeOK ==
    /\ SubscribersTypeOK /\ StoreTypeOK /\ TransportTypeOK
    /\ ServerTypeOK /\ NotifierTypeOK

-----------------------------------------------------------------------------
(* Fairness.  Every goroutine of the two processes is eventually scheduled *)
(* and its timers fire; the bounds on faults say that a part that fails is *)
(* eventually repaired.  Nothing is asked of users: requests may never     *)
(* come, links may never be followed.                                      *)

OnServer(A) == A /\ UNCHANGED notifierVars
OnNotifier(A) == A /\ UNCHANGED <<storeVars, serverVars>>

Fairness ==
    /\ \A r \in Requests : WF_vars(OnServer(Subscribe(r)))
    /\ \A r \in Requests : WF_vars(OnServer(SagaTimeout(r)))
    /\ \A w \in Workers : WF_vars(OnServer(HandleFailed(w)))
    /\ WF_vars(OnServer(RepliesConsumer))
    /\ WF_vars(OnServer(TimeoutSweeper))
    /\ WF_vars(OnNotifier(CommandConsumer))
    /\ \A c \in Calls : WF_vars(OnNotifier(TryClaim(c) \/ SendClaimed(c)))

FairSpec == Spec /\ Fairness

-----------------------------------------------------------------------------
(* Safety. *)

\* The two tables agree: a subscription and its saga are created by one
\* transaction and leave together (foreign key ON DELETE CASCADE), whichever
\* of the handlers, workers and users races to delete them.
JournalMatchesSubs ==
    \A r \in Requests : subs[r] = "absent" <=> sagas[r] = "absent"

\* What the journal records of a saga that ended: it completed, or it left no
\* row.  HandleFailed deletes the subscription before it marks the saga, and
\* the mark then matches no row.
SagaEndsCompletedOrGone ==
    \A r \in Requests : sagas[r] \in {"absent", "pending", "completed"}

\* A call is open at a time.  Two overlap when the sweeper calls again, after
\* a restart or a compensation that failed, while the notifier still runs the
\* handler of a call whose client is gone.
SingleCall == \A c, d \in Calls : c = d

\* Under SingleCall: a saga is completed only when its confirmation email was
\* delivered, by whatever mix of replies, redeliveries, retries and dedupe hits
\* it got there.  With overlapping calls it may not have been (see below).
CompletedMeansMailed ==
    \A r \in Requests : sagas[r] = "completed" => mailbox[r] > 0

Sending(r) == {c \in Calls : calls[c].step = "send" /\ calls[c].saga = r}

OnItsWay(r) == mailbox[r] > 0 \/ Sending(r) # {}

\* However calls overlap: the claim of a send that is still running answers a
\* second call OK, so a saga may be completed before its email is delivered,
\* but only while that send goes on.  A failure of the notifier's side breaks
\* the promise; a send cut off because its client is gone is one.
CompletedMeansOnItsWay ==
    notifierFaults = 0 => \A r \in Requests : sagas[r] = "completed" => OnItsWay(r)

\* However often the server's side fails, the user gets at most two emails,
\* one from the queue and one from the sweeper's call.  A fault of the
\* notifier's side may repeat both: a crash requeues the command and empties
\* the dedupe cache, a failed send, one cut off with its call included, may
\* have delivered and gives up its claim.
MailBound ==
    \A r \in Requests : mailbox[r] <= 2 * (1 + notifierFaults)

\* The saga as its users see it: whatever crashes, races and redeliveries
\* happen, a request goes through the stages of SagaLifecycle.  A row that is
\* gone never comes back, and, under SingleCall, neither the journal nor the
\* user says that the link arrived before it was mailed.  (With overlapping
\* calls the journal may: CompletedMeansOnItsWay is what is left.)
Stage(r) ==
    CASE subs[r] = "unconfirmed" -> "awaiting"
      [] subs[r] = "confirmed" -> "active"
      [] subs[r] = "absent" /\ http[r] \in {"new", "exists", "create"} -> "new"
      [] OTHER -> "closed"

Stages == [r \in Requests |-> Stage(r)]
CompletedRows == {r \in Requests : sagas[r] = "completed"}
MailedLinks == {r \in Requests : mailbox[r] > 0}

Lifecycle ==
    INSTANCE SagaLifecycle WITH stage <- Stages, completed <- CompletedRows, mailed <- MailedLinks

ImplementsLifecycle == Lifecycle!Spec

-----------------------------------------------------------------------------
(* Liveness. *)

\* No saga stays pending: a reply, the sweeper's retry or a compensation
\* settles it, whatever was lost on the way.
PendingResolves ==
    \A r \in Requests : IsPending(r) ~> ~IsPending(r)

\* No orphan, under SingleCall: every subscription created is eventually
\* mailed its link, or removed so that the user may subscribe again.  (A saga
\* completed by a second call is not compensated when the first one's send
\* fails.)
NoOrphan ==
    \A r \in Requests : subs[r] = "unconfirmed" ~> (mailbox[r] > 0 \/ subs[r] = "absent")

\* Nobody is locked out, under SingleCall: a request refused because of
\* another one's row sees that row's link mailed, or the row removed so that it
\* may be repeated.
RefusalEnds ==
    \A r \in Requests :
        http[r] = "conflict" ~> \/ ~ExistsByEmailAndRepoID(r)
                                \/ \E q \in Requests : PairOf[q] = PairOf[r] /\ mailbox[q] > 0

\* The queues drain: no command or event is requeued for ever.
QueuesDrain ==
    /\ \A r \in Requests : <>[](commands[r] = 0)
    /\ \A e \in EventKinds \X Requests : <>[](events[e] = 0)
=============================================================================
