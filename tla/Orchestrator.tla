----------------------------- MODULE Orchestrator -----------------------------
(***************************************************************************)
(* cmd/server as far as the Subscribe saga goes: the HTTP handlers         *)
(* (Subscribe, Confirm, Unsubscribe), the saga orchestrator, the timeout   *)
(* sweeper and the consumer of the notifier's reply events.  Each handler, *)
(* the consumer and the sweeper run concurrently and interleave at every   *)
(* database statement, publish and call.                                   *)
(***************************************************************************)
EXTENDS SagaStore, Transport

VARIABLES
    http,       \* the subscribe handler, by request
    comp,       \* Orchestrator.HandleFailed, by the worker that runs it
    replies,    \* the delivery the RepliesConsumer handles
    sweep,      \* the TimeoutSweeper: this round's sagas and the current one
    click       \* the Confirm or Unsubscribe handler, by request

serverVars == <<http, comp, replies, sweep, click>>

\* HandleFailed runs in a subscribe handler, in the consumer of the replies
\* or in the sweeper.
Workers == Requests \cup {"replies", "sweeper"}

ASSUME WorkersAssumption == {"replies", "sweeper"} \cap Requests = {}

HttpSteps == {"new", "exists", "create", "publish", "compensate",
              "accepted", "conflict", "error"}
CompSteps == {"idle", "get", "delete", "mark", "nil", "err"}
ReplySteps == {"idle", "complete", "compensate", "ack", "nack"}
SweepSteps == {"idle", "next", "get", "load", "call", "await", "complete",
               "compensate"}
ClickSteps == {"none", "confirm", "unsubscribe"}

NoDelivery == [step |-> "idle", kind |-> "sent", saga |-> NoRequest, stale |-> FALSE]
NoSweep == [step |-> "idle", todo |-> {}, saga |-> NoRequest]

ServerInit ==
    /\ http = [r \in Requests |-> "new"]
    /\ comp = [w \in Workers |-> "idle"]
    /\ replies = NoDelivery
    /\ sweep = NoSweep
    /\ click = [r \in Requests |-> "none"]

ServerTypeOK ==
    /\ http \in [Requests -> HttpSteps]
    /\ comp \in [Workers -> CompSteps]
    /\ replies \in [step : ReplySteps, kind : EventKinds,
                    saga : Requests \cup {NoRequest}, stale : BOOLEAN]
    /\ sweep \in [step : SweepSteps, todo : SUBSET Requests,
                  saga : Requests \cup {NoRequest}]
    /\ click \in [Requests -> ClickSteps]

\* The saga a worker compensates.
SagaOf(w) ==
    CASE w = "replies" -> replies.saga
      [] w = "sweeper" -> sweep.saga
      [] OTHER         -> w

-----------------------------------------------------------------------------
(* A database statement is executed and answered, or the caller sees an    *)
(* error and cannot tell whether the statement took effect (a broken       *)
(* connection, a cancelled context).                                       *)

Answers(statement) == statement /\ NoFault
Breaks(statement) == ServerFault /\ (statement \/ UNCHANGED storeVars)

Goto(pc, p, step) == pc' = [pc EXCEPT ![p] = step]

-----------------------------------------------------------------------------
(* SubscribeUseCase.Subscribe *)

\* Validation, the GitHub check and the repository row: none touches the
\* saga, each may end the request.
Admit(r) ==
    /\ http[r] = "new"
    /\ \E step \in {"exists", "error"} : Goto(http, r, step)
    /\ UNCHANGED <<comp, replies, sweep, click, storeVars, transportVars, faultVars, mailbox>>

CheckExists(r) ==
    /\ http[r] = "exists"
    /\ \/ NoFault /\ Goto(http, r, IF ExistsByEmailAndRepoID(r) THEN "conflict" ELSE "create")
       \/ ServerFault /\ Goto(http, r, "error")
    /\ UNCHANGED <<comp, replies, sweep, click, storeVars, transportVars, mailbox>>

Create(r) ==
    /\ http[r] = "create"
    /\ \/ Answers(CreateWithSaga(r)) /\ Goto(http, r, "publish")
       \/ Breaks(CreateWithSaga(r)) /\ Goto(http, r, "error")
    /\ UNCHANGED <<comp, replies, sweep, click, transportVars, mailbox>>

\* Orchestrator.Publish.  A publish that fails (no session, a nack, a confirm
\* that never came) may have left the command in the queue all the same;
\* HandleFailed then runs inline.
Publish(r) ==
    /\ http[r] = "publish"
    /\ \/ /\ NoFault
          /\ commands' = Put(commands, r)
          /\ Goto(http, r, "accepted")
          /\ UNCHANGED comp
       \/ /\ ServerFault
          /\ commands' \in {commands, Put(commands, r)}
          /\ Goto(http, r, "compensate")
          /\ Goto(comp, r, "get")
    /\ UNCHANGED <<replies, sweep, click, storeVars, events, calls, mailbox>>

\* The handler answers 500 whether or not the inline compensation finished.
PublishFailed(r) ==
    /\ http[r] = "compensate"
    /\ comp[r] \in {"nil", "err"}
    /\ Goto(http, r, "error")
    /\ Goto(comp, r, "idle")
    /\ UNCHANGED <<replies, sweep, click, storeVars, transportVars, faultVars, mailbox>>

Subscribe(r) == CheckExists(r) \/ Create(r) \/ Publish(r) \/ PublishFailed(r)

-----------------------------------------------------------------------------
(* Orchestrator.HandleFailed, run by worker w *)

\* Mutant: a saga that is not pending is an error, so its event is requeued.
CompensateGetStrict(w) ==
    /\ comp[w] = "get"
    /\ \/ NoFault /\ Goto(comp, w, IF IsPending(SagaOf(w)) THEN "delete" ELSE "err")
       \/ ServerFault /\ Goto(comp, w, "err")
    /\ UNCHANGED <<http, replies, sweep, click, storeVars, transportVars, mailbox>>

CompensateGet(w) ==
    /\ comp[w] = "get"
    /\ \/ NoFault /\ Goto(comp, w, IF IsPending(SagaOf(w)) THEN "delete" ELSE "nil")
       \/ ServerFault /\ Goto(comp, w, "err")
    /\ UNCHANGED <<http, replies, sweep, click, storeVars, transportVars, mailbox>>

\* Mutant: the saga is marked, its subscription is left behind.
CompensateKeepsSub(w) ==
    /\ comp[w] = "delete"
    /\ NoFault /\ Goto(comp, w, "mark")
    /\ UNCHANGED <<http, replies, sweep, click, storeVars, transportVars, mailbox>>

CompensateDelete(w) ==
    /\ comp[w] = "delete"
    /\ \/ Answers(Delete(SagaOf(w))) /\ Goto(comp, w, "mark")
       \/ Breaks(Delete(SagaOf(w))) /\ Goto(comp, w, "err")
    /\ UNCHANGED <<http, replies, sweep, click, transportVars, mailbox>>

CompensateMark(w) ==
    /\ comp[w] = "mark"
    /\ \/ Answers(MarkCompensated(SagaOf(w))) /\ Goto(comp, w, "nil")
       \/ Breaks(MarkCompensated(SagaOf(w))) /\ Goto(comp, w, "err")
    /\ UNCHANGED <<http, replies, sweep, click, transportVars, mailbox>>

HandleFailed(w) == CompensateGet(w) \/ CompensateDelete(w) \/ CompensateMark(w)

-----------------------------------------------------------------------------
(* RepliesConsumer: one delivery at a time *)

ReceiveReply(kind, r) ==
    /\ replies.step = "idle"
    /\ events[kind, r] > 0
    /\ events' = Take(events, <<kind, r>>)
    /\ replies' = [step |-> IF kind = "sent" THEN "complete" ELSE "compensate",
                   kind |-> kind, saga |-> r, stale |-> FALSE]
    /\ comp' = [comp EXCEPT !["replies"] = IF kind = "failed" THEN "get" ELSE @]
    /\ UNCHANGED <<http, sweep, click, storeVars, commands, calls, faultVars, mailbox>>

HandleSent ==
    /\ replies.step = "complete"
    /\ \/ Answers(MarkCompleted(replies.saga)) /\ Goto(replies, "step", "ack")
       \/ Breaks(MarkCompleted(replies.saga)) /\ Goto(replies, "step", "nack")
    /\ UNCHANGED <<http, comp, sweep, click, transportVars, mailbox>>

FailedHandled ==
    /\ replies.step = "compensate"
    /\ comp["replies"] \in {"nil", "err"}
    /\ Goto(replies, "step", IF comp["replies"] = "nil" THEN "ack" ELSE "nack")
    /\ Goto(comp, "replies", "idle")
    /\ UNCHANGED <<http, sweep, click, storeVars, transportVars, faultVars, mailbox>>

\* Ack, or Nack with requeue.  After the session that made the delivery is
\* gone, neither reaches the broker.
SettleReply ==
    /\ replies.step \in {"ack", "nack"}
    /\ events' = IF replies.step = "nack" /\ ~replies.stale
                 THEN Put(events, <<replies.kind, replies.saga>>)
                 ELSE events
    /\ replies' = NoDelivery
    /\ UNCHANGED <<http, comp, sweep, click, storeVars, commands, calls, faultVars, mailbox>>

\* The AMQP session ends under the handler: the broker requeues the delivery.
LoseRepliesSession ==
    /\ replies.step # "idle"
    /\ ~replies.stale
    /\ ServerFault
    /\ events' = Put(events, <<replies.kind, replies.saga>>)
    /\ Goto(replies, "stale", TRUE)
    /\ UNCHANGED <<http, comp, sweep, click, storeVars, commands, calls, mailbox>>

RepliesConsumer ==
    \/ \E kind \in EventKinds, r \in Requests : ReceiveReply(kind, r)
    \/ HandleSent \/ FailedHandled \/ SettleReply

-----------------------------------------------------------------------------
(* TimeoutSweeper.sweep and Orchestrator.AttemptSyncRetry *)

SweepStep(step) == Goto(sweep, "step", step)

\* Mutant: a saga whose retry failed is left to the next sweep.
TryAgainLater == SweepStep("next") /\ UNCHANGED comp

FallThrough ==
    /\ SweepStep("compensate")
    /\ Goto(comp, "sweeper", "get")

\* A fetch that finds nothing, or fails, ends the round at once.
Sweep ==
    /\ sweep.step = "idle"
    /\ GetPendingOlderThan # {}
    /\ sweep' = [sweep EXCEPT !.step = "next", !.todo = GetPendingOlderThan]
    /\ UNCHANGED <<http, comp, replies, click, storeVars, transportVars, faultVars, mailbox>>

SweepNext ==
    /\ sweep.step = "next"
    /\ \/ /\ sweep.todo = {}
          /\ sweep' = NoSweep
       \/ \E r \in sweep.todo :
              sweep' = [step |-> "get", todo |-> sweep.todo \ {r}, saga |-> r]
    /\ UNCHANGED <<http, comp, replies, click, storeVars, transportVars, faultVars, mailbox>>

RetryGet ==
    /\ sweep.step = "get"
    /\ \/ /\ NoFault
          /\ sagas[sweep.saga] # "absent"
          /\ SweepStep(IF IsPending(sweep.saga) THEN "load" ELSE "next")
          /\ UNCHANGED comp
       \/ ((sagas[sweep.saga] = "absent" /\ NoFault) \/ ServerFault) /\ FallThrough
    /\ UNCHANGED <<http, replies, click, storeVars, transportVars, mailbox>>

RetryLoad ==
    /\ sweep.step = "load"
    /\ \/ NoFault /\ HasSub(sweep.saga) /\ SweepStep("call") /\ UNCHANGED comp
       \/ ((~HasSub(sweep.saga) /\ NoFault) \/ ServerFault) /\ FallThrough
    /\ UNCHANGED <<http, replies, click, storeVars, transportVars, mailbox>>

\* Retrier.Retry: the call reaches the notifier, or the notifier is
\* unreachable.
RetryCall ==
    /\ sweep.step = "call"
    /\ \/ /\ \E c \in Calls : OpenCall(c, sweep.saga)
          /\ NoFault
          /\ SweepStep("await")
          /\ UNCHANGED comp
       \/ ServerFault /\ FallThrough /\ UNCHANGED calls
    /\ UNCHANGED <<http, replies, click, storeVars, commands, events, mailbox>>

MyCall(c) == calls[c].saga = sweep.saga /\ calls[c].client

\* Mutant: any answer counts as a success.
RetryAnsweredAnyhow(c) ==
    /\ sweep.step = "await"
    /\ MyCall(c)
    /\ calls[c].step \in {"ok", "err"} /\ SweepStep("complete") /\ UNCHANGED comp
    /\ calls' = [calls EXCEPT ![c] = FreeCall]
    /\ UNCHANGED <<http, replies, click, storeVars, commands, events, faultVars, mailbox>>

RetryAnswered(c) ==
    /\ sweep.step = "await"
    /\ MyCall(c)
    /\ \/ calls[c].step = "ok" /\ SweepStep("complete") /\ UNCHANGED comp
       \/ calls[c].step = "err" /\ FallThrough
    /\ calls' = [calls EXCEPT ![c] = FreeCall]
    /\ UNCHANGED <<http, replies, click, storeVars, commands, events, faultVars, mailbox>>

\* The 5 s timeout of a call may pass at any moment of it.
RetryTimesOut(c) ==
    /\ sweep.step = "await"
    /\ MyCall(c)
    /\ calls' = [calls EXCEPT ![c] = Abandoned(c)]
    /\ FallThrough
    /\ UNCHANGED <<http, replies, click, storeVars, commands, events, faultVars, mailbox>>

RetryComplete ==
    /\ sweep.step = "complete"
    /\ \/ Answers(MarkCompleted(sweep.saga)) /\ SweepStep("next") /\ UNCHANGED comp
       \/ Breaks(MarkCompleted(sweep.saga)) /\ FallThrough
    /\ UNCHANGED <<http, replies, click, transportVars, mailbox>>

\* An error of the compensation is only logged: a later sweep tries again.
SweptFailed ==
    /\ sweep.step = "compensate"
    /\ comp["sweeper"] \in {"nil", "err"}
    /\ SweepStep("next")
    /\ Goto(comp, "sweeper", "idle")
    /\ UNCHANGED <<http, replies, click, storeVars, transportVars, faultVars, mailbox>>

AttemptSyncRetry ==
    \/ RetryGet \/ RetryLoad \/ RetryCall \/ RetryComplete
    \/ \E c \in Calls : RetryAnswered(c)

TimeoutSweeper == Sweep \/ SweepNext \/ AttemptSyncRetry \/ SweptFailed

-----------------------------------------------------------------------------
(* ConfirmUseCase.Confirm and UnsubscribeUseCase.Unsubscribe.  The confirm *)
(* link comes with the confirmation email, the unsubscribe link with the   *)
(* release emails that confirmed subscribers get.                          *)

FindByToken(r) ==
    /\ click[r] = "none"
    /\ \/ mailbox[r] > 0 /\ HasSub(r) /\ Goto(click, r, "confirm")
       \/ subs[r] = "confirmed" /\ Goto(click, r, "unsubscribe")
    /\ UNCHANGED <<http, comp, replies, sweep, storeVars, transportVars, faultVars, mailbox>>

ConfirmSub(r) ==
    /\ click[r] = "confirm"
    /\ Answers(Confirm(r)) \/ Breaks(Confirm(r))
    /\ Goto(click, r, "none")
    /\ UNCHANGED <<http, comp, replies, sweep, transportVars, mailbox>>

Unsubscribe(r) ==
    /\ click[r] = "unsubscribe"
    /\ Answers(Delete(r)) \/ Breaks(Delete(r))
    /\ Goto(click, r, "none")
    /\ UNCHANGED <<http, comp, replies, sweep, transportVars, mailbox>>

-----------------------------------------------------------------------------
(* The process dies and is restarted: what is in memory is gone, the       *)
(* broker requeues the unacknowledged delivery, open calls lose their      *)
(* client.                                                                 *)

ServerCrash ==
    /\ ServerFault
    /\ http' = [r \in Requests |->
                  IF http[r] \in {"new", "accepted", "conflict"} THEN http[r] ELSE "error"]
    /\ comp' = [w \in Workers |-> "idle"]
    /\ events' = IF replies.step = "idle" \/ replies.stale
                 THEN events
                 ELSE Put(events, <<replies.kind, replies.saga>>)
    /\ replies' = NoDelivery
    /\ sweep' = NoSweep
    /\ click' = [r \in Requests |-> "none"]
    /\ calls' = [c \in Calls |-> Abandoned(c)]
    /\ UNCHANGED <<storeVars, commands, mailbox>>

\* Time passes SAGA_TIMEOUT for a pending saga.
SagaTimeout(r) == Age(r) /\ UNCHANGED <<serverVars, transportVars, faultVars, mailbox>>

OrchestratorNext ==
    \/ \E r \in Requests :
          \/ Admit(r) \/ Subscribe(r) \/ SagaTimeout(r)
          \/ FindByToken(r) \/ ConfirmSub(r) \/ Unsubscribe(r)
    \/ \E w \in Workers : HandleFailed(w)
    \/ RepliesConsumer \/ LoseRepliesSession
    \/ TimeoutSweeper \/ \E c \in Calls : RetryTimesOut(c)
    \/ ServerCrash
=============================================================================
