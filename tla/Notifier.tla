------------------------------- MODULE Notifier -------------------------------
(***************************************************************************)
(* cmd/notifier as far as the Subscribe saga goes: the RabbitMQ consumer   *)
(* of confirmation commands, the gRPC server the sweeper calls, and the    *)
(* in-memory record of served sagas they share.  The consumer's command    *)
(* goroutine and the gRPC handlers interleave at every effect.             *)
(***************************************************************************)
EXTENDS Transport

CONSTANT
    ReplyAttempts   \* how often the publish of one reply is tried

ASSUME ReplyAttemptsAssumption == ReplyAttempts \in Nat \ {0}

VARIABLES
    dedupe,     \* sagas with an entry in the Dedupe cache
    cmd         \* the delivery the command goroutine handles

notifierVars == <<dedupe, cmd>>

CmdSteps == {"idle", "send", "mark", "reply", "ack"}
NoCommand == [step |-> "idle", saga |-> NoRequest, sent |-> FALSE,
              tries |-> 0, stale |-> FALSE]

NotifierInit ==
    /\ dedupe = {}
    /\ cmd = NoCommand

NotifierTypeOK ==
    /\ dedupe \in SUBSET Requests
    /\ cmd \in [step : CmdSteps, saga : Requests \cup {NoRequest}, sent : BOOLEAN,
                tries : 0..ReplyAttempts, stale : BOOLEAN]

-----------------------------------------------------------------------------
(* ResendSender.SendConfirmation.  A send that fails may have delivered    *)
(* the email all the same: the answer of the provider was lost or late.    *)

Delivers(r) == mailbox' = [mailbox EXCEPT ![r] = @ + 1]
SendOk(r) == NoFault /\ Delivers(r)
SendFails(r) == NotifierFault /\ (Delivers(r) \/ UNCHANGED mailbox)

-----------------------------------------------------------------------------
(* Consumer.dispatch of a SendConfirmation command *)

ReceiveCommand(r) ==
    /\ cmd.step = "idle"
    /\ commands[r] > 0
    /\ commands' = Take(commands, r)
    /\ cmd' = [NoCommand EXCEPT !.step = "send", !.saga = r]
    /\ UNCHANGED <<events, calls, faultVars, mailbox, dedupe>>

SendCommanded ==
    /\ cmd.step = "send"
    /\ \/ SendOk(cmd.saga) /\ cmd' = [cmd EXCEPT !.step = "mark", !.sent = TRUE]
       \/ SendFails(cmd.saga) /\ cmd' = [cmd EXCEPT !.step = "reply"]
    /\ UNCHANGED <<transportVars, dedupe>>

\* Dedupe.Mark, before the reply is published.
Mark ==
    /\ cmd.step = "mark"
    /\ dedupe' = dedupe \cup {cmd.saga}
    /\ cmd' = [cmd EXCEPT !.step = "reply"]
    /\ UNCHANGED <<transportVars, faultVars, mailbox>>

Reply == <<IF cmd.sent THEN "sent" ELSE "failed", cmd.saga>>

\* Mutant: one attempt too many, `attempt <= replyAttempts` in the loop.
PublishReplyOnceMore ==
    /\ cmd.step = "reply"
    /\ \/ /\ NoFault
          /\ events' = Put(events, Reply)
          /\ cmd' = [cmd EXCEPT !.tries = @ + 1, !.step = "ack"]
       \/ /\ NotifierFault
          /\ events' \in {events, Put(events, Reply)}
          /\ cmd' = [cmd EXCEPT !.tries = @ + 1,
                                !.step = IF cmd.tries = ReplyAttempts THEN "ack" ELSE @]
    /\ UNCHANGED <<commands, calls, mailbox, dedupe>>

\* publishReplyWithRetry, in a process that is not being stopped: a failed
\* attempt may have left the event in the queue; when the attempts are exhausted
\* the command is acknowledged anyway.  (ConsumerSession has the returns on a
\* done ctx; here a process ends by NotifierCrash.)
PublishReply ==
    /\ cmd.step = "reply"
    /\ \/ /\ NoFault
          /\ events' = Put(events, Reply)
          /\ cmd' = [cmd EXCEPT !.step = "ack"]
       \/ /\ NotifierFault
          /\ events' \in {events, Put(events, Reply)}
          /\ cmd' = [cmd EXCEPT !.tries = @ + 1,
                                !.step = IF cmd.tries + 1 = ReplyAttempts THEN "ack" ELSE @]
    /\ UNCHANGED <<commands, calls, mailbox, dedupe>>

AckCommand ==
    /\ cmd.step = "ack"
    /\ cmd' = NoCommand
    /\ UNCHANGED <<transportVars, faultVars, mailbox, dedupe>>

\* The AMQP session ends under the handler: the broker requeues the command,
\* the handler runs on and its ack is lost.
LoseCommandSession ==
    /\ cmd.step # "idle"
    /\ ~cmd.stale
    /\ NotifierFault
    /\ commands' = Put(commands, cmd.saga)
    /\ cmd' = [cmd EXCEPT !.stale = TRUE]
    /\ UNCHANGED <<events, calls, mailbox, dedupe>>

CommandConsumer ==
    \/ \E r \in Requests : ReceiveCommand(r)
    \/ SendCommanded \/ Mark \/ PublishReply \/ AckCommand

-----------------------------------------------------------------------------
(* Server.SendConfirmation, the gRPC handler of call c *)

Answer(c, status) == calls' = [calls EXCEPT ![c] = Answered(c, status)]

\* Mutant: the claim is recorded and not checked.
TryClaimBlindly(c) ==
    /\ calls[c].step = "claim"
    /\ dedupe' = dedupe \cup {calls[c].saga}
    /\ calls' = [calls EXCEPT ![c].step = "send"]
    /\ UNCHANGED <<commands, events, faultVars, mailbox, cmd>>

\* Dedupe.TryClaim: a saga with an entry is answered OK without a send.
TryClaim(c) ==
    /\ calls[c].step = "claim"
    /\ \/ /\ calls[c].saga \in dedupe
          /\ Answer(c, "ok")
          /\ UNCHANGED dedupe
       \/ /\ calls[c].saga \notin dedupe
          /\ dedupe' = dedupe \cup {calls[c].saga}
          /\ calls' = [calls EXCEPT ![c].step = "send"]
    /\ UNCHANGED <<commands, events, faultVars, mailbox, cmd>>

\* Mutant: the claim of a failed send is kept.
SendClaimedKeepsClaim(c) ==
    /\ calls[c].step = "send"
    /\ \/ SendOk(calls[c].saga) /\ Answer(c, "ok")
       \/ SendFails(calls[c].saga) /\ Answer(c, "err")
    /\ UNCHANGED <<commands, events, dedupe, cmd>>

\* On failure Dedupe.Release drops the entry of the saga.
SendClaimed(c) ==
    /\ calls[c].step = "send"
    /\ \/ SendOk(calls[c].saga) /\ Answer(c, "ok") /\ UNCHANGED dedupe
       \/ /\ SendFails(calls[c].saga)
          /\ Answer(c, "err")
          /\ dedupe' = dedupe \ {calls[c].saga}
    /\ UNCHANGED <<commands, events, cmd>>

GrpcServer == \E c \in Calls : TryClaim(c) \/ SendClaimed(c)

-----------------------------------------------------------------------------
(* An entry outlives its TTL or is evicted from a full cache. *)
Forget(r) ==
    /\ r \in dedupe
    /\ NotifierFault
    /\ dedupe' = dedupe \ {r}
    /\ UNCHANGED <<transportVars, mailbox, cmd>>

\* The process dies and is restarted: the cache is empty, the broker requeues
\* the unacknowledged command, open calls break.
NotifierCrash ==
    /\ NotifierFault
    /\ dedupe' = {}
    /\ commands' = IF cmd.step = "idle" \/ cmd.stale THEN commands ELSE Put(commands, cmd.saga)
    /\ cmd' = NoCommand
    /\ calls' = [c \in Calls |-> Answered(c, "err")]
    /\ UNCHANGED <<events, mailbox>>

NotifierNext ==
    \/ CommandConsumer \/ LoseCommandSession
    \/ GrpcServer
    \/ NotifierCrash
    \/ \E r \in Requests : Forget(r)
=============================================================================
