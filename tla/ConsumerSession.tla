--------------------------- MODULE ConsumerSession ---------------------------
(***************************************************************************)
(* Consumer.Run of cmd/notifier: the supervisor loop that dials, starts a  *)
(* goroutine per queue and, when the session ends, joins them and dials    *)
(* again; the goroutines, which handle one delivery at a time; and the     *)
(* broker's side of it, which requeues what a lost session had not         *)
(* settled.  Goroutines of an earlier session are told apart from those of *)
(* the present one, so that nothing here relies on the join.               *)
(*                                                                         *)
(* Of dispatch this keeps what touches the session: the fate of the        *)
(* delivery and the publishes of the reply.  Emails and the dedupe cache   *)
(* are in Notifier and ReleaseNotification.                                *)
(***************************************************************************)
EXTENDS Publisher, FiniteSets

CONSTANTS
    Releases,       \* messages of queue notifier.deliveries
    Commands,       \* messages of queue notifier.commands
    NoMessage,
    Prefetch,       \* consumerPrefetch
    ReplyAttempts   \* replyPublishAttempts

Messages == Releases \cup Commands
Sessions == 1..(MaxNotifierFaults + 1)      \* each session but the first replaces a lost one
ReplyCalls == Commands \X Sessions \X (1..ReplyAttempts)

ASSUME ConsumerAssumption ==
    /\ Releases \cap Commands = {} /\ NoMessage \notin Messages
    /\ Prefetch \in Nat \ {0} /\ ReplyAttempts \in Nat \ {0}
    /\ ReplyCalls \subseteq Publishes

VARIABLES
    cancelled,  \* ctx is done
    run,        \* the step of Run
    conLink,    \* the newest connection: up, muted, down, or closed by this side
    conSession, \* how many sessions have been dialled
    closedCh,   \* a goroutine has reported the end of its deliveries
    worker,     \* the goroutine of each session and queue
    buffer,     \* deliveries the newest session's goroutines have not taken yet
    box         \* each message at the broker

consumerVars == <<cancelled, run, conLink, conSession, closedCh, worker, buffer, box>>

Queues == {"deliveries", "commands"}
QueueOf(m) == IF m \in Commands THEN "commands" ELSE "deliveries"

Off == [step |-> "off", msg |-> NoMessage, tries |-> 0]
Selecting == [Off EXCEPT !.step = "select"]
Gone == [Off EXCEPT !.step = "gone"]
Handling == {"send", "reply", "await", "ack", "nack"}

ConsumerInit ==
    /\ cancelled = FALSE /\ closedCh = FALSE
    /\ run = "off" /\ conLink = "closed" /\ conSession = 0
    /\ worker = [w \in Sessions \X Queues |-> Off]
    /\ buffer = {}
    /\ box = [m \in Messages |-> "ready"]

ConsumerTypeOK ==
    /\ cancelled \in BOOLEAN /\ closedCh \in BOOLEAN
    /\ run \in {"off", "loop", "dial", "backoff", "start", "await", "join", "exited"}
    /\ conLink \in {"up", "muted", "down", "closed"}
    /\ conSession \in Sessions \cup {0}
    /\ worker \in [Sessions \X Queues -> [step : Handling \cup {"off", "select", "gone"},
                                          msg : Messages \cup {NoMessage}, tries : 0..ReplyAttempts]]
    /\ buffer \subseteq Messages
    /\ box \in [Messages -> {"ready", "out", "acked", "dead"}]

Requeued == [m \in Messages |-> IF box[m] = "out" THEN "ready" ELSE box[m]]

NewSession == conLink' = "up" /\ conSession' = conSession + 1

\* NewConsumer; Run is started at once.
NewConsumer ==
    /\ run = "off" /\ run' = "loop"
    /\ NewSession
    /\ UNCHANGED <<cancelled, closedCh, worker, buffer, box>>

\* closeSession: the broker requeues what the session has not settled.
CloseConsumer ==
    /\ conLink' = "closed"
    /\ box' = Requeued
    /\ buffer' = {}

-----------------------------------------------------------------------------
(* Run, runSession and awaitSessionEnd *)

\* The head of Run's loop, which looks at ctx.
Loop ==
    /\ run = "loop"
    /\ \/ cancelled /\ run' = "exited" /\ CloseConsumer
       \/ /\ ~cancelled
          /\ run' = IF conLink = "closed" THEN "dial" ELSE "start"
          /\ UNCHANGED <<conLink, buffer, box>>
    /\ UNCHANGED <<cancelled, conSession, closedCh, worker, faultVars>>

\* runSession, after a dial without another look at ctx: the consumers start
\* on an open channel.  On a closed one it fails, as far as the check of ctx
\* behind it.  (Closed by this side, which takes a dial that ends between the
\* end of the ten seconds and that of the process, it panics.)
StartSession ==
    /\ run = "start"
    /\ \/ /\ conLink = "up" /\ run' = "await"
          /\ worker' = [w \in Sessions \X Queues |-> IF w[1] = conSession THEN Selecting ELSE worker[w]]
          /\ closedCh' = FALSE
          /\ UNCHANGED <<conLink, buffer, box>>
       \/ /\ conLink # "up" /\ run' = IF cancelled THEN "exited" ELSE "loop"
          /\ CloseConsumer
          /\ UNCHANGED <<closedCh, worker>>
    /\ UNCHANGED <<cancelled, conSession, faultVars>>

\* A dial under way does not look at ctx.
Dial ==
    /\ run = "dial"
    /\ \/ NewSession /\ run' = "start"
       \/ run' = "backoff" /\ UNCHANGED <<conLink, conSession>>
    /\ UNCHANGED <<cancelled, closedCh, worker, buffer, box, faultVars>>

DialBackoff ==
    /\ run = "backoff"
    /\ run' \in IF cancelled THEN {"loop", "exited"} ELSE {"loop"}
    /\ UNCHANGED <<cancelled, conLink, conSession, closedCh, worker, buffer, box, faultVars>>

\* Mutant: awaitSessionEnd listens to the connection and not to closedCh.
AwaitConnectionEnd ==
    /\ run = "await"
    /\ cancelled \/ conLink \in {"down", "closed"}
    /\ run' = "join"
    /\ UNCHANGED <<cancelled, conLink, conSession, closedCh, worker, buffer, box, faultVars>>

AwaitSessionEnd ==
    /\ run = "await"
    /\ cancelled \/ conLink \in {"down", "closed"} \/ closedCh
    /\ run' = "join"
    /\ UNCHANGED <<cancelled, conLink, conSession, closedCh, worker, buffer, box, faultVars>>

\* Mutant: Run goes on without waiting for its goroutines.
JoinNobody ==
    /\ run = "join"
    /\ CloseConsumer
    /\ run' = IF cancelled THEN "exited" ELSE "loop"
    /\ UNCHANGED <<cancelled, conSession, closedCh, worker, faultVars>>

\* wg.Wait, then closeSession.
JoinWorkers ==
    /\ run = "join"
    /\ \A q \in Queues : worker[conSession, q] = Gone
    /\ CloseConsumer
    /\ run' = IF cancelled THEN "exited" ELSE "loop"
    /\ UNCHANGED <<cancelled, conSession, closedCh, worker, faultVars>>

RunLoop == Loop \/ StartSession \/ Dial \/ DialBackoff \/ AwaitSessionEnd \/ JoinWorkers

-----------------------------------------------------------------------------
(* consumeQueue: the goroutine w of a session and a queue *)

Becomes(w, state) == worker' = [worker EXCEPT ![w] = state]

SessionCtxDone(w) == cancelled \/ w[1] < conSession \/ run = "join"

DeliveriesClosed(w) == w[1] < conSession \/ conLink # "up"

\* The select of the loop: with several cases ready it takes any of them.
Leave(w) ==
    /\ worker[w].step = "select"
    /\ \/ SessionCtxDone(w) /\ UNCHANGED closedCh
       \/ DeliveriesClosed(w) /\ closedCh' = (closedCh \/ w[1] = conSession)
    /\ Becomes(w, Gone)
    /\ UNCHANGED <<cancelled, run, conLink, conSession, buffer, box, faultVars>>

TakeDelivery(w, m) ==
    /\ worker[w].step = "select" /\ w[1] = conSession
    /\ m \in buffer /\ QueueOf(m) = w[2]
    /\ Becomes(w, [step |-> "send", msg |-> m, tries |-> 0])
    /\ buffer' = buffer \ {m}
    /\ UNCHANGED <<cancelled, run, conLink, conSession, closedCh, box, faultVars>>

\* Mutant: the command gets no reply.
SendEmailOnly(w) ==
    /\ worker[w].step = "send"
    /\ Becomes(w, [worker[w] EXCEPT !.step = "ack"])
    /\ UNCHANGED <<cancelled, run, conLink, conSession, closedCh, buffer, box, faultVars>>

\* The sender is given the ctx of Run, so that a cancelled one ends the
\* send with an error.  A command is answered either way.
SendEmail(w) ==
    /\ worker[w].step = "send"
    /\ \/ /\ worker[w].msg \in Commands /\ NoFault
          /\ Becomes(w, [worker[w] EXCEPT !.step = "reply"])
       \/ /\ worker[w].msg \in Releases /\ NoFault
          /\ Becomes(w, [worker[w] EXCEPT !.step = "ack"])
       \/ /\ worker[w].msg \in Releases
          /\ IF cancelled THEN NoFault ELSE NotifierFault
          /\ Becomes(w, [worker[w] EXCEPT !.step = "nack"])
    /\ UNCHANGED <<cancelled, run, conLink, conSession, closedCh, buffer, box>>

ReplyCall(w) == <<worker[w].msg, w[1], worker[w].tries>>

\* publishReplyWithRetry: the next attempt.
PublishReply(w) ==
    /\ worker[w].step = "reply" /\ worker[w].tries < ReplyAttempts
    /\ TakeChannel(<<worker[w].msg, w[1], worker[w].tries + 1>>)
    /\ Becomes(w, [worker[w] EXCEPT !.step = "await", !.tries = @ + 1])
    /\ UNCHANGED <<cancelled, run, conLink, conSession, closedCh, buffer, box,
                   sessionVars, done, faultVars>>

\* The command is acknowledged after a reply, after the last attempt, and
\* after any failed one once ctx is done.
ReplyReturns(w) ==
    /\ worker[w].step = "await"
    /\ \/ /\ publish[ReplyCall(w)].step = "err"
          /\ worker[w].tries < ReplyAttempts /\ ~cancelled
          /\ Becomes(w, [worker[w] EXCEPT !.step = "reply"])
       \/ /\ \/ publish[ReplyCall(w)].step = "ok"
             \/ publish[ReplyCall(w)].step = "err" /\ (worker[w].tries = ReplyAttempts \/ cancelled)
          /\ Becomes(w, [worker[w] EXCEPT !.step = "ack"])
    /\ UNCHANGED <<cancelled, run, conLink, conSession, closedCh, buffer, box, faultVars>>

\* ctx is done during the backoff before the next attempt.
ReplyCancelled(w) ==
    /\ worker[w].step = "reply" /\ worker[w].tries > 0 /\ cancelled
    /\ Becomes(w, [worker[w] EXCEPT !.step = "ack"])
    /\ UNCHANGED <<cancelled, run, conLink, conSession, closedCh, buffer, box, faultVars>>

\* Mutant: ack and nack are confused.
SettleConfused(w) ==
    /\ worker[w].step \in {"ack", "nack"}
    /\ box' = IF w[1] = conSession /\ conLink = "up"
              THEN [box EXCEPT ![worker[w].msg] = IF worker[w].step = "ack" THEN "dead" ELSE "acked"]
              ELSE box
    /\ Becomes(w, Selecting)
    /\ UNCHANGED <<cancelled, run, conLink, conSession, closedCh, buffer, faultVars>>

\* Ack or Nack(requeue = false) on the delivery's own channel: without effect
\* once that channel is closed.
Settle(w) ==
    /\ worker[w].step \in {"ack", "nack"}
    /\ box' = IF w[1] = conSession /\ conLink = "up"
              THEN [box EXCEPT ![worker[w].msg] = IF worker[w].step = "ack" THEN "acked" ELSE "dead"]
              ELSE box
    /\ Becomes(w, Selecting)
    /\ UNCHANGED <<cancelled, run, conLink, conSession, closedCh, buffer, faultVars>>

Handle(w) == SendEmail(w) \/ ReplyReturns(w) \/ ReplyCancelled(w) \/ Settle(w)

-----------------------------------------------------------------------------
(* The broker and the network. *)

Outstanding(q) == Cardinality({m \in Messages : QueueOf(m) = q /\ box[m] = "out"})

Deliver(m) ==
    /\ box[m] = "ready"
    /\ run = "await" /\ conLink = "up"
    /\ Outstanding(QueueOf(m)) < Prefetch
    /\ box' = [box EXCEPT ![m] = "out"]
    /\ buffer' = buffer \cup {m}
    /\ UNCHANGED <<cancelled, run, conLink, conSession, closedCh, worker, faultVars>>

\* The broker closes the connection, or the channel alone.
ConsumerLinkFails ==
    /\ \/ conLink \in {"up", "muted"} /\ conLink' = "down"
       \/ conLink = "up" /\ conLink' = "muted"
    /\ NotifierFault
    /\ box' = Requeued
    /\ UNCHANGED <<cancelled, run, conSession, closedCh, worker, buffer>>
=============================================================================
