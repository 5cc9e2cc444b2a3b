--------------------------- MODULE NotifierProcess ---------------------------
(***************************************************************************)
(* cmd/notifier as a process: main connects the publisher of the replies   *)
(* and the consumer, serves until it is told to stop, and takes down the   *)
(* HTTP server, the gRPC server, the consumer and the publisher in turn.   *)
(* Ten seconds after the signal it stops waiting for the first three.      *)
(***************************************************************************)
EXTENDS ConsumerSession

CONSTANT DialAttempts   \* brokerDialAttempts

ASSUME DialAttemptsAssumption == DialAttempts \in Nat \ {0}

VARIABLES
    main,       \* the step of run
    attempt,    \* failed attempts of the dial under way
    expired,    \* shutdownCtx is done
    rpc,        \* gRPC handlers run that GracefulStop waits for
    listenErr   \* the gRPC listener could not be opened

mainVars == <<main, attempt, expired, rpc, listenErr>>
vars == <<publisherVars, consumerVars, mainVars, faultVars>>

MainSteps == {"publisher", "consumer", "listen", "serving", "http", "grpc", "wait",
              "defer", "close", "return", "exited"}

Init ==
    /\ FaultsInit /\ PublisherInit /\ ConsumerInit
    /\ main = "publisher" /\ attempt = 0
    /\ expired = FALSE /\ rpc = FALSE /\ listenErr = FALSE

TypeOK ==
    /\ FaultsTypeOK /\ PublisherTypeOK /\ ConsumerTypeOK
    /\ main \in MainSteps
    /\ attempt \in 0..DialAttempts
    /\ expired \in BOOLEAN /\ rpc \in BOOLEAN /\ listenErr \in BOOLEAN

-----------------------------------------------------------------------------
(* Startup: dialPublisherWithRetry, dialConsumerWithRetry, then the gRPC   *)
(* listener.  When the last attempt of a dial fails, or the listener, run  *)
(* returns, and what it has deferred by then runs.                         *)

\* Mutant: one attempt too many.
DialFailsOnceMore(next) ==
    /\ attempt' = attempt + 1
    /\ main' = IF attempt = DialAttempts THEN next ELSE main
    /\ UNCHANGED <<publisherVars, consumerVars>>

DialFails(next) ==
    /\ attempt' = attempt + 1
    /\ main' = IF attempt' = DialAttempts THEN next ELSE main
    /\ UNCHANGED <<publisherVars, consumerVars>>

DialSucceeds(next) == attempt' = 0 /\ main' = next

StartPublisher ==
    /\ main = "publisher"
    /\ \/ NewPublisher /\ DialSucceeds("consumer") /\ UNCHANGED consumerVars
       \/ DialFails("return")      \* nothing runs that could be cancelled
    /\ UNCHANGED <<expired, rpc, listenErr, faultVars>>

StartConsumer ==
    /\ main = "consumer"
    /\ \/ NewConsumer /\ DialSucceeds("listen") /\ UNCHANGED publisherVars
       \/ DialFails("defer")
    /\ UNCHANGED <<expired, rpc, listenErr, faultVars>>

\* The consumer runs by now, and goes on running when the listener fails.
Listen ==
    /\ main = "listen"
    /\ \/ main' = "serving" /\ UNCHANGED listenErr
       \/ main' = "defer" /\ listenErr' = TRUE
    /\ UNCHANGED <<publisherVars, consumerVars, attempt, expired, rpc, faultVars>>

-----------------------------------------------------------------------------
(* gracefulShutdown and the deferred calls of run *)

CancelRun ==
    /\ cancelled' = TRUE
    /\ UNCHANGED <<run, conLink, conSession, closedCh, worker, buffer, box>>

\* waitForShutdown returns for a signal; for the end of the consumer it never
\* has to, because Run ends only when its ctx is done.
Signal ==
    /\ main = "serving"
    /\ main' = "http"
    /\ CancelRun
    /\ UNCHANGED <<publisherVars, attempt, expired, rpc, listenErr, faultVars>>

\* srv.Shutdown: the connections are idle, or the time is over.
StopHttp ==
    /\ main = "http"
    /\ main' = "grpc" /\ rpc' \in BOOLEAN
    /\ UNCHANGED <<publisherVars, consumerVars, attempt, expired, listenErr, faultVars>>

\* GracefulStop waits for the handlers unless Stop cuts them off.
StopGrpc ==
    /\ main = "grpc"
    /\ ~rpc \/ expired
    /\ main' = "wait" /\ rpc' = FALSE
    /\ UNCHANGED <<publisherVars, consumerVars, attempt, expired, listenErr, faultVars>>

\* Mutant: the consumer is closed without waiting for Run.
StopConsumerAtOnce ==
    /\ main = "wait"
    /\ main' = "defer"
    /\ CloseConsumer
    /\ UNCHANGED <<publisherVars, cancelled, run, conSession, closedCh, worker,
                   attempt, expired, rpc, listenErr, faultVars>>

\* consumerDone, or the time is over; then Consumer.Close.
StopConsumer ==
    /\ main = "wait"
    /\ run = "exited" \/ expired
    /\ main' = "defer"
    /\ CloseConsumer
    /\ UNCHANGED <<publisherVars, cancelled, run, conSession, closedCh, worker,
                   attempt, expired, rpc, listenErr, faultVars>>

\* Publisher.Close of the replies publisher closes done and waits for the
\* supervisor.
ClosePublisher ==
    /\ main = "defer"
    /\ main' = "close" /\ done' = TRUE
    /\ UNCHANGED <<sessionVars, publish, wire, consumerVars, attempt, expired, rpc, listenErr, faultVars>>

\* It has exited, and cancelConsumer, deferred first, runs last: when the
\* listener failed, this alone tells Run to stop.
PublisherClosed ==
    /\ main = "close"
    /\ supervisor = "exited"
    /\ main' = "return"
    /\ CancelRun
    /\ UNCHANGED <<publisherVars, attempt, expired, rpc, listenErr, faultVars>>

Return ==
    /\ main = "return"
    /\ main' = "exited"
    /\ UNCHANGED <<publisherVars, consumerVars, attempt, expired, rpc, listenErr, faultVars>>

Main ==
    \/ StartPublisher \/ StartConsumer \/ Listen
    \/ StopHttp \/ StopGrpc \/ StopConsumer
    \/ ClosePublisher \/ PublisherClosed \/ Return

\* ListenAndServe fails before Shutdown is called: os.Exit, nothing deferred runs.
HttpServerFails ==
    /\ main = "serving"
    /\ main' = "exited"
    /\ UNCHANGED <<publisherVars, consumerVars, attempt, expired, rpc, listenErr, faultVars>>

\* The ten seconds of shutdownCtx are over.
Expire ==
    /\ main \in {"http", "grpc", "wait"} /\ ~expired
    /\ expired' = TRUE
    /\ UNCHANGED <<publisherVars, consumerVars, main, attempt, rpc, listenErr, faultVars>>

\* The last SendConfirmation call is answered.
RpcEnds ==
    /\ rpc /\ rpc' = FALSE
    /\ UNCHANGED <<publisherVars, consumerVars, main, attempt, expired, listenErr, faultVars>>

-----------------------------------------------------------------------------
(* The process ends with main: the other goroutines go no further. *)

Running == main # "exited"

PublishStep(p) == WriteMessage(p) \/ AwaitConfirm(p, cancelled)

Supervisor == Running /\ Supervise /\ UNCHANGED <<consumerVars, mainVars>>

Consumer == Running /\ RunLoop /\ UNCHANGED <<publisherVars, mainVars>>

\* The goroutine w, the reply it publishes included.
Goroutine(w) ==
    /\ Running
    /\ \/ /\ Handle(w) \/ Leave(w) \/ \E m \in Messages : TakeDelivery(w, m)
          /\ UNCHANGED publisherVars
       \/ PublishReply(w)
       \/ /\ worker[w].step = "await"
          /\ PublishStep(ReplyCall(w))
          /\ UNCHANGED consumerVars
    /\ UNCHANGED mainVars

Broker ==
    /\ Running
    /\ \/ (\E m \in Messages : Deliver(m)) /\ UNCHANGED publisherVars
       \/ (\E p \in Publishes : BrokerAnswers(p)) /\ UNCHANGED consumerVars
    /\ UNCHANGED mainVars

LinkFails ==
    /\ Running
    /\ \/ PublisherLinkFails /\ UNCHANGED consumerVars
       \/ ConsumerLinkFails /\ UNCHANGED publisherVars
    /\ UNCHANGED mainVars

Next ==
    \/ Main \/ HttpServerFails \/ Signal \/ Expire \/ RpcEnds
    \/ Supervisor \/ Consumer
    \/ \E w \in Sessions \X Queues : Goroutine(w)
    \/ Broker \/ LinkFails

Spec == Init /\ [][Next]_vars

\* Goroutines are scheduled, timers fire, sends and calls end, the broker
\* answers and delivers, and is reached again by one who keeps dialling.
\* Whether a signal comes, or ListenAndServe fails, is left open.
Fairness ==
    /\ WF_vars(Main) /\ WF_vars(Expire) /\ WF_vars(RpcEnds)
    /\ WF_vars(Supervisor) /\ WF_vars(Consumer)
    /\ \A w \in Sessions \X Queues : WF_vars(Goroutine(w))
    /\ WF_vars(Broker)
    /\ SF_vars(Supervisor /\ ready') /\ SF_vars(Consumer /\ conLink' = "up")

FairSpec == Spec /\ Fairness

-----------------------------------------------------------------------------
(* Safety. *)

HandlersOf(q) == {n \in Sessions : worker[n, q].step \in Handling}

\* A queue has one handler at a time, whatever sessions come and go: the
\* goroutines of a lost session are waited for before the next is dialled.
OneHandlerPerQueue ==
    \A q \in Queues : \A n, k \in HandlersOf(q) : n = k

\* When the publisher of the replies goes, no handler is left to publish,
\* unless the ten seconds ran out.  The failed start is another exception: when
\* the gRPC listener cannot be opened, run closes the publisher under a
\* consumer it has not told to stop.
PublisherOutlivesHandlers ==
    done /\ ~expired /\ ~listenErr => \A q \in Queues : HandlersOf(q) = {}

\* The broker has stored a reply to the command.
Answered(m) == \E p \in ReplyCalls : p[1] = m /\ wire[p] = "stored"

\* Ack only after reply: a command that is acknowledged has its reply in the
\* broker, if there was no fault, the process was not stopping, and its start
\* had not failed with the consumer already running.
AckedCommandAnswered ==
    \A m \in Commands :
        box[m] = "acked" => Answered(m) \/ cancelled \/ listenErr \/ notifierFaults > 0

\* A dead letter costs a failed send of its own.  A shutdown is the exception:
\* it cancels the sends under way, and each of them leaves a dead letter.
DeadLetterNeedsCause ==
    cancelled \/ Cardinality({m \in Messages : box[m] = "dead"}) <= notifierFaults

Answers ==
    [p \in Publishes |-> CASE publish[p].step = "ok" -> "ok"
                           [] publish[p].step = "err" -> "error"
                           [] OTHER -> "none"]

Stored == {p \in Publishes : wire[p] = "stored"}

Port == INSTANCE PublishPort WITH answer <- Answers, stored <- Stored

\* What publish promises its callers.
ImplementsPublishPort == Port!Spec

-----------------------------------------------------------------------------
(* Liveness. *)

\* Every message in the queues is settled, however often the connection or
\* the channel alone is lost, unless the process is told to stop, dies with its
\* HTTP server or never gets as far as serving.
DeliveriesSettle ==
    main = "serving"
        ~> ((\A m \in Messages : box[m] \in {"acked", "dead"}) \/ cancelled \/ ~Running)

\* A publisher that has lost its connection gets a new one or is closed, or
\* dies with the process.
PublisherRecovers ==
    (pubLink = "down" /\ main = "serving") ~> ((ready /\ pubLink # "down") \/ cancelled \/ ~Running)

\* The process that is told to stop, or whose start fails with the consumer
\* running, exits, whatever fails or hangs meanwhile.
SignalStops == (cancelled \/ listenErr) ~> ~Running
=============================================================================
