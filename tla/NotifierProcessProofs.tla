------------------------ MODULE NotifierProcessProofs ------------------------
(***************************************************************************)
(* Theorems about NotifierProcess, for every number of messages, sessions, *)
(* attempts and faults.                                                    *)
(***************************************************************************)
EXTENDS NotifierProcess, FiniteSetTheorems, TLAPS

Workers == Sessions \X Queues

-----------------------------------------------------------------------------
(* Typing.  That the sessions do not outnumber their bound rests on who may *)
(* dial: each session but the first replaces one that was lost, and only a  *)
(* session that was lost or a process that stops lets Run past its wait.    *)

Dialling ==
    /\ run = "off" => conSession = 0
    /\ conLink = "up" => conSession <= notifierFaults + 1
    /\ conLink # "up" /\ ~cancelled => conSession <= notifierFaults
    /\ run \in {"dial", "backoff"} => conSession <= notifierFaults
    /\ run = "await" /\ closedCh /\ ~cancelled => conLink # "up"
    /\ run = "join" /\ ~cancelled => conLink # "up"

\* How far main has come tells what the other goroutines do.
Phases ==
    /\ main \in {"publisher", "consumer"} => attempt < DialAttempts /\ run = "off"
    /\ main = "publisher" => supervisor = "off"
    /\ main \in {"http", "grpc", "wait"} => cancelled
    /\ main \in {"defer", "close", "return"} => cancelled \/ listenErr \/ run = "off"
    /\ (main = "defer" \/ done) /\ ~expired /\ ~listenErr => run \in {"off", "exited"}
    /\ done => main \in {"close", "return", "exited"}

Typing == TypeOK /\ Dialling /\ Phases

MainTypeOK ==
    /\ main \in MainSteps
    /\ attempt \in 0..DialAttempts
    /\ expired \in BOOLEAN /\ rpc \in BOOLEAN /\ listenErr \in BOOLEAN

Parts == FaultsTypeOK /\ PublisherTypeOK /\ ConsumerTypeOK /\ MainTypeOK

LEMMA FaultTypes ==
    ASSUME FaultsTypeOK
    PROVE  /\ NoFault \/ NotifierFault \/ UNCHANGED faultVars => FaultsTypeOK'
           /\ notifierFaults \in Nat
           /\ notifierFaults <= MaxNotifierFaults
BY FaultBoundsAssumption DEF NoFault, NotifierFault, faultVars, FaultsTypeOK

LEMMA TypingInit == Init => Typing
<1> SUFFICES ASSUME Init PROVE Typing
  OBVIOUS
<1>5. MainTypeOK
  <2>1. main \in MainSteps /\ expired \in BOOLEAN /\ rpc \in BOOLEAN /\ listenErr \in BOOLEAN
    BY DEF Init, MainSteps
  <2>2. attempt \in 0..DialAttempts
    BY DialAttemptsAssumption DEF Init
  <2> QED
    BY <2>1, <2>2 DEF MainTypeOK
<1> USE FaultBoundsAssumption, ConsumerAssumption, DialAttemptsAssumption DEF Init
<1>1. FaultsTypeOK
  BY DEF FaultsInit, FaultsTypeOK
<1>2. PublisherTypeOK
  BY DEF PublisherInit, PublisherTypeOK, PublishSteps, Fates
<1>3. ConsumerTypeOK
  <2>1. Off \in [step : Handling \cup {"off", "select", "gone"},
                 msg : Messages \cup {NoMessage}, tries : 0..ReplyAttempts]
    BY DEF Off
  <2> QED
    BY <2>1 DEF ConsumerInit, ConsumerTypeOK
<1>4. Dialling /\ Phases
  BY <1>1, FaultTypes DEF ConsumerInit, PublisherInit, Dialling, Phases
<1> QED
  BY <1>1, <1>2, <1>3, <1>4, <1>5 DEF Typing, TypeOK, MainTypeOK

\* The publisher's calls, its supervisor and the broker.
LEMMA PublisherTypes ==
    ASSUME PublisherTypeOK
    PROVE  /\ \A p : TakeChannel(p) /\ UNCHANGED <<sessionVars, done>> => PublisherTypeOK'
           /\ \A p, ctx : WriteMessage(p) \/ AwaitConfirm(p, ctx) => PublisherTypeOK'
           /\ Supervise => PublisherTypeOK'
           /\ \A p : BrokerAnswers(p) => PublisherTypeOK'
           /\ NewPublisher \/ PublisherLinkFails \/ UNCHANGED publisherVars => PublisherTypeOK'
<1> USE DEF PublisherTypeOK, PublishSteps, Fates, sessionVars
<1>1. ASSUME NEW p, TakeChannel(p), UNCHANGED <<sessionVars, done>> PROVE PublisherTypeOK'
  BY <1>1 DEF TakeChannel
<1>2. ASSUME NEW p, NEW step \in PublishSteps, GoesTo(p, step)
      PROVE  publish' \in [Publishes -> [step : PublishSteps, on : Nat]]
  BY <1>2 DEF GoesTo
<1>3. ASSUME NEW p, NEW ctx, WriteMessage(p) \/ AwaitConfirm(p, ctx) PROVE PublisherTypeOK'
  <2>1. publish' \in [Publishes -> [step : PublishSteps, on : Nat]]
    BY <1>2, <1>3 DEF WriteMessage, AwaitConfirm
  <2> QED
    BY <1>3, <2>1 DEF WriteMessage, AwaitConfirm
<1>4. ASSUME Supervise PROVE PublisherTypeOK'
  <2>1. CASE EndSession
    BY <2>1 DEF EndSession
  <2>2. CASE CloseSession
    BY <2>2 DEF CloseSession
  <2>3. CASE Redial
    <3>1. pubSession' \in Nat
      BY <2>3 DEF Redial, InstallSession
    <3>2. pubLink' \in {"up", "muted", "down"} /\ ready' \in BOOLEAN
      BY <2>3 DEF Redial, InstallSession
    <3>3. supervisor' \in {"watch", "backoff", "exited"}
      BY <2>3 DEF Redial, InstallSession
    <3> QED
      BY <2>3, <3>1, <3>2, <3>3 DEF Redial
  <2>4. CASE Backoff
    BY <2>4 DEF Backoff
  <2> QED
    BY <1>4, <2>1, <2>2, <2>3, <2>4 DEF Supervise
<1>5. ASSUME NEW p, BrokerAnswers(p) PROVE PublisherTypeOK'
  BY <1>5 DEF BrokerAnswers, StoreMessage, LoseMessage, RefuseMessage, Fate
<1>6. NewPublisher => PublisherTypeOK'
  BY DEF NewPublisher, InstallSession
<1>7. PublisherLinkFails => PublisherTypeOK'
  BY DEF PublisherLinkFails
<1>8. UNCHANGED publisherVars => PublisherTypeOK'
  BY DEF publisherVars
<1> QED
  BY <1>1, <1>3, <1>4, <1>5, <1>6, <1>7, <1>8

LEMMA SessionBound ==
    ASSUME Typing
    PROVE  /\ conSession \in Nat
           /\ conSession <= notifierFaults => conSession + 1 \in Sessions
           /\ run = "off" => conSession + 1 \in Sessions
BY FaultTypes, FaultBoundsAssumption DEF Typing, TypeOK, ConsumerTypeOK, Dialling, Sessions

\* The supervisor loop of the consumer.
LEMMA RunTypes ==
    ASSUME Typing, RunLoop
    PROVE  ConsumerTypeOK'
<1> USE DEF Typing, TypeOK, ConsumerTypeOK
<1>1. Requeued \in [Messages -> {"ready", "out", "acked", "dead"}]
  BY DEF Requeued
<1>2. Selecting \in [step : Handling \cup {"off", "select", "gone"},
                     msg : Messages \cup {NoMessage}, tries : 0..ReplyAttempts]
  BY ConsumerAssumption DEF Selecting, Off
<1>3. CASE Loop
  BY <1>1, <1>3 DEF Loop, CloseConsumer
<1>8. CASE StartSession
  <2>1. worker' \in [Sessions \X Queues -> [step : Handling \cup {"off", "select", "gone"},
                                           msg : Messages \cup {NoMessage}, tries : 0..ReplyAttempts]]
    BY <1>2, <1>8 DEF StartSession
  <2>2. box' \in [Messages -> {"ready", "out", "acked", "dead"}]
    BY <1>1, <1>8 DEF StartSession, CloseConsumer
  <2> QED
    BY <1>8, <2>1, <2>2 DEF StartSession, CloseConsumer
<1>4. CASE Dial
  BY <1>4, SessionBound DEF Dial, NewSession, Dialling
<1>5. CASE DialBackoff
  BY <1>5 DEF DialBackoff
<1>6. CASE AwaitSessionEnd
  BY <1>6 DEF AwaitSessionEnd
<1>7. CASE JoinWorkers
  BY <1>1, <1>7 DEF JoinWorkers, CloseConsumer
<1> QED
  BY <1>3, <1>4, <1>5, <1>6, <1>7, <1>8 DEF RunLoop

\* Its goroutines.
LEMMA WorkerTypes ==
    ASSUME ConsumerTypeOK, NEW w \in Workers
    PROVE  /\ Handle(w) \/ Leave(w) \/ PublishReply(w) => ConsumerTypeOK'
           /\ \A m \in Messages : TakeDelivery(w, m) => ConsumerTypeOK'
<1> DEFINE WorkerStates == [step : Handling \cup {"off", "select", "gone"},
                            msg : Messages \cup {NoMessage}, tries : 0..ReplyAttempts]
<1> USE DEF ConsumerTypeOK, Workers
<1>0. worker[w] \in WorkerStates /\ Selecting \in WorkerStates /\ Gone \in WorkerStates
  BY ConsumerAssumption DEF Selecting, Gone, Off
<1>1. ASSUME NEW state \in WorkerStates, Becomes(w, state)
      PROVE  worker' \in [Sessions \X Queues -> WorkerStates]
  BY <1>1 DEF Becomes
<1> HIDE DEF WorkerStates
<1>2. ASSUME NEW step \in Handling, NEW tries \in 0..ReplyAttempts
      PROVE  /\ [worker[w] EXCEPT !.step = step] \in WorkerStates
             /\ [worker[w] EXCEPT !.step = step, !.tries = tries] \in WorkerStates
  BY <1>0, <1>2 DEF WorkerStates
<1>3. ASSUME SendEmail(w) PROVE ConsumerTypeOK'
  <2>1. worker' \in [Sessions \X Queues -> WorkerStates]
    BY <1>1, <1>2, <1>3, ConsumerAssumption DEF SendEmail, Handling
  <2> QED
    BY <1>3, <2>1 DEF SendEmail, WorkerStates
<1>4. ASSUME ReplyReturns(w) \/ ReplyCancelled(w) PROVE ConsumerTypeOK'
  <2>1. worker' \in [Sessions \X Queues -> WorkerStates]
    BY <1>1, <1>2, <1>4, ConsumerAssumption DEF ReplyReturns, ReplyCancelled, Handling
  <2> QED
    BY <1>4, <2>1 DEF ReplyReturns, ReplyCancelled, WorkerStates
<1>5. ASSUME Settle(w) PROVE ConsumerTypeOK'
  <2>1. worker' \in [Sessions \X Queues -> WorkerStates]
    BY <1>0, <1>1, <1>5 DEF Settle
  <2>2. box' \in [Messages -> {"ready", "out", "acked", "dead"}]
    BY <1>5 DEF Settle
  <2> QED
    BY <1>5, <2>1, <2>2 DEF Settle, WorkerStates
<1>6. ASSUME Leave(w) PROVE ConsumerTypeOK'
  <2>1. worker' \in [Sessions \X Queues -> WorkerStates]
    BY <1>0, <1>1, <1>6 DEF Leave
  <2> QED
    BY <1>6, <2>1 DEF Leave, WorkerStates
<1>7. ASSUME PublishReply(w) PROVE ConsumerTypeOK'
  <2>1. worker[w].tries + 1 \in 0..ReplyAttempts
    BY <1>0, <1>7, ConsumerAssumption DEF PublishReply, WorkerStates
  <2>2. worker' = [worker EXCEPT ![w] = [worker[w] EXCEPT !.step = "await", !.tries = worker[w].tries + 1]]
    BY <1>7 DEF PublishReply, Becomes
  <2>3. worker' \in [Sessions \X Queues -> WorkerStates]
    BY <1>1, <1>2, <2>1, <2>2 DEF Becomes, Handling
  <2> QED
    BY <1>7, <2>3 DEF PublishReply, WorkerStates
<1>8. ASSUME NEW m \in Messages, TakeDelivery(w, m) PROVE ConsumerTypeOK'
  <2>1. [step |-> "send", msg |-> m, tries |-> 0] \in WorkerStates
    BY ConsumerAssumption DEF WorkerStates, Handling
  <2>2. worker' \in [Sessions \X Queues -> WorkerStates]
    BY <1>1, <1>8, <2>1 DEF TakeDelivery
  <2> QED
    BY <1>8, <2>2 DEF TakeDelivery, WorkerStates
<1> QED
  BY <1>3, <1>4, <1>5, <1>6, <1>7, <1>8 DEF Handle

LEMMA BrokerTypes ==
    ASSUME ConsumerTypeOK
    PROVE  /\ \A m \in Messages : Deliver(m) => ConsumerTypeOK'
           /\ ConsumerLinkFails \/ (CloseConsumer /\ UNCHANGED <<cancelled, run, conSession, closedCh, worker>>)
              => ConsumerTypeOK'
           /\ UNCHANGED consumerVars => ConsumerTypeOK'
<1> USE DEF ConsumerTypeOK
<1>1. Requeued \in [Messages -> {"ready", "out", "acked", "dead"}]
  BY DEF Requeued
<1>2. ASSUME NEW m \in Messages, Deliver(m) PROVE ConsumerTypeOK'
  BY <1>2 DEF Deliver
<1> QED
  BY <1>1, <1>2 DEF ConsumerLinkFails, CloseConsumer, consumerVars

\* main and the timer of the shutdown.
LEMMA MainTypes ==
    ASSUME Typing, Main \/ HttpServerFails \/ Signal \/ Expire \/ RpcEnds
    PROVE  Parts'
<1> USE DEF Typing, TypeOK
<1>0. FaultsTypeOK'
  BY FaultTypes DEF Main, HttpServerFails, Signal, Expire, RpcEnds, StartPublisher, StartConsumer, Listen,
                    StopHttp, StopGrpc, StopConsumer, ClosePublisher, PublisherClosed, Return
<1>1. UNCHANGED publisherVars => PublisherTypeOK'
  BY PublisherTypes
<1>2. UNCHANGED consumerVars => ConsumerTypeOK'
  BY BrokerTypes
<1>3. ASSUME NEW next \in MainSteps, main \in {"publisher", "consumer"},
             DialFails(next) \/ DialSucceeds(next), UNCHANGED <<expired, rpc, listenErr>>
      PROVE  MainTypeOK'
  BY <1>3, DialAttemptsAssumption DEF DialFails, DialSucceeds, Phases, MainTypeOK
<1>4. CASE StartPublisher
  <2>1. MainTypeOK'
    BY <1>3, <1>4 DEF StartPublisher, MainSteps
  <2> QED
    BY <1>0, <1>1, <1>2, <1>4, <2>1, PublisherTypes DEF StartPublisher, DialFails, Parts
<1>5. CASE StartConsumer
  <2>1. MainTypeOK'
    BY <1>3, <1>5 DEF StartConsumer, MainSteps
  <2>2. NewConsumer => ConsumerTypeOK'
    BY SessionBound DEF NewConsumer, NewSession, ConsumerTypeOK, Dialling
  <2> QED
    BY <1>0, <1>1, <1>2, <1>5, <2>1, <2>2 DEF StartConsumer, DialFails, Parts
<1>6. CASE Signal \/ PublisherClosed
  <2>1. ConsumerTypeOK'
    BY <1>6 DEF Signal, PublisherClosed, CancelRun, ConsumerTypeOK
  <2>2. MainTypeOK'
    BY <1>6 DEF Signal, PublisherClosed, MainTypeOK, MainSteps
  <2> QED
    BY <1>0, <1>1, <1>6, <2>1, <2>2 DEF Signal, PublisherClosed, Parts
<1>7. CASE StopConsumer
  <2>1. ConsumerTypeOK'
    BY <1>7, BrokerTypes DEF StopConsumer
  <2> QED
    BY <1>0, <1>1, <1>7, <2>1 DEF StopConsumer, Parts, MainTypeOK, MainSteps
<1>8. CASE ClosePublisher
  <2>1. PublisherTypeOK'
    BY <1>8 DEF ClosePublisher, PublisherTypeOK, sessionVars
  <2> QED
    BY <1>0, <1>2, <1>8, <2>1 DEF ClosePublisher, Parts, MainTypeOK, MainSteps
<1>9. CASE Listen \/ StopHttp \/ StopGrpc \/ Return \/ HttpServerFails \/ Expire \/ RpcEnds
  <2>1. MainTypeOK'
    BY <1>9 DEF Listen, StopHttp, StopGrpc, Return, HttpServerFails, Expire, RpcEnds, MainTypeOK, MainSteps
  <2>2. UNCHANGED <<publisherVars, consumerVars>>
    BY <1>9 DEF Listen, StopHttp, StopGrpc, Return, HttpServerFails, Expire, RpcEnds
  <2> QED
    BY <1>0, <1>1, <1>2, <2>1, <2>2 DEF Parts
<1> QED
  BY <1>4, <1>5, <1>6, <1>7, <1>8, <1>9 DEF Main

LEMMA GoroutineTypes ==
    ASSUME Typing, NEW w \in Workers, Goroutine(w)
    PROVE  Parts'
<1> USE DEF Typing, TypeOK
<1>1. MainTypeOK'
  BY DEF Goroutine, mainVars, MainTypeOK
<1>2. CASE (Handle(w) \/ Leave(w) \/ \E m \in Messages : TakeDelivery(w, m)) /\ UNCHANGED publisherVars
  <2>1. FaultsTypeOK'
    BY <1>2, FaultTypes DEF Handle, SendEmail, ReplyReturns, ReplyCancelled, Settle, Leave, TakeDelivery
  <2> QED
    BY <1>1, <1>2, <2>1, WorkerTypes, PublisherTypes DEF Parts
<1>3. CASE PublishReply(w)
  BY <1>1, <1>3, WorkerTypes, PublisherTypes, FaultTypes DEF PublishReply, Parts
<1>4. CASE PublishStep(ReplyCall(w)) /\ UNCHANGED consumerVars
  BY <1>1, <1>4, BrokerTypes, PublisherTypes, FaultTypes DEF PublishStep, WriteMessage, AwaitConfirm, Parts
<1> QED
  BY <1>2, <1>3, <1>4 DEF Goroutine

LEMMA TypeStep ==
    ASSUME Typing, [Next]_vars
    PROVE  TypeOK'
<1>0. Parts
  BY DEF Typing, TypeOK, Parts, MainTypeOK
<1> SUFFICES Parts'
  BY DEF TypeOK, Parts, MainTypeOK
<1>1. UNCHANGED mainVars => MainTypeOK'
  BY <1>0 DEF Parts, mainVars, MainTypeOK
<1>2. CASE Main \/ HttpServerFails \/ Signal \/ Expire \/ RpcEnds
  BY <1>2, MainTypes
<1>3. CASE Supervisor
  BY <1>0, <1>1, <1>3, PublisherTypes, BrokerTypes, FaultTypes
     DEF Supervisor, Supervise, EndSession, CloseSession, Redial, Backoff, Parts
<1>4. CASE Consumer
  BY <1>0, <1>1, <1>4, PublisherTypes, RunTypes, FaultTypes
     DEF Consumer, RunLoop, Loop, StartSession, Dial, DialBackoff, AwaitSessionEnd, JoinWorkers, Parts
<1>5. CASE \E w \in Sessions \X Queues : Goroutine(w)
  BY <1>5, GoroutineTypes DEF Workers
<1>6. CASE Broker
  BY <1>0, <1>1, <1>6, PublisherTypes, BrokerTypes, FaultTypes
     DEF Broker, Deliver, BrokerAnswers, StoreMessage, LoseMessage, RefuseMessage, Parts
<1>7. CASE LinkFails
  BY <1>0, <1>1, <1>7, PublisherTypes, BrokerTypes, FaultTypes
     DEF LinkFails, PublisherLinkFails, ConsumerLinkFails, Parts
<1>8. CASE UNCHANGED vars
  BY <1>0, <1>1, <1>8, PublisherTypes, BrokerTypes, FaultTypes DEF vars, Parts
<1> QED
  BY <1>2, <1>3, <1>4, <1>5, <1>6, <1>7, <1>8 DEF Next

\* What the other goroutines leave alone.
LEMMA GoroutineFrame ==
    ASSUME NEW w \in Workers, Goroutine(w)
    PROVE  /\ UNCHANGED <<cancelled, run, conLink, conSession, mainVars, sessionVars, done>>
           /\ UNCHANGED closedCh \/ Leave(w)
           /\ NoFault \/ NotifierFault
BY DEF Goroutine, Handle, SendEmail, ReplyReturns, ReplyCancelled, Settle, Leave, TakeDelivery,
       PublishReply, PublishStep, WriteMessage, AwaitConfirm, publisherVars, consumerVars,
       sessionVars, NoFault

LEMMA DiallingStep ==
    ASSUME Typing, [Next]_vars
    PROVE  Dialling'
<1>0. /\ conSession \in Nat /\ notifierFaults \in Nat
      /\ worker \in [Sessions \X Queues -> [step : Handling \cup {"off", "select", "gone"},
                                            msg : Messages \cup {NoMessage}, tries : 0..ReplyAttempts]]
      /\ cancelled \in BOOLEAN /\ closedCh \in BOOLEAN
      /\ Sessions \subseteq Nat
  BY SessionBound, FaultTypes DEF Typing, TypeOK, ConsumerTypeOK, Sessions
<1>f. NoFault \/ NotifierFault \/ UNCHANGED faultVars
      => notifierFaults' \in Nat /\ notifierFaults <= notifierFaults'
  BY <1>0 DEF NoFault, NotifierFault, faultVars
<1>1. ASSUME UNCHANGED <<cancelled, run, conLink, conSession, closedCh>>,
             NoFault \/ NotifierFault \/ UNCHANGED faultVars
      PROVE  Dialling'
  BY <1>0, <1>1, <1>f DEF Typing, Dialling
<1> USE DEF Typing, Phases
<1>2. CASE StartConsumer
  <2>1. CASE NewConsumer
    BY <1>0, <1>2, <1>f, <2>1 DEF StartConsumer, NewConsumer, NewSession, Dialling, faultVars
  <2>2. CASE DialFails("defer")
    BY <1>1, <1>2, <2>2 DEF StartConsumer, DialFails, consumerVars
  <2> QED
    BY <1>2, <2>1, <2>2 DEF StartConsumer
<1>3. CASE \/ StartPublisher \/ Listen \/ StopHttp \/ StopGrpc \/ ClosePublisher \/ Return
          \/ HttpServerFails \/ Expire \/ RpcEnds
  BY <1>1, <1>3 DEF StartPublisher, DialFails, Listen, StopHttp, StopGrpc, ClosePublisher, Return,
                    HttpServerFails, Expire, RpcEnds, consumerVars
<1>4. CASE Signal \/ StopConsumer \/ PublisherClosed
  BY <1>0, <1>4, <1>f DEF Signal, PublisherClosed, CancelRun, StopConsumer, CloseConsumer, Dialling, faultVars
<1>5. CASE Supervisor
  BY <1>1, <1>5 DEF Supervisor, Supervise, EndSession, CloseSession, Redial, Backoff, consumerVars
<1>6. CASE Consumer
  <2>1. CASE Loop
    BY <1>0, <2>1 DEF Loop, CloseConsumer, Dialling, faultVars
  <2>6. CASE StartSession
    BY <1>0, <2>6 DEF StartSession, CloseConsumer, Dialling, faultVars
  <2>2. CASE Dial
    BY <1>0, <2>2 DEF Dial, NewSession, Dialling, faultVars
  <2>3. CASE DialBackoff
    BY <1>0, <2>3 DEF DialBackoff, Dialling, faultVars
  <2>4. CASE AwaitSessionEnd
    BY <1>0, <2>4 DEF AwaitSessionEnd, Dialling, faultVars
  <2>5. CASE JoinWorkers
    BY <1>0, <2>5 DEF JoinWorkers, CloseConsumer, Dialling, faultVars
  <2> QED
    BY <1>6, <2>1, <2>2, <2>3, <2>4, <2>5, <2>6 DEF Consumer, RunLoop
<1>7. ASSUME NEW w \in Workers, Goroutine(w) PROVE Dialling'
  <2>1. CASE UNCHANGED closedCh
    BY <1>1, <1>7, <2>1, GoroutineFrame
  <2>2. CASE Leave(w)
    <3>1. closedCh' => closedCh \/ conLink # "up"
      <4>1. w[1] = conSession => ~(w[1] < conSession)
        BY <1>0
      <4> QED
        BY <1>0, <2>2, <4>1 DEF Leave, DeliveriesClosed
    <3> QED
      BY <1>0, <1>7, <1>f, <2>2, <3>1, GoroutineFrame DEF Dialling
  <2> QED
    BY <1>7, <2>1, <2>2, GoroutineFrame
<1>8. CASE Broker
  BY <1>1, <1>8 DEF Broker, Deliver, BrokerAnswers, StoreMessage, LoseMessage, RefuseMessage, consumerVars
<1>9. CASE LinkFails
  <2>1. CASE PublisherLinkFails /\ UNCHANGED consumerVars
    BY <1>1, <2>1 DEF PublisherLinkFails, consumerVars
  <2>2. CASE ConsumerLinkFails
    BY <1>0, <2>2 DEF ConsumerLinkFails, NotifierFault, Dialling
  <2> QED
    BY <1>9, <2>1, <2>2 DEF LinkFails
<1>10. CASE UNCHANGED vars
  BY <1>1, <1>10 DEF vars, consumerVars
<1> QED
  BY <1>2, <1>3, <1>4, <1>5, <1>6, <1>7, <1>8, <1>9, <1>10 DEF Next, Main, Workers

LEMMA PhasesStep ==
    ASSUME Typing, [Next]_vars
    PROVE  Phases'
<1> USE DEF Typing, Phases
<1>0. attempt \in 0..DialAttempts /\ DialAttempts \in Nat \ {0}
  BY DialAttemptsAssumption DEF TypeOK
<1>1. ASSUME UNCHANGED <<mainVars, done, cancelled, supervisor, run>> PROVE Phases'
  BY <1>1 DEF mainVars
<1>2. CASE StartPublisher
  BY <1>0, <1>2 DEF StartPublisher, NewPublisher, InstallSession, DialFails, DialSucceeds,
                    consumerVars, publisherVars
<1>3. CASE StartConsumer
  BY <1>0, <1>3 DEF StartConsumer, NewConsumer, NewSession, DialFails, DialSucceeds,
                    consumerVars, publisherVars
<1>4. CASE Signal \/ PublisherClosed
  BY <1>4 DEF Signal, PublisherClosed, CancelRun, publisherVars
<1>5. CASE Listen \/ StopHttp \/ StopGrpc \/ Return \/ HttpServerFails \/ Expire \/ RpcEnds
  BY <1>5 DEF Listen, StopHttp, StopGrpc, Return, HttpServerFails, Expire, RpcEnds, publisherVars, consumerVars
<1>6. CASE StopConsumer \/ ClosePublisher
  BY <1>6 DEF StopConsumer, CloseConsumer, ClosePublisher, publisherVars, sessionVars, consumerVars
<1>7. CASE Supervisor
  <2>1. supervisor # "off"
    BY <1>7 DEF Supervisor, Supervise, EndSession, CloseSession, Redial, Backoff
  <2> QED
    BY <1>7, <2>1 DEF Supervisor, Supervise, EndSession, CloseSession, Redial, Backoff,
                      consumerVars, mainVars
<1>8. CASE Consumer
  <2>1. run \notin {"off", "exited"} /\ UNCHANGED cancelled
    BY <1>8 DEF Consumer, RunLoop, Loop, StartSession, Dial, NewSession, DialBackoff, AwaitSessionEnd, JoinWorkers
  <2> QED
    BY <1>8, <2>1 DEF Consumer, publisherVars, mainVars
<1>9. CASE \E w \in Sessions \X Queues : Goroutine(w)
  BY <1>1, <1>9, GoroutineFrame DEF Workers, sessionVars
<1>10. CASE Broker \/ LinkFails
  BY <1>1, <1>10 DEF Broker, Deliver, BrokerAnswers, LinkFails, PublisherLinkFails, ConsumerLinkFails,
                     publisherVars, consumerVars, sessionVars
<1>11. CASE UNCHANGED vars
  BY <1>1, <1>11 DEF vars, publisherVars, consumerVars
<1> QED
  BY <1>2, <1>3, <1>4, <1>5, <1>6, <1>7, <1>8, <1>9, <1>10, <1>11 DEF Next, Main

LEMMA AlwaysTyped == Spec => []Typing
<1>1. Typing /\ [Next]_vars => Typing'
  BY TypeStep, DiallingStep, PhasesStep DEF Typing
<1> QED
  BY <1>1, TypingInit, PTL DEF Spec

\* Type correctness; in particular no more sessions are dialled than were lost,
\* plus one, and no dial is tried more often than DialAttempts.
THEOREM ProcessTypeOK == Spec => []TypeOK
BY AlwaysTyped, PTL DEF Typing

-----------------------------------------------------------------------------
(* Sessions.  A goroutine that has not returned belongs to the newest       *)
(* session, and Run is waiting for it.                                      *)

Busy(w) == worker[w].step \notin {"off", "gone"}

Sessioned == \A w \in Workers : Busy(w) => w[1] = conSession /\ run \in {"await", "join"}

LEMMA SessionedInit == Init => Sessioned
BY DEF Init, ConsumerInit, Workers, Off, Busy, Sessioned

\* One step of a goroutine: it was there before, and the others stay.
LEMMA GoroutineMoves ==
    ASSUME Typing, NEW w \in Workers, Goroutine(w), NEW v \in Workers
    PROVE  /\ v # w => worker'[v] = worker[v]
           /\ worker' # worker => Busy(w)
<1>1. worker \in [Workers -> [step : Handling \cup {"off", "select", "gone"},
                              msg : Messages \cup {NoMessage}, tries : 0..ReplyAttempts]]
  BY DEF Typing, TypeOK, ConsumerTypeOK, Workers
<1>2. UNCHANGED worker \/ (Busy(w) /\ \E state : Becomes(w, state))
  BY DEF Goroutine, Handle, SendEmail, ReplyReturns, ReplyCancelled, Settle, Leave, TakeDelivery,
         PublishReply, PublishStep, consumerVars, Busy
<1> QED
  BY <1>1, <1>2 DEF Becomes

\* Run goes on when every goroutine of its session has returned.
LEMMA JoinedAreGone ==
    ASSUME JoinWorkers, NEW q \in Queues
    PROVE  worker[<<conSession, q>>] = Gone
BY Zenon DEF JoinWorkers

LEMMA SessionedStep ==
    ASSUME Typing, Sessioned, [Next]_vars
    PROVE  Sessioned'
<1> USE DEF Sessioned
<1>0. worker \in [Workers -> [step : Handling \cup {"off", "select", "gone"},
                              msg : Messages \cup {NoMessage}, tries : 0..ReplyAttempts]]
  BY DEF Typing, TypeOK, ConsumerTypeOK, Workers
<1>1. ASSUME UNCHANGED <<worker, conSession, run>> PROVE Sessioned'
  BY <1>1 DEF Busy
<1>2. ASSUME UNCHANGED worker, \A w \in Workers : ~Busy(w) PROVE Sessioned'
  BY <1>2 DEF Busy
<1>3. CASE StartConsumer
  <2>1. CASE NewConsumer
    BY <1>2, <2>1 DEF NewConsumer
  <2>2. CASE DialFails("defer")
    BY <1>1, <2>2 DEF DialFails, consumerVars
  <2> QED
    BY <1>3, <2>1, <2>2 DEF StartConsumer
<1>4. CASE \/ StartPublisher \/ Listen \/ StopHttp \/ StopGrpc \/ StopConsumer \/ ClosePublisher
          \/ PublisherClosed \/ Return
  BY <1>1, <1>4 DEF StartPublisher, DialFails, Listen, StopHttp, StopGrpc, StopConsumer, CloseConsumer,
                    ClosePublisher, PublisherClosed, CancelRun, Return, consumerVars
<1>5. CASE \/ HttpServerFails \/ Signal \/ Expire \/ RpcEnds \/ Supervisor \/ Broker \/ LinkFails
          \/ UNCHANGED vars
  BY <1>1, <1>5 DEF HttpServerFails, Signal, CancelRun, Expire, RpcEnds, Supervisor, Broker, Deliver,
                    LinkFails, ConsumerLinkFails, consumerVars, vars
<1>6. CASE Consumer
  <2>1. CASE StartSession
    <3>1. \A w \in Workers : ~Busy(w)
      BY <2>1 DEF StartSession
    <3>2. CASE UNCHANGED worker
      BY <1>2, <3>1, <3>2
    <3>3. CASE /\ run' = "await" /\ UNCHANGED conSession
               /\ worker' = [w \in Sessions \X Queues |->
                               IF w[1] = conSession THEN Selecting ELSE worker[w]]
      BY <3>1, <3>3 DEF Workers, Busy
    <3> QED
      BY <2>1, <3>2, <3>3 DEF StartSession
  <2>2. CASE Loop \/ Dial \/ DialBackoff
    BY <1>2, <2>2 DEF Loop, Dial, DialBackoff
  <2>3. CASE AwaitSessionEnd
    BY <2>3 DEF AwaitSessionEnd, Busy
  <2>4. CASE JoinWorkers
    <3>1. ASSUME NEW w \in Workers, w[1] = conSession PROVE ~Busy(w)
      <4>1. w = <<conSession, w[2]>> /\ w[2] \in Queues
        BY <3>1 DEF Workers
      <4>2. worker[<<conSession, w[2]>>] = Gone
        BY <2>4, <4>1, JoinedAreGone
      <4>3. worker[w] = Gone
        BY <4>1, <4>2
      <4> QED
        BY <4>3 DEF Gone, Off, Busy
    <3> QED
      BY <1>2, <2>4, <3>1 DEF JoinWorkers
  <2> QED
    BY <1>6, <2>1, <2>2, <2>3, <2>4 DEF Consumer, RunLoop
<1>7. ASSUME NEW w \in Workers, Goroutine(w) PROVE Sessioned'
  BY <1>7, GoroutineMoves, GoroutineFrame DEF Busy
<1> QED
  BY <1>3, <1>4, <1>5, <1>6, <1>7 DEF Next, Main, Workers

LEMMA AlwaysSessioned == Spec => []Sessioned
BY AlwaysTyped, SessionedInit, SessionedStep, PTL DEF Spec

\* A queue never has two handlers, whatever sessions are lost under them.
THEOREM OneHandler == Spec => []OneHandlerPerQueue
<1>1. Sessioned => OneHandlerPerQueue
  <2> SUFFICES ASSUME Sessioned, NEW q \in Queues, NEW n \in HandlersOf(q), NEW k \in HandlersOf(q)
               PROVE  n = k
    BY DEF OneHandlerPerQueue
  <2>1. \A i \in HandlersOf(q) : <<i, q>> \in Workers /\ Busy(<<i, q>>)
    BY DEF HandlersOf, Workers, Busy, Handling
  <2> QED
    BY <2>1 DEF Sessioned
<1> QED
  BY <1>1, AlwaysSessioned, PTL

\* The publisher of the replies is closed after the last handler is done, unless
\* the time of the shutdown ran out, or the gRPC listener could not be opened.
THEOREM HandlersOutlived == Spec => []PublisherOutlivesHandlers
<1>1. Typing /\ Sessioned => PublisherOutlivesHandlers
  <2> SUFFICES ASSUME Typing, Sessioned, done, ~expired, ~listenErr,
                      NEW q \in Queues, NEW n \in HandlersOf(q)
               PROVE  FALSE
    BY DEF PublisherOutlivesHandlers
  <2>1. run \in {"off", "exited"}
    BY DEF Typing, Phases
  <2>2. <<n, q>> \in Workers /\ Busy(<<n, q>>)
    BY DEF HandlersOf, Workers, Busy, Handling
  <2> QED
    BY <2>1, <2>2 DEF Sessioned
<1> QED
  BY <1>1, AlwaysTyped, AlwaysSessioned, PTL

-----------------------------------------------------------------------------
(* The publisher keeps its contract.  What a call has not written is not in *)
(* the broker, and a call that returned nil has seen its confirm.           *)

Written ==
    \A p \in Publishes :
        /\ publish[p].step \in {"unused", "write"} => wire[p] = "none"
        /\ publish[p].step = "ok" => wire[p] = "stored"

\* The steps that concern the calls, each of one call.
PublishMoves(p) ==
    \/ TakeChannel(p)
    \/ WriteMessage(p)
    \/ AwaitConfirm(p, cancelled)
    \/ BrokerAnswers(p)

LEMMA PublishingSteps ==
    ASSUME [Next]_vars
    PROVE  UNCHANGED <<publish, wire>> \/ \E p : PublishMoves(p)
<1>1. CASE \/ Main \/ HttpServerFails \/ Signal \/ Expire
           \/ RpcEnds \/ Supervisor \/ Consumer \/ LinkFails \/ UNCHANGED vars
  BY <1>1 DEF Main, StartPublisher, NewPublisher, StartConsumer, DialFails, Listen, StopHttp, StopGrpc,
              StopConsumer, ClosePublisher, PublisherClosed, CancelRun, Return, HttpServerFails,
              Signal, Expire, RpcEnds, Supervisor, Supervise, EndSession,
              CloseSession, Redial, Backoff, Consumer, LinkFails, PublisherLinkFails, vars, publisherVars
<1>2. CASE \E w \in Sessions \X Queues : Goroutine(w)
  BY <1>2 DEF Goroutine, PublishReply, PublishStep, PublishMoves, publisherVars
<1>3. CASE Broker
  BY <1>3 DEF Broker, PublishMoves, publisherVars
<1> QED
  BY <1>1, <1>2, <1>3 DEF Next

\* A call that is none changes nothing.
LEMMA NoSuchCall ==
    ASSUME PublisherTypeOK, NEW p, p \notin Publishes, PublishMoves(p)
    PROVE  UNCHANGED <<publish, wire>>
BY DEF PublisherTypeOK, PublishMoves, TakeChannel, WriteMessage, AwaitConfirm, GoesTo, BrokerAnswers,
       StoreMessage, LoseMessage, RefuseMessage, Fate

LEMMA WrittenInit == Init => Written
BY DEF Init, PublisherInit, Written

LEMMA WrittenStep ==
    ASSUME Typing, Written, [Next]_vars
    PROVE  Written'
<1>0. /\ PublisherTypeOK
      /\ publish \in [Publishes -> [step : PublishSteps, on : Nat]]
      /\ wire \in [Publishes -> Fates]
  BY DEF Typing, TypeOK, PublisherTypeOK
<1>1. CASE UNCHANGED <<publish, wire>>
  BY <1>1 DEF Written
<1>2. ASSUME NEW p \in Publishes, PublishMoves(p) PROVE Written'
  <2>1. CASE TakeChannel(p)
    BY <1>0, <2>1 DEF TakeChannel, Written
  <2>2. CASE WriteMessage(p)
    BY <1>0, <2>2 DEF WriteMessage, GoesTo, Written
  <2>3. CASE AwaitConfirm(p, cancelled)
    BY <1>0, <2>3 DEF AwaitConfirm, GoesTo, Written
  <2>4. CASE BrokerAnswers(p)
    BY <1>0, <2>4 DEF BrokerAnswers, StoreMessage, LoseMessage, RefuseMessage, Fate, Written
  <2> QED
    BY <1>2, <2>1, <2>2, <2>3, <2>4 DEF PublishMoves
<1> QED
  BY <1>0, <1>1, <1>2, PublishingSteps, NoSuchCall

LEMMA AlwaysWritten == Spec => []Written
BY AlwaysTyped, WrittenInit, WrittenStep, PTL DEF Spec

LEMMA PortInit == Init => Port!Init
BY DEF Init, PublisherInit, Port!Init, Answers, Stored

LEMMA PortStep ==
    ASSUME Typing, Written, [Next]_vars
    PROVE  [Port!Next]_<<Answers, Stored>>
<1>0. /\ PublisherTypeOK
      /\ publish \in [Publishes -> [step : PublishSteps, on : Nat]]
      /\ wire \in [Publishes -> Fates]
  BY DEF Typing, TypeOK, PublisherTypeOK
<1>1. CASE UNCHANGED <<publish, wire>>
  BY <1>1 DEF Answers, Stored
<1>2. ASSUME NEW p \in Publishes, PublishMoves(p)
      PROVE  [Port!Next]_<<Answers, Stored>>
  <2> DEFINE Returns(a) ==
               /\ Answers[p] = "none"
               /\ a = "ok" => p \in Stored
               /\ Answers' = [Answers EXCEPT ![p] = a]
               /\ Stored' = Stored
  <2>r. ASSUME NEW a \in {"ok", "error"}, Returns(a) PROVE Port!Next
    <3>1. Port!Return(p, a)
      BY <2>r DEF Port!Return
    <3> QED
      BY <3>1 DEF Port!Next
  <2>s. ASSUME UNCHANGED Answers, p \notin Stored, Stored' = Stored \cup {p} PROVE Port!Next
    BY <2>s DEF Port!Next, Port!Store, Answers, Stored
  <2>1. CASE TakeChannel(p)
    <3>1. Stored' = Stored
      BY <2>1 DEF TakeChannel, Stored
    <3>2. CASE ready
      BY <1>0, <2>1, <3>1, <3>2 DEF TakeChannel, Answers
    <3>3. CASE ~ready
      BY <1>0, <2>1, <2>r, <3>1, <3>3 DEF TakeChannel, Answers
    <3> QED
      BY <3>2, <3>3
  <2>2. CASE WriteMessage(p)
    <3>1. wire[p] = "none"
      BY <2>2 DEF WriteMessage, Written
    <3>2. Stored' = Stored
      BY <1>0, <2>2, <3>1 DEF WriteMessage, Stored
    <3>3. CASE GoesTo(p, "await")
      BY <1>0, <2>2, <3>2, <3>3 DEF WriteMessage, GoesTo, Answers
    <3>4. CASE GoesTo(p, "err")
      BY <1>0, <2>2, <2>r, <3>2, <3>4 DEF WriteMessage, GoesTo, Answers
    <3> QED
      BY <2>2, <3>3, <3>4 DEF WriteMessage
  <2>3. CASE AwaitConfirm(p, cancelled)
    <3>1. Stored' = Stored
      BY <2>3 DEF AwaitConfirm, Stored
    <3>2. CASE wire[p] = "stored" /\ GoesTo(p, "ok")
      BY <1>0, <2>3, <2>r, <3>1, <3>2 DEF AwaitConfirm, GoesTo, Answers, Stored
    <3>3. CASE GoesTo(p, "err")
      BY <1>0, <2>3, <2>r, <3>1, <3>3 DEF AwaitConfirm, GoesTo, Answers
    <3> QED
      BY <2>3, <3>2, <3>3 DEF AwaitConfirm
  <2>4. CASE BrokerAnswers(p)
    <3>1. UNCHANGED Answers
      BY <2>4 DEF BrokerAnswers, Answers
    <3>2. wire[p] = "sent"
      BY <2>4 DEF BrokerAnswers, StoreMessage, LoseMessage, RefuseMessage, Fate
    <3>3. CASE StoreMessage(p)
      BY <1>0, <2>s, <3>1, <3>2, <3>3 DEF StoreMessage, Fate, Stored
    <3>4. CASE LoseMessage(p) \/ RefuseMessage(p)
      BY <1>0, <3>1, <3>2, <3>4 DEF LoseMessage, RefuseMessage, Fate, Stored
    <3> QED
      BY <2>4, <3>3, <3>4 DEF BrokerAnswers
  <2> QED
    BY <1>2, <2>1, <2>2, <2>3, <2>4 DEF PublishMoves
<1> QED
  BY <1>0, <1>1, <1>2, PublishingSteps, NoSuchCall

\* The publisher, its supervisor and the broker implement what the callers of
\* publish rely on, whatever connections are lost meanwhile.
THEOREM PublisherKeepsPort == Spec => ImplementsPublishPort
<1>1. Typing /\ Written /\ [Next]_vars => [Port!Next]_<<Answers, Stored>>
  BY PortStep
<1>2. Spec => Port!Init /\ [][Port!Next]_<<Answers, Stored>>
  BY <1>1, PortInit, AlwaysTyped, AlwaysWritten, PTL DEF Spec
<1> QED
  BY <1>2 DEF ImplementsPublishPort, Port!Spec

-----------------------------------------------------------------------------
(* Ack only after reply.  While nothing failed and nobody stops the process, *)
(* the publisher that was there before the consumer keeps its session, every *)
(* call works on it, and so the first attempt at a reply succeeds.           *)

Smooth == notifierFaults = 0 /\ cancelled = FALSE /\ listenErr = FALSE

Calm ==
    /\ main \in {"consumer", "listen", "serving"} => supervisor = "watch" /\ ready /\ pubLink = "up"
    /\ \A p \in Publishes :
          /\ publish[p].step # "err" /\ wire[p] # "refused"
          /\ publish[p].step # "unused" => run # "off"
          /\ publish[p].step \in {"write", "await"} => publish[p].on = pubSession

\* Who replies has a command, and who waits has made an attempt.
Replying ==
    \A w \in Workers :
        /\ worker[w].step \in {"reply", "await"} => worker[w].msg \in Commands
        /\ worker[w].step = "await" => worker[w].tries > 0

Answering ==
    /\ \A w \in Workers :
          worker[w].step = "ack" /\ worker[w].msg \in Commands => Answered(worker[w].msg)
    /\ \A m \in Commands : box[m] = "acked" => Answered(m)

LEMMA CalmInit == Init => Calm /\ Replying /\ Answering
<1> SUFFICES ASSUME Init PROVE Calm /\ Replying /\ Answering
  OBVIOUS
<1>1. \A w \in Workers : worker[w].step = "off"
  BY DEF Init, ConsumerInit, Workers, Off
<1>2. \A m \in Commands : box[m] = "ready"
  BY DEF Init, ConsumerInit, Messages
<1> QED
  BY <1>1, <1>2 DEF Init, PublisherInit, Calm, Replying, Answering

\* A step costs at most one fault of the notifier's side.
LEMMA StepFaults ==
    ASSUME [Next]_vars
    PROVE  NoFault \/ NotifierFault \/ UNCHANGED faultVars
<1>1. CASE Main \/ HttpServerFails \/ Signal \/ Expire \/ RpcEnds
  BY <1>1 DEF Main, StartPublisher, StartConsumer, Listen, StopHttp, StopGrpc, StopConsumer,
              ClosePublisher, PublisherClosed, Return, HttpServerFails, Signal, Expire, RpcEnds
<1>2. CASE Supervisor \/ Consumer
  BY <1>2 DEF Supervisor, Supervise, EndSession, CloseSession, Redial, Backoff, Consumer, RunLoop,
              Loop, StartSession, Dial, DialBackoff, AwaitSessionEnd, JoinWorkers
<1>3. CASE \E w \in Sessions \X Queues : Goroutine(w)
  BY <1>3, GoroutineFrame DEF Workers
<1>4. CASE Broker \/ LinkFails
  BY <1>4 DEF Broker, Deliver, BrokerAnswers, StoreMessage, LoseMessage, RefuseMessage, LinkFails,
              PublisherLinkFails, ConsumerLinkFails
<1> QED
  BY <1>1, <1>2, <1>3, <1>4 DEF Next, vars

\* The ctx of Run stays cancelled.
LEMMA StepCancels ==
    ASSUME [Next]_vars
    PROVE  UNCHANGED cancelled \/ cancelled' = TRUE
<1>1. CASE Main \/ HttpServerFails \/ Signal \/ Expire \/ RpcEnds
  BY <1>1 DEF Main, StartPublisher, StartConsumer, NewConsumer, DialFails, Listen, StopHttp, StopGrpc,
              StopConsumer, ClosePublisher, PublisherClosed, CancelRun, Return, HttpServerFails,
              Signal, Expire, RpcEnds, consumerVars
<1>2. CASE Supervisor \/ Consumer
  BY <1>2 DEF Supervisor, Consumer, RunLoop, Loop, StartSession, Dial, DialBackoff, AwaitSessionEnd, JoinWorkers,
              consumerVars
<1>3. CASE \E w \in Sessions \X Queues : Goroutine(w)
  BY <1>3, GoroutineFrame DEF Workers
<1>4. CASE Broker \/ LinkFails
  BY <1>4 DEF Broker, Deliver, LinkFails, ConsumerLinkFails, consumerVars
<1> QED
  BY <1>1, <1>2, <1>3, <1>4 DEF Next, vars, consumerVars

\* A listener that failed stays so.
LEMMA StepListens ==
    ASSUME [Next]_vars
    PROVE  UNCHANGED listenErr \/ listenErr' = TRUE
<1>1. CASE Main \/ HttpServerFails \/ Signal \/ Expire \/ RpcEnds
  BY <1>1 DEF Main, StartPublisher, StartConsumer, Listen, StopHttp, StopGrpc, StopConsumer, ClosePublisher,
              PublisherClosed, Return, HttpServerFails, Signal, Expire, RpcEnds
<1>2. CASE Supervisor \/ Consumer \/ Broker \/ LinkFails \/ UNCHANGED vars
  BY <1>2 DEF Supervisor, Consumer, Broker, LinkFails, vars, mainVars
<1>3. CASE \E w \in Sessions \X Queues : Goroutine(w)
  BY <1>3 DEF Goroutine, mainVars
<1> QED
  BY <1>1, <1>2, <1>3 DEF Next

\* A smooth state comes after smooth states only, and without a fault.
LEMMA SmoothBefore ==
    ASSUME Typing, [Next]_vars, Smooth'
    PROVE  Smooth /\ ~NotifierFault
<1>0. notifierFaults \in Nat /\ cancelled \in BOOLEAN /\ listenErr \in BOOLEAN
  BY FaultTypes DEF Typing, TypeOK, ConsumerTypeOK
<1>1. NoFault \/ NotifierFault \/ UNCHANGED faultVars
  BY StepFaults
<1>2. UNCHANGED cancelled \/ cancelled' = TRUE
  BY StepCancels
<1>3. UNCHANGED listenErr \/ listenErr' = TRUE
  BY StepListens
<1> QED
  BY <1>0, <1>1, <1>2, <1>3 DEF Smooth, NoFault, NotifierFault, faultVars

LEMMA CalmStep ==
    ASSUME Typing, Sessioned, Smooth, Calm, [Next]_vars, Smooth'
    PROVE  Calm'
<1>0. /\ publish \in [Publishes -> [step : PublishSteps, on : Nat]]
      /\ wire \in [Publishes -> Fates]
  BY DEF Typing, TypeOK, PublisherTypeOK
<1>1. ~NotifierFault
  BY SmoothBefore
<1>2. Running /\ run # "off" => main \in {"listen", "serving"}
  BY DEF Running, Typing, TypeOK, Phases, Smooth, MainSteps
<1>3. main \in {"consumer", "listen", "serving"} => ~done
  BY DEF Typing, Phases
<1>4. main \notin {"http", "grpc", "wait"}
  BY DEF Typing, Phases, Smooth
<1>5. ASSUME UNCHANGED publisherVars, run # "off" => run' # "off",
             main' \in {"consumer", "listen", "serving"} => main \in {"consumer", "listen", "serving"}
      PROVE  Calm'
  BY <1>5 DEF Calm, publisherVars
<1>6. CASE StartPublisher
  <2>1. CASE NewPublisher
    <3>1. run = "off" /\ UNCHANGED <<publish, wire, run>>
      BY <1>6, <2>1 DEF StartPublisher, NewPublisher, DialFails, consumerVars, Typing, Phases
    <3>2. supervisor' = "watch" /\ ready' /\ pubLink' = "up"
      BY <2>1 DEF NewPublisher, InstallSession
    <3> QED
      BY <3>1, <3>2 DEF Calm
  <2>2. CASE DialFails("return")
    BY <1>5, <1>6, <2>2 DEF StartPublisher, DialFails, consumerVars
  <2> QED
    BY <1>6, <2>1, <2>2 DEF StartPublisher
<1>7. CASE StartConsumer
  <2>1. run' # "off" \/ UNCHANGED run
    BY <1>7 DEF StartConsumer, NewConsumer, NewSession, DialFails, consumerVars
  <2> QED
    BY <1>5, <1>7, <2>1 DEF StartConsumer, DialFails
<1>8. CASE ClosePublisher
  BY <1>8 DEF ClosePublisher, sessionVars, consumerVars, Calm
<1>9. CASE Listen \/ StopHttp \/ StopGrpc \/ StopConsumer \/ Return \/ HttpServerFails \/ Expire \/ RpcEnds
  BY <1>4, <1>5, <1>9 DEF Listen, StopHttp, StopGrpc, StopConsumer, Return, HttpServerFails, Expire, RpcEnds,
                          consumerVars
<1>10. CASE Signal \/ PublisherClosed
  BY <1>10 DEF Signal, PublisherClosed, CancelRun, Smooth
<1>11. CASE Supervisor
  <2>1. main \notin {"consumer", "listen", "serving"}
    BY <1>3, <1>11 DEF Supervisor, Supervise, EndSession, CloseSession, Redial, Backoff, Calm
  <2>2. UNCHANGED <<publish, wire, run, main>> /\ Running
    BY <1>11 DEF Supervisor, Supervise, EndSession, CloseSession, Redial, Backoff, consumerVars, mainVars
  <2> QED
    BY <1>2, <2>1, <2>2 DEF Calm
<1>12. CASE Consumer
  <2>1. run' # "off" /\ UNCHANGED <<publisherVars, main>>
    BY <1>12 DEF Consumer, RunLoop, Loop, StartSession, Dial, NewSession, DialBackoff,
                 AwaitSessionEnd, JoinWorkers, mainVars
  <2> QED
    BY <1>5, <2>1
<1>13. ASSUME NEW w \in Workers, Goroutine(w) PROVE Calm'
  <2>0. UNCHANGED <<run, main, sessionVars>> /\ Running
    BY <1>13, GoroutineFrame DEF mainVars, Goroutine
  <2>1. CASE UNCHANGED <<publish, wire>>
    BY <2>0, <2>1 DEF Calm, sessionVars
  <2>2. ASSUME NEW p \in Publishes, TakeChannel(p), Busy(w) PROVE Calm'
    <3>1. ready
      BY <1>2, <2>0, <2>2 DEF Sessioned, Calm
    <3> QED
      BY <1>0, <2>0, <2>2, <3>1 DEF TakeChannel, Sessioned, Calm, sessionVars
  <2>3. ASSUME NEW p \in Publishes, WriteMessage(p) PROVE Calm'
    <3>1. Usable(p)
      BY <1>2, <2>0, <2>3 DEF WriteMessage, Usable, Calm
    <3> QED
      BY <1>0, <2>0, <2>3, <3>1 DEF WriteMessage, GoesTo, Calm, sessionVars
  <2>4. ASSUME NEW p \in Publishes, AwaitConfirm(p, cancelled) PROVE Calm'
    <3>1. Usable(p) /\ wire[p] # "refused" /\ ~cancelled
      BY <1>2, <2>0, <2>4 DEF AwaitConfirm, Usable, Calm, Smooth
    <3> QED
      BY <1>0, <2>0, <2>4, <3>1 DEF AwaitConfirm, GoesTo, Calm, sessionVars
  <2>5. \/ UNCHANGED <<publish, wire>>
        \/ \E p : (TakeChannel(p) /\ Busy(w)) \/ WriteMessage(p) \/ AwaitConfirm(p, cancelled)
    BY <1>13 DEF Goroutine, PublishReply, PublishStep, Busy, publisherVars
  <2> QED
    BY <2>1, <2>2, <2>3, <2>4, <2>5, NoSuchCall DEF PublishMoves, Typing, TypeOK
<1>14. CASE Broker
  <2>0. UNCHANGED <<run, main, sessionVars>>
    BY <1>14 DEF Broker, Deliver, BrokerAnswers, consumerVars, publisherVars, sessionVars, mainVars
  <2>1. CASE UNCHANGED publisherVars
    BY <1>5, <2>0, <2>1
  <2>2. ASSUME NEW p \in Publishes, BrokerAnswers(p) PROVE Calm'
    BY <1>0, <1>1, <2>0, <2>2
       DEF BrokerAnswers, StoreMessage, LoseMessage, RefuseMessage, Fate, Calm, sessionVars
  <2>3. ASSUME UNCHANGED <<publish, wire>> PROVE Calm'
    BY <2>0, <2>3 DEF Calm, sessionVars
  <2> QED
    BY <1>14, <2>1, <2>2, <2>3, NoSuchCall DEF Broker, PublishMoves, Typing, TypeOK
<1>15. CASE LinkFails
  BY <1>1, <1>15 DEF LinkFails, PublisherLinkFails, ConsumerLinkFails
<1>16. CASE UNCHANGED vars
  BY <1>5, <1>16 DEF vars, consumerVars, mainVars
<1> QED
  BY <1>6, <1>7, <1>8, <1>9, <1>10, <1>11, <1>12, <1>13, <1>14, <1>15, <1>16 DEF Next, Main, Workers

\* The goroutines move alone; beside them only Run touches them, to start them.
LEMMA WorkersMove ==
    ASSUME [Next]_vars
    PROVE  \/ \E w \in Workers : Goroutine(w)
           \/ UNCHANGED worker
           \/ worker' = [w \in Workers |-> IF w[1] = conSession THEN Selecting ELSE worker[w]]
<1>1. CASE \/ Main \/ HttpServerFails \/ Signal \/ Expire
           \/ RpcEnds \/ Supervisor \/ Broker \/ LinkFails \/ UNCHANGED vars
  BY <1>1 DEF Main, StartPublisher, StartConsumer, NewConsumer, DialFails, Listen, StopHttp, StopGrpc, StopConsumer,
              ClosePublisher, PublisherClosed, CancelRun, Return, HttpServerFails, Signal, Expire,
              RpcEnds, Supervisor, Broker, Deliver,
              LinkFails, ConsumerLinkFails, vars, consumerVars
<1>2. CASE Consumer
  BY <1>2 DEF Consumer, RunLoop, Loop, StartSession, Dial, DialBackoff, AwaitSessionEnd, JoinWorkers, Workers
<1> QED
  BY <1>1, <1>2 DEF Next, Workers

\* What becomes of the messages at the broker: one is delivered or settled, or
\* the unsettled ones are requeued.
LEMMA BoxMoves ==
    ASSUME [Next]_vars
    PROVE  \/ UNCHANGED box
           \/ box' = Requeued
           \/ \E m \in Messages : box[m] = "ready" /\ box' = [box EXCEPT ![m] = "out"]
           \/ \E w \in Workers : Settle(w)
<1>1. CASE \/ Main \/ HttpServerFails \/ Signal \/ Expire
           \/ RpcEnds \/ Supervisor \/ Broker \/ LinkFails \/ UNCHANGED vars
  BY <1>1 DEF Main, StartPublisher, StartConsumer, NewConsumer, DialFails, Listen, StopHttp, StopGrpc,
              StopConsumer, CloseConsumer, ClosePublisher, PublisherClosed, CancelRun, Return,
              HttpServerFails, Signal, Expire, RpcEnds,
              Supervisor, Broker, Deliver, LinkFails, ConsumerLinkFails, vars, consumerVars
<1>2. CASE Consumer
  BY <1>2 DEF Consumer, RunLoop, Loop, StartSession, Dial, DialBackoff, AwaitSessionEnd, JoinWorkers, CloseConsumer
<1>3. ASSUME NEW w \in Workers, Goroutine(w) PROVE UNCHANGED box \/ Settle(w)
  BY <1>3 DEF Goroutine, Handle, SendEmail, ReplyReturns, ReplyCancelled, Leave, TakeDelivery,
              PublishReply, consumerVars
<1> QED
  BY <1>1, <1>2, <1>3 DEF Next, Workers

LEMMA ReplyingStep ==
    ASSUME Typing, Replying, [Next]_vars
    PROVE  Replying'
<1>0. worker \in [Workers -> [step : Handling \cup {"off", "select", "gone"},
                              msg : Messages \cup {NoMessage}, tries : 0..ReplyAttempts]]
  BY DEF Typing, TypeOK, ConsumerTypeOK, Workers
<1>1. CASE UNCHANGED worker
  BY <1>1 DEF Replying
<1>2. CASE worker' = [w \in Workers |-> IF w[1] = conSession THEN Selecting ELSE worker[w]]
  BY <1>2 DEF Replying, Selecting, Off
<1>3. ASSUME NEW w \in Workers, Goroutine(w) PROVE Replying'
  <2>1. ASSUME NEW v \in Workers, v # w
        PROVE  worker'[v] = worker[v]
    BY <1>3, <2>1, GoroutineMoves
  <2>2. /\ worker'[w].step \in {"reply", "await"} => worker'[w].msg \in Commands
        /\ worker'[w].step = "await" => worker'[w].tries > 0
    <3>1. CASE SendEmail(w) \/ ReplyCancelled(w) \/ ReplyReturns(w)
      BY <1>0, <3>1 DEF SendEmail, ReplyCancelled, ReplyReturns, Becomes, Replying
    <3>2. CASE Settle(w) \/ Leave(w) \/ \E m \in Messages : TakeDelivery(w, m)
      BY <1>0, <3>2 DEF Settle, Leave, TakeDelivery, Becomes, Selecting, Gone, Off
    <3>3. CASE PublishReply(w)
      BY <1>0, <3>3, ConsumerAssumption DEF PublishReply, Becomes, Replying
    <3>4. CASE UNCHANGED consumerVars
      BY <3>4 DEF consumerVars, Replying
    <3> QED
      BY <1>3, <3>1, <3>2, <3>3, <3>4 DEF Goroutine, Handle
  <2> QED
    BY <2>1, <2>2 DEF Replying
<1> QED
  BY <1>1, <1>2, <1>3, WorkersMove

\* What the broker has stored it keeps.
LEMMA AnsweredForGood ==
    ASSUME Typing, Written, [Next]_vars, NEW m, Answered(m)
    PROVE  Answered(m)'
<1>0. wire \in [Publishes -> Fates]
  BY DEF Typing, TypeOK, PublisherTypeOK
<1>1. PICK p \in ReplyCalls : p[1] = m /\ wire[p] = "stored"
  BY DEF Answered
<1>2. p \in Publishes
  BY ConsumerAssumption
<1>3. ASSUME NEW q, PublishMoves(q) PROVE wire'[p] = "stored"
  BY <1>0, <1>1, <1>2, <1>3
     DEF PublishMoves, TakeChannel, WriteMessage, AwaitConfirm, BrokerAnswers, StoreMessage, LoseMessage,
         RefuseMessage, Fate, Written
<1>4. wire'[p] = "stored"
  BY <1>1, <1>3, PublishingSteps
<1> QED
  BY <1>1, <1>4 DEF Answered

LEMMA AnsweringStep ==
    ASSUME Typing, Written, Smooth, Calm, Replying, Answering, [Next]_vars
    PROVE  Answering'
<1>0. /\ worker \in [Workers -> [step : Handling \cup {"off", "select", "gone"},
                                 msg : Messages \cup {NoMessage}, tries : 0..ReplyAttempts]]
      /\ box \in [Messages -> {"ready", "out", "acked", "dead"}]
  BY DEF Typing, TypeOK, ConsumerTypeOK, Workers
<1>1. \A m : Answered(m) => Answered(m)'
  BY AnsweredForGood
<1>2. ASSUME NEW w \in Workers, Goroutine(w), worker'[w].step = "ack", worker'[w].msg \in Commands
      PROVE  Answered(worker'[w].msg)
  <2>1. CASE UNCHANGED worker
    BY <1>2, <2>1 DEF Answering
  <2>2. CASE SendEmail(w)
    BY <1>0, <1>2, <2>2, ConsumerAssumption DEF SendEmail, Becomes
  <2>3. CASE ReplyCancelled(w)
    BY <2>3 DEF ReplyCancelled, Smooth
  <2>4. CASE ReplyReturns(w)
    <3>1. worker[w].step = "await" /\ worker'[w].msg = worker[w].msg
      BY <1>0, <2>4 DEF ReplyReturns, Becomes
    <3>2. ReplyCall(w) \in ReplyCalls /\ ReplyCall(w)[1] = worker[w].msg
      BY <1>0, <3>1, ConsumerAssumption DEF Replying, ReplyCall, ReplyCalls, Workers
    <3>3. publish[ReplyCall(w)].step = "ok"
      BY <2>4, <3>2, ConsumerAssumption DEF ReplyReturns, Calm
    <3> QED
      BY <3>1, <3>2, <3>3, ConsumerAssumption DEF Written, Answered
  <2>5. CASE Settle(w) \/ Leave(w) \/ PublishReply(w) \/ \E m \in Messages : TakeDelivery(w, m)
    <3>1. CASE Settle(w) \/ Leave(w)
      BY <1>0, <1>2, <3>1 DEF Settle, Leave, Becomes, Selecting, Gone, Off
    <3>2. CASE PublishReply(w)
      BY <1>0, <1>2, <3>2 DEF PublishReply, Becomes
    <3>3. ASSUME NEW m \in Messages, TakeDelivery(w, m) PROVE FALSE
      BY <1>0, <1>2, <3>3 DEF TakeDelivery, Becomes
    <3> QED
      BY <2>5, <3>1, <3>2, <3>3
  <2> QED
    BY <1>2, <2>1, <2>2, <2>3, <2>4, <2>5 DEF Goroutine, Handle, consumerVars
<1>3. ASSUME NEW v \in Workers, worker'[v].step = "ack", worker'[v].msg \in Commands
      PROVE  Answered(worker'[v].msg)
  <2>1. CASE UNCHANGED worker
    BY <1>3, <2>1 DEF Answering
  <2>2. CASE worker' = [w \in Workers |-> IF w[1] = conSession THEN Selecting ELSE worker[w]]
    BY <1>3, <2>2 DEF Answering, Selecting, Off
  <2>3. ASSUME NEW w \in Workers, Goroutine(w) PROVE Answered(worker'[v].msg)
    <3>1. CASE v = w
      BY <1>2, <1>3, <2>3, <3>1
    <3>2. CASE v # w
      BY <1>3, <2>3, <3>2, GoroutineMoves DEF Answering
    <3> QED
      BY <3>1, <3>2
  <2> QED
    BY <2>1, <2>2, <2>3, WorkersMove
<1>4. ASSUME NEW m \in Commands, box'[m] = "acked"
      PROVE  Answered(m)
  <2>0. m \in Messages
    BY DEF Messages
  <2>1. CASE box[m] = "acked"
    BY <2>1 DEF Answering
  <2>2. ASSUME NEW w \in Workers, Settle(w), box[m] # "acked"
        PROVE  Answered(m)
    <3>1. worker[w].step = "ack" /\ worker[w].msg = m
      BY <1>0, <1>4, <2>0, <2>2 DEF Settle
    <3> QED
      BY <3>1 DEF Answering
  <2>3. UNCHANGED box \/ box' = Requeued \/ (\E n : box' = [box EXCEPT ![n] = "out"])
        \/ \E w \in Workers : Settle(w)
    BY BoxMoves
  <2>4. box' = Requeued => box[m] = "acked"
    BY <1>0, <1>4, <2>0 DEF Requeued
  <2>5. ASSUME NEW n, box' = [box EXCEPT ![n] = "out"] PROVE box[m] = "acked"
    BY <1>0, <1>4, <2>0, <2>5
  <2> QED
    BY <1>4, <2>1, <2>2, <2>3, <2>4, <2>5
<1>5. ASSUME NEW v \in Workers PROVE (worker[v].step = "ack" /\ worker[v].msg \in Commands
                                      => Answered(worker[v].msg))'
  BY <1>1, <1>3
<1>6. ASSUME NEW m \in Commands PROVE (box[m] = "acked" => Answered(m))'
  BY <1>1, <1>4
<1> QED
  BY <1>5, <1>6 DEF Answering

AnsweredWhileSmooth == Replying /\ (Smooth => Calm /\ Answering)

\* A command is acknowledged only when the broker has a reply to it, unless
\* something failed, the listener included, or the process is stopping.
THEOREM AckedIsAnswered == Spec => []AckedCommandAnswered
<1>1. Init => AnsweredWhileSmooth
  BY CalmInit DEF AnsweredWhileSmooth
<1>2. ASSUME Typing, Sessioned, Written, AnsweredWhileSmooth, [Next]_vars
      PROVE  AnsweredWhileSmooth'
  <2>1. Replying'
    BY <1>2, ReplyingStep DEF AnsweredWhileSmooth
  <2>2. ASSUME Smooth' PROVE Calm' /\ Answering'
    <3>1. Smooth /\ Calm /\ Answering /\ Replying
      BY <1>2, <2>2, SmoothBefore DEF AnsweredWhileSmooth
    <3> QED
      BY <1>2, <2>2, <3>1, CalmStep, AnsweringStep
  <2> QED
    BY <2>1, <2>2 DEF AnsweredWhileSmooth
<1>3. Typing /\ AnsweredWhileSmooth => AckedCommandAnswered
  <2> SUFFICES ASSUME Typing, AnsweredWhileSmooth, NEW m \in Commands, box[m] = "acked",
                      ~cancelled, ~listenErr, ~(notifierFaults > 0)
               PROVE  Answered(m)
    BY DEF AckedCommandAnswered
  <2>1. Smooth
    BY FaultTypes DEF Typing, TypeOK, ConsumerTypeOK, Smooth
  <2> QED
    BY <2>1 DEF AnsweredWhileSmooth, Answering
<1> QED
  BY <1>1, <1>2, <1>3, AlwaysTyped, AlwaysSessioned, AlwaysWritten, PTL DEF Spec

-----------------------------------------------------------------------------
(* Dead letters.  A rejection is paid for when the send fails, before it is *)
(* settled: the dead letters and the rejections under way are at most as    *)
(* many as the faults.                                                      *)

Dead == {m \in Messages : box[m] = "dead"}

Rejecting == {w \in Workers : worker[w].step = "nack"}

Paid ==
    /\ IsFiniteSet(Dead)
    /\ cancelled \/ Cardinality(Dead) + Cardinality(Rejecting) <= notifierFaults

LEMMA RejectingFinite == IsFiniteSet(Rejecting)
<1>1. IsFiniteSet(Sessions)
  BY FaultBoundsAssumption, FS_Interval DEF Sessions
<1>2. IsFiniteSet(Queues)
  <2>1. IsFiniteSet({"deliveries"} \cup {"commands"})
    BY FS_Singleton, FS_AddElement
  <2>2. Queues = {"deliveries"} \cup {"commands"}
    BY DEF Queues
  <2> QED
    BY <2>1, <2>2
<1>3. IsFiniteSet(Workers)
  BY <1>1, <1>2, FS_Product DEF Workers
<1>4. Rejecting \in SUBSET Workers
  BY DEF Rejecting
<1> QED
  BY <1>3, <1>4, FS_Subset

LEMMA OneMore ==
    ASSUME NEW S, IsFiniteSet(S), NEW x
    PROVE  /\ IsFiniteSet(S \cup {x})
           /\ Cardinality(S \cup {x}) \in Nat /\ Cardinality(S \cup {x}) <= Cardinality(S) + 1
<1>1. Cardinality(S) \in Nat
  BY FS_CardinalityType
<1>2. /\ IsFiniteSet(S \cup {x})
      /\ Cardinality(S \cup {x}) = IF x \in S THEN Cardinality(S) ELSE Cardinality(S) + 1
  BY FS_AddElement
<1> QED
  BY <1>1, <1>2

\* Neither a dead letter more nor a rejection: the bound is kept.
LEMMA PaidKept ==
    ASSUME Typing, Paid, [Next]_vars, Dead' \in SUBSET Dead, Rejecting' \in SUBSET Rejecting
    PROVE  Paid'
<1>1. /\ IsFiniteSet(Dead') /\ Cardinality(Dead') <= Cardinality(Dead)
      /\ Cardinality(Dead) \in Nat /\ Cardinality(Dead') \in Nat
  BY FS_Subset, FS_CardinalityType DEF Paid
<1>2. /\ Cardinality(Rejecting') <= Cardinality(Rejecting)
      /\ Cardinality(Rejecting) \in Nat /\ Cardinality(Rejecting') \in Nat
  BY RejectingFinite, FS_Subset, FS_CardinalityType
<1>3. notifierFaults \in Nat
  BY FaultTypes DEF Typing, TypeOK
<1>4. notifierFaults' \in Nat /\ notifierFaults <= notifierFaults'
  <2>1. NoFault \/ NotifierFault \/ UNCHANGED faultVars
    BY StepFaults
  <2> QED
    BY <1>3, <2>1 DEF NoFault, NotifierFault, faultVars
<1>5. cancelled => cancelled'
  BY StepCancels
<1> QED
  BY <1>1, <1>2, <1>3, <1>4, <1>5 DEF Paid

\* The rejection of w is settled: what was a rejection becomes a dead letter.
LEMMA PaidSettle ==
    ASSUME Typing, Paid, [Next]_vars, NEW w \in Workers, Settle(w)
    PROVE  Paid'
<1>0. /\ worker \in [Workers -> [step : Handling \cup {"off", "select", "gone"},
                                 msg : Messages \cup {NoMessage}, tries : 0..ReplyAttempts]]
      /\ box \in [Messages -> {"ready", "out", "acked", "dead"}]
      /\ notifierFaults \in Nat
  BY FaultTypes DEF Typing, TypeOK, ConsumerTypeOK, Workers
<1>1. Rejecting' = Rejecting \ {w} /\ UNCHANGED <<cancelled, notifierFaults>>
  BY <1>0 DEF Settle, Becomes, Selecting, Off, Rejecting, faultVars
<1>2. Rejecting' \in SUBSET Rejecting
  BY <1>1
<1>3. CASE worker[w].step = "ack"
  <2>1. Dead' \in SUBSET Dead
    BY <1>0, <1>3 DEF Settle, Dead
  <2> QED
    BY <1>2, <2>1, PaidKept
<1>4. CASE worker[w].step = "nack"
  <2> DEFINE Both == Dead \cup {worker[w].msg}
  <2>1. Dead' \in SUBSET Both
    BY <1>0 DEF Settle, Dead
  <2>2. w \in Rejecting
    BY <1>4 DEF Rejecting
  <2>3. /\ IsFiniteSet(Both) /\ Cardinality(Both) <= Cardinality(Dead) + 1
        /\ Cardinality(Dead) \in Nat /\ Cardinality(Both) \in Nat
    <3>1. IsFiniteSet(Dead) /\ Cardinality(Dead) \in Nat
      BY FS_CardinalityType DEF Paid
    <3> QED
      BY <3>1, OneMore
  <2>4. IsFiniteSet(Dead') /\ Cardinality(Dead') <= Cardinality(Both) /\ Cardinality(Dead') \in Nat
    BY <2>1, <2>3, FS_Subset, FS_CardinalityType
  <2>5. Cardinality(Rejecting') = Cardinality(Rejecting) - 1 /\ Cardinality(Rejecting) \in Nat
    BY <1>1, <2>2, RejectingFinite, FS_RemoveElement, FS_CardinalityType
  <2> HIDE DEF Both
  <2> QED
    BY <1>0, <1>1, <2>3, <2>4, <2>5 DEF Paid
<1> QED
  BY <1>3, <1>4 DEF Settle

\* The send of w fails: a rejection more, and a fault, unless ctx is done.
LEMMA PaidSend ==
    ASSUME Typing, Paid, [Next]_vars, NEW w \in Workers, SendEmail(w)
    PROVE  Paid'
<1>0. /\ worker \in [Workers -> [step : Handling \cup {"off", "select", "gone"},
                                 msg : Messages \cup {NoMessage}, tries : 0..ReplyAttempts]]
      /\ notifierFaults \in Nat
  BY FaultTypes DEF Typing, TypeOK, ConsumerTypeOK, Workers
<1>1. Dead' = Dead /\ UNCHANGED cancelled
  BY DEF SendEmail, Dead
<1>2. CASE worker'[w].step # "nack"
  <2>1. Rejecting' \in SUBSET Rejecting
    BY <1>0, <1>2 DEF SendEmail, Becomes, Rejecting
  <2> QED
    BY <1>1, <2>1, PaidKept
<1>3. CASE cancelled
  BY <1>1, <1>3 DEF Paid
<1>4. CASE worker'[w].step = "nack" /\ ~cancelled
  <2>1. NotifierFault
    BY <1>0, <1>4, ConsumerAssumption DEF SendEmail, Becomes
  <2>2. Rejecting' = Rejecting \cup {w}
    BY <1>0, <1>4 DEF SendEmail, Becomes, Rejecting
  <2>3. /\ Cardinality(Rejecting') <= Cardinality(Rejecting) + 1
        /\ Cardinality(Rejecting) \in Nat /\ Cardinality(Rejecting') \in Nat
    BY <2>2, RejectingFinite, OneMore, FS_CardinalityType
  <2>4. Cardinality(Dead) \in Nat
    BY FS_CardinalityType DEF Paid
  <2> QED
    BY <1>0, <1>1, <1>4, <2>1, <2>3, <2>4 DEF Paid, NotifierFault
<1> QED
  BY <1>2, <1>3, <1>4

LEMMA PaidStep ==
    ASSUME Typing, Paid, [Next]_vars
    PROVE  Paid'
<1>0. /\ worker \in [Workers -> [step : Handling \cup {"off", "select", "gone"},
                                 msg : Messages \cup {NoMessage}, tries : 0..ReplyAttempts]]
      /\ box \in [Messages -> {"ready", "out", "acked", "dead"}]
  BY DEF Typing, TypeOK, ConsumerTypeOK, Workers
<1>1. CASE \E w \in Workers : SendEmail(w) \/ Settle(w)
  BY <1>1, PaidSend, PaidSettle
<1>2. CASE ~ \E w \in Workers : SendEmail(w) \/ Settle(w)
  <2>1. Dead' \in SUBSET Dead
    <3>1. \A m \in Messages : box'[m] = "dead" => box[m] = "dead"
      BY <1>0, <1>2, BoxMoves DEF Requeued
    <3> QED
      BY <3>1 DEF Dead
  <2>2. Rejecting' \in SUBSET Rejecting
    <3>1. ASSUME NEW w \in Workers, Goroutine(w) PROVE worker'[w].step = "nack" => worker[w].step = "nack"
      <4>1. CASE ReplyReturns(w) \/ ReplyCancelled(w) \/ PublishReply(w)
        BY <1>0, <4>1 DEF ReplyReturns, ReplyCancelled, PublishReply, Becomes
      <4>2. CASE Leave(w) \/ \E m \in Messages : TakeDelivery(w, m)
        BY <1>0, <4>2 DEF Leave, TakeDelivery, Becomes, Gone, Off
      <4>3. CASE UNCHANGED consumerVars
        BY <4>3 DEF consumerVars
      <4> QED
        BY <1>2, <3>1, <4>1, <4>2, <4>3 DEF Goroutine, Handle
    <3>2. ASSUME NEW w \in Workers, Goroutine(w), NEW v \in Workers
          PROVE  worker'[v].step = "nack" => worker[v].step = "nack"
      BY <3>1, <3>2, GoroutineMoves
    <3>3. \A v \in Workers : worker'[v].step = "nack" => worker[v].step = "nack"
      BY <3>2, WorkersMove DEF Selecting, Off
    <3> QED
      BY <3>3 DEF Rejecting
  <2> QED
    BY <2>1, <2>2, PaidKept
<1> QED
  BY <1>1, <1>2

\* Until the process is told to stop, there are at most as many dead letters as
\* faults of the notifier's side: no delivery is rejected for nothing, and none
\* twice.
THEOREM DeadLettersArePaid == Spec => []DeadLetterNeedsCause
<1>1. Init => Paid
  <2> SUFFICES ASSUME Init PROVE Paid
    OBVIOUS
  <2>1. Dead = {} /\ Rejecting = {} /\ notifierFaults = 0
    BY DEF Init, ConsumerInit, FaultsInit, Dead, Rejecting, Workers, Off
  <2> QED
    BY <2>1, FS_EmptySet DEF Paid
<1>2. Typing /\ Paid => DeadLetterNeedsCause
  <2>1. Typing /\ Paid => /\ Cardinality(Dead) \in Nat /\ Cardinality(Rejecting) \in Nat
                          /\ notifierFaults \in Nat
    BY RejectingFinite, FaultTypes, FS_CardinalityType DEF Typing, TypeOK, Paid
  <2> QED
    BY <2>1 DEF Paid, Dead, DeadLetterNeedsCause
<1> QED
  BY <1>1, <1>2, PaidStep, AlwaysTyped, PTL DEF Spec
=============================================================================
