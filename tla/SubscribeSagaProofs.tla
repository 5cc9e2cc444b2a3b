------------------------- MODULE SubscribeSagaProofs -------------------------
(***************************************************************************)
(* Theorems about SubscribeSaga, for every number of requests, calls and   *)
(* faults.                                                                 *)
(***************************************************************************)
EXTENDS SubscribeSaga, TLAPS

-----------------------------------------------------------------------------
(* Typing.  A reply that is not yet given up has an attempt left, which    *)
(* bounds the counter of attempts; a record that is at work serves a       *)
(* request, which keeps the dedupe cache a set of requests.                *)

AttemptLeft == cmd.step # "ack" => cmd.tries < ReplyAttempts

Serving ==
    /\ cmd.step # "idle" => cmd.saga \in Requests
    /\ replies.step # "idle" => replies.saga \in Requests
    /\ sweep.step \notin {"idle", "next"} => sweep.saga \in Requests

CallsServe ==
    \A c \in Calls : IF calls[c].step = "free" THEN ~calls[c].client
                                              ELSE calls[c].saga \in Requests

Typing == TypeOK /\ AttemptLeft /\ Serving /\ CallsServe

LEMMA TypingInit == Init => Typing
BY FaultBoundsAssumption, ReplyAttemptsAssumption
   DEF Init, Typing, AttemptLeft, Serving, CallsServe, TypeOK,
       SubscribersInit, FaultsInit, SubscribersTypeOK, FaultsTypeOK, StoreInit, StoreTypeOK, SubRows, SagaStates,
       TransportInit, TransportTypeOK, EventKinds, CallRecords, CallSteps, FreeCall,
       ServerInit, ServerTypeOK, Workers, HttpSteps, CompSteps, ReplySteps, SweepSteps,
       ClickSteps, NoDelivery, NoSweep,
       NotifierInit, NotifierTypeOK, CmdSteps, NoCommand

\* The statements of the database keep the tables' types.
LEMMA StatementTypes ==
    ASSUME StoreTypeOK, NEW r
    PROVE  /\ CreateWithSaga(r) => StoreTypeOK'
           /\ Confirm(r) => StoreTypeOK'
           /\ Delete(r) => StoreTypeOK'
           /\ MarkCompleted(r) => StoreTypeOK'
           /\ MarkCompensated(r) => StoreTypeOK'
           /\ UNCHANGED storeVars => StoreTypeOK'
BY DEF StoreTypeOK, SubRows, SagaStates, CreateWithSaga, Confirm, HasSub, Delete,
       MarkCompleted, MarkCompensated, markTerminal, IsPending, storeVars

\* A queue stays a bag when a message is put, or one that is there is taken.
LEMMA QueueTypes ==
    ASSUME NEW S, NEW queue \in [S -> Nat], NEW m \in S
    PROVE  /\ Put(queue, m) \in [S -> Nat]
           /\ queue[m] > 0 => Take(queue, m) \in [S -> Nat]
BY DEF Put, Take

\* Putting a message that no queue has a place for changes nothing.
LEMMA PutType ==
    ASSUME NEW S, NEW queue \in [S -> Nat], NEW m
    PROVE  Put(queue, m) \in [S -> Nat]
<1>1. CASE m \in S
  BY <1>1, QueueTypes
<1>2. CASE m \notin S
  <2>1. Put(queue, m) = queue
    BY <1>2 DEF Put
  <2> QED
    BY <2>1
<1> QED
  BY <1>1, <1>2

\* Opening, answering and abandoning a call keep it a call, and one that is
\* open keeps serving its request.
OpenCalls ==
    {call \in CallRecords : IF call.step = "free" THEN ~call.client
                                                  ELSE call.saga \in Requests}

LEMMA CallTypes ==
    ASSUME TransportTypeOK, CallsServe, NEW c \in Calls
    PROVE  /\ FreeCall \in OpenCalls
           /\ calls[c] \in OpenCalls
           /\ Abandoned(c) \in OpenCalls
           /\ \A status \in CallSteps \ {"free"} : Answered(c, status) \in OpenCalls
           /\ calls[c].step # "free" => [calls[c] EXCEPT !.step = "send"] \in OpenCalls
           /\ \A r \in Requests :
                 [step |-> "claim", saga |-> r, client |-> TRUE] \in OpenCalls
<1>1. /\ calls[c] \in CallRecords
      /\ IF calls[c].step = "free" THEN ~calls[c].client ELSE calls[c].saga \in Requests
  BY DEF TransportTypeOK, CallsServe
<1>2. /\ FreeCall \in OpenCalls
      /\ \A r \in Requests : [step |-> "claim", saga |-> r, client |-> TRUE] \in OpenCalls
  BY DEF OpenCalls, CallRecords, CallSteps, FreeCall
<1>3. Abandoned(c) \in OpenCalls
  BY <1>1 DEF OpenCalls, CallRecords, CallSteps, FreeCall, Abandoned
<1>4. \A status \in CallSteps \ {"free"} : Answered(c, status) \in OpenCalls
  <2>1. SUFFICES ASSUME NEW status \in CallSteps \ {"free"}
                 PROVE  Answered(c, status) \in OpenCalls
    OBVIOUS
  <2> QED
    BY <1>1, <1>2 DEF OpenCalls, CallRecords, CallSteps, Answered
<1> QED
  BY <1>1, <1>2, <1>3, <1>4 DEF OpenCalls, CallRecords, CallSteps

LEMMA SetCall ==
    ASSUME TransportTypeOK, CallsServe, NEW c \in Calls, NEW call \in OpenCalls,
           calls' = [calls EXCEPT ![c] = call]
    PROVE  calls' \in [Calls -> OpenCalls]
BY CallTypes DEF TransportTypeOK

LEMMA CallsType ==
    ASSUME calls' \in [Calls -> OpenCalls]
    PROVE  calls' \in [Calls -> CallRecords] /\ CallsServe'
BY DEF OpenCalls, CallsServe

\* A step of the server keeps the types.
LEMMA TypingServer ==
    ASSUME Typing, OrchestratorNext, UNCHANGED notifierVars
    PROVE  Typing'
<1> USE FaultBoundsAssumption
    DEF Typing, AttemptLeft, Serving, CallsServe, TypeOK, SubscribersTypeOK, FaultsTypeOK, StoreTypeOK, TransportTypeOK,
        ServerTypeOK, NotifierTypeOK, storeVars, transportVars, notifierVars, faultVars,
        NoFault, ServerFault, Answers, Breaks, Goto
<1>1. ASSUME NEW r \in Requests, Admit(r)
      PROVE  Typing'
  BY <1>1 DEF Admit, HttpSteps
<1>2. ASSUME NEW r \in Requests, CheckExists(r)
      PROVE  Typing'
  BY <1>2 DEF CheckExists, HttpSteps
<1>3. ASSUME NEW r \in Requests, Create(r)
      PROVE  Typing'
  BY <1>3, StatementTypes DEF Create, HttpSteps
<1>4. ASSUME NEW r \in Requests, Publish(r)
      PROVE  Typing'
  BY <1>4, PutType DEF Publish, HttpSteps, CompSteps, Workers
<1>5. ASSUME NEW r \in Requests, PublishFailed(r)
      PROVE  Typing'
  BY <1>5 DEF PublishFailed, HttpSteps, CompSteps, Workers
<1>6. ASSUME NEW r \in Requests, SagaTimeout(r)
      PROVE  Typing'
  BY <1>6 DEF SagaTimeout, Age, serverVars
<1>7. ASSUME NEW r \in Requests, FindByToken(r)
      PROVE  Typing'
  BY <1>7 DEF FindByToken, ClickSteps
<1>8. ASSUME NEW r \in Requests, ConfirmSub(r)
      PROVE  Typing'
  BY <1>8, StatementTypes DEF ConfirmSub, ClickSteps
<1>9. ASSUME NEW r \in Requests, Unsubscribe(r)
      PROVE  Typing'
  BY <1>9, StatementTypes DEF Unsubscribe, ClickSteps
<1>10. ASSUME NEW w \in Workers, CompensateGet(w)
       PROVE  Typing'
  BY <1>10 DEF CompensateGet, CompSteps
<1>11. ASSUME NEW w \in Workers, CompensateDelete(w)
       PROVE  Typing'
  BY <1>11, StatementTypes DEF CompensateDelete, CompSteps
<1>12. ASSUME NEW w \in Workers, CompensateMark(w)
       PROVE  Typing'
  BY <1>12, StatementTypes DEF CompensateMark, CompSteps
<1>13. ASSUME NEW kind \in EventKinds, NEW r \in Requests, ReceiveReply(kind, r)
       PROVE  Typing'
  BY <1>13, QueueTypes DEF ReceiveReply, ReplySteps, CompSteps, Workers
<1>14. ASSUME HandleSent
       PROVE  Typing'
  BY <1>14, StatementTypes DEF HandleSent, ReplySteps
<1>15. ASSUME FailedHandled
       PROVE  Typing'
  BY <1>15 DEF FailedHandled, ReplySteps, CompSteps, Workers
<1>16. ASSUME SettleReply
       PROVE  Typing'
  BY <1>16, PutType DEF SettleReply, ReplySteps, NoDelivery, EventKinds
<1>17. ASSUME LoseRepliesSession
       PROVE  Typing'
  <2>1. events' \in [EventKinds \X Requests -> Nat]
    BY <1>17, PutType DEF LoseRepliesSession
  <2>2. SubscribersTypeOK' /\ StoreTypeOK' /\ NotifierTypeOK' /\ AttemptLeft' /\ Serving'
    BY <1>17 DEF LoseRepliesSession
  <2>3. ServerTypeOK'
    BY <1>17 DEF LoseRepliesSession
  <2> QED
    BY <1>17, <2>1, <2>2, <2>3 DEF LoseRepliesSession
<1>18. ASSUME Sweep
       PROVE  Typing'
  BY <1>18 DEF Sweep, SweepSteps, GetPendingOlderThan
<1>19. ASSUME SweepNext
       PROVE  Typing'
  BY <1>19 DEF SweepNext, SweepSteps, NoSweep
<1>20. ASSUME RetryGet
       PROVE  Typing'
  BY <1>20 DEF RetryGet, SweepStep, FallThrough, SweepSteps, CompSteps, Workers
<1>21. ASSUME RetryLoad
       PROVE  Typing'
  BY <1>21 DEF RetryLoad, SweepStep, FallThrough, SweepSteps, CompSteps, Workers
<1>22. ASSUME RetryCall
       PROVE  Typing'
  <2>1. calls' \in [Calls -> OpenCalls]
    <3>1. CASE UNCHANGED calls
      BY <3>1, CallTypes
    <3>2. CASE \E c \in Calls : OpenCall(c, sweep.saga) /\ sweep.step = "call"
      <4>1. sweep.saga \in Requests
        BY <3>2
      <4> QED
        BY <3>2, <4>1, CallTypes, SetCall DEF OpenCall
    <3> QED
      BY <1>22, <3>1, <3>2 DEF RetryCall
  <2> QED
    BY <1>22, <2>1, CallsType DEF RetryCall, SweepStep, FallThrough, SweepSteps, CompSteps, Workers
<1>23. ASSUME NEW c \in Calls, RetryAnswered(c)
       PROVE  Typing'
  <2>1. calls' \in [Calls -> OpenCalls]
    BY <1>23, CallTypes DEF RetryAnswered
  <2> QED
    BY <1>23, <2>1, CallsType DEF RetryAnswered, SweepStep, FallThrough, SweepSteps, CompSteps, Workers
<1>24. ASSUME NEW c \in Calls, RetryTimesOut(c)
       PROVE  Typing'
  <2>1. calls' \in [Calls -> OpenCalls]
    BY <1>24, CallTypes DEF RetryTimesOut
  <2> QED
    BY <1>24, <2>1, CallsType DEF RetryTimesOut, SweepStep, FallThrough, SweepSteps, CompSteps, Workers
<1>25. ASSUME RetryComplete
       PROVE  Typing'
  <2>1. StoreTypeOK'
    BY <1>25, StatementTypes DEF RetryComplete
  <2>2. ServerTypeOK' /\ Serving'
    BY <1>25 DEF RetryComplete, SweepStep, FallThrough, SweepSteps, CompSteps, Workers
  <2> QED
    BY <1>25, <2>1, <2>2 DEF RetryComplete
<1>26. ASSUME SweptFailed
       PROVE  Typing'
  BY <1>26 DEF SweptFailed, SweepStep, SweepSteps, CompSteps, Workers
<1>27. ASSUME ServerCrash
       PROVE  Typing'
  <2>1. events' \in [EventKinds \X Requests -> Nat]
    BY <1>27, PutType DEF ServerCrash
  <2>2. calls' \in [Calls -> OpenCalls]
    BY <1>27, CallTypes DEF ServerCrash
  <2>3. ServerTypeOK'
    BY <1>27 DEF ServerCrash, HttpSteps, CompSteps, NoDelivery, NoSweep, ReplySteps, SweepSteps,
                 ClickSteps, EventKinds
  <2>4. SubscribersTypeOK' /\ StoreTypeOK' /\ NotifierTypeOK' /\ AttemptLeft' /\ Serving'
    BY <1>27 DEF ServerCrash, NoDelivery, NoSweep
  <2> QED
    BY <1>27, <2>1, <2>2, <2>3, <2>4, CallsType DEF ServerCrash
<1> QED
  BY <1>1, <1>2, <1>3, <1>4, <1>5, <1>6, <1>7, <1>8, <1>9, <1>10, <1>11, <1>12, <1>13,
     <1>14, <1>15, <1>16, <1>17, <1>18, <1>19, <1>20, <1>21, <1>22, <1>23, <1>24, <1>25,
     <1>26, <1>27
     DEF OrchestratorNext, Subscribe, HandleFailed, RepliesConsumer, TimeoutSweeper, AttemptSyncRetry

\* A step of the notifier keeps the types.
LEMMA TypingNotifier ==
    ASSUME Typing, NotifierNext, UNCHANGED <<storeVars, serverVars>>
    PROVE  Typing'
<1> USE FaultBoundsAssumption, ReplyAttemptsAssumption
    DEF Typing, AttemptLeft, Serving, CallsServe, TypeOK, SubscribersTypeOK, FaultsTypeOK, StoreTypeOK, TransportTypeOK,
        ServerTypeOK, NotifierTypeOK, storeVars, serverVars, transportVars, faultVars,
        NoFault, NotifierFault, SendOk, SendFails, Delivers
<1>1. ASSUME NEW r \in Requests, ReceiveCommand(r)
      PROVE  Typing'
  <2>1. commands' \in [Requests -> Nat]
    BY <1>1, QueueTypes DEF ReceiveCommand
  <2>2. cmd' = [step |-> "send", saga |-> r, sent |-> FALSE, tries |-> 0, stale |-> FALSE]
    BY <1>1 DEF ReceiveCommand, NoCommand
  <2>3. NotifierTypeOK' /\ AttemptLeft' /\ Serving'
    <3>1. dedupe' = dedupe
      BY <1>1 DEF ReceiveCommand
    <3>2. UNCHANGED <<replies, sweep>>
      OBVIOUS
    <3>3. cmd' \in [step : CmdSteps, saga : Requests \cup {NoRequest}, sent : BOOLEAN,
                   tries : 0..ReplyAttempts, stale : BOOLEAN]
      BY <2>2 DEF CmdSteps
    <3>4. cmd'.step = "send" /\ cmd'.saga \in Requests /\ cmd'.tries < ReplyAttempts
      BY <2>2
    <3> QED
      BY <3>1, <3>2, <3>3, <3>4
  <2> QED
    BY <1>1, <2>1, <2>3 DEF ReceiveCommand
<1>2. ASSUME SendCommanded
      PROVE  Typing'
  <2>1. SubscribersTypeOK'
    BY <1>2 DEF SendCommanded
  <2>2. UNCHANGED <<dedupe, replies, sweep>> /\ cmd.step = "send" /\ cmd'.step \in {"mark", "reply"}
    BY <1>2 DEF SendCommanded
  <2>3. cmd' \in [step : CmdSteps, saga : Requests \cup {NoRequest}, sent : BOOLEAN,
                 tries : 0..ReplyAttempts, stale : BOOLEAN]
    BY <1>2 DEF SendCommanded, CmdSteps
  <2>4. cmd'.saga = cmd.saga /\ cmd'.tries = cmd.tries
    BY <1>2 DEF SendCommanded
  <2>5. NotifierTypeOK' /\ AttemptLeft' /\ Serving'
    BY <2>2, <2>3, <2>4
  <2> QED
    BY <1>2, <2>1, <2>5 DEF SendCommanded
<1>3. ASSUME Mark
      PROVE  Typing'
  BY <1>3 DEF Mark, CmdSteps
<1>4. ASSUME PublishReply
      PROVE  Typing'
  <2>1. events' \in [EventKinds \X Requests -> Nat]
    BY <1>4, PutType DEF PublishReply
  <2>2. NotifierTypeOK' /\ AttemptLeft' /\ Serving'
    <3>1. dedupe' = dedupe /\ cmd.tries < ReplyAttempts /\ cmd.saga \in Requests
      BY <1>4 DEF PublishReply
    <3>2. CASE cmd' = [cmd EXCEPT !.step = "ack"]
      BY <3>1, <3>2 DEF CmdSteps
    <3>3. CASE cmd' = [cmd EXCEPT !.tries = @ + 1,
                                  !.step = IF cmd.tries + 1 = ReplyAttempts THEN "ack" ELSE @]
      <4>1. cmd.tries + 1 \in 0..ReplyAttempts /\ cmd.step = "reply"
        BY <1>4, <3>1 DEF PublishReply
      <4>2. CASE cmd.tries + 1 = ReplyAttempts
        <5>1. cmd' = [cmd EXCEPT !.tries = cmd.tries + 1, !.step = "ack"]
          BY <3>3, <4>2
        <5> QED
          BY <3>1, <4>1, <5>1 DEF CmdSteps
      <4>3. CASE cmd.tries + 1 # ReplyAttempts
        <5>1. cmd' = [cmd EXCEPT !.tries = cmd.tries + 1]
          BY <3>3, <4>3
        <5>2. cmd.tries + 1 < ReplyAttempts
          BY <4>1, <4>3
        <5> QED
          BY <3>1, <4>1, <5>1, <5>2 DEF CmdSteps
      <4> QED
        BY <4>2, <4>3
    <3> QED
      BY <1>4, <3>2, <3>3 DEF PublishReply
  <2>3. SubscribersTypeOK' /\ StoreTypeOK' /\ ServerTypeOK'
    BY <1>4 DEF PublishReply
  <2> QED
    BY <1>4, <2>1, <2>2, <2>3 DEF PublishReply
<1>5. ASSUME AckCommand
      PROVE  Typing'
  BY <1>5 DEF AckCommand, NoCommand, CmdSteps
<1>6. ASSUME LoseCommandSession
      PROVE  Typing'
  <2>1. commands' \in [Requests -> Nat]
    BY <1>6, PutType DEF LoseCommandSession
  <2>2. NotifierTypeOK' /\ AttemptLeft' /\ Serving'
    BY <1>6 DEF LoseCommandSession
  <2>3. SubscribersTypeOK'
    BY <1>6 DEF LoseCommandSession
  <2> QED
    BY <1>6, <2>1, <2>2, <2>3 DEF LoseCommandSession
<1>7. ASSUME NEW c \in Calls, TryClaim(c)
      PROVE  Typing'
  <2>1. calls' \in [Calls -> OpenCalls]
    <3>1. CASE Answer(c, "ok")
      BY <3>1, CallTypes, SetCall DEF Answer, CallSteps
    <3>2. CASE calls' = [calls EXCEPT ![c].step = "send"]
      <4>1. [calls[c] EXCEPT !.step = "send"] \in OpenCalls
        BY <1>7, CallTypes DEF TryClaim
      <4> QED
        BY <3>2, <4>1, SetCall
    <3> QED
      BY <1>7, <3>1, <3>2 DEF TryClaim
  <2>2. dedupe' \in SUBSET Requests
    BY <1>7 DEF TryClaim
  <2> QED
    BY <1>7, <2>1, <2>2, CallsType DEF TryClaim
<1>8. ASSUME NEW c \in Calls, SendClaimed(c)
      PROVE  Typing'
  <2>1. calls' \in [Calls -> OpenCalls]
    <3>1. Answer(c, "ok") \/ Answer(c, "err")
      BY <1>8 DEF SendClaimed
    <3> QED
      BY <3>1, CallTypes, SetCall DEF Answer, CallSteps
  <2>2. SubscribersTypeOK'
    BY <1>8 DEF SendClaimed
  <2> QED
    BY <1>8, <2>1, <2>2, CallsType DEF SendClaimed
<1>9. ASSUME NotifierCrash
      PROVE  Typing'
  <2>1. calls' \in [Calls -> OpenCalls]
    BY <1>9, CallTypes DEF NotifierCrash, CallSteps
  <2>2. commands' \in [Requests -> Nat]
    BY <1>9, PutType DEF NotifierCrash
  <2>3. NotifierTypeOK' /\ AttemptLeft' /\ Serving'
    BY <1>9 DEF NotifierCrash, NoCommand, CmdSteps
  <2>4. SubscribersTypeOK'
    BY <1>9 DEF NotifierCrash
  <2> QED
    BY <1>9, <2>1, <2>2, <2>3, <2>4, CallsType DEF NotifierCrash
<1>10. ASSUME NEW r \in Requests, Forget(r)
       PROVE  Typing'
  BY <1>10 DEF Forget
<1> QED
  BY <1>1, <1>2, <1>3, <1>4, <1>5, <1>6, <1>7, <1>8, <1>9, <1>10
     DEF NotifierNext, CommandConsumer, GrpcServer

\* Type correctness: every table, queue, call and handler of the saga stays
\* in its type, and a reply is never tried more often than the code allows.
LEMMA TypingInvariant == Spec => []Typing
<1>1. Typing /\ UNCHANGED vars => Typing'
  BY DEF Typing, AttemptLeft, Serving, CallsServe, TypeOK, SubscribersTypeOK, FaultsTypeOK, StoreTypeOK, TransportTypeOK,
         ServerTypeOK, NotifierTypeOK, vars, storeVars, transportVars, serverVars,
         notifierVars, faultVars
<1>2. Typing /\ [Next]_vars => Typing'
  BY <1>1, TypingServer, TypingNotifier DEF Next, ServerStep, NotifierStep
<1> QED
  BY <1>2, TypingInit, PTL DEF Spec

THEOREM SagaTypeOK == Spec => []TypeOK
<1>1. Typing => TypeOK
  BY DEF Typing
<1> QED
  BY <1>1, TypingInvariant, PTL

-----------------------------------------------------------------------------
(* The journal.  A step of the system executes at most one statement.      *)

Statement(r) ==
    \/ http[r] = "create" /\ http'[r] \in {"publish", "error"} /\ CreateWithSaga(r)
    \/ click[r] = "confirm" /\ Confirm(r)
    \/ click[r] = "unsubscribe" /\ Delete(r)
    \/ Age(r)

WorkerStatement(w) ==
    \/ comp[w] = "delete" /\ Delete(SagaOf(w))
    \/ comp[w] = "mark" /\ MarkCompensated(SagaOf(w))

OneStatement ==
    \/ UNCHANGED storeVars
    \/ \E r \in Requests : Statement(r)
    \/ \E w \in Workers : WorkerStatement(w)
    \/ replies.step = "complete" /\ MarkCompleted(replies.saga)
    \/ sweep.step = "complete" /\ MarkCompleted(sweep.saga)

LEMMA StepStatement ==
    ASSUME Typing, [Next]_vars
    PROVE  OneStatement
<1> USE DEF OneStatement, storeVars, Answers, Breaks
<1>1. CASE UNCHANGED vars
  BY <1>1 DEF vars
<1>2. CASE NotifierStep
  BY <1>2 DEF NotifierStep
<1>3. CASE ServerStep
  <2>1. ASSUME NEW r \in Requests, Admit(r) \/ CheckExists(r) \/ Publish(r) \/ PublishFailed(r)
                                    \/ FindByToken(r)
        PROVE  OneStatement
    BY <2>1 DEF Admit, CheckExists, Publish, PublishFailed, FindByToken
  <2>2. ASSUME NEW r \in Requests, Create(r)
        PROVE  OneStatement
    <3>1. http[r] = "create" /\ http'[r] \in {"publish", "error"}
      BY <2>2 DEF Create, Goto, Typing, TypeOK, ServerTypeOK
    <3> QED
      BY <2>2, <3>1 DEF Create, Statement
  <2>3. ASSUME NEW r \in Requests, ConfirmSub(r) \/ Unsubscribe(r) \/ SagaTimeout(r)
        PROVE  OneStatement
    BY <2>3 DEF ConfirmSub, Unsubscribe, SagaTimeout, Statement
  <2>4. ASSUME NEW w \in Workers, HandleFailed(w)
        PROVE  OneStatement
    BY <2>4 DEF HandleFailed, CompensateGet, CompensateDelete, CompensateMark, WorkerStatement
  <2>5. ASSUME RepliesConsumer \/ LoseRepliesSession
        PROVE  OneStatement
    BY <2>5 DEF RepliesConsumer, LoseRepliesSession, ReceiveReply, HandleSent, FailedHandled, SettleReply
  <2>6. ASSUME TimeoutSweeper
        PROVE  OneStatement
    BY <2>6 DEF TimeoutSweeper, Sweep, SweepNext, AttemptSyncRetry, RetryGet, RetryLoad, RetryCall,
                RetryAnswered, RetryComplete, SweptFailed
  <2>7. ASSUME ServerCrash \/ \E c \in Calls : RetryTimesOut(c)
        PROVE  OneStatement
    BY <2>7 DEF ServerCrash, RetryTimesOut
  <2> QED
    BY <1>3, <2>1, <2>2, <2>3, <2>4, <2>5, <2>6, <2>7
       DEF ServerStep, OrchestratorNext, Subscribe
<1> QED
  BY <1>1, <1>2, <1>3 DEF Next

LEMMA JournalStep ==
    ASSUME Typing, JournalMatchesSubs, OneStatement
    PROVE  JournalMatchesSubs'
<1> USE DEF Typing, TypeOK, StoreTypeOK, SubRows, SagaStates, JournalMatchesSubs, HasSub, IsPending
<1>1. CASE UNCHANGED storeVars
  BY <1>1 DEF storeVars
<1>2. ASSUME NEW r, CreateWithSaga(r) \/ Confirm(r) \/ Delete(r) \/ Age(r)
      PROVE  JournalMatchesSubs'
  BY <1>2 DEF CreateWithSaga, Confirm, Delete, Age
<1>3. ASSUME NEW r, MarkCompleted(r) \/ MarkCompensated(r)
      PROVE  JournalMatchesSubs'
  BY <1>3 DEF MarkCompleted, MarkCompensated, markTerminal
<1> QED
  BY <1>1, <1>2, <1>3 DEF OneStatement, Statement, WorkerStatement

\* The two tables agree in every state: CreateWithSaga's transaction and the
\* cascade of the foreign key leave no subscription without its saga, and no
\* saga without its subscription.
THEOREM JournalCoversSubs == Spec => []JournalMatchesSubs
<1>1. Init => JournalMatchesSubs
  BY DEF Init, StoreInit, JournalMatchesSubs
<1>2. Typing /\ JournalMatchesSubs /\ [Next]_vars => JournalMatchesSubs'
  BY StepStatement, JournalStep
<1> QED
  BY <1>1, <1>2, TypingInvariant, PTL DEF Spec

-----------------------------------------------------------------------------
(* How a saga ends.  A worker compensates only within the handler that     *)
(* called it, only a saga whose rows were once created, and by the time it *)
(* marks the saga the rows are gone.  As CreateWithSaga runs once for a    *)
(* request, they do not come back and the mark matches no row.             *)

EarlySteps == {"new", "exists", "create"}

Agreement ==
    /\ \A r \in Requests : comp[r] # "idle" => http[r] = "compensate"
    /\ comp["replies"] # "idle" => replies.step = "compensate"
    /\ comp["sweeper"] # "idle" => sweep.step = "compensate"

CreatedOnce == \A r \in Requests : http[r] \in EarlySteps => sagas[r] = "absent"

DeletedForGood ==
    \A w \in Workers :
        /\ comp[w] \in {"delete", "mark"} => http[SagaOf(w)] \notin EarlySteps
        /\ comp[w] = "mark" => sagas[SagaOf(w)] = "absent"

Compensation == Agreement /\ CreatedOnce /\ DeletedForGood /\ SagaEndsCompletedOrGone

LEMMA CompensationInit == Init => Compensation
BY DEF Init, StoreInit, ServerInit, Compensation, Agreement, CreatedOnce, DeletedForGood,
       SagaEndsCompletedOrGone, Workers, EarlySteps

\* A compensating worker compensates a request's saga.
LEMMA SagaOfWorker ==
    ASSUME Typing, Agreement, NEW w \in Workers, comp[w] # "idle"
    PROVE  SagaOf(w) \in Requests
BY WorkersAssumption DEF Typing, Serving, Agreement, SagaOf, Workers

Creates(r) == http[r] = "create" /\ http'[r] \notin EarlySteps

\* The statements of the database, as far as journal and tables tell.
LEMMA StatementEnds ==
    ASSUME Typing, Compensation, OneStatement
    PROVE  /\ SagaEndsCompletedOrGone'
           /\ \A r \in Requests :
                 sagas[r] = "absent" /\ ~Creates(r) => sagas'[r] = "absent"
<1> USE DEF Typing, TypeOK, StoreTypeOK, SubRows, SagaStates, SagaEndsCompletedOrGone, Compensation, IsPending
<1>1. CASE UNCHANGED storeVars
  BY <1>1 DEF storeVars
<1>2. ASSUME NEW r \in Requests, Statement(r)
      PROVE  /\ SagaEndsCompletedOrGone'
             /\ \A q \in Requests : sagas[q] = "absent" /\ ~Creates(q) => sagas'[q] = "absent"
  BY <1>2 DEF Statement, Creates, EarlySteps, CreateWithSaga, Confirm, Delete, Age
<1>3. ASSUME NEW w \in Workers, WorkerStatement(w)
      PROVE  /\ SagaEndsCompletedOrGone'
             /\ \A q \in Requests : sagas[q] = "absent" /\ ~Creates(q) => sagas'[q] = "absent"
  <2>1. SagaOf(w) \in Requests
    BY <1>3, SagaOfWorker DEF WorkerStatement
  <2> QED
    BY <1>3, <2>1 DEF WorkerStatement, DeletedForGood, Delete, MarkCompensated, markTerminal
<1>4. ASSUME NEW r, MarkCompleted(r)
      PROVE  /\ SagaEndsCompletedOrGone'
             /\ \A q \in Requests : sagas[q] = "absent" /\ ~Creates(q) => sagas'[q] = "absent"
  BY <1>4 DEF MarkCompleted, markTerminal
<1> QED
  BY <1>1, <1>2, <1>3, <1>4 DEF OneStatement

\* What a step does to the handlers and the workers: no handler returns to
\* its early steps, and a worker past its check either keeps its place and
\* its saga, or has just passed the check, or has just deleted.
KeepsWork(w) ==
    \/ comp'[w] \notin {"delete", "mark"}
    \/ comp'[w] = comp[w] /\ SagaOf(w)' = SagaOf(w)
    \/ CompensateGet(w)
    \/ CompensateDelete(w) /\ Delete(SagaOf(w))

Control ==
    /\ Agreement'
    /\ \A r \in Requests : http'[r] \in EarlySteps => http[r] \in EarlySteps
    /\ \A w \in Workers : KeepsWork(w)

LEMMA ControlStep ==
    ASSUME Typing, Agreement, [Next]_vars
    PROVE  Control
<1> USE WorkersAssumption
    DEF Typing, TypeOK, ServerTypeOK, Agreement, EarlySteps, Control, KeepsWork, SagaOf, Workers, Goto
<1>1. CASE UNCHANGED vars
  BY <1>1 DEF vars, serverVars
<1>2. CASE NotifierStep
  BY <1>2 DEF NotifierStep, serverVars
<1>3. ASSUME NEW r \in Requests, Admit(r) \/ CheckExists(r) \/ Create(r)
      PROVE  Control
  BY <1>3 DEF Admit, CheckExists, Create
<1>4. ASSUME NEW r \in Requests, Publish(r)
      PROVE  Control
  BY <1>4 DEF Publish
<1>5. ASSUME NEW r \in Requests, PublishFailed(r)
      PROVE  Control
  BY <1>5 DEF PublishFailed
<1>6. ASSUME NEW r \in Requests, FindByToken(r) \/ ConfirmSub(r) \/ Unsubscribe(r) \/ SagaTimeout(r)
      PROVE  Control
  BY <1>6 DEF FindByToken, ConfirmSub, Unsubscribe, SagaTimeout, serverVars
<1>7. ASSUME NEW w \in Workers, CompensateGet(w)
      PROVE  Control
  BY <1>7 DEF CompensateGet
<1>8. ASSUME NEW w \in Workers, CompensateDelete(w)
      PROVE  Control
  BY <1>8 DEF CompensateDelete, Answers, Breaks
<1>9. ASSUME NEW w \in Workers, CompensateMark(w)
      PROVE  Control
  BY <1>9 DEF CompensateMark
<1>10. ASSUME NEW kind \in EventKinds, NEW r \in Requests, ReceiveReply(kind, r)
       PROVE  Control
  BY <1>10 DEF ReceiveReply
<1>11. ASSUME HandleSent \/ SettleReply \/ LoseRepliesSession
       PROVE  Control
  BY <1>11 DEF HandleSent, SettleReply, LoseRepliesSession, NoDelivery
<1>12. ASSUME FailedHandled
       PROVE  Control
  BY <1>12 DEF FailedHandled
<1>13. ASSUME Sweep \/ SweepNext
       PROVE  Control
  BY <1>13 DEF Sweep, SweepNext, NoSweep
<1>14. ASSUME RetryGet \/ RetryLoad \/ RetryCall \/ RetryComplete
       PROVE  Control
  BY <1>14 DEF RetryGet, RetryLoad, RetryCall, RetryComplete, SweepStep, FallThrough
<1>15. ASSUME NEW c \in Calls, RetryAnswered(c) \/ RetryTimesOut(c)
       PROVE  Control
  BY <1>15 DEF RetryAnswered, RetryTimesOut, SweepStep, FallThrough
<1>16. ASSUME SweptFailed
       PROVE  Control
  BY <1>16 DEF SweptFailed, SweepStep
<1>17. ASSUME ServerCrash
       PROVE  Control
  BY <1>17 DEF ServerCrash
<1> QED
  BY <1>1, <1>2, <1>3, <1>4, <1>5, <1>6, <1>7, <1>8, <1>9, <1>10, <1>11, <1>12, <1>13, <1>14,
     <1>15, <1>16, <1>17
     DEF Next, ServerStep, OrchestratorNext, Subscribe, HandleFailed, RepliesConsumer,
         TimeoutSweeper, AttemptSyncRetry

LEMMA CompensationStep ==
    ASSUME Typing, Compensation, [Next]_vars
    PROVE  Compensation'
<1>1. Control
  BY ControlStep DEF Compensation
<1>2. /\ SagaEndsCompletedOrGone'
      /\ \A r \in Requests : sagas[r] = "absent" /\ ~Creates(r) => sagas'[r] = "absent"
  BY StepStatement, StatementEnds
<1>3. CreatedOnce'
  BY <1>1, <1>2 DEF Control, Compensation, CreatedOnce, Creates
<1>4. ASSUME NEW w \in Workers
      PROVE  /\ comp'[w] \in {"delete", "mark"} => http'[SagaOf(w)'] \notin EarlySteps
             /\ comp'[w] = "mark" => sagas'[SagaOf(w)'] = "absent"
  <2>1. CASE comp'[w] = comp[w] /\ SagaOf(w)' = SagaOf(w)
    <3>1. CASE comp[w] \in {"delete", "mark"}
      <4>1. SagaOf(w) \in Requests /\ http[SagaOf(w)] \notin EarlySteps
        BY <3>1, SagaOfWorker DEF Compensation, DeletedForGood
      <4>2. http'[SagaOf(w)] \notin EarlySteps
        BY <1>1, <4>1 DEF Control
      <4>3. comp[w] = "mark" => sagas'[SagaOf(w)] = "absent"
        BY <1>2, <4>1 DEF Compensation, DeletedForGood, Creates, EarlySteps
      <4> QED
        BY <2>1, <4>2, <4>3
    <3> QED
      BY <2>1, <3>1
  <2>2. CASE CompensateGet(w)
    <3>1. /\ SagaOf(w) \in Requests
          /\ http' = http /\ replies' = replies /\ sweep' = sweep
          /\ comp'[w] # "mark"
          /\ comp'[w] = "delete" => IsPending(SagaOf(w))
      BY <2>2, SagaOfWorker DEF CompensateGet, Goto, Compensation, Typing, TypeOK, ServerTypeOK
    <3>2. SagaOf(w)' = SagaOf(w)
      BY <3>1 DEF SagaOf
    <3> QED
      BY <3>1, <3>2 DEF IsPending, Compensation, CreatedOnce
  <2>3. CASE CompensateDelete(w) /\ Delete(SagaOf(w))
    <3>1. /\ SagaOf(w) \in Requests /\ comp[w] = "delete"
          /\ http' = http /\ replies' = replies /\ sweep' = sweep
      BY <2>3, SagaOfWorker DEF CompensateDelete, Compensation
    <3>2. SagaOf(w)' = SagaOf(w)
      BY <3>1 DEF SagaOf
    <3>3. sagas'[SagaOf(w)] = "absent"
      BY <2>3, <3>1 DEF Delete, Typing, TypeOK, StoreTypeOK
    <3> QED
      BY <3>1, <3>2, <3>3 DEF Compensation, DeletedForGood
  <2>4. KeepsWork(w)
    BY <1>1 DEF Control
  <2> QED
    BY <2>1, <2>2, <2>3, <2>4 DEF KeepsWork
<1> QED
  BY <1>1, <1>2, <1>3, <1>4 DEF Compensation, Control, DeletedForGood

\* A saga is pending, completed or without a row; the terminal states
\* compensated and timed_out are never recorded.
THEOREM SagaEnds == Spec => []SagaEndsCompletedOrGone
<1>1. Typing /\ Compensation /\ [Next]_vars => Compensation'
  BY CompensationStep
<1>2. Compensation => SagaEndsCompletedOrGone
  BY DEF Compensation
<1> QED
  BY <1>1, <1>2, CompensationInit, TypingInvariant, PTL DEF Spec

-----------------------------------------------------------------------------
(* What the server does leaves the notifier's side alone. *)

LEMMA ServerQuiet ==
    ASSUME ServerStep
    PROVE  UNCHANGED <<notifierVars, mailbox, notifierFaults>>
BY DEF ServerStep, OrchestratorNext, Subscribe, HandleFailed, RepliesConsumer, TimeoutSweeper,
       AttemptSyncRetry, Admit, CheckExists, Create, Publish, PublishFailed, SagaTimeout,
       FindByToken, ConfirmSub, Unsubscribe, CompensateGet, CompensateDelete, CompensateMark,
       ReceiveReply, HandleSent, FailedHandled, SettleReply, LoseRepliesSession, Sweep,
       SweepNext, RetryGet, RetryLoad, RetryCall, RetryAnswered, RetryTimesOut, RetryComplete,
       SweptFailed, ServerCrash, Answers, Breaks, NoFault, ServerFault, faultVars

\* An email that was delivered stays delivered.
LEMMA MailStays ==
    ASSUME Typing, Next
    PROVE  \A r \in Requests : mailbox[r] > 0 => mailbox'[r] > 0
<1>1. CASE ServerStep
  BY <1>1, ServerQuiet
<1>2. NotifierStep => UNCHANGED mailbox \/ \E q : Delivers(q)
  BY DEF NotifierStep, NotifierNext, CommandConsumer, GrpcServer, ReceiveCommand, SendCommanded, Mark,
         PublishReply, AckCommand, LoseCommandSession, TryClaim, SendClaimed, NotifierCrash, Forget,
         SendOk, SendFails
<1>3. ASSUME NEW q, Delivers(q)
      PROVE  \A r \in Requests : mailbox[r] > 0 => mailbox'[r] > 0
  BY <1>3 DEF Delivers, Typing, TypeOK, SubscribersTypeOK
<1> QED
  BY <1>1, <1>2, <1>3 DEF Next

-----------------------------------------------------------------------------
(* The trail of the email.  A command marked sent, a reply "sent" in the   *)
(* queue and one in hand all go back to a delivered email, however calls   *)
(* overlap.                                                                *)

EventsMailed == \A r \in Requests : events[<<"sent", r>>] > 0 => mailbox[r] > 0

ReplyMailed ==
    /\ replies.step # "idle" /\ replies.kind = "sent" => mailbox[replies.saga] > 0
    /\ replies.step = "complete" => replies.kind = "sent"

CommandMailed ==
    /\ cmd.sent => cmd.step # "idle" /\ mailbox[cmd.saga] > 0
    /\ cmd.step = "mark" => cmd.sent

Trail == EventsMailed /\ ReplyMailed /\ CommandMailed

LEMMA TrailServer ==
    ASSUME Typing, Trail, ServerStep
    PROVE  Trail'
<1> USE WorkersAssumption
    DEF Typing, TypeOK, ServerTypeOK, TransportTypeOK, EventKinds, Serving, Trail, EventsMailed,
        ReplyMailed, CommandMailed, Goto
<1>1. UNCHANGED <<dedupe, cmd, mailbox>>
  BY ServerQuiet DEF notifierVars
<1>2. ASSUME UNCHANGED <<events, replies>> PROVE Trail'
  BY <1>1, <1>2
<1>3. ASSUME NEW r \in Requests,
             Admit(r) \/ Subscribe(r) \/ SagaTimeout(r) \/ FindByToken(r) \/ ConfirmSub(r) \/ Unsubscribe(r)
      PROVE  UNCHANGED <<events, replies>>
  BY <1>3 DEF Subscribe, Admit, CheckExists, Create, Publish, PublishFailed, SagaTimeout, FindByToken,
              ConfirmSub, Unsubscribe, transportVars, serverVars
<1>4. ASSUME NEW w \in Workers, HandleFailed(w)
      PROVE  UNCHANGED <<events, replies>>
  BY <1>4 DEF HandleFailed, CompensateGet, CompensateDelete, CompensateMark, transportVars
<1>5. ASSUME TimeoutSweeper \/ \E c \in Calls : RetryTimesOut(c)
      PROVE  UNCHANGED <<events, replies>>
  BY <1>5 DEF TimeoutSweeper, Sweep, SweepNext, AttemptSyncRetry, RetryGet, RetryLoad, RetryCall,
              RetryAnswered, RetryTimesOut, RetryComplete, SweptFailed, transportVars
<1>6. ASSUME NEW kind \in EventKinds, NEW r \in Requests, ReceiveReply(kind, r)
      PROVE  Trail'
  <2>1. /\ \A e \in EventKinds \X Requests : events'[e] > 0 => events[e] > 0
        /\ replies'.kind = kind /\ replies'.saga = r
        /\ kind = "sent" => events[<<"sent", r>>] > 0
        /\ replies'.step = "complete" => kind = "sent"
    BY <1>6 DEF ReceiveReply, Take
  <2> QED
    BY <1>1, <2>1
<1>7. ASSUME HandleSent \/ FailedHandled
      PROVE  Trail'
  BY <1>1, <1>7 DEF HandleSent, FailedHandled, transportVars
<1>8. ASSUME SettleReply \/ LoseRepliesSession \/ ServerCrash
      PROVE  Trail'
  BY <1>1, <1>8 DEF SettleReply, LoseRepliesSession, ServerCrash, Put, NoDelivery
<1> HIDE DEF Trail, Typing
<1> QED
  BY <1>2, <1>3, <1>4, <1>5, <1>6, <1>7, <1>8 DEF ServerStep, OrchestratorNext, RepliesConsumer

LEMMA TrailNotifier ==
    ASSUME Typing, Trail, NotifierStep
    PROVE  Trail'
<1> USE DEF Typing, TypeOK, TransportTypeOK, NotifierTypeOK, SubscribersTypeOK, EventKinds, Serving, Trail,
            EventsMailed, ReplyMailed, CommandMailed, transportVars, SendOk, SendFails, Delivers
<1>1. \A r \in Requests : mailbox[r] > 0 => mailbox'[r] > 0
  BY MailStays DEF Next
<1>2. ReplyMailed'
  BY <1>1 DEF NotifierStep, serverVars
<1> USE <1>1, <1>2
<1>3. ASSUME NEW r \in Requests, ReceiveCommand(r)
      PROVE  Trail'
  BY <1>3 DEF ReceiveCommand, NoCommand
<1>4. ASSUME SendCommanded
      PROVE  Trail'
  <2>1. UNCHANGED events
    BY <1>4 DEF SendCommanded
  <2>2. CASE SendOk(cmd.saga) /\ cmd' = [cmd EXCEPT !.step = "mark", !.sent = TRUE]
    BY <1>4, <2>1, <2>2 DEF SendCommanded
  <2>3. CASE cmd' = [cmd EXCEPT !.step = "reply"]
    BY <1>4, <2>1, <2>3 DEF SendCommanded
  <2> QED
    BY <1>4, <2>2, <2>3 DEF SendCommanded
<1>5. ASSUME Mark
      PROVE  Trail'
  BY <1>5 DEF Mark
<1>6. ASSUME PublishReply
      PROVE  Trail'
  <2>1. events' = events \/ events' = Put(events, Reply)
    BY <1>6 DEF PublishReply
  <2>2. EventsMailed'
    BY <1>6, <2>1 DEF PublishReply, Reply, Put
  <2>3. cmd'.saga = cmd.saga /\ cmd'.sent = cmd.sent /\ cmd'.step \in {"reply", "ack"}
    <3>1. CASE cmd' = [cmd EXCEPT !.step = "ack"]
      BY <3>1
    <3>2. CASE cmd' = [cmd EXCEPT !.tries = @ + 1,
                                  !.step = IF cmd.tries + 1 = ReplyAttempts THEN "ack" ELSE @]
      BY <1>6, <3>2 DEF PublishReply
    <3> QED
      BY <1>6, <3>1, <3>2 DEF PublishReply
  <2>4. CommandMailed'
    BY <1>6, <2>3 DEF PublishReply
  <2> QED
    BY <2>2, <2>4
<1>7. ASSUME AckCommand \/ LoseCommandSession
      PROVE  Trail'
  BY <1>7 DEF AckCommand, LoseCommandSession, NoCommand
<1>8. ASSUME NEW c \in Calls, TryClaim(c) \/ SendClaimed(c)
      PROVE  Trail'
  BY <1>8 DEF TryClaim, SendClaimed
<1>9. ASSUME NotifierCrash
      PROVE  Trail'
  BY <1>9 DEF NotifierCrash, NoCommand
<1>10. ASSUME NEW r \in Requests, Forget(r)
       PROVE  Trail'
  BY <1>10 DEF Forget
<1> HIDE DEF Trail, Typing
<1> QED
  BY <1>3, <1>4, <1>5, <1>6, <1>7, <1>8, <1>9, <1>10
     DEF NotifierStep, NotifierNext, CommandConsumer, GrpcServer

\* The server takes an answer OK for its word, and makes none up.
ServerReads ==
    /\ \A c \in Calls : calls'[c].step = "ok" => calls[c].step = "ok" /\ calls'[c].saga = calls[c].saga
    /\ \A c \in Calls : calls[c].step = "send" => calls'[c].step = "send" /\ calls'[c].saga = calls[c].saga
    /\ \/ sweep'.step # "complete"
       \/ sweep' = sweep
       \/ \E c \in Calls : calls[c].step = "ok" /\ calls[c].saga = sweep'.saga

LEMMA ServerReadsStep ==
    ASSUME Typing, ServerStep
    PROVE  ServerReads
<1> USE DEF Typing, TypeOK, ServerTypeOK, TransportTypeOK, CallRecords, CallSteps, ServerReads, Goto
<1>1. ASSUME NEW r \in Requests,
             Admit(r) \/ Subscribe(r) \/ SagaTimeout(r) \/ FindByToken(r) \/ ConfirmSub(r) \/ Unsubscribe(r)
      PROVE  UNCHANGED <<calls, sweep>>
  BY <1>1 DEF Admit, Subscribe, CheckExists, Create, Publish, PublishFailed, SagaTimeout, FindByToken,
              ConfirmSub, Unsubscribe, transportVars, serverVars
<1>2. ASSUME NEW w \in Workers, HandleFailed(w)
      PROVE  UNCHANGED <<calls, sweep>>
  BY <1>2 DEF HandleFailed, CompensateGet, CompensateDelete, CompensateMark, transportVars
<1>3. ASSUME RepliesConsumer \/ LoseRepliesSession
      PROVE  UNCHANGED <<calls, sweep>>
  BY <1>3 DEF RepliesConsumer, ReceiveReply, HandleSent, FailedHandled, SettleReply, LoseRepliesSession,
              transportVars
<1>4. ASSUME Sweep \/ SweepNext \/ RetryGet \/ RetryLoad \/ RetryComplete \/ SweptFailed
      PROVE  ServerReads
  <2>1. UNCHANGED calls
    BY <1>4 DEF Sweep, SweepNext, RetryGet, RetryLoad, RetryComplete, SweptFailed, transportVars
  <2>2. CASE Sweep \/ SweepNext
    <3>1. CASE Sweep
      BY <2>1, <3>1 DEF Sweep
    <3>2. ASSUME SweepNext PROVE sweep'.step \in {"idle", "get"}
      BY <3>2 DEF SweepNext, NoSweep
    <3> QED
      BY <2>1, <2>2, <3>1, <3>2
  <2>3. CASE RetryGet \/ RetryLoad \/ RetryComplete \/ SweptFailed
    <3>1. sweep'.step # "complete"
      BY <2>3 DEF RetryGet, RetryLoad, RetryComplete, SweptFailed, SweepStep, FallThrough
    <3> QED
      BY <2>1, <3>1
  <2> QED
    BY <1>4, <2>2, <2>3
<1>5. ASSUME RetryCall
      PROVE  ServerReads
  <2>1. sweep'.step # "complete"
    BY <1>5 DEF RetryCall, SweepStep, FallThrough
  <2>2. UNCHANGED calls \/ \E c \in Calls : OpenCall(c, sweep.saga)
    BY <1>5 DEF RetryCall
  <2>3. ASSUME NEW c \in Calls, OpenCall(c, sweep.saga)
        PROVE  ServerReads
    BY <2>1, <2>3 DEF OpenCall
  <2> QED
    BY <2>1, <2>2, <2>3
<1>6. ASSUME NEW c \in Calls, RetryAnswered(c)
      PROVE  ServerReads
  BY <1>6 DEF RetryAnswered, MyCall, FreeCall, SweepStep, FallThrough
<1>7. ASSUME NEW c \in Calls, RetryTimesOut(c)
      PROVE  ServerReads
  BY <1>7 DEF RetryTimesOut, Abandoned, FreeCall, SweepStep, FallThrough
<1>8. ASSUME ServerCrash
      PROVE  ServerReads
  BY <1>8 DEF ServerCrash, Abandoned, FreeCall, NoSweep
<1>9. ASSUME UNCHANGED <<calls, sweep>> PROVE ServerReads
  BY <1>9
<1> HIDE DEF ServerReads, Typing
<1> QED
  BY <1>1, <1>2, <1>3, <1>4, <1>5, <1>6, <1>7, <1>8, <1>9
     DEF ServerStep, OrchestratorNext, TimeoutSweeper, AttemptSyncRetry

-----------------------------------------------------------------------------
(* Completed means mailed.  Whatever can lead to a completed saga - a reply *)
(* "sent", a dedupe entry without a send under way, an answer OK - goes    *)
(* back to a delivered email.  It takes that no two calls are open at a    *)
(* time: the entry a running call holds would answer the other one OK.     *)

DedupeMailed ==
    \A r \in dedupe :
        mailbox[r] > 0 \/ \E c \in Calls : calls[c].step = "send" /\ calls[c].saga = r

CallsMailed == \A c \in Calls : calls[c].step = "ok" => mailbox[calls[c].saga] > 0

SweepMailed == sweep.step = "complete" => mailbox[sweep.saga] > 0

Mailed == Trail /\ DedupeMailed /\ CallsMailed /\ SweepMailed /\ CompletedMeansMailed

LEMMA MailedInit == Init => Mailed
BY DEF Init, SubscribersInit, FaultsInit, StoreInit, TransportInit, ServerInit, NotifierInit, NoDelivery,
       NoSweep, NoCommand, FreeCall, EventKinds, Mailed, Trail, EventsMailed, ReplyMailed,
       CommandMailed, DedupeMailed, CallsMailed, SweepMailed, CompletedMeansMailed

\* Only a statement that completes the saga of a reply or of the sweeper makes
\* a saga completed.
LEMMA CompletedMailedStep ==
    ASSUME Typing, Mailed, OneStatement,
           \A r \in Requests : mailbox[r] > 0 => mailbox'[r] > 0
    PROVE  CompletedMeansMailed'
<1> USE DEF Typing, TypeOK, StoreTypeOK, Serving, Mailed, CompletedMeansMailed
<1>1. CASE UNCHANGED storeVars
  BY <1>1 DEF storeVars
<1>2. ASSUME NEW r, CreateWithSaga(r) \/ Confirm(r) \/ Delete(r) \/ Age(r) \/ MarkCompensated(r)
      PROVE  CompletedMeansMailed'
  BY <1>2 DEF CreateWithSaga, Confirm, Delete, Age, MarkCompensated, markTerminal
<1>3. CASE replies.step = "complete" /\ MarkCompleted(replies.saga)
  BY <1>3 DEF MarkCompleted, markTerminal, Trail, ReplyMailed
<1>4. CASE sweep.step = "complete" /\ MarkCompleted(sweep.saga)
  BY <1>4 DEF MarkCompleted, markTerminal, SweepMailed
<1> QED
  BY <1>1, <1>2, <1>3, <1>4 DEF OneStatement, Statement, WorkerStatement

LEMMA MailedServer ==
    ASSUME Typing, Mailed, ServerStep
    PROVE  Mailed'
<1>1. UNCHANGED <<dedupe, mailbox>> /\ ServerReads
  BY ServerQuiet, ServerReadsStep DEF notifierVars
<1>2. Trail' /\ CompletedMeansMailed'
  BY <1>1, TrailServer, StepStatement, CompletedMailedStep DEF Next, Mailed
<1>3. DedupeMailed' /\ CallsMailed' /\ SweepMailed'
  BY <1>1 DEF ServerReads, Mailed, DedupeMailed, CallsMailed, SweepMailed
<1> QED
  BY <1>2, <1>3 DEF Mailed

LEMMA MailedNotifier ==
    ASSUME SingleCall, Typing, Mailed, NotifierStep
    PROVE  Mailed'
<1> USE DEF Typing, TypeOK, TransportTypeOK, NotifierTypeOK, SubscribersTypeOK, CallRecords, CallSteps,
            Serving, CallsServe, DedupeMailed, CallsMailed, SweepMailed, transportVars, SendOk, SendFails,
            Delivers
<1>1. \A r \in Requests : mailbox[r] > 0 => mailbox'[r] > 0
  BY MailStays DEF Next
<1>2. Trail' /\ CompletedMeansMailed'
  BY <1>1, TrailNotifier, StepStatement, CompletedMailedStep DEF Next, Mailed
<1>3. SweepMailed'
  BY <1>1 DEF NotifierStep, serverVars, Mailed
<1>4. CommandMailed /\ DedupeMailed /\ CallsMailed
  BY DEF Mailed, Trail
<1> USE <1>1, <1>4
<1>5. ASSUME CommandConsumer \/ LoseCommandSession
      PROVE  DedupeMailed' /\ CallsMailed'
  <2>1. /\ UNCHANGED calls
        /\ UNCHANGED dedupe \/ (cmd.step = "mark" /\ dedupe' = dedupe \cup {cmd.saga})
    BY <1>5 DEF CommandConsumer, LoseCommandSession, ReceiveCommand, SendCommanded, Mark, PublishReply,
                AckCommand
  <2> QED
    BY <2>1 DEF CommandMailed
<1>6. ASSUME NEW c \in Calls, TryClaim(c)
      PROVE  DedupeMailed' /\ CallsMailed'
  BY <1>6 DEF TryClaim, Answer, Answered, FreeCall, SingleCall
<1>7. ASSUME NEW c \in Calls, SendClaimed(c)
      PROVE  DedupeMailed' /\ CallsMailed'
  BY <1>7 DEF SendClaimed, Answer, Answered, FreeCall, SingleCall
<1>8. ASSUME NotifierCrash
      PROVE  DedupeMailed' /\ CallsMailed'
  BY <1>8 DEF NotifierCrash, Answered, FreeCall
<1>9. ASSUME NEW r \in Requests, Forget(r)
      PROVE  DedupeMailed' /\ CallsMailed'
  BY <1>9 DEF Forget
<1> HIDE DEF DedupeMailed, CallsMailed, SweepMailed
<1> QED
  BY <1>2, <1>3, <1>5, <1>6, <1>7, <1>8, <1>9 DEF NotifierStep, NotifierNext, GrpcServer, Mailed

LEMMA MailedStep ==
    ASSUME SingleCall, Typing, Mailed, [Next]_vars
    PROVE  Mailed'
<1>1. UNCHANGED vars => Mailed'
  BY DEF vars, storeVars, serverVars, transportVars, notifierVars, Mailed, Trail, EventsMailed,
         ReplyMailed, CommandMailed, DedupeMailed, CallsMailed, SweepMailed, CompletedMeansMailed
<1> QED
  BY <1>1, MailedServer, MailedNotifier DEF Next

\* As long as calls do not overlap, a saga is completed only when its
\* confirmation email was delivered.
THEOREM CompletedIsMailed ==
    ASSUME SingleCall
    PROVE  Spec => []CompletedMeansMailed
<1>1. Typing /\ Mailed /\ [Next]_vars => Mailed'
  BY MailedStep
<1>2. Mailed => CompletedMeansMailed
  BY DEF Mailed
<1> QED
  BY <1>1, <1>2, MailedInit, TypingInvariant, PTL DEF Spec
=============================================================================
