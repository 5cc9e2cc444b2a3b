------------------------- MODULE SagaLifecycleProofs -------------------------
(***************************************************************************)
(* The saga implements SagaLifecycle, for every number of requests and     *)
(* faults, as long as calls do not overlap.                                *)
(***************************************************************************)
EXTENDS SubscribeSagaProofs

-----------------------------------------------------------------------------
(* Nothing is under way for a request before its rows were created: no      *)
(* command, send, call, retry or click.  And nobody follows a confirm link  *)
(* that was not mailed.                                                     *)

Past(r) == http[r] \notin EarlySteps

Underway ==
    /\ \A r \in Requests : commands[r] > 0 => Past(r)
    /\ cmd.step # "idle" => Past(cmd.saga)
    /\ \A c \in Calls : calls[c].step # "free" => Past(calls[c].saga)
    /\ \A r \in sweep.todo : Past(r)
    /\ sweep.step \notin {"idle", "next"} => Past(sweep.saga)
    /\ \A r \in Requests : click[r] # "none" => Past(r)
    /\ \A r \in Requests : click[r] = "confirm" => mailbox[r] > 0

LEMMA UnderwayInit == Init => Underway
BY DEF Init, TransportInit, FreeCall, ServerInit, NoSweep, NotifierInit, NoCommand, Underway

\* Where whatever is under way comes from.
Origins ==
    /\ \A r \in Requests :
          commands'[r] > 0 => commands[r] > 0 \/ http[r] = "publish" \/ (cmd.step # "idle" /\ cmd.saga = r)
    /\ cmd'.step # "idle" => (cmd.step # "idle" /\ cmd'.saga = cmd.saga) \/ commands[cmd'.saga] > 0
    /\ \A c \in Calls :
          calls'[c].step # "free" => \/ calls[c].step # "free" /\ calls'[c].saga = calls[c].saga
                                     \/ sweep.step = "call" /\ calls'[c].saga = sweep.saga
    /\ \A r \in sweep'.todo : r \in sweep.todo \/ IsPending(r)
    /\ sweep'.step \notin {"idle", "next"} =>
          (sweep.step \notin {"idle", "next"} /\ sweep'.saga = sweep.saga) \/ sweep'.saga \in sweep.todo
    /\ \A r \in Requests :
          click'[r] # "none" => click'[r] = click[r] \/ (HasSub(r) /\ (click'[r] = "confirm" => mailbox[r] > 0))
    /\ \A r \in Requests : mailbox[r] > 0 => mailbox'[r] > 0

LEMMA ServerOrigins ==
    ASSUME Typing, ServerStep
    PROVE  Origins
<1>0. /\ commands \in [Requests -> Nat] /\ click \in [Requests -> ClickSteps]
      /\ calls \in [Calls -> CallRecords]
      /\ sweep \in [step : SweepSteps, todo : SUBSET Requests, saga : Requests \cup {NoRequest}]
  BY DEF Typing, TypeOK, TransportTypeOK, ServerTypeOK
<1>1. UNCHANGED <<cmd, mailbox>>
  BY DEF ServerStep, OrchestratorNext, Subscribe, HandleFailed, RepliesConsumer, TimeoutSweeper,
         AttemptSyncRetry, Admit, CheckExists, Create, Publish, PublishFailed, SagaTimeout,
         FindByToken, ConfirmSub, Unsubscribe, CompensateGet, CompensateDelete, CompensateMark,
         ReceiveReply, HandleSent, FailedHandled, SettleReply, LoseRepliesSession, Sweep,
         SweepNext, RetryGet, RetryLoad, RetryCall, RetryAnswered, RetryTimesOut, RetryComplete,
         SweptFailed, ServerCrash, notifierVars
<1>2. ASSUME UNCHANGED <<commands, calls, sweep, click>> PROVE Origins
  BY <1>1, <1>2 DEF Origins
<1>3. ASSUME NEW r \in Requests, Admit(r) \/ CheckExists(r) \/ Create(r) \/ PublishFailed(r) \/ SagaTimeout(r)
      PROVE  Origins
  BY <1>2, <1>3 DEF Admit, CheckExists, Create, PublishFailed, SagaTimeout, transportVars, serverVars
<1>4. ASSUME NEW r \in Requests, Publish(r) PROVE Origins
  <2>1. /\ UNCHANGED <<calls, sweep, click>> /\ http[r] = "publish"
        /\ commands' \in {commands, Put(commands, r)}
    BY <1>4 DEF Publish
  <2>2. \A q \in Requests : q # r => commands'[q] = commands[q]
    BY <1>0, <2>1 DEF Put
  <2> QED
    BY <1>1, <2>1, <2>2 DEF Origins
<1>5. ASSUME NEW r \in Requests, FindByToken(r) \/ ConfirmSub(r) \/ Unsubscribe(r) PROVE Origins
  <2>1. UNCHANGED <<commands, calls, sweep>>
    BY <1>5 DEF FindByToken, ConfirmSub, Unsubscribe, transportVars
  <2>2. \A q \in Requests : click'[q] # "none" =>
           click'[q] = click[q] \/ (HasSub(q) /\ (click'[q] = "confirm" => mailbox[q] > 0))
    BY <1>0, <1>5 DEF FindByToken, ConfirmSub, Unsubscribe, Goto, HasSub
  <2> QED
    BY <1>1, <2>1, <2>2 DEF Origins
<1>6. ASSUME NEW w \in Workers, HandleFailed(w) PROVE Origins
  BY <1>2, <1>6 DEF HandleFailed, CompensateGet, CompensateDelete, CompensateMark, transportVars
<1>7. ASSUME RepliesConsumer \/ LoseRepliesSession PROVE Origins
  BY <1>2, <1>7 DEF RepliesConsumer, LoseRepliesSession, ReceiveReply, HandleSent, FailedHandled, SettleReply,
                    transportVars
<1>8. ASSUME UNCHANGED <<commands, click>>,
             UNCHANGED calls \/ \E c \in Calls : calls' = [calls EXCEPT ![c] = FreeCall],
             \E step : sweep' = [sweep EXCEPT !.step = step] /\ (step # "next" => sweep.step \notin {"idle", "next"})
      PROVE  Origins
  <2>1. \A c \in Calls : calls'[c].step # "free" => calls'[c] = calls[c]
    BY <1>0, <1>8 DEF FreeCall
  <2>2. /\ sweep'.todo = sweep.todo /\ sweep'.saga = sweep.saga
        /\ sweep'.step \notin {"idle", "next"} => sweep.step \notin {"idle", "next"}
    BY <1>0, <1>8
  <2> QED
    BY <1>1, <1>8, <2>1, <2>2 DEF Origins
<1>9. CASE Sweep
  BY <1>0, <1>1, <1>9 DEF Sweep, GetPendingOlderThan, transportVars, Origins
<1>10. CASE SweepNext
  BY <1>0, <1>1, <1>10 DEF SweepNext, NoSweep, transportVars, Origins
<1>11. CASE RetryGet \/ RetryLoad \/ RetryComplete \/ SweptFailed
  <2>1. UNCHANGED <<commands, calls, click>> /\ sweep.step \notin {"idle", "next"}
    BY <1>11 DEF RetryGet, RetryLoad, RetryComplete, SweptFailed, transportVars
  <2>2. \E step : sweep' = [sweep EXCEPT !.step = step]
    BY <1>11 DEF RetryGet, RetryLoad, RetryComplete, SweptFailed, FallThrough, SweepStep, Goto
  <2> QED
    BY <1>8, <2>1, <2>2
<1>12. CASE RetryCall
  <2>1. UNCHANGED <<commands, click>> /\ sweep.step = "call" /\ (\E step : sweep' = [sweep EXCEPT !.step = step])
    BY <1>12 DEF RetryCall, FallThrough, SweepStep, Goto
  <2>2. CASE UNCHANGED calls
    BY <1>8, <2>1, <2>2
  <2>3. ASSUME NEW c \in Calls, OpenCall(c, sweep.saga) PROVE Origins
    <3>1. \A d \in Calls : calls'[d] = calls[d] \/ calls'[d].saga = sweep.saga
      BY <1>0, <2>3 DEF OpenCall
    <3>2. sweep'.todo = sweep.todo /\ sweep'.saga = sweep.saga
      BY <1>0, <2>1
    <3> QED
      BY <1>1, <2>1, <3>1, <3>2 DEF Origins
  <2> QED
    BY <1>12, <2>2, <2>3 DEF RetryCall
<1>13. ASSUME NEW c \in Calls, RetryAnswered(c) PROVE Origins
  <2>1. UNCHANGED <<commands, click>> /\ sweep.step = "await" /\ calls' = [calls EXCEPT ![c] = FreeCall]
    BY <1>13 DEF RetryAnswered
  <2>2. \E step : sweep' = [sweep EXCEPT !.step = step]
    BY <1>13 DEF RetryAnswered, FallThrough, SweepStep, Goto
  <2> QED
    BY <1>8, <2>1, <2>2
<1>14. \A c \in Calls : Abandoned(c).step # "free" => calls[c].step # "free" /\ Abandoned(c).saga = calls[c].saga
  BY <1>0 DEF Abandoned, FreeCall, CallRecords
<1>15. ASSUME NEW c \in Calls, RetryTimesOut(c) PROVE Origins
  <2>1. /\ UNCHANGED <<commands, click>> /\ sweep.step = "await" /\ calls' = [calls EXCEPT ![c] = Abandoned(c)]
        /\ sweep' = [sweep EXCEPT !.step = "compensate"]
    BY <1>15 DEF RetryTimesOut, FallThrough, SweepStep, Goto
  <2>2. sweep'.todo = sweep.todo /\ sweep'.saga = sweep.saga
    BY <1>0, <2>1
  <2>3. \A d \in Calls : calls'[d].step # "free" => calls[d].step # "free" /\ calls'[d].saga = calls[d].saga
    BY <1>0, <1>14, <2>1
  <2> QED
    BY <1>1, <2>1, <2>2, <2>3 DEF Origins
<1>16. CASE ServerCrash
  <2>1. UNCHANGED commands /\ sweep' = NoSweep /\ click' = [r \in Requests |-> "none"]
    BY <1>16 DEF ServerCrash
  <2>2. \A d \in Calls : calls'[d].step # "free" => calls[d].step # "free" /\ calls'[d].saga = calls[d].saga
    BY <1>14, <1>16 DEF ServerCrash
  <2> QED
    BY <1>1, <2>1, <2>2 DEF NoSweep, Origins
<1> QED
  BY <1>3, <1>4, <1>5, <1>6, <1>7, <1>9, <1>10, <1>11, <1>12, <1>13, <1>15, <1>16
     DEF ServerStep, OrchestratorNext, Subscribe, TimeoutSweeper, AttemptSyncRetry

LEMMA NotifierOrigins ==
    ASSUME Typing, NotifierStep
    PROVE  Origins
<1>0. /\ commands \in [Requests -> Nat] /\ calls \in [Calls -> CallRecords] /\ mailbox \in [Requests -> Nat]
      /\ cmd \in [step : CmdSteps, saga : Requests \cup {NoRequest}, sent : BOOLEAN,
                  tries : 0..ReplyAttempts, stale : BOOLEAN]
  BY DEF Typing, TypeOK, TransportTypeOK, SubscribersTypeOK, NotifierTypeOK
<1>1. UNCHANGED <<sweep, click>>
  BY DEF NotifierStep, serverVars
<1>2. ASSUME NEW q, Delivers(q) PROVE \A r \in Requests : mailbox[r] > 0 => mailbox'[r] > 0
  BY <1>0, <1>2 DEF Delivers
<1>3. ASSUME NEW c \in Calls, NEW status PROVE Answered(c, status).step # "free" => Answered(c, status).saga = calls[c].saga
  BY <1>0 DEF Answered, FreeCall, CallRecords
<1>4. ASSUME NEW q \in Requests, ReceiveCommand(q) PROVE Origins
  <2>1. UNCHANGED <<calls, mailbox>> /\ commands[q] > 0 /\ commands' = Take(commands, q) /\ cmd'.saga = q
    BY <1>4 DEF ReceiveCommand, NoCommand
  <2>2. \A r \in Requests : commands'[r] > 0 => commands[r] > 0
    BY <1>0, <2>1 DEF Take
  <2> QED
    BY <1>1, <2>1, <2>2 DEF Origins
<1>5. ASSUME UNCHANGED <<commands, calls>>, cmd.step # "idle", cmd'.saga = cmd.saga,
             \A r \in Requests : mailbox[r] > 0 => mailbox'[r] > 0
      PROVE  Origins
  BY <1>1, <1>5 DEF Origins
<1>6. CASE SendCommanded
  <2>1. UNCHANGED <<commands, calls>> /\ cmd.step # "idle" /\ cmd'.saga = cmd.saga
    BY <1>0, <1>6 DEF SendCommanded, transportVars
  <2>2. UNCHANGED mailbox \/ Delivers(cmd.saga)
    BY <1>6 DEF SendCommanded, SendOk, SendFails
  <2> QED
    BY <1>2, <1>5, <2>1, <2>2
<1>7. CASE Mark \/ PublishReply
  BY <1>0, <1>5, <1>7 DEF Mark, PublishReply, transportVars
<1>8. CASE AckCommand
  BY <1>1, <1>8 DEF AckCommand, NoCommand, transportVars, Origins
<1>9. CASE LoseCommandSession
  <2>1. /\ UNCHANGED <<calls, mailbox>> /\ cmd.step # "idle" /\ commands' = Put(commands, cmd.saga)
        /\ cmd'.saga = cmd.saga
    BY <1>0, <1>9 DEF LoseCommandSession
  <2>2. \A r \in Requests : r # cmd.saga => commands'[r] = commands[r]
    BY <1>0, <2>1 DEF Put
  <2> QED
    BY <1>1, <2>1, <2>2 DEF Origins
<1>10. ASSUME UNCHANGED <<commands, cmd>>, NEW c \in Calls, calls[c].step # "free", NEW call,
              calls' = [calls EXCEPT ![c] = call], call.step # "free" => call.saga = calls[c].saga,
              \A r \in Requests : mailbox[r] > 0 => mailbox'[r] > 0
       PROVE  Origins
  <2>1. \A d \in Calls : calls'[d].step # "free" => calls[d].step # "free" /\ calls'[d].saga = calls[d].saga
    BY <1>0, <1>10
  <2> QED
    BY <1>1, <1>10, <2>1 DEF Origins
<1>11. ASSUME NEW c \in Calls, TryClaim(c) PROVE Origins
  <2>1. UNCHANGED <<commands, cmd, mailbox>> /\ calls[c].step = "claim"
    BY <1>11 DEF TryClaim
  <2>2. CASE Answer(c, "ok")
    BY <1>3, <1>10, <2>1, <2>2 DEF Answer
  <2>3. CASE calls' = [calls EXCEPT ![c].step = "send"]
    <3> DEFINE call == [calls[c] EXCEPT !.step = "send"]
    <3>1. calls' = [calls EXCEPT ![c] = call] /\ call.saga = calls[c].saga
      BY <1>0, <2>3 DEF CallRecords
    <3> HIDE DEF call
    <3> QED
      BY <1>10, <2>1, <3>1
  <2> QED
    BY <1>11, <2>2, <2>3 DEF TryClaim
<1>12. ASSUME NEW c \in Calls, SendClaimed(c) PROVE Origins
  <2>1. UNCHANGED <<commands, cmd>> /\ calls[c].step = "send" /\ (UNCHANGED mailbox \/ Delivers(calls[c].saga))
    BY <1>12 DEF SendClaimed, SendOk, SendFails
  <2>2. PICK status \in {"ok", "err"} : calls' = [calls EXCEPT ![c] = Answered(c, status)]
    BY <1>12 DEF SendClaimed, Answer
  <2>3. \A r \in Requests : mailbox[r] > 0 => mailbox'[r] > 0
    BY <1>2, <2>1
  <2> QED
    BY <1>3, <1>10, <2>1, <2>2, <2>3
<1>13. CASE NotifierCrash
  <2>1. /\ UNCHANGED mailbox /\ cmd' = NoCommand
        /\ commands' = commands \/ (cmd.step # "idle" /\ commands' = Put(commands, cmd.saga))
    BY <1>13 DEF NotifierCrash
  <2>2. \A r \in Requests : commands'[r] > 0 => commands[r] > 0 \/ (cmd.step # "idle" /\ cmd.saga = r)
    BY <1>0, <2>1 DEF Put
  <2>3. \A c \in Calls : calls'[c].step # "free" => calls[c].step # "free" /\ calls'[c].saga = calls[c].saga
    <3>1. \A c \in Calls : Answered(c, "err").step # "free" => calls[c].client
      BY DEF Answered, FreeCall
    <3> QED
      BY <1>3, <1>13, <3>1 DEF NotifierCrash, Typing, CallsServe
  <2> QED
    BY <1>1, <2>1, <2>2, <2>3 DEF NoCommand, Origins
<1>14. ASSUME NEW q \in Requests, Forget(q) PROVE Origins
  BY <1>1, <1>14 DEF Forget, transportVars, Origins
<1> QED
  BY <1>4, <1>6, <1>7, <1>8, <1>9, <1>11, <1>12, <1>13, <1>14
     DEF NotifierStep, NotifierNext, CommandConsumer, GrpcServer

LEMMA StepOrigins ==
    ASSUME Typing, [Next]_vars
    PROVE  Origins
<1>1. UNCHANGED vars => Origins
  BY DEF vars, serverVars, transportVars, notifierVars, Origins
<1> QED
  BY <1>1, ServerOrigins, NotifierOrigins DEF Next

\* Handlers do not return to their early steps.
LEMMA PastForGood ==
    ASSUME Typing, Compensation, [Next]_vars, NEW r \in Requests, Past(r)
    PROVE  Past(r)'
BY ControlStep DEF Compensation, Control, Past

\* A request that has a row is past its create.
LEMMA RowMeansPast ==
    ASSUME Compensation, JournalMatchesSubs, NEW r \in Requests
    PROVE  HasSub(r) \/ IsPending(r) => Past(r)
BY DEF Compensation, CreatedOnce, JournalMatchesSubs, HasSub, IsPending, Past

LEMMA UnderwayStep ==
    ASSUME Typing, Typing', Compensation, JournalMatchesSubs, Underway, [Next]_vars
    PROVE  Underway'
<1>0. /\ Origins
      /\ cmd'.step # "idle" => cmd'.saga \in Requests
      /\ sweep'.step \notin {"idle", "next"} => sweep'.saga \in Requests
      /\ \A r \in sweep'.todo : r \in Requests
      /\ \A c \in Calls : calls'[c].step # "free" => calls'[c].saga \in Requests
  BY StepOrigins DEF Typing, Serving, CallsServe, TypeOK, ServerTypeOK
<1>1. \A r \in Requests : Past(r) => Past(r)'
  BY PastForGood
<1>2. \A r \in Requests : HasSub(r) \/ IsPending(r) => Past(r)
  BY RowMeansPast
<1>3. \A r \in Requests : http[r] = "publish" => Past(r)
  BY DEF Past, EarlySteps
<1>4. \A r \in Requests : commands'[r] > 0 => Past(r)'
  BY <1>0, <1>1, <1>3 DEF Origins, Underway
<1>5. cmd'.step # "idle" => Past(cmd.saga)'
  BY <1>0, <1>1 DEF Origins, Underway
<1>6. \A c \in Calls : calls'[c].step # "free" => Past(calls[c].saga)'
  BY <1>0, <1>1 DEF Origins, Underway
<1>7. \A r \in sweep'.todo : Past(r)'
  BY <1>0, <1>1, <1>2 DEF Origins, Underway
<1>8. sweep'.step \notin {"idle", "next"} => Past(sweep.saga)'
  BY <1>0, <1>1 DEF Origins, Underway
<1>9. \A r \in Requests : /\ click'[r] # "none" => Past(r)'
                          /\ click'[r] = "confirm" => mailbox'[r] > 0
  BY <1>0, <1>1, <1>2 DEF Origins, Underway
<1> QED
  BY <1>4, <1>5, <1>6, <1>7, <1>8, <1>9 DEF Underway

-----------------------------------------------------------------------------
(* Every step is seen as one action of SagaLifecycle, or not at all. *)

Sound == Typing /\ Compensation /\ JournalMatchesSubs /\ Mailed /\ Underway

Unseen == UNCHANGED <<Stages, CompletedRows, MailedLinks>>

Followed == Lifecycle!Next \/ Unseen

LEMMA StageValues ==
    ASSUME NEW r
    PROVE  /\ subs[r] = "unconfirmed" <=> Stage(r) = "awaiting"
           /\ subs[r] = "confirmed" <=> Stage(r) = "active"
           /\ Stage(r) = "new" <=> subs[r] = "absent" /\ ~Past(r)
           /\ subs[r] = "absent" /\ Past(r) => Stage(r) = "closed"
           /\ Stage(r) \in {"new", "awaiting", "active", "closed"}
BY DEF Stage, Past, EarlySteps

LEMMA StageKept ==
    ASSUME NEW r, subs'[r] = subs[r], Past(r)' <=> Past(r)
    PROVE  Stage(r)' = Stage(r)
BY DEF Stage, Past, EarlySteps

LEMMA UnseenStep ==
    ASSUME UNCHANGED <<subs, sagas, mailbox>>,
           \A r \in Requests : Past(r)' <=> Past(r)
    PROVE  Unseen
<1>1. \A r \in Requests : Stage(r)' = Stage(r)
  BY StageKept
<1> QED
  BY <1>1 DEF Unseen, Stages, CompletedRows, MailedLinks

\* A request moves to another stage: every other one keeps its own.
LEMMA StageMoves ==
    ASSUME NEW r \in Requests, NEW from, Stage(r) \in from,
           \A q \in Requests : q # r => subs'[q] = subs[q] /\ (Past(q)' <=> Past(q))
    PROVE  Lifecycle!Moves(r, from, Stage(r)')
<1>1. \A q \in Requests : q # r => Stage(q)' = Stage(q)
  BY StageKept
<1>2. Stages' = [Stages EXCEPT ![r] = Stage(r)']
  BY <1>1 DEF Stages
<1> QED
  BY <1>2 DEF Lifecycle!Moves, Stages

LEMMA RefuseStep ==
    ASSUME Sound, NEW r \in Requests, ~Past(r), Past(r)', UNCHANGED <<subs, sagas, mailbox>>,
           \A q \in Requests : q # r => http'[q] = http[q]
    PROVE  Lifecycle!Close(r)
<1>1. subs[r] = "absent" /\ sagas[r] = "absent"
  BY DEF Sound, Compensation, CreatedOnce, JournalMatchesSubs, Past
<1>2. Stage(r) = "new" /\ Stage(r)' = "closed"
  BY <1>1 DEF Stage, Past, EarlySteps
<1>3. Lifecycle!Moves(r, {"new", "awaiting", "active"}, "closed")
  BY <1>2, StageMoves DEF Past
<1>4. CompletedRows' = CompletedRows \ {r} /\ MailedLinks' = MailedLinks
  BY <1>1 DEF CompletedRows, MailedLinks
<1> QED
  BY <1>3, <1>4 DEF Lifecycle!Close

LEMMA CreateStep ==
    ASSUME Sound, NEW r \in Requests, ~Past(r), Past(r)', CreateWithSaga(r), UNCHANGED mailbox,
           \A q \in Requests : q # r => http'[q] = http[q]
    PROVE  Lifecycle!Open(r)
<1>1. subs[r] = "absent" /\ sagas[r] = "absent"
  BY DEF Sound, Compensation, CreatedOnce, JournalMatchesSubs, Past
<1>2. /\ subs'[r] = "unconfirmed" /\ sagas'[r] = "pending"
      /\ \A q \in Requests : q # r => subs'[q] = subs[q] /\ sagas'[q] = sagas[q]
  BY DEF Sound, Typing, TypeOK, StoreTypeOK, CreateWithSaga
<1>3. Stage(r) = "new" /\ Stage(r)' = "awaiting"
  BY <1>1, <1>2 DEF Stage, Past, EarlySteps
<1>4. Lifecycle!Moves(r, {"new"}, "awaiting")
  BY <1>2, <1>3, StageMoves DEF Past
<1>5. CompletedRows' = CompletedRows /\ MailedLinks' = MailedLinks
  BY <1>1, <1>2 DEF CompletedRows, MailedLinks
<1> QED
  BY <1>4, <1>5 DEF Lifecycle!Open

LEMMA DeleteStep ==
    ASSUME Sound, NEW r \in Requests, Past(r), Delete(r), UNCHANGED <<http, mailbox>>
    PROVE  Followed
<1>1. /\ subs'[r] = "absent" /\ sagas'[r] = "absent"
      /\ \A q \in Requests : q # r => subs'[q] = subs[q] /\ sagas'[q] = sagas[q]
      /\ subs \in [Requests -> SubRows] /\ sagas \in [Requests -> SagaStates \cup {"absent"}]
  BY DEF Sound, Typing, TypeOK, StoreTypeOK, Delete
<1>2. CASE subs[r] = "absent"
  <2>1. sagas[r] = "absent"
    BY <1>2 DEF Sound, JournalMatchesSubs
  <2>2. UNCHANGED <<subs, sagas>>
    BY <1>1, <1>2, <2>1 DEF Delete
  <2> QED
    BY <2>2, UnseenStep DEF Past, Followed
<1>3. CASE subs[r] # "absent"
  <2>1. Stage(r) \in {"new", "awaiting", "active"} /\ Stage(r)' = "closed"
    BY <1>1, <1>3 DEF SubRows, Stage, Past, EarlySteps
  <2>2. Lifecycle!Moves(r, {"new", "awaiting", "active"}, "closed")
    BY <1>1, <2>1, StageMoves DEF Past
  <2>3. CompletedRows' = CompletedRows \ {r} /\ MailedLinks' = MailedLinks
    BY <1>1 DEF CompletedRows, MailedLinks
  <2>4. Lifecycle!Close(r)
    BY <2>2, <2>3 DEF Lifecycle!Close
  <2> QED
    BY <2>4 DEF Lifecycle!Next, Followed
<1> QED
  BY <1>2, <1>3

LEMMA CompleteStep ==
    ASSUME Sound, NEW r \in Requests, mailbox[r] > 0, MarkCompleted(r), UNCHANGED <<http, mailbox>>
    PROVE  Followed
<1>1. /\ UNCHANGED subs
      /\ \A q \in Requests : sagas'[q] = IF q = r /\ IsPending(r) THEN "completed" ELSE sagas[q]
      /\ subs \in [Requests -> SubRows]
  BY DEF Sound, Typing, TypeOK, StoreTypeOK, MarkCompleted, markTerminal
<1>2. UNCHANGED Stages
  <2>1. \A q \in Requests : Stage(q)' = Stage(q)
    BY <1>1, StageKept DEF Past
  <2> QED
    BY <2>1 DEF Stages
<1>3. CASE IsPending(r)
  <2>1. Stages[r] \in {"awaiting", "active"} /\ r \in MailedLinks
    BY <1>1, <1>3 DEF Sound, JournalMatchesSubs, IsPending, SubRows, Stage, Stages, MailedLinks
  <2>2. CompletedRows' = CompletedRows \cup {r} /\ MailedLinks' = MailedLinks
    BY <1>1, <1>3 DEF CompletedRows, MailedLinks
  <2>3. Lifecycle!Complete(r)
    BY <1>2, <2>1, <2>2 DEF Lifecycle!Complete
  <2> QED
    BY <2>3 DEF Lifecycle!Next, Followed
<1>4. CASE ~IsPending(r)
  BY <1>1, <1>2, <1>4 DEF CompletedRows, MailedLinks, Unseen, Followed
<1> QED
  BY <1>3, <1>4

LEMMA ConfirmStep ==
    ASSUME Sound, NEW r \in Requests, mailbox[r] > 0, Confirm(r), UNCHANGED <<http, mailbox>>
    PROVE  Followed
<1>1. /\ UNCHANGED sagas
      /\ subs'[r] = IF HasSub(r) THEN "confirmed" ELSE "absent"
      /\ \A q \in Requests : q # r => subs'[q] = subs[q]
      /\ subs \in [Requests -> SubRows]
  BY DEF Sound, Typing, TypeOK, StoreTypeOK, Confirm
<1>2. CASE subs[r] = "unconfirmed"
  <2>1. Stage(r) \in {"awaiting"} /\ Stage(r)' = "active"
    BY <1>1, <1>2 DEF HasSub, Stage
  <2>2. Lifecycle!Moves(r, {"awaiting"}, "active")
    BY <1>1, <2>1, StageMoves DEF Past
  <2>3. CompletedRows' = CompletedRows /\ MailedLinks' = MailedLinks /\ r \in MailedLinks
    BY <1>1 DEF CompletedRows, MailedLinks
  <2>4. Lifecycle!Confirm(r)
    BY <2>2, <2>3 DEF Lifecycle!Confirm
  <2> QED
    BY <2>4 DEF Lifecycle!Next, Followed
<1>3. CASE subs[r] # "unconfirmed"
  <2>1. \A q \in Requests : subs'[q] = subs[q]
    BY <1>1, <1>3 DEF HasSub, SubRows
  <2>2. \A q \in Requests : Stage(q)' = Stage(q)
    BY <2>1, StageKept DEF Past
  <2> QED
    BY <1>1, <2>2 DEF Stages, CompletedRows, MailedLinks, Unseen, Followed
<1> QED
  BY <1>2, <1>3

LEMMA MailStep ==
    ASSUME Sound, NEW r \in Requests, Past(r), Delivers(r), UNCHANGED <<storeVars, http>>
    PROVE  Followed
<1>1. \A q \in Requests : mailbox'[q] > 0 <=> mailbox[q] > 0 \/ q = r
  BY DEF Sound, Typing, TypeOK, SubscribersTypeOK, Delivers
<1>2. /\ \A q \in Requests : Stage(q)' = Stage(q)
      /\ UNCHANGED <<subs, sagas>>
  BY StageKept DEF storeVars, Past
<1>3. UNCHANGED <<Stages, CompletedRows>> /\ MailedLinks' = MailedLinks \cup {r}
  BY <1>1, <1>2 DEF Stages, CompletedRows, MailedLinks
<1>4. Stages[r] # "new"
  BY StageValues DEF Stages
<1>5. Lifecycle!Mail(r)
  BY <1>3, <1>4 DEF Lifecycle!Mail
<1> QED
  BY <1>5 DEF Lifecycle!Next, Followed

LEMMA CrashStep ==
    ASSUME Sound, ServerCrash
    PROVE  Followed
<1> DEFINE R == {r \in Requests : http[r] \in {"exists", "create"}}
<1>1. /\ UNCHANGED <<subs, sagas, mailbox>>
      /\ \A r \in Requests : http'[r] = IF http[r] \in {"new", "accepted", "conflict"} THEN http[r] ELSE "error"
  BY DEF ServerCrash, storeVars
<1>2. \A r \in R : Stage(r) = "new" /\ Stage(r)' = "closed"
  <2>1. \A r \in R : subs[r] = "absent"
    BY DEF Sound, Compensation, CreatedOnce, JournalMatchesSubs, EarlySteps
  <2> QED
    BY <1>1, <2>1 DEF Stage
<1>3. \A r \in Requests \ R : Stage(r)' = Stage(r)
  BY <1>1, StageKept DEF Past, EarlySteps
<1>4. /\ \A r \in R : Stages[r] = "new"
      /\ Stages' = [r \in Requests |-> IF r \in R THEN "closed" ELSE Stages[r]]
      /\ UNCHANGED <<CompletedRows, MailedLinks>>
  BY <1>1, <1>2, <1>3 DEF Stages, CompletedRows, MailedLinks
<1>5. R \in SUBSET Requests /\ Lifecycle!Refuse(R)
  BY <1>4 DEF Lifecycle!Refuse
<1> QED
  BY <1>5 DEF Lifecycle!Next, Followed

LEMMA NotifierFollowed ==
    ASSUME Sound, NotifierStep
    PROVE  Followed
<1>1. UNCHANGED <<storeVars, http>>
  BY DEF NotifierStep, serverVars
<1>2. CASE UNCHANGED mailbox
  BY <1>1, <1>2, UnseenStep DEF storeVars, Past, Followed
<1>3. CASE SendCommanded /\ Delivers(cmd.saga)
  <2>1. cmd.saga \in Requests /\ Past(cmd.saga)
    BY <1>3 DEF SendCommanded, Sound, Typing, Serving, Underway
  <2> QED
    BY <1>1, <1>3, <2>1, MailStep
<1>4. ASSUME NEW c \in Calls, SendClaimed(c), Delivers(calls[c].saga)
      PROVE  Followed
  <2>1. calls[c].saga \in Requests /\ Past(calls[c].saga)
    BY <1>4 DEF SendClaimed, Sound, Typing, CallsServe, Underway
  <2> QED
    BY <1>1, <1>4, <2>1, MailStep
<1>5. \/ UNCHANGED mailbox
      \/ SendCommanded /\ Delivers(cmd.saga)
      \/ \E c \in Calls : SendClaimed(c) /\ Delivers(calls[c].saga)
  BY DEF NotifierStep, NotifierNext, CommandConsumer, GrpcServer, ReceiveCommand, SendCommanded, Mark,
         PublishReply, AckCommand, LoseCommandSession, TryClaim, SendClaimed, NotifierCrash, Forget,
         SendOk, SendFails
<1> QED
  BY <1>2, <1>3, <1>4, <1>5

\* The steps of a subscribe handler.
LEMMA HandlerFollowed ==
    ASSUME Sound, NEW r \in Requests, Admit(r) \/ Subscribe(r)
    PROVE  Followed
<1>1. /\ UNCHANGED mailbox /\ http \in [Requests -> HttpSteps]
      /\ \A q \in Requests : q # r => http'[q] = http[q]
  BY DEF Admit, Subscribe, CheckExists, Create, Publish, PublishFailed, Goto, Sound, Typing, TypeOK, ServerTypeOK
<1>2. CASE UNCHANGED storeVars
  <2>1. Past(r) => Past(r)'
    BY <1>1 DEF Admit, Subscribe, CheckExists, Create, Publish, PublishFailed, Goto, Past, EarlySteps
  <2>2. CASE Past(r)' <=> Past(r)
    BY <1>1, <1>2, <2>2, UnseenStep DEF storeVars, Past, Followed
  <2>3. CASE ~Past(r) /\ Past(r)'
    BY <1>1, <1>2, <2>3, RefuseStep DEF storeVars, Lifecycle!Next, Followed
  <2> QED
    BY <2>1, <2>2, <2>3
<1>3. CASE Create(r) /\ CreateWithSaga(r)
  <2>1. ~Past(r) /\ Past(r)'
    BY <1>1, <1>3 DEF Create, Goto, Past, EarlySteps
  <2> QED
    BY <1>1, <1>3, <2>1, CreateStep DEF Lifecycle!Next, Followed
<1>4. UNCHANGED storeVars \/ (Create(r) /\ CreateWithSaga(r))
  BY DEF Admit, Subscribe, CheckExists, Create, Publish, PublishFailed, Answers, Breaks
<1> QED
  BY <1>2, <1>3, <1>4

LEMMA ServerFollowed ==
    ASSUME Sound, ServerStep
    PROVE  Followed
<1>0. ASSUME UNCHANGED <<subs, sagas, mailbox, http>> PROVE Followed
  BY <1>0, UnseenStep DEF Past, Followed
<1>1. ASSUME NEW r \in Requests, SagaTimeout(r) \/ FindByToken(r) PROVE Followed
  BY <1>0, <1>1 DEF SagaTimeout, Age, serverVars, FindByToken, storeVars
<1>2. ASSUME NEW r \in Requests, ConfirmSub(r) PROVE Followed
  <2>1. mailbox[r] > 0 /\ UNCHANGED <<http, mailbox>> /\ (Confirm(r) \/ UNCHANGED storeVars)
    BY <1>2 DEF ConfirmSub, Answers, Breaks, Sound, Underway
  <2> QED
    BY <1>0, <2>1, ConfirmStep DEF storeVars
<1>3. ASSUME NEW r \in Requests, Unsubscribe(r) PROVE Followed
  <2>1. Past(r) /\ UNCHANGED <<http, mailbox>> /\ (Delete(r) \/ UNCHANGED storeVars)
    BY <1>3 DEF Unsubscribe, Answers, Breaks, Sound, Underway
  <2> QED
    BY <1>0, <2>1, DeleteStep DEF storeVars
<1>4. ASSUME NEW w \in Workers, CompensateGet(w) PROVE Followed
  BY <1>0, <1>4 DEF CompensateGet, storeVars
<1>5. ASSUME NEW w \in Workers, CompensateDelete(w) PROVE Followed
  <2>1. /\ comp[w] = "delete" /\ UNCHANGED <<http, mailbox>>
        /\ Delete(SagaOf(w)) \/ UNCHANGED storeVars
    BY <1>5 DEF CompensateDelete, Answers, Breaks
  <2>2. SagaOf(w) \in Requests /\ Past(SagaOf(w))
    BY <2>1, SagaOfWorker DEF Sound, Compensation, DeletedForGood, Past
  <2> QED
    BY <1>0, <2>1, <2>2, DeleteStep DEF storeVars
<1>6. ASSUME NEW w \in Workers, CompensateMark(w) PROVE Followed
  <2>1. /\ comp[w] = "mark" /\ UNCHANGED <<http, mailbox>>
        /\ MarkCompensated(SagaOf(w)) \/ UNCHANGED storeVars
    BY <1>6 DEF CompensateMark, Answers, Breaks
  <2>2. SagaOf(w) \in Requests /\ sagas[SagaOf(w)] = "absent"
    BY <2>1, SagaOfWorker DEF Sound, Compensation, DeletedForGood
  <2>3. UNCHANGED <<subs, sagas>>
    BY <2>1, <2>2 DEF MarkCompensated, markTerminal, IsPending, storeVars, Sound, Typing, TypeOK, StoreTypeOK
  <2> QED
    BY <1>0, <2>1, <2>3
<1>7. CASE RepliesConsumer \/ LoseRepliesSession
  <2>1. UNCHANGED <<http, mailbox>> /\ (UNCHANGED storeVars \/ (HandleSent /\ MarkCompleted(replies.saga)))
    BY <1>7 DEF RepliesConsumer, LoseRepliesSession, ReceiveReply, HandleSent, FailedHandled, SettleReply,
                Answers, Breaks
  <2>2. CASE HandleSent /\ MarkCompleted(replies.saga)
    <3>1. replies.saga \in Requests /\ mailbox[replies.saga] > 0
      BY <2>2 DEF HandleSent, Sound, Typing, Serving, Mailed, Trail, ReplyMailed
    <3> QED
      BY <2>1, <2>2, <3>1, CompleteStep
  <2> QED
    BY <1>0, <2>1, <2>2 DEF storeVars
<1>8. CASE TimeoutSweeper \/ \E c \in Calls : RetryTimesOut(c)
  <2>1. UNCHANGED <<http, mailbox>> /\ (UNCHANGED storeVars \/ (RetryComplete /\ MarkCompleted(sweep.saga)))
    BY <1>8 DEF TimeoutSweeper, Sweep, SweepNext, AttemptSyncRetry, RetryGet, RetryLoad, RetryCall,
                RetryAnswered, RetryTimesOut, RetryComplete, SweptFailed, Answers, Breaks
  <2>2. CASE RetryComplete /\ MarkCompleted(sweep.saga)
    <3>1. sweep.saga \in Requests /\ mailbox[sweep.saga] > 0
      BY <2>2 DEF RetryComplete, Sound, Typing, Serving, Mailed, SweepMailed
    <3> QED
      BY <2>1, <2>2, <3>1, CompleteStep
  <2> QED
    BY <1>0, <2>1, <2>2 DEF storeVars
<1> QED
  BY <1>1, <1>2, <1>3, <1>4, <1>5, <1>6, <1>7, <1>8, HandlerFollowed, CrashStep
     DEF ServerStep, OrchestratorNext, HandleFailed

LEMMA LifecycleStep ==
    ASSUME Sound, [Next]_vars
    PROVE  Followed
<1>1. CASE UNCHANGED vars
  BY <1>1, UnseenStep DEF vars, storeVars, serverVars, Past, Followed
<1> QED
  BY <1>1, ServerFollowed, NotifierFollowed DEF Next

LEMMA SoundAlways ==
    ASSUME SingleCall
    PROVE  Spec => []Sound
<1>1. Init => JournalMatchesSubs
  BY DEF Init, StoreInit, JournalMatchesSubs
<1>2. Init => Sound
  BY <1>1, TypingInit, CompensationInit, MailedInit, UnderwayInit DEF Sound
<1>3. Typing /\ Typing' /\ Sound /\ [Next]_vars => Sound'
  BY CompensationStep, StepStatement, JournalStep, MailedStep, UnderwayStep DEF Sound
<1> QED
  BY <1>2, <1>3, TypingInvariant, PTL DEF Spec

\* As long as calls do not overlap, whatever the two processes, the broker
\* and the users do is a behaviour of SagaLifecycle: no row comes back, and
\* neither the journal nor the user confirms a link before it is mailed.
THEOREM SagaImplementsLifecycle ==
    ASSUME SingleCall
    PROVE  Spec => ImplementsLifecycle
<1>1. Init => Lifecycle!Init
  BY DEF Init, SubscribersInit, StoreInit, ServerInit, Lifecycle!Init, Stages, Stage,
         CompletedRows, MailedLinks
<1>2. Sound /\ [Next]_vars => [Lifecycle!Next]_<<Stages, CompletedRows, MailedLinks>>
  BY LifecycleStep DEF Followed, Unseen
<1> QED
  BY <1>1, <1>2, SoundAlways, PTL DEF Spec, ImplementsLifecycle, Lifecycle!Spec
=============================================================================
