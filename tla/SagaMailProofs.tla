---------------------------- MODULE SagaMailProofs ----------------------------
(***************************************************************************)
(* How many emails a request can lead to, for every number of requests,    *)
(* calls and faults.                                                       *)
(***************************************************************************)
EXTENDS SubscribeSagaProofs, FiniteSetTheorems

(* The proof counts, for each request, the emails that were sent with those *)
(* that may still come: from a command in the queue, from one in hand whose *)
(* email is not sent, from a call that sends, from a claim that is free to  *)
(* be made, and from a command that is still to be published.  Only a fault *)
(* of the notifier's side adds to the sum: a lost session or a crash puts a *)
(* command back, a failed send, a crash or a forgotten entry frees a claim. *)

InHand(r) == IF cmd.step = "send" /\ cmd.saga = r THEN 1 ELSE 0
Unclaimed(r) == IF r \in dedupe THEN 0 ELSE 1
Unpublished(r) == IF http[r] \in EarlySteps \cup {"publish"} THEN 1 ELSE 0

Emails(r) ==
    mailbox[r] + commands[r] + InHand(r) + Cardinality(Sending(r)) + Unclaimed(r) + Unpublished(r)

Budgeted ==
    \A r \in Requests : IsFiniteSet(Sending(r)) /\ Emails(r) <= 2 * (1 + notifierFaults)

LEMMA CountTypes ==
    ASSUME Typing, NEW r \in Requests
    PROVE  /\ mailbox[r] \in Nat /\ commands[r] \in Nat /\ notifierFaults \in Nat
           /\ InHand(r) \in 0..1 /\ Unclaimed(r) \in 0..1 /\ Unpublished(r) \in 0..1
BY FaultBoundsAssumption DEF Typing, TypeOK, SubscribersTypeOK, FaultsTypeOK, TransportTypeOK, InHand, Unclaimed, Unpublished

LEMMA BudgetInit == Init => Budgeted
<1> SUFFICES ASSUME Init, NEW r \in Requests
             PROVE  IsFiniteSet(Sending(r)) /\ Emails(r) <= 2 * (1 + notifierFaults)
  BY DEF Budgeted
<1>1. Sending(r) = {}
  BY DEF Init, TransportInit, FreeCall, Sending
<1>2. IsFiniteSet(Sending(r)) /\ Cardinality(Sending(r)) = 0
  BY <1>1, FS_EmptySet
<1>3. mailbox[r] = 0 /\ notifierFaults = 0 /\ commands[r] = 0 /\ cmd.step # "send"
  BY DEF Init, SubscribersInit, FaultsInit, TransportInit, NotifierInit, NoCommand
<1> QED
  BY <1>2, <1>3 DEF Emails, InHand, Unclaimed, Unpublished

\* One call of the many changes.
LEMMA SendingChanges ==
    ASSUME Typing, NEW r \in Requests, IsFiniteSet(Sending(r)), NEW c \in Calls, NEW call,
           calls' = [calls EXCEPT ![c] = call]
    PROVE  /\ IsFiniteSet(Sending(r)')
           /\ Cardinality(Sending(r)) \in Nat /\ Cardinality(Sending(r)') \in Nat
           /\ ~(call.step = "send" /\ call.saga = r) =>
                 Cardinality(Sending(r)') = Cardinality(Sending(r)) - (IF c \in Sending(r) THEN 1 ELSE 0)
           /\ Cardinality(Sending(r)') <= Cardinality(Sending(r)) + 1
<1>1. \A d \in Calls : calls'[d] = IF d = c THEN call ELSE calls[d]
  BY DEF Typing, TypeOK, TransportTypeOK
<1>0. Cardinality(Sending(r)) \in Nat
  BY FS_CardinalityType
<1>2. CASE call.step = "send" /\ call.saga = r
  <2>1. Sending(r)' = Sending(r) \cup {c}
    BY <1>1, <1>2 DEF Sending
  <2>2. /\ IsFiniteSet(Sending(r)')
        /\ Cardinality(Sending(r)') = IF c \in Sending(r) THEN Cardinality(Sending(r))
                                                         ELSE Cardinality(Sending(r)) + 1
    BY <2>1, FS_AddElement
  <2>3. Cardinality(Sending(r)') \in Nat
    BY <2>2, FS_CardinalityType
  <2> QED
    BY <1>0, <1>2, <2>2, <2>3
<1>3. CASE ~(call.step = "send" /\ call.saga = r)
  <2>1. Sending(r)' = Sending(r) \ {c}
    BY <1>1, <1>3 DEF Sending
  <2>2. /\ IsFiniteSet(Sending(r)')
        /\ Cardinality(Sending(r)') = IF c \in Sending(r) THEN Cardinality(Sending(r)) - 1
                                                         ELSE Cardinality(Sending(r))
    BY <2>1, FS_RemoveElement
  <2>3. Cardinality(Sending(r)') \in Nat
    BY <2>2, FS_CardinalityType
  <2> QED
    BY <1>0, <1>3, <2>2, <2>3
<1> QED
  BY <1>2, <1>3

\* What the server does leaves the sum alone: only the first publish of the
\* command adds to the queue.
LEMMA ServerSpendsNothing ==
    ASSUME Typing, ServerStep, NEW r \in Requests
    PROVE  /\ Sending(r)' = Sending(r)
           /\ commands'[r] + Unpublished(r)' <= commands[r] + Unpublished(r)
           /\ UNCHANGED <<notifierVars, mailbox, notifierFaults>>
<1>0. /\ commands \in [Requests -> Nat] /\ http \in [Requests -> HttpSteps]
      /\ calls \in [Calls -> CallRecords]
  BY DEF Typing, TypeOK, TransportTypeOK, ServerTypeOK
<1>1. UNCHANGED <<notifierVars, mailbox, notifierFaults>>
  BY ServerQuiet
<1>2. ASSUME UNCHANGED <<http, commands>>
      PROVE  commands'[r] + Unpublished(r)' <= commands[r] + Unpublished(r)
  BY <1>0, <1>2 DEF Unpublished
<1>3. ASSUME UNCHANGED calls PROVE Sending(r)' = Sending(r)
  BY <1>3 DEF Sending
<1>4. ASSUME NEW q \in Requests, Admit(q) \/ CheckExists(q) \/ Create(q) \/ PublishFailed(q)
      PROVE  /\ UNCHANGED <<commands, calls>>
             /\ http'[r] \in EarlySteps \cup {"publish"} => http[r] \in EarlySteps \cup {"publish"}
  BY <1>0, <1>4 DEF Admit, CheckExists, Create, PublishFailed, Goto, EarlySteps, transportVars
<1>5. ASSUME NEW q \in Requests, Publish(q)
      PROVE  /\ UNCHANGED calls
             /\ commands'[r] + Unpublished(r)' <= commands[r] + Unpublished(r)
  <2>1. /\ UNCHANGED calls /\ http[q] = "publish"
        /\ commands' \in {commands, Put(commands, q)}
        /\ http' = [http EXCEPT ![q] = "accepted"] \/ http' = [http EXCEPT ![q] = "compensate"]
    BY <1>5 DEF Publish, Goto
  <2>2. /\ q = r => Unpublished(r) = 1 /\ Unpublished(r)' = 0
        /\ q # r => http'[r] = http[r]
    BY <1>0, <2>1 DEF Unpublished, EarlySteps
  <2>3. commands'[r] \in Nat /\ commands'[r] <= commands[r] + 1 /\ (q # r => commands'[r] = commands[r])
    BY <1>0, <2>1 DEF Put
  <2> QED
    BY <1>0, <2>1, <2>2, <2>3 DEF Unpublished
<1>6. ASSUME NEW c \in Calls, NEW call, call.step # "send", calls[c].step # "send",
             calls' = [calls EXCEPT ![c] = call]
      PROVE  Sending(r)' = Sending(r)
  BY <1>0, <1>6 DEF Sending
<1>7. \A c \in Calls : Abandoned(c).step = "send" <=> calls[c].step = "send"
  BY <1>0 DEF Abandoned, FreeCall, CallRecords
<1>8. \A c \in Calls : calls[c].step = "send" => Abandoned(c).saga = calls[c].saga
  BY <1>0 DEF Abandoned, CallRecords
<1>9. ASSUME NEW q \in Requests, FindByToken(q) \/ ConfirmSub(q) \/ Unsubscribe(q) \/ SagaTimeout(q)
      PROVE  UNCHANGED <<http, commands, calls>>
  BY <1>9 DEF FindByToken, ConfirmSub, Unsubscribe, SagaTimeout, transportVars, serverVars
<1>10. ASSUME NEW w \in Workers, HandleFailed(w) PROVE UNCHANGED <<http, commands, calls>>
  BY <1>10 DEF HandleFailed, CompensateGet, CompensateDelete, CompensateMark, transportVars
<1>11. ASSUME RepliesConsumer \/ LoseRepliesSession PROVE UNCHANGED <<http, commands, calls>>
  BY <1>11 DEF RepliesConsumer, LoseRepliesSession, ReceiveReply, HandleSent, FailedHandled, SettleReply,
               transportVars
<1>12. ASSUME Sweep \/ SweepNext \/ RetryGet \/ RetryLoad \/ RetryComplete \/ SweptFailed
       PROVE  UNCHANGED <<http, commands, calls>>
  BY <1>12 DEF Sweep, SweepNext, RetryGet, RetryLoad, RetryComplete, SweptFailed, transportVars
<1>13. ASSUME RetryCall PROVE UNCHANGED <<http, commands>> /\ Sending(r)' = Sending(r)
  <2>1. UNCHANGED <<http, commands>> /\ (UNCHANGED calls \/ \E c \in Calls : OpenCall(c, sweep.saga))
    BY <1>13 DEF RetryCall
  <2> QED
    BY <1>3, <1>6, <2>1 DEF OpenCall
<1>14. ASSUME NEW c \in Calls, RetryAnswered(c)
       PROVE  UNCHANGED <<http, commands>> /\ Sending(r)' = Sending(r)
  BY <1>6, <1>14 DEF RetryAnswered, FreeCall
<1>15. ASSUME NEW c \in Calls, RetryTimesOut(c)
       PROVE  UNCHANGED <<http, commands>> /\ Sending(r)' = Sending(r)
  BY <1>0, <1>7, <1>8, <1>15 DEF RetryTimesOut, Sending
<1>16. ASSUME ServerCrash
       PROVE  /\ commands'[r] + Unpublished(r)' <= commands[r] + Unpublished(r)
              /\ Sending(r)' = Sending(r)
  <2>1. UNCHANGED commands /\ (http'[r] \in EarlySteps \cup {"publish"} => http[r] \in EarlySteps \cup {"publish"})
    BY <1>0, <1>16 DEF ServerCrash, EarlySteps
  <2>2. Sending(r)' = Sending(r)
    BY <1>0, <1>7, <1>8, <1>16 DEF ServerCrash, Sending
  <2> QED
    BY <1>0, <2>1, <2>2 DEF Unpublished
<1> QED
  <2>1. ASSUME UNCHANGED commands,
               http'[r] \in EarlySteps \cup {"publish"} => http[r] \in EarlySteps \cup {"publish"}
        PROVE  commands'[r] + Unpublished(r)' <= commands[r] + Unpublished(r)
    BY <1>0, <2>1 DEF Unpublished
  <2> QED
    BY <1>1, <1>2, <1>3, <1>4, <1>5, <1>9, <1>10, <1>11, <1>12, <1>13, <1>14, <1>15, <1>16, <2>1
       DEF ServerStep, OrchestratorNext, Subscribe, TimeoutSweeper, AttemptSyncRetry

\* A send moves an email from what may come to what was sent; whatever else
\* adds to the sum is a fault.
LEMMA NotifierSpends ==
    ASSUME Typing, Typing', NotifierStep, NEW r \in Requests, IsFiniteSet(Sending(r))
    PROVE  /\ IsFiniteSet(Sending(r)')
           /\ \/ Emails(r)' <= Emails(r) /\ notifierFaults' >= notifierFaults
              \/ Emails(r)' <= Emails(r) + 2 /\ notifierFaults' = notifierFaults + 1
<1>0. /\ commands \in [Requests -> Nat] /\ mailbox \in [Requests -> Nat]
      /\ calls \in [Calls -> CallRecords] /\ notifierFaults \in Nat
      /\ InHand(r) \in 0..1 /\ Unclaimed(r) \in 0..1 /\ Unpublished(r) \in 0..1
      /\ cmd \in [step : CmdSteps, saga : Requests \cup {NoRequest}, sent : BOOLEAN,
                  tries : 0..ReplyAttempts, stale : BOOLEAN]
  BY CountTypes DEF Typing, TypeOK, TransportTypeOK, SubscribersTypeOK, NotifierTypeOK
<1>1. Cardinality(Sending(r)) \in Nat
  BY FS_CardinalityType
<1>2. Unpublished(r)' = Unpublished(r)
  BY DEF NotifierStep, serverVars, Unpublished
<1>3. UNCHANGED calls => Sending(r)' = Sending(r)
  BY DEF Sending
<1>4. /\ UNCHANGED cmd => InHand(r)' = InHand(r)
      /\ UNCHANGED dedupe => Unclaimed(r)' = Unclaimed(r)
      /\ InHand(r)' \in 0..1 /\ Unclaimed(r)' \in 0..1
  BY DEF InHand, Unclaimed
<1>5. \A q : Delivers(q) => mailbox'[r] = mailbox[r] + (IF q = r THEN 1 ELSE 0)
  BY <1>0 DEF Delivers
<1>6. ASSUME NEW q \in Requests, ReceiveCommand(q)
      PROVE  /\ UNCHANGED <<calls, mailbox, dedupe, notifierFaults>>
             /\ commands'[r] + InHand(r)' <= commands[r] + InHand(r)
  <2>1. UNCHANGED <<calls, mailbox, dedupe, notifierFaults>>
    BY <1>6 DEF ReceiveCommand, faultVars
  <2>2. cmd.step = "idle" /\ cmd'.saga = q /\ commands[q] > 0 /\ commands' = Take(commands, q)
    BY <1>6 DEF ReceiveCommand, NoCommand
  <2> QED
    BY <1>0, <2>1, <2>2 DEF Take, InHand
<1>7. ASSUME SendCommanded
      PROVE  /\ UNCHANGED <<calls, commands, dedupe>>
             /\ notifierFaults' \in {notifierFaults, notifierFaults + 1}
             /\ mailbox'[r] + InHand(r)' <= mailbox[r] + InHand(r)
  <2>1. UNCHANGED <<calls, commands, dedupe>> /\ notifierFaults' \in {notifierFaults, notifierFaults + 1}
    BY <1>7 DEF SendCommanded, transportVars, SendOk, SendFails, NoFault, NotifierFault, faultVars
  <2>2. cmd.step = "send" /\ cmd'.step # "send"
    BY <1>0, <1>7 DEF SendCommanded
  <2>3. mailbox' = mailbox \/ Delivers(cmd.saga)
    BY <1>7 DEF SendCommanded, SendOk, SendFails
  <2> QED
    BY <1>0, <1>5, <2>1, <2>2, <2>3 DEF InHand
<1>8. ASSUME Mark \/ PublishReply \/ AckCommand
      PROVE  /\ UNCHANGED <<calls, commands, mailbox>>
             /\ notifierFaults' \in {notifierFaults, notifierFaults + 1}
             /\ InHand(r)' <= InHand(r) /\ Unclaimed(r)' <= Unclaimed(r)
  <2>1. /\ UNCHANGED <<calls, commands, mailbox>> /\ dedupe \subseteq dedupe'
        /\ notifierFaults' \in {notifierFaults, notifierFaults + 1}
    BY <1>8 DEF Mark, PublishReply, AckCommand, transportVars, NoFault, NotifierFault, faultVars
  <2>2. cmd'.step # "send"
    <3>1. CASE PublishReply
      <4>1. cmd.step = "reply" /\ (\/ cmd' = [cmd EXCEPT !.step = "ack"]
                                  \/ cmd' = [cmd EXCEPT !.tries = @ + 1,
                                             !.step = IF cmd.tries + 1 = ReplyAttempts THEN "ack" ELSE @])
        BY <3>1 DEF PublishReply
      <4>2. cmd'.step \in {"reply", "ack"}
        BY <1>0, <4>1
      <4> QED
        BY <4>2
    <3>2. CASE Mark \/ AckCommand
      BY <1>0, <3>2 DEF Mark, AckCommand, NoCommand
    <3> QED
      BY <1>8, <3>1, <3>2
  <2> QED
    BY <1>0, <1>4, <2>1, <2>2 DEF InHand, Unclaimed
<1>9. ASSUME LoseCommandSession
      PROVE  /\ UNCHANGED <<calls, mailbox, dedupe>> /\ notifierFaults' = notifierFaults + 1
             /\ commands'[r] \in Nat /\ commands'[r] <= commands[r] + 1 /\ InHand(r)' = InHand(r)
  <2>1. /\ UNCHANGED <<calls, mailbox, dedupe>> /\ notifierFaults' = notifierFaults + 1
        /\ commands' = Put(commands, cmd.saga)
    BY <1>9 DEF LoseCommandSession, NotifierFault
  <2>2. cmd'.step = cmd.step /\ cmd'.saga = cmd.saga
    BY <1>0, <1>9 DEF LoseCommandSession
  <2> QED
    BY <1>0, <2>1, <2>2 DEF InHand, Put
<1>10. ASSUME NEW c \in Calls, TryClaim(c)
       PROVE  /\ UNCHANGED <<commands, mailbox, notifierFaults, cmd>>
              /\ IsFiniteSet(Sending(r)') /\ Cardinality(Sending(r)') \in Nat
              /\ Cardinality(Sending(r)') + Unclaimed(r)' <= Cardinality(Sending(r)) + Unclaimed(r)
  <2>1. UNCHANGED <<commands, mailbox, notifierFaults, cmd>> /\ calls[c].step = "claim"
    BY <1>10 DEF TryClaim, faultVars
  <2>2. c \notin Sending(r)
    BY <2>1 DEF Sending
  <2>3. CASE calls[c].saga \in dedupe /\ Answer(c, "ok") /\ UNCHANGED dedupe
    <3>1. calls' = [calls EXCEPT ![c] = Answered(c, "ok")]
      BY <2>3 DEF Answer
    <3>2. Answered(c, "ok").step # "send"
      BY <1>0 DEF Answered, FreeCall, CallRecords
    <3>3. /\ IsFiniteSet(Sending(r)')
          /\ Cardinality(Sending(r)') = Cardinality(Sending(r)) - (IF c \in Sending(r) THEN 1 ELSE 0)
      BY <3>1, <3>2, SendingChanges
    <3> QED
      BY <1>1, <1>4, <2>1, <2>2, <2>3, <3>3
  <2>4. CASE /\ calls[c].saga \notin dedupe /\ dedupe' = dedupe \cup {calls[c].saga}
             /\ calls' = [calls EXCEPT ![c].step = "send"]
    <3> DEFINE call == [calls[c] EXCEPT !.step = "send"]
    <3>1. calls' = [calls EXCEPT ![c] = call] /\ call.saga = calls[c].saga /\ call.step = "send"
      BY <1>0, <2>4 DEF CallRecords
    <3>2. CASE calls[c].saga = r
      <4>1. Unclaimed(r) = 1 /\ Unclaimed(r)' = 0
        BY <2>4, <3>2 DEF Unclaimed
      <4> HIDE DEF call
      <4>2. /\ IsFiniteSet(Sending(r)') /\ Cardinality(Sending(r)') \in Nat
            /\ Cardinality(Sending(r)') <= Cardinality(Sending(r)) + 1
        BY <3>1, SendingChanges
      <4> QED
        BY <1>1, <2>1, <4>1, <4>2
    <3>3. CASE calls[c].saga # r
      <4>1. Unclaimed(r)' = Unclaimed(r)
        BY <2>4, <3>3 DEF Unclaimed
      <4> HIDE DEF call
      <4>2. /\ IsFiniteSet(Sending(r)')
            /\ Cardinality(Sending(r)') = Cardinality(Sending(r)) - (IF c \in Sending(r) THEN 1 ELSE 0)
        BY <3>1, <3>3, SendingChanges
      <4> QED
        BY <1>0, <1>1, <2>1, <2>2, <4>1, <4>2
    <3> QED
      BY <3>2, <3>3
  <2> QED
    BY <1>10, <2>3, <2>4 DEF TryClaim
<1>11. ASSUME NEW c \in Calls, SendClaimed(c)
       PROVE  /\ UNCHANGED <<commands, cmd>>
              /\ IsFiniteSet(Sending(r)') /\ Cardinality(Sending(r)') \in Nat
              /\ mailbox'[r] + Cardinality(Sending(r)') <= mailbox[r] + Cardinality(Sending(r))
              /\ \/ UNCHANGED dedupe /\ UNCHANGED notifierFaults
                 \/ notifierFaults' = notifierFaults + 1
  <2>1. /\ UNCHANGED <<commands, cmd>> /\ calls[c].step = "send"
        /\ mailbox' = mailbox \/ Delivers(calls[c].saga)
        /\ \/ UNCHANGED dedupe /\ UNCHANGED notifierFaults
           \/ notifierFaults' = notifierFaults + 1
    BY <1>11 DEF SendClaimed, SendOk, SendFails, NoFault, NotifierFault, faultVars
  <2>2. PICK status \in {"ok", "err"} : calls' = [calls EXCEPT ![c] = Answered(c, status)]
    BY <1>11 DEF SendClaimed, Answer
  <2>3. Answered(c, status).step # "send"
    BY <1>0 DEF Answered, FreeCall, CallRecords
  <2>4. c \in Sending(r) <=> calls[c].saga = r
    BY <2>1 DEF Sending
  <2>5. mailbox'[r] \in Nat /\ mailbox'[r] <= mailbox[r] + (IF c \in Sending(r) THEN 1 ELSE 0)
    BY <1>0, <1>5, <2>1, <2>4
  <2>6. /\ IsFiniteSet(Sending(r)') /\ Cardinality(Sending(r)') \in Nat
        /\ Cardinality(Sending(r)') = Cardinality(Sending(r)) - (IF c \in Sending(r) THEN 1 ELSE 0)
    BY <2>2, <2>3, SendingChanges
  <2> QED
    BY <1>0, <1>1, <2>1, <2>5, <2>6
<1>12. ASSUME NotifierCrash
       PROVE  /\ UNCHANGED mailbox /\ notifierFaults' = notifierFaults + 1
              /\ commands'[r] \in Nat /\ commands'[r] <= commands[r] + 1 /\ InHand(r)' = 0
              /\ Sending(r)' = {}
  <2>1. /\ UNCHANGED mailbox /\ notifierFaults' = notifierFaults + 1 /\ cmd'.step = "idle"
        /\ commands' = commands \/ commands' = Put(commands, cmd.saga)
    BY <1>12 DEF NotifierCrash, NotifierFault, NoCommand
  <2>2. Sending(r)' = {}
    BY <1>0, <1>12 DEF NotifierCrash, Sending, Answered, FreeCall, CallRecords
  <2> QED
    BY <1>0, <2>1, <2>2 DEF InHand, Put
<1>13. ASSUME NEW q \in Requests, Forget(q)
       PROVE  UNCHANGED <<commands, calls, mailbox, cmd>> /\ notifierFaults' = notifierFaults + 1
  BY <1>13 DEF Forget, NotifierFault, transportVars
<1>e. Emails(r)' = mailbox'[r] + commands'[r] + InHand(r)' + Cardinality(Sending(r)') + Unclaimed(r)' + Unpublished(r)
  BY <1>2 DEF Emails
<1>t. commands'[r] \in Nat /\ mailbox'[r] \in Nat
  BY DEF Typing, TypeOK, TransportTypeOK, SubscribersTypeOK
<1> USE <1>0, <1>1, <1>4, <1>e, <1>t DEF Emails
<1>14. CASE \E q \in Requests : ReceiveCommand(q)
  BY <1>3, <1>6, <1>14
<1>15. CASE SendCommanded
  BY <1>3, <1>7, <1>15
<1>16. CASE Mark \/ PublishReply \/ AckCommand
  BY <1>3, <1>8, <1>16
<1>17. CASE LoseCommandSession
  BY <1>3, <1>9, <1>17
<1>18. CASE \E c \in Calls : TryClaim(c)
  BY <1>10, <1>18
<1>19. CASE \E c \in Calls : SendClaimed(c)
  BY <1>11, <1>19
<1>20. CASE NotifierCrash
  <2>1. IsFiniteSet(Sending(r)') /\ Cardinality(Sending(r)') = 0
    BY <1>12, <1>20, FS_EmptySet
  <2> QED
    BY <1>12, <1>20, <2>1
<1>21. CASE \E q \in Requests : Forget(q)
  BY <1>3, <1>13, <1>21
<1> QED
  BY <1>14, <1>15, <1>16, <1>17, <1>18, <1>19, <1>20, <1>21
     DEF NotifierStep, NotifierNext, CommandConsumer, GrpcServer

LEMMA BudgetStep ==
    ASSUME Typing, Typing', Budgeted, [Next]_vars
    PROVE  Budgeted'
<1> SUFFICES ASSUME NEW r \in Requests
             PROVE  (IsFiniteSet(Sending(r)) /\ Emails(r) <= 2 * (1 + notifierFaults))'
  BY DEF Budgeted
<1>0. /\ IsFiniteSet(Sending(r)) /\ Emails(r) <= 2 * (1 + notifierFaults)
      /\ Cardinality(Sending(r)) \in Nat
  BY FS_CardinalityType DEF Budgeted
<1>1. /\ notifierFaults \in Nat /\ mailbox[r] \in Nat /\ commands[r] \in Nat
      /\ InHand(r) \in 0..1 /\ Unclaimed(r) \in 0..1 /\ Unpublished(r) \in 0..1
  BY CountTypes
<1>2. /\ notifierFaults' \in Nat /\ commands'[r] \in Nat /\ Unpublished(r)' \in 0..1
  BY CountTypes DEF Typing, TypeOK, SubscribersTypeOK, FaultsTypeOK, TransportTypeOK, Unpublished
<1>3. CASE ServerStep
  <2>1. /\ Sending(r)' = Sending(r)
        /\ commands'[r] + Unpublished(r)' <= commands[r] + Unpublished(r)
        /\ UNCHANGED <<notifierVars, mailbox, notifierFaults>>
    BY <1>3, ServerSpendsNothing
  <2>2. InHand(r)' = InHand(r) /\ Unclaimed(r)' = Unclaimed(r)
    BY <2>1 DEF notifierVars, InHand, Unclaimed
  <2> QED
    BY <1>0, <1>1, <1>2, <2>1, <2>2 DEF Emails
<1>4. CASE NotifierStep
  <2>1. /\ IsFiniteSet(Sending(r)')
        /\ \/ Emails(r)' <= Emails(r) /\ notifierFaults' >= notifierFaults
           \/ Emails(r)' <= Emails(r) + 2 /\ notifierFaults' = notifierFaults + 1
    BY <1>0, <1>4, NotifierSpends
  <2>2. Emails(r) \in Nat /\ Emails(r)' \in Nat
    <3>1. Cardinality(Sending(r)') \in Nat
      BY <2>1, FS_CardinalityType
    <3>2. mailbox'[r] \in Nat /\ InHand(r)' \in 0..1 /\ Unclaimed(r)' \in 0..1
      BY DEF Typing, TypeOK, SubscribersTypeOK, InHand, Unclaimed
    <3> QED
      BY <1>0, <1>1, <1>2, <3>1, <3>2 DEF Emails
  <2> QED
    BY <1>0, <1>1, <1>2, <2>1, <2>2
<1>5. CASE UNCHANGED vars
  <2>1. Sending(r)' = Sending(r) /\ Emails(r)' = Emails(r) /\ UNCHANGED notifierFaults
    BY <1>5 DEF vars, serverVars, transportVars, notifierVars, faultVars, Sending, Emails, InHand, Unclaimed,
                Unpublished
  <2> QED
    BY <1>0, <2>1
<1> QED
  BY <1>3, <1>4, <1>5 DEF Next

\* However often the server's side fails, a request leads to at most two
\* emails, and to two more for each fault of the notifier's side.
THEOREM MailIsBounded == Spec => []MailBound
<1>1. Typing /\ Budgeted => MailBound
  <2> SUFFICES ASSUME Typing, Budgeted, NEW r \in Requests
               PROVE  mailbox[r] <= 2 * (1 + notifierFaults)
    BY DEF MailBound
  <2>1. IsFiniteSet(Sending(r)) /\ Emails(r) <= 2 * (1 + notifierFaults)
    BY DEF Budgeted
  <2>2. Cardinality(Sending(r)) \in Nat
    BY <2>1, FS_CardinalityType
  <2> QED
    BY <2>1, <2>2, CountTypes DEF Emails
<1>2. Typing /\ Typing' /\ Budgeted /\ [Next]_vars => Budgeted'
  BY BudgetStep
<1> QED
  BY <1>1, <1>2, BudgetInit, TypingInvariant, PTL DEF Spec
=============================================================================
