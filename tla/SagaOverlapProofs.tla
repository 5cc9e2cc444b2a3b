-------------------------- MODULE SagaOverlapProofs --------------------------
(***************************************************************************)
(* What a completed saga means when calls overlap: a restarted server may  *)
(* open a call while the notifier runs the handler of an earlier one.      *)
(***************************************************************************)
EXTENDS SagaMailProofs

(* The second call is answered OK by the claim of the first, before the    *)
(* email is delivered.  That OK, and all that is built on it, is a promise *)
(* that the first handler keeps: as long as nothing fails on the           *)
(* notifier's side, it ends with the delivery.                             *)

DedupePromised == \A r \in dedupe : OnItsWay(r)

CallsPromised == \A c \in Calls : calls[c].step = "ok" => OnItsWay(calls[c].saga)

SweepPromised == sweep.step = "complete" => OnItsWay(sweep.saga)

CompletedPromised == \A r \in Requests : sagas[r] = "completed" => OnItsWay(r)

Promises == DedupePromised /\ CallsPromised /\ SweepPromised /\ CompletedPromised

Promised == Trail /\ (notifierFaults = 0 => Promises)

LEMMA PromisedInit == Init => Promised
BY DEF Init, SubscribersInit, FaultsInit, StoreInit, TransportInit, ServerInit, NotifierInit, NoDelivery,
       NoSweep, NoCommand, FreeCall, EventKinds, Promised, Promises, DedupePromised, CallsPromised,
       SweepPromised, CompletedPromised, Trail, EventsMailed, ReplyMailed, CommandMailed

\* Only a reply "sent" or a promise completes a saga.
LEMMA CompletedStep ==
    ASSUME Typing, ReplyMailed, SweepPromised, CompletedPromised, OneStatement,
           \A r \in Requests : OnItsWay(r) => OnItsWay(r)'
    PROVE  CompletedPromised'
<1> DEFINE Kept == \A r \in Requests : sagas'[r] = "completed" => OnItsWay(r)
<1>1. ASSUME UNCHANGED storeVars
      PROVE  Kept
  BY <1>1 DEF storeVars, CompletedPromised
<1>2. ASSUME NEW r, CreateWithSaga(r) \/ Confirm(r) \/ Delete(r) \/ Age(r) \/ MarkCompensated(r)
      PROVE  Kept
  BY <1>2 DEF CreateWithSaga, Confirm, Delete, Age, MarkCompensated, markTerminal, CompletedPromised,
              Typing, TypeOK, StoreTypeOK
<1>3. ASSUME NEW r, OnItsWay(r), MarkCompleted(r)
      PROVE  Kept
  BY <1>3 DEF MarkCompleted, markTerminal, CompletedPromised, Typing, TypeOK, StoreTypeOK
<1>4. ASSUME replies.step = "complete", MarkCompleted(replies.saga)
      PROVE  Kept
  <2>1. OnItsWay(replies.saga)
    BY <1>4 DEF ReplyMailed, OnItsWay
  <2> QED
    BY <1>3, <1>4, <2>1
<1>5. ASSUME sweep.step = "complete", MarkCompleted(sweep.saga)
      PROVE  Kept
  BY <1>3, <1>5 DEF SweepPromised
<1>6. Kept
  <2> HIDE DEF Kept
  <2>1. CASE \E r \in Requests : Statement(r)
    BY <1>2, <2>1 DEF Statement
  <2>2. CASE \E w \in Workers : WorkerStatement(w)
    BY <1>2, <2>2 DEF WorkerStatement
  <2> QED
    BY <1>1, <1>4, <1>5, <2>1, <2>2 DEF OneStatement
<1> QED
  BY <1>6 DEF CompletedPromised

-----------------------------------------------------------------------------
(* Every step keeps the promises. *)

LEMMA PromisedServer ==
    ASSUME Typing, Promised, ServerStep
    PROVE  Promised'
<1>1. UNCHANGED <<dedupe, mailbox, notifierFaults>> /\ ServerReads
  BY ServerQuiet, ServerReadsStep DEF notifierVars
<1>2. Trail'
  BY TrailServer DEF Promised
<1>3. SUFFICES ASSUME Promises PROVE Promises'
  BY <1>1, <1>2 DEF Promised
<1>4. \A r : OnItsWay(r) => OnItsWay(r)'
  BY <1>1 DEF ServerReads, OnItsWay, Sending
<1>5. CompletedPromised'
  BY <1>3, <1>4, StepStatement, CompletedStep DEF Next, Promised, Promises, Trail
<1>6. DedupePromised'
  BY <1>1, <1>3, <1>4 DEF Promises, DedupePromised
<1>7. CallsPromised'
  <2> SUFFICES ASSUME NEW c \in Calls, calls'[c].step = "ok" PROVE OnItsWay(calls[c].saga)'
    BY DEF CallsPromised
  <2>1. OnItsWay(calls[c].saga) /\ calls'[c].saga = calls[c].saga
    BY <1>1, <1>3 DEF ServerReads, Promises, CallsPromised
  <2> QED
    BY <1>1, <2>1 DEF ServerReads, OnItsWay, Sending
<1>8. SweepPromised'
  <2> SUFFICES ASSUME sweep'.step = "complete" PROVE OnItsWay(sweep.saga)'
    BY DEF SweepPromised
  <2>1. OnItsWay(sweep'.saga)
    BY <1>1, <1>3 DEF ServerReads, Promises, CallsPromised, SweepPromised
  <2> QED
    BY <1>1, <2>1 DEF ServerReads, OnItsWay, Sending
<1> QED
  BY <1>5, <1>6, <1>7, <1>8 DEF Promises

\* What the notifier does to its calls and its cache when nothing fails: a
\* send ends with a delivery, and an entry or an answer OK stands for a send.
NotifierKeeps ==
    /\ \A r \in Requests : OnItsWay(r) => OnItsWay(r)'
    /\ DedupePromised' /\ CallsPromised'

LEMMA NotifierKeepsStep ==
    ASSUME Typing, CommandMailed, DedupePromised, CallsPromised, NotifierStep, notifierFaults = 0,
           notifierFaults' = 0
    PROVE  NotifierKeeps
<1>1. ~NotifierFault
  BY DEF NotifierFault
<1>2. /\ mailbox \in [Requests -> Nat] /\ dedupe \subseteq Requests /\ calls \in [Calls -> CallRecords]
      /\ \A c \in Calls : calls[c].step # "free" => calls[c].saga \in Requests
  BY DEF Typing, TypeOK, SubscribersTypeOK, NotifierTypeOK, TransportTypeOK, CallsServe
<1>3. ASSUME \A r \in Requests : OnItsWay(r) => OnItsWay(r)',
             \A r \in dedupe' : r \in dedupe \/ OnItsWay(r)',
             \A c \in Calls : calls'[c] = calls[c] \/ (calls[c].step = "ok" => OnItsWay(calls[c].saga))'
      PROVE  NotifierKeeps
  <2>1. DedupePromised'
    BY <1>2, <1>3 DEF DedupePromised
  <2>2. CallsPromised'
    <3> SUFFICES ASSUME NEW c \in Calls, calls'[c] = calls[c], calls[c].step = "ok"
                 PROVE  OnItsWay(calls[c].saga)'
      BY <1>3 DEF CallsPromised
    <3>1. calls[c].saga \in Requests /\ OnItsWay(calls[c].saga)
      BY <1>2 DEF CallsPromised
    <3>2. OnItsWay(calls[c].saga)' <=> (\E r \in Requests : r = calls[c].saga /\ OnItsWay(r)')
      BY <3>1 DEF OnItsWay, Sending
    <3> QED
      BY <1>3, <3>1, <3>2
  <2> QED
    BY <1>3, <2>1, <2>2 DEF NotifierKeeps
<1>4. \A r \in Requests : mailbox[r] > 0 => mailbox'[r] > 0
  BY MailStays DEF Next
<1>5. ASSUME CommandConsumer \/ \E r \in Requests : Forget(r)
      PROVE  NotifierKeeps
  <2>1. /\ UNCHANGED calls
        /\ \/ dedupe' \subseteq dedupe
           \/ cmd.step = "mark" /\ dedupe' = dedupe \cup {cmd.saga}
    BY <1>5 DEF CommandConsumer, ReceiveCommand, SendCommanded, Mark, PublishReply, AckCommand, Forget,
                transportVars
  <2>2. cmd.step = "mark" => mailbox[cmd.saga] > 0 /\ cmd.saga \in Requests
    BY DEF CommandMailed, Typing, Serving
  <2>3. \A r \in Requests : OnItsWay(r) => OnItsWay(r)'
    BY <1>4, <2>1 DEF OnItsWay, Sending
  <2> QED
    BY <1>3, <1>4, <2>1, <2>2, <2>3 DEF OnItsWay
<1>6. ASSUME NEW c \in Calls, TryClaim(c)
      PROVE  NotifierKeeps
  <2> DEFINE r == calls[c].saga
  <2>1. r \in Requests /\ calls[c].step = "claim" /\ UNCHANGED mailbox
    BY <1>2, <1>6 DEF TryClaim
  <2>2. CASE r \in dedupe /\ UNCHANGED dedupe /\ calls' = [calls EXCEPT ![c] = Answered(c, "ok")]
    <3>1. \A q : Sending(q)' = Sending(q)
      BY <1>2, <2>1, <2>2 DEF Sending, Answered, FreeCall
    <3>2. calls'[c].step = "ok" => calls'[c].saga = r
      BY <1>2, <2>1, <2>2 DEF Answered, FreeCall, CallRecords
    <3>3. mailbox[r] > 0 \/ Sending(r) # {}
      BY <2>2 DEF DedupePromised, OnItsWay
    <3>4. (calls[c].step = "ok" => OnItsWay(calls[c].saga))'
      BY <2>1, <3>1, <3>2, <3>3 DEF OnItsWay
    <3> QED
      BY <1>2, <1>3, <2>1, <2>2, <3>1, <3>4 DEF OnItsWay
  <2>3. CASE dedupe' = dedupe \cup {r} /\ calls' = [calls EXCEPT ![c].step = "send"]
    <3>1. calls'[c].step = "send" /\ \A q : Sending(q) \subseteq Sending(q)' /\ (q = r => c \in Sending(q)')
      BY <1>2, <2>1, <2>3 DEF Sending, CallRecords
    <3>2. \A q : (q = r \/ OnItsWay(q)) => OnItsWay(q)'
      BY <2>1, <3>1 DEF OnItsWay
    <3>3. \A d \in Calls : calls'[d] = calls[d] \/ (calls[d].step = "ok" => OnItsWay(calls[d].saga))'
      BY <1>2, <2>3, <3>1
    <3> QED
      BY <1>3, <2>3, <3>2, <3>3
  <2> QED
    BY <1>6, <2>2, <2>3 DEF TryClaim, Answer
<1>7. ASSUME NEW c \in Calls, SendClaimed(c)
      PROVE  NotifierKeeps
  <2> DEFINE r == calls[c].saga
  <2>1. r \in Requests /\ calls[c].step = "send" /\ UNCHANGED dedupe /\ Delivers(r)
        /\ calls' = [calls EXCEPT ![c] = Answered(c, "ok")]
    BY <1>1, <1>2, <1>7 DEF SendClaimed, SendOk, SendFails, Answer
  <2>2. mailbox'[r] > 0
    BY <1>2, <2>1 DEF Delivers
  <2>3. calls'[c].step = "ok" => calls'[c].saga = r
    BY <1>2, <2>1 DEF Answered, FreeCall, CallRecords
  <2>4. \A q \in Requests : q # r => Sending(q)' = Sending(q)
    BY <1>2, <2>1 DEF Sending, Answered, FreeCall
  <2>5. \A q \in Requests : OnItsWay(q) => OnItsWay(q)'
    BY <1>4, <2>2, <2>4 DEF OnItsWay
  <2>6. \A d \in Calls : calls'[d] = calls[d] \/ (calls[d].step = "ok" => OnItsWay(calls[d].saga))'
    BY <1>2, <2>1, <2>2, <2>3 DEF OnItsWay
  <2> QED
    BY <1>3, <2>1, <2>5, <2>6
<1> QED
  BY <1>1, <1>5, <1>6, <1>7 DEF NotifierStep, NotifierNext, GrpcServer, LoseCommandSession, NotifierCrash

LEMMA PromisedNotifier ==
    ASSUME Typing, Promised, NotifierStep
    PROVE  Promised'
<1>1. Trail'
  BY TrailNotifier DEF Promised
<1>2. SUFFICES ASSUME notifierFaults' = 0 PROVE Promises'
  BY <1>1 DEF Promised
<1>3. notifierFaults = 0 /\ Promises
  <2>1. notifierFaults \in Nat
    BY DEF Typing, TypeOK, SubscribersTypeOK, FaultsTypeOK
  <2>2. UNCHANGED faultVars \/ NotifierFault
    BY DEF NoFault, NotifierStep, NotifierNext, CommandConsumer, GrpcServer, ReceiveCommand, SendCommanded,
           Mark, PublishReply, AckCommand, LoseCommandSession, TryClaim, SendClaimed, NotifierCrash,
           Forget, SendOk, SendFails, transportVars
  <2> QED
    BY <1>2, <2>1, <2>2 DEF NotifierFault, faultVars, Promised
<1>4. NotifierKeeps
  BY <1>2, <1>3, NotifierKeepsStep DEF Promised, Promises, Trail
<1>5. CompletedPromised'
  BY <1>3, <1>4, StepStatement, CompletedStep DEF Next, Promised, Promises, Trail, NotifierKeeps
<1>6. SweepPromised'
  <2>1. UNCHANGED sweep
    BY DEF NotifierStep, serverVars
  <2> QED
    BY <1>3, <1>4, <2>1 DEF SweepPromised, Promises, NotifierKeeps, Typing, Serving, OnItsWay, Sending
<1> QED
  BY <1>4, <1>5, <1>6 DEF Promises, NotifierKeeps

LEMMA PromisedStep ==
    ASSUME Typing, Promised, [Next]_vars
    PROVE  Promised'
<1>1. UNCHANGED vars => Promised'
  BY DEF vars, storeVars, serverVars, transportVars, notifierVars, faultVars, Promised, Promises,
         DedupePromised, CallsPromised, SweepPromised, CompletedPromised, OnItsWay, Sending, Trail,
         EventsMailed, ReplyMailed, CommandMailed
<1> QED
  BY <1>1, PromisedServer, PromisedNotifier DEF Next

\* However many calls are open at once: unless something fails on the notifier's
\* side, the email of a completed saga was delivered or is being sent.
THEOREM CompletedIsOnItsWay == Spec => []CompletedMeansOnItsWay
<1>1. Typing /\ Promised /\ [Next]_vars => Promised'
  BY PromisedStep
<1>2. Promised => CompletedMeansOnItsWay
  BY DEF Promised, Promises, CompletedPromised, CompletedMeansOnItsWay
<1> QED
  BY <1>1, <1>2, PromisedInit, TypingInvariant, PTL DEF Spec
=============================================================================
