------------------------------ MODULE Transport ------------------------------
(***************************************************************************)
(* What the server and the notifier share: the RabbitMQ queues             *)
(* notifier.commands and app.saga.events, and the gRPC calls of            *)
(* EmailNotifierService.SendConfirmation.                                  *)
(*                                                                         *)
(* A queue is a bag of unacknowledged messages: prefetch, requeueing and   *)
(* redelivery make the order in which a consumer meets them arbitrary.     *)
(***************************************************************************)
EXTENDS Subscribers

CONSTANT
    Calls               \* bound: gRPC calls that may be open at a time

VARIABLES
    commands,           \* SendConfirmation commands in the broker, by saga
    events,             \* reply events in the broker, by kind and saga
    calls               \* gRPC calls: the handler's step, its saga, and
                        \* whether the client still waits for the answer

transportVars == <<commands, events, calls>>

EventKinds == {"sent", "failed"}
CallSteps == {"free", "claim", "send", "ok", "err"}
CallRecords == [step : CallSteps, saga : Requests \cup {NoRequest}, client : BOOLEAN]
FreeCall == [step |-> "free", saga |-> NoRequest, client |-> FALSE]

TransportInit ==
    /\ commands = [r \in Requests |-> 0]
    /\ events = [e \in EventKinds \X Requests |-> 0]
    /\ calls = [c \in Calls |-> FreeCall]

TransportTypeOK ==
    /\ commands \in [Requests -> Nat]
    /\ events \in [EventKinds \X Requests -> Nat]
    /\ calls \in [Calls -> CallRecords]

-----------------------------------------------------------------------------
(* Queues. *)

Put(queue, m) == [queue EXCEPT ![m] = @ + 1]
Take(queue, m) == [queue EXCEPT ![m] = @ - 1]

-----------------------------------------------------------------------------
(* gRPC. *)

OpenCall(c, r) ==
    /\ calls[c].step = "free"
    /\ calls' = [calls EXCEPT ![c] = [step |-> "claim", saga |-> r, client |-> TRUE]]

\* The handler returns; nobody reads the answer of a call given up on.
Answered(c, status) ==
    IF calls[c].client THEN [calls[c] EXCEPT !.step = status] ELSE FreeCall

\* Mutant: the handler stops with its client, and its claim stays.
AbandonedStops(c) == FreeCall

\* The client stops waiting: an answer on its way is dropped, a handler that
\* is still running finishes without a reader.
Abandoned(c) ==
    IF calls[c].step \in {"claim", "send"}
    THEN [calls[c] EXCEPT !.client = FALSE]
    ELSE FreeCall
=============================================================================
