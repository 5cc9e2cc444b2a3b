------------------------------ MODULE Publisher ------------------------------
(***************************************************************************)
(* The RabbitMQ publisher both processes use: publish calls that wait for  *)
(* the broker's confirm, and the supervisor goroutine that redials when    *)
(* the connection is lost.  They share p.ch, which is nil between two      *)
(* sessions.                                                               *)
(*                                                                         *)
(* The supervisor listens to the close of the connection and to nothing    *)
(* else: a channel that the broker closes alone is never replaced.         *)
(***************************************************************************)
EXTENDS Faults

CONSTANT Publishes      \* calls of publish, each made at most once

VARIABLES
    pubLink,        \* the newest connection: up, muted (without its channel), down
    pubSession,     \* how many sessions have been dialled
    ready,          \* p.ch is set
    supervisor,     \* the step of the supervisor goroutine
    done,           \* p.done is closed
    publish,        \* the step of each call and the session whose channel it took
    wire            \* what became of its message

publisherVars == <<pubLink, pubSession, ready, supervisor, done, publish, wire>>
sessionVars == <<pubLink, pubSession, ready, supervisor>>

PublishSteps == {"unused", "write", "await", "ok", "err"}
Fates == {"none", "sent", "stored", "refused", "lost"}

PublisherInit ==
    /\ pubLink = "down" /\ pubSession = 0 /\ ready = FALSE
    /\ supervisor = "off" /\ done = FALSE
    /\ publish = [p \in Publishes |-> [step |-> "unused", on |-> 0]]
    /\ wire = [p \in Publishes |-> "none"]

PublisherTypeOK ==
    /\ pubLink \in {"up", "muted", "down"}
    /\ pubSession \in Nat
    /\ ready \in BOOLEAN
    /\ supervisor \in {"off", "watch", "replace", "leave", "dial", "backoff", "exited"}
    /\ done \in BOOLEAN
    /\ publish \in [Publishes -> [step : PublishSteps, on : Nat]]
    /\ wire \in [Publishes -> Fates]

InstallSession ==
    /\ pubLink' = "up" /\ pubSession' = pubSession + 1
    /\ ready' = TRUE
    /\ supervisor' = "watch"

\* dial succeeds and the supervisor is started.
NewPublisher ==
    /\ supervisor = "off"
    /\ InstallSession
    /\ UNCHANGED <<done, publish, wire>>

-----------------------------------------------------------------------------
(* publish.  ctx is done when the caller's context is cancelled. *)

GoesTo(p, step) == publish' = [publish EXCEPT ![p].step = step]

\* The channel is taken under the lock and used without it.
TakeChannel(p) ==
    /\ publish[p].step = "unused"
    /\ publish' = [publish EXCEPT ![p] = IF ready THEN [step |-> "write", on |-> pubSession]
                                         ELSE [step |-> "err", on |-> 0]]
    /\ UNCHANGED wire

\* The channel the call took still works.
Usable(p) == pubLink = "up" /\ publish[p].on = pubSession

\* The library does not look at ctx here.
WriteMessage(p) ==
    /\ publish[p].step = "write"
    /\ \/ Usable(p) /\ GoesTo(p, "await") /\ wire' = [wire EXCEPT ![p] = "sent"]
       \/ ~Usable(p) /\ GoesTo(p, "err") /\ UNCHANGED wire
    /\ UNCHANGED <<sessionVars, done, faultVars>>

\* Mutant: success is reported for a message that was only written.
AwaitConfirmUnconfirmed(p, ctxDone) ==
    /\ publish[p].step = "await"
    /\ \/ wire[p] \in {"sent", "stored"} /\ GoesTo(p, "ok")
       \/ (ctxDone \/ wire[p] = "refused" \/ ~Usable(p)) /\ GoesTo(p, "err")
    /\ UNCHANGED <<sessionVars, done, wire, faultVars>>

\* The confirm, a nack, the end of the channel (which counts as a nack) or
\* the end of ctx.  The confirm of a stored message may get lost.
AwaitConfirm(p, ctxDone) ==
    /\ publish[p].step = "await"
    /\ \/ wire[p] = "stored" /\ GoesTo(p, "ok")
       \/ (ctxDone \/ wire[p] = "refused" \/ ~Usable(p)) /\ GoesTo(p, "err")
    /\ UNCHANGED <<sessionVars, done, wire, faultVars>>

-----------------------------------------------------------------------------
(* The supervisor goroutine. *)

\* Mutant: the supervisor listens to the connection and not to done.
EndLostSession ==
    /\ supervisor = "watch"
    /\ pubLink = "down" /\ supervisor' = "replace"
    /\ ready' = FALSE
    /\ UNCHANGED <<pubLink, pubSession, done, publish, wire, faultVars>>

\* clearSession, once done is closed or the connection lost.
EndSession ==
    /\ supervisor = "watch"
    /\ \/ done /\ supervisor' = "leave"
       \/ pubLink = "down" /\ supervisor' = "replace"
    /\ ready' = FALSE
    /\ UNCHANGED <<pubLink, pubSession, done, publish, wire, faultVars>>

\* The channel and the connection are closed, which ends the drain goroutine
\* the supervisor then waits for.
CloseSession ==
    /\ supervisor \in {"leave", "replace"}
    /\ pubLink' = "down"
    /\ supervisor' = IF supervisor = "leave" THEN "exited" ELSE "dial"
    /\ UNCHANGED <<pubSession, ready, done, publish, wire, faultVars>>

\* Mutant: the new session is dialled and not installed.
RedialForgets ==
    /\ supervisor = "dial"
    /\ \/ done /\ supervisor' = "exited" /\ UNCHANGED <<pubLink, pubSession, ready>>
       \/ ~done /\ supervisor' = "watch" /\ UNCHANGED ready
          /\ pubLink' = "up" /\ pubSession' = pubSession + 1
       \/ ~done /\ supervisor' = "backoff" /\ UNCHANGED <<pubLink, pubSession, ready>>
    /\ UNCHANGED <<done, publish, wire, faultVars>>

\* dial and setSession; a dial that fails is tried again after the backoff.
Redial ==
    /\ supervisor = "dial"
    /\ \/ done /\ supervisor' = "exited" /\ UNCHANGED <<pubLink, pubSession, ready>>
       \/ ~done /\ InstallSession
       \/ ~done /\ supervisor' = "backoff" /\ UNCHANGED <<pubLink, pubSession, ready>>
    /\ UNCHANGED <<done, publish, wire, faultVars>>

Backoff ==
    /\ supervisor = "backoff"
    /\ supervisor' \in IF done THEN {"dial", "exited"} ELSE {"dial"}
    /\ UNCHANGED <<pubLink, pubSession, ready, done, publish, wire, faultVars>>

Supervise == EndSession \/ CloseSession \/ Redial \/ Backoff

-----------------------------------------------------------------------------
(* The broker and the network. *)

Fate(p, fate) == wire[p] = "sent" /\ wire' = [wire EXCEPT ![p] = fate]

\* What was written before a connection broke may still be stored.
StoreMessage(p) == Fate(p, "stored") /\ NoFault
LoseMessage(p) == Fate(p, "lost") /\ ~Usable(p) /\ NoFault
RefuseMessage(p) == Fate(p, "refused") /\ NotifierFault

BrokerAnswers(p) ==
    /\ StoreMessage(p) \/ LoseMessage(p) \/ RefuseMessage(p)
    /\ UNCHANGED <<sessionVars, done, publish>>

PublisherLinkFails ==
    /\ \/ pubLink \in {"up", "muted"} /\ pubLink' = "down"
       \/ pubLink = "up" /\ pubLink' = "muted"
    /\ NotifierFault
    /\ UNCHANGED <<pubSession, ready, supervisor, done, publish, wire>>
=============================================================================
