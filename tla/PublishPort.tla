----------------------------- MODULE PublishPort -----------------------------
(***************************************************************************)
(* What the callers of the RabbitMQ publisher rely on, and all they rely   *)
(* on: a publish that returns nil has put its message into the broker; one *)
(* that returns an error may have done so, or may still do so after the    *)
(* caller was told; no publish puts its message there twice.               *)
(***************************************************************************)
CONSTANT Publishes      \* calls of publish

VARIABLES
    answer,     \* of each call: none yet, nil or an error
    stored      \* the calls whose message is in the broker

Answers == {"none", "ok", "error"}

Init ==
    /\ answer = [p \in Publishes |-> "none"]
    /\ stored = {}

Store(p) ==
    /\ p \notin stored
    /\ stored' = stored \cup {p}
    /\ UNCHANGED answer

Return(p, a) ==
    /\ answer[p] = "none"
    /\ a = "ok" => p \in stored
    /\ answer' = [answer EXCEPT ![p] = a]
    /\ UNCHANGED stored

Next == \E p \in Publishes : Store(p) \/ Return(p, "ok") \/ Return(p, "error")

Spec == Init /\ [][Next]_<<answer, stored>>
=============================================================================
