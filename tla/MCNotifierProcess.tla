------------------------- MODULE MCNotifierProcess -------------------------
(* Constants for model checking NotifierProcess. *)
EXTENDS NotifierProcess

\* One publish for each attempt of each reply.
AllReplyCalls == ReplyCalls
=============================================================================
