----------------------- MODULE MCReleaseNotification -----------------------
(***************************************************************************)
(* Model values for ReleaseNotification: one repository with both          *)
(* subscriptions, or one repository for each.                              *)
(***************************************************************************)
EXTENDS ReleaseNotification, TLC

CONSTANTS p1, p2, s1, s2

BothOfOne == [s \in {s1, s2} |-> p1]
OneOfOne == [s \in {s1} |-> p1]
OneEach == s1 :> p1 @@ s2 :> p2
=============================================================================
