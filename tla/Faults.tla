------------------------------- MODULE Faults -------------------------------
(***************************************************************************)
(* The faults the two processes must survive, counted and bounded.  A      *)
(* fault of the server's side is a database statement, a publish or a      *)
(* GitHub request that fails, a lost broker session, or a crash of         *)
(* cmd/server; one of the notifier's side is a send or a publish that      *)
(* fails, a lost session, a forgotten dedupe entry, or a crash of          *)
(* cmd/notifier.                                                           *)
(***************************************************************************)
EXTENDS Naturals

CONSTANTS MaxServerFaults, MaxNotifierFaults

ASSUME FaultBoundsAssumption ==
    MaxServerFaults \in Nat /\ MaxNotifierFaults \in Nat

VARIABLES serverFaults, notifierFaults

faultVars == <<serverFaults, notifierFaults>>

FaultsInit == serverFaults = 0 /\ notifierFaults = 0

FaultsTypeOK ==
    /\ serverFaults \in 0..MaxServerFaults
    /\ notifierFaults \in 0..MaxNotifierFaults

NoFault == UNCHANGED faultVars

ServerFault ==
    /\ serverFaults < MaxServerFaults
    /\ serverFaults' = serverFaults + 1
    /\ UNCHANGED notifierFaults

NotifierFault ==
    /\ notifierFaults < MaxNotifierFaults
    /\ notifierFaults' = notifierFaults + 1
    /\ UNCHANGED serverFaults
=============================================================================
