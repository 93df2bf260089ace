----------------------------- MODULE MCStartup -----------------------------
(***************************************************************************)
(* Instances of the secondary boot for TLC.                                *)
(***************************************************************************)
EXTENDS Startup

MCThree == 1 .. 3
MCFaultSets == {{}, FaultKinds}

=============================================================================
