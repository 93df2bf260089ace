----------------------------- MODULE MCChannel -----------------------------
(***************************************************************************)
(* An instance of the request channel for TLC.                             *)
(***************************************************************************)
EXTENDS ChannelRefinement

CONSTANTS s1, s2, Ping, a1, a2

MCSenders == {s1, s2}
MCOperations == {Ping}
MCArguments == {a1, a2}
MCFaults == {"drop", "halt", "fatal"}

=============================================================================
