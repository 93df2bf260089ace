---------------------------- MODULE MCGuestLoop ----------------------------
(* GuestLoop for TLC. *)
EXTENDS GuestLoop

MCBytes == 1 .. MaxReceived

=============================================================================
