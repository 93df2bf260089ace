--------------------------- MODULE MCGuestMemory ---------------------------
(* GuestMemory for TLC. *)
EXTENDS GuestMemory

MCManaged == (0 .. (Top - 1)) \ {3}
MCDeviceIpas == {1, 3}
MCRegionIpas == {2, 3}

=============================================================================
