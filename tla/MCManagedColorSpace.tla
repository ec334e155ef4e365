------------------------- MODULE MCManagedColorSpace -------------------------
(***************************************************************************)
(* Small instances of ManagedColorSpace for TLC. In the game one render    *)
(* thread presents, resizes and sets color spaces and the game thread      *)
(* polls; an overlay may add a thread that sets color spaces, a second     *)
(* thread that presents, or both.                                          *)
(***************************************************************************)
EXTENDS ManagedColorSpace

CONSTANTS render, game, overlay, sdr, pq, scrgb, none

SomeColorSpaces == {sdr, pq, scrgb}
TwoColorSpaces == {sdr, pq}

=============================================================================
