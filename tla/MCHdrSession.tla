----------------------------- MODULE MCHdrSession -----------------------------
(***************************************************************************)
(* A small instance of HdrSession: one render thread that presents, sets,  *)
(* resizes, releases and creates, and one game thread that polls.          *)
(***************************************************************************)
EXTENDS HdrSession

CONSTANTS render, game, sdr, pq, scrgb, none

SomeColorSpaces == {sdr, pq, scrgb}

=============================================================================
