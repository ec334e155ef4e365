---------------------------- MODULE MCShadowVtable ----------------------------
(***************************************************************************)
(* Small instances of ShadowVtable: slot 1 is the lifecycle slot, slot 2   *)
(* Present, slot 3 SetColorSpace1. The short interface has the first two   *)
(* slots, the long one all three.                                          *)
(***************************************************************************)
EXTENDS ShadowVtable

CONSTANTS render, game, loader, overlay, native, hook, nobody

=============================================================================
