-------------------------- MODULE MCActiveSwapChain --------------------------
(***************************************************************************)
(* Small instances of ActiveSwapChain: a game thread that queries the      *)
(* backend, one that asks for the menu's availability, and the threads     *)
(* that own swap chains.                                                   *)
(***************************************************************************)
EXTENDS ActiveSwapChain, TLC

CONSTANTS backend, menu, render, overlay, a, b, null, failed

\* The two addresses and the two owners are interchangeable.
Symmetry == Permutations({a, b}) \cup Permutations({render, overlay})

=============================================================================
