------------------------- MODULE ColorSpaceOwnership -------------------------
(***************************************************************************)
(* What the managed color space of one swap chain promises, whatever the   *)
(* threads that present, resize, query and set color spaces do:            *)
(*                                                                         *)
(*   - the baseline is captured once, when emulation starts, and is the    *)
(*     same value until it is given back;                                  *)
(*   - emulation never ends by dropping the baseline: it goes through      *)
(*     "restoring", or it ends for the lifetime of the swap chain;         *)
(*   - a failure is permanent and nothing starts or resumes after one.     *)
(***************************************************************************)

CONSTANTS ColorSpaces,    \* DXGI color spaces
          NoColorSpace    \* the None of restore_color_space

VARIABLES phase,          \* "idle", "hdr" or "restoring"
          baseline,       \* color space to give back, or NoColorSpace
          failed          \* emulation is over for this swap chain

ownershipVars == <<phase, baseline, failed>>

Init ==
    /\ phase = "idle"
    /\ baseline = NoColorSpace
    /\ failed = FALSE

Start ==
    /\ phase = "idle" /\ ~failed
    /\ phase' = "hdr"
    /\ baseline' \in ColorSpaces
    /\ UNCHANGED failed

Stop ==
    /\ phase = "hdr"
    /\ phase' = "restoring"
    /\ failed' \in {failed, TRUE}
    /\ UNCHANGED baseline

Resume ==
    /\ phase = "restoring" /\ ~failed
    /\ phase' = "hdr"
    /\ UNCHANGED <<baseline, failed>>

Release ==
    /\ phase = "restoring"
    /\ phase' = "idle"
    /\ baseline' = NoColorSpace
    /\ UNCHANGED failed

Fail ==
    /\ failed' = TRUE
    /\ UNCHANGED <<phase, baseline>>

Relinquish ==
    /\ phase # "idle"
    /\ phase' = "idle"
    /\ baseline' = NoColorSpace
    /\ failed' = TRUE

Next == Start \/ Stop \/ Resume \/ Release \/ Fail \/ Relinquish

Spec == Init /\ [][Next]_ownershipVars

=============================================================================
