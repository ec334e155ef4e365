-------------------------- MODULE ManagedColorSpace --------------------------
(***************************************************************************)
(* The color space of one captured swap chain: ManagedColorSpaceState and  *)
(* the hooks that read and write it (src/src/dxgi.rs), polled by the       *)
(* game's HDR backend query (src/src/game_hdr.rs).                         *)
(*                                                                         *)
(* A thread runs one hook at a time. A hook's stretch under the lock of    *)
(* SWAP_CHAIN_STATES is one step, and so is each call it makes into DXGI   *)
(* with the lock released, so the steps of hooks on different threads      *)
(* interleave the way the code lets them. Which thread may run which hook  *)
(* is a parameter: with one presenting thread that also sets and resizes,  *)
(* those hooks are serialised; with several they race.                     *)
(***************************************************************************)
EXTENDS Naturals

CONSTANTS
    Presenters,         \* threads that call Present or Present1
    Setters,            \* threads that call SetColorSpace1 themselves
    Resizers,           \* threads that resize or change fullscreen state
    Queriers,           \* threads that run the backend actual-state query
    ColorSpaces,        \* DXGI color spaces
    PQ,                 \* DXGI_COLOR_SPACE_RGB_FULL_G2084_NONE_P2020
    DefaultColorSpace,  \* color space 0, what a new swap chain has
    NoColorSpace,       \* None of restore_color_space
    MaxEpoch            \* bound: no HDR request is armed at or past this epoch

Threads == Presenters \cup Setters \cup Resizers \cup Queriers

ASSUME ColorSpaceAssumption ==
    /\ PQ \in ColorSpaces
    /\ DefaultColorSpace \in ColorSpaces
    /\ PQ # DefaultColorSpace
    /\ NoColorSpace \notin ColorSpaces

ASSUME BoundAssumption == MaxEpoch \in Nat

VARIABLES
    managed,      \* ManagedColorSpaceState
    observed,     \* observed_color_space
    actual,       \* the color space DXGI presents with
    reported,     \* last override the backend query gave the game
    pc,           \* where each thread is inside its hook
    transition,   \* the ManagedColorSpaceTransition a presenter carries
    outcome,      \* whether a presenter's color-space call succeeded
    requested,    \* the argument of a SetColorSpace1 call in progress
    ours,         \* history: the actual color space is PQ this module submitted
    lateEnables   \* history: PQ transitions begun after a latched failure

vars == <<managed, observed, actual, reported, pc, transition, outcome,
          requested, ours, lateEnables>>

ManagedState ==
    [restore : ColorSpaces \cup {NoColorSpace}, desired : BOOLEAN,
     pending : BOOLEAN, inProgress : BOOLEAN, latched : BOOLEAN, epoch : Nat]

Transition == [target : ColorSpaces, enabling : BOOLEAN, epoch : Nat]

Locations == {"idle", "validate", "set", "finish", "observe", "reconfigured",
              "withdraw"}

-----------------------------------------------------------------------------
(* The methods of ManagedColorSpaceState. request_epoch is a u64 that wraps; *)
(* 2^64 requests are out of reach, so wrapping_add(1) is + 1.                *)

Owning(m) == m.restore # NoColorSpace

\* Mutant: restore SDR instead of the color space that was captured.
ExpectedSdr(m) == IF m.desired THEN PQ ELSE DefaultColorSpace

\* The color space the state machine believes it should be in.
Expected(m) == IF m.desired THEN PQ ELSE m.restore

\* Mutants: a new request keeps the epoch; it forgets to ask for a transition.
ArmSameEpoch(m, hdr) == [m EXCEPT !.desired = hdr, !.pending = TRUE]
ArmQuietly(m, hdr) == [m EXCEPT !.desired = hdr, !.epoch = @ + 1]

Arm(m, hdr) ==
    [m EXCEPT !.desired = hdr, !.pending = TRUE, !.epoch = @ + 1]

\* Mutant: the latched failure is not consulted.
AcceptsAlways(m, hdr) == TRUE

Accepts(m, hdr) == ~(hdr /\ m.latched)

Request(m, hdr, current) ==
    IF ~Accepts(m, hdr)               THEN m
    ELSE IF hdr /\ ~Owning(m)         THEN Arm([m EXCEPT !.restore = current], TRUE)
    ELSE IF Owning(m) /\ m.desired # hdr THEN Arm(m, hdr)
    ELSE m

\* Mutants: begin during another transition; begin with nothing captured.
CanBeginTwice(m) == m.pending /\ Owning(m)
CanBeginUnowned(m) == m.pending /\ ~m.inProgress

CanBegin(m) == m.pending /\ ~m.inProgress /\ Owning(m)

Begin(m) == [m EXCEPT !.pending = FALSE, !.inProgress = TRUE]

TransitionOf(m) ==
    [target |-> Expected(m), enabling |-> m.desired, epoch |-> m.epoch]

\* Mutants: finish without comparing epochs; release the baseline because of
\* what is desired now.
FinishUnchecked(m, tr, succeeded) ==
    LET done == [m EXCEPT !.inProgress = FALSE, !.latched = @ \/ ~succeeded]
    IN  IF tr.enabling THEN IF succeeded THEN done ELSE Arm(done, FALSE)
        ELSE IF succeeded THEN [done EXCEPT !.restore = NoColorSpace] ELSE done

FinishByDesire(m, tr, succeeded) ==
    LET done == [m EXCEPT !.inProgress = FALSE, !.latched = @ \/ ~succeeded]
    IN  IF succeeded /\ ~m.desired
        THEN [done EXCEPT !.restore = NoColorSpace] ELSE done

Finish(m, tr, succeeded) ==
    LET done    == [m EXCEPT !.inProgress = FALSE]
        current == tr.epoch = m.epoch
    IN  IF succeeded
        THEN IF current /\ ~tr.enabling
             THEN [done EXCEPT !.restore = NoColorSpace]
             ELSE done
        ELSE LET failed == [done EXCEPT !.latched = TRUE]
             IN  IF current /\ tr.enabling THEN Arm(failed, FALSE) ELSE failed

\* Mutants: a resize does not submit the color space again; it does so even
\* after a latched failure.
ReapplyNothing(m) == m
ReapplyLatched(m) == IF Owning(m) THEN [m EXCEPT !.pending = TRUE] ELSE m

Reapply(m) ==
    IF Owning(m) /\ ~m.latched THEN [m EXCEPT !.pending = TRUE] ELSE m

Relinquish(m) ==
    [m EXCEPT !.restore = NoColorSpace, !.desired = FALSE, !.pending = FALSE,
              !.inProgress = FALSE, !.latched = TRUE, !.epoch = @ + 1]

ObserveExternalSet(m, colorSpace) ==
    IF ~Owning(m) THEN m
    ELSE IF colorSpace # Expected(m) THEN Relinquish(m)
    ELSE [m EXCEPT !.pending = FALSE,
                   !.restore = IF m.desired THEN @ ELSE NoColorSpace]

-----------------------------------------------------------------------------
\* The locals of a thread outside a transition.
NoTransition ==
    [target |-> DefaultColorSpace, enabling |-> FALSE, epoch |-> 0]

Init ==
    /\ managed = [restore |-> NoColorSpace, desired |-> FALSE, pending |-> FALSE,
                  inProgress |-> FALSE, latched |-> FALSE, epoch |-> 0]
    /\ observed = DefaultColorSpace
    /\ actual = DefaultColorSpace
    /\ reported = FALSE
    /\ pc = [t \in Threads |-> "idle"]
    /\ transition = [t \in Threads |-> NoTransition]
    /\ outcome = [t \in Threads |-> FALSE]
    /\ requested = [t \in Threads |-> DefaultColorSpace]
    /\ ours = FALSE
    /\ lateEnables = 0

Goto(t, from, to) == pc[t] = from /\ pc' = [pc EXCEPT ![t] = to]

-----------------------------------------------------------------------------
(* hdr_backend_actual_query_hook with color-space synchronisation enabled.   *)
(* Whether the game and the candidate check want emulated HDR is the         *)
(* caller's choice here; ActiveSwapChain models the candidate check.         *)

\* The query wants HDR and request_managed_hdr_color_space(true) accepts.
QueryEnable(t) ==
    /\ pc[t] = "idle"
    /\ Accepts(managed, TRUE)
    /\ managed' = Request(managed, TRUE, observed)
    /\ managed' # managed => managed.epoch < MaxEpoch
    /\ reported' = TRUE
    /\ UNCHANGED <<observed, actual, pc, transition, outcome, requested, ours,
                   lateEnables>>

\* The query does not want HDR, or its request(true) was just refused: either
\* way request(false) follows in a critical section of its own.
QueryRefused(t) ==
    /\ Goto(t, "idle", "withdraw")
    /\ UNCHANGED <<managed, observed, actual, reported, transition, outcome,
                   requested, ours, lateEnables>>

QueryWithdraw(t) ==
    /\ Goto(t, "withdraw", "idle")
    /\ managed' = Request(managed, FALSE, observed)
    /\ reported' = FALSE
    /\ UNCHANGED <<observed, actual, transition, outcome, requested, ours,
                   lateEnables>>

-----------------------------------------------------------------------------
(* present_hook and present1_hook: apply_managed_color_space_before_present, *)
(* then the forwarded Present, which leaves this state alone. A Present with *)
(* nothing to begin changes nothing.                                         *)

PresentBegin(t) ==
    /\ CanBegin(managed)
    /\ Goto(t, "idle", IF managed.desired THEN "validate" ELSE "set")
    /\ managed' = Begin(managed)
    /\ transition' = [transition EXCEPT ![t] = TransitionOf(managed)]
    /\ lateEnables' = IF managed.latched /\ managed.desired
                      THEN lateEnables + 1 ELSE lateEnables
    /\ UNCHANGED <<observed, actual, reported, outcome, requested, ours>>

\* inspect_windowed_hdr_candidate accepts the swap chain.
ValidateAccept(t) ==
    /\ Goto(t, "validate", "set")
    /\ UNCHANGED <<managed, observed, actual, reported, transition, outcome,
                   requested, ours, lateEnables>>

\* It is not eligible, or one of the DXGI queries failed.
ValidateReject(t) ==
    /\ Goto(t, "validate", "finish")
    /\ outcome' = [outcome EXCEPT ![t] = FALSE]
    /\ UNCHANGED <<managed, observed, actual, reported, transition, requested,
                   ours, lateEnables>>

SetColorSpaceSucceeds(t) ==
    /\ Goto(t, "set", "finish")
    /\ outcome' = [outcome EXCEPT ![t] = TRUE]
    /\ actual' = transition[t].target
    /\ ours' = transition[t].enabling
    /\ UNCHANGED <<managed, observed, reported, transition, requested,
                   lateEnables>>

\* No IDXGISwapChain3, no saved function, or a failing HRESULT.
SetColorSpaceFails(t) ==
    /\ Goto(t, "set", "finish")
    /\ outcome' = [outcome EXCEPT ![t] = FALSE]
    /\ UNCHANGED <<managed, observed, actual, reported, transition, requested,
                   ours, lateEnables>>

PresentFinish(t) ==
    /\ Goto(t, "finish", "idle")
    /\ observed' = IF outcome[t] THEN transition[t].target ELSE observed
    /\ managed' = Finish(managed, transition[t], outcome[t])
    /\ transition' = [transition EXCEPT ![t] = NoTransition]
    /\ outcome' = [outcome EXCEPT ![t] = FALSE]
    /\ UNCHANGED <<actual, reported, requested, ours, lateEnables>>

-----------------------------------------------------------------------------
(* set_color_space1_hook: the game, an overlay or another module sets a      *)
(* color space. A failing call changes nothing.                              *)

ExternalSet(t, colorSpace) ==
    /\ Goto(t, "idle", "observe")
    /\ actual' = colorSpace
    /\ requested' = [requested EXCEPT ![t] = colorSpace]
    /\ ours' = FALSE
    /\ UNCHANGED <<managed, observed, reported, transition, outcome,
                   lateEnables>>

ExternalObserved(t) ==
    /\ Goto(t, "observe", "idle")
    /\ observed' = requested[t]
    /\ managed' = ObserveExternalSet(managed, requested[t])
    /\ requested' = [requested EXCEPT ![t] = DefaultColorSpace]
    /\ UNCHANGED <<actual, reported, transition, outcome, ours, lateEnables>>

-----------------------------------------------------------------------------
(* resize_buffers_hook, resize_buffers1_hook and set_fullscreen_state_hook:  *)
(* the forwarded call, which may or may not keep the color space, then       *)
(* advance_swap_chain_generation.                                            *)

Reconfigure(t) ==
    /\ Goto(t, "idle", "reconfigured")
    /\ actual' \in {actual, DefaultColorSpace}
    /\ ours' = (ours /\ actual' = actual)
    /\ UNCHANGED <<managed, observed, reported, transition, outcome, requested,
                   lateEnables>>

ReconfigureDone(t) ==
    /\ Goto(t, "reconfigured", "idle")
    /\ managed' = Reapply(managed)
    /\ UNCHANGED <<observed, actual, reported, transition, outcome, requested,
                   ours, lateEnables>>

-----------------------------------------------------------------------------
Query(t) == QueryEnable(t) \/ QueryRefused(t)

Present(t) ==
    \/ ValidateAccept(t) \/ ValidateReject(t)
    \/ SetColorSpaceSucceeds(t) \/ SetColorSpaceFails(t)
    \/ PresentFinish(t)

\* The rest of a hook that has started: its calls return.
Continue(t) ==
    Present(t) \/ QueryWithdraw(t) \/ ExternalObserved(t) \/ ReconfigureDone(t)

Next ==
    \/ \E t \in Queriers : Query(t)
    \/ \E t \in Presenters : PresentBegin(t)
    \/ \E t \in Setters, c \in ColorSpaces : ExternalSet(t, c)
    \/ \E t \in Resizers : Reconfigure(t)
    \/ \E t \in Threads : Continue(t)

Spec == Init /\ [][Next]_vars

-----------------------------------------------------------------------------
TypeOK ==
    /\ managed \in ManagedState
    /\ observed \in ColorSpaces
    /\ actual \in ColorSpaces
    /\ reported \in BOOLEAN
    /\ pc \in [Threads -> Locations]
    /\ transition \in [Threads -> Transition]
    /\ outcome \in [Threads -> BOOLEAN]
    /\ requested \in [Threads -> ColorSpaces]
    /\ ours \in BOOLEAN
    /\ lateEnables \in Nat

InFlight(t) == pc[t] \in {"validate", "set", "finish"}

\* No two presenting threads are ever inside a managed transition at once,
\* although the lock is released between begin_transition and
\* finish_transition and a conflict clears transition_in_progress meanwhile.
AtMostOneTransition ==
    \A t, u \in Threads : InFlight(t) /\ InFlight(u) => t = u

\* While HDR is desired there is a captured baseline to go back to: a finish
\* or an external set that belongs to an older request never drops it.
DesiredHasBaseline == managed.desired => Owning(managed)

\* A transition that carries the current request_epoch is for what is desired
\* now, so finish_transition never acts on a request that was superseded.
CurrentTransitionIsDesired ==
    \A t \in Threads :
        InFlight(t) /\ transition[t].epoch = managed.epoch
            => transition[t].enabling = managed.desired

\* Unless a failure was latched, a baseline that has to be given back is not
\* forgotten: a Present will start its restoration, or one is under way.
NoForgottenRestore ==
    Owning(managed) /\ ~managed.desired /\ ~managed.latched
        => \/ managed.pending
           \/ \E t \in Threads : /\ InFlight(t)
                                 /\ transition[t].epoch = managed.epoch
                                 /\ ~transition[t].enabling

\* "Such a failure is latched ... so a render-thread failure cannot turn into
\* an unbounded retry loop": after a latched failure at most one more PQ
\* submission begins, whatever the game goes on requesting.
BoundedRetry == lateEnables <= 1

\* No hook is between a call into DXGI and its bookkeeping under the lock.
Settled == \A t \in Threads : pc[t] \in {"idle", "withdraw"}

\* Emulated HDR is not left on an SDR swap chain: when nothing is under way
\* and nothing is pending, desired HDR means the swap chain presents in PQ.
HdrIsSubmitted ==
    Settled /\ managed.desired /\ ~managed.latched /\ ~managed.pending
        => actual = PQ

\* PQ that this module submitted is never left behind with nobody to undo it:
\* once the baseline is released, the color space is no longer ours.
NoOrphanedPq == Settled /\ ours => Owning(managed)

\* The promises of ColorSpaceOwnership, under this reading of the state.
Ownership == INSTANCE ColorSpaceOwnership WITH
    phase    <- IF ~Owning(managed) THEN "idle"
                ELSE IF managed.desired THEN "hdr" ELSE "restoring",
    baseline <- managed.restore,
    failed   <- managed.latched

\* The state machine keeps the promises of ColorSpaceOwnership: one baseline
\* per emulation, no silent end of it, and no start after a failure.
ImplementsOwnership == Ownership!Spec

=============================================================================
