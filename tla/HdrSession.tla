------------------------------ MODULE HdrSession ------------------------------
(***************************************************************************)
(* A game session: what decides whether HDR is wanted, and the swap chains *)
(* that come and go, around the managed color space of one address.        *)
(*                                                                         *)
(* The graphics-config observer remembers the live setting, the backend    *)
(* carries the game's request, the candidate cache remembers an inspection *)
(* of the swap chain per revision (src/src/game_hdr.rs). A poll reads them *)
(* one after the other before it asks ManagedColorSpace for HDR or gives   *)
(* it up. The last Release of a chain removes its state, and a new chain   *)
(* may get its address (src/src/dxgi.rs).                                  *)
(***************************************************************************)
EXTENDS ManagedColorSpace

CONSTANTS
    Owners,         \* threads that create and release the swap chain
    MaxObjects,     \* bound: swap chains created at the address
    MaxRevision,    \* bound: no reconfiguration at or past this revision
    MaxChanges      \* bound: changes of the setting or of the game's request

ASSUME SessionBounds ==
    /\ MaxObjects \in Nat \ {0}
    /\ MaxRevision \in Nat
    /\ MaxChanges \in Nat

ASSUME OwnersAssumption == Owners \subseteq Threads

VARIABLES
    setting,    \* LIVE_HDR_SETTING: "unknown", "off" or "on"
    request,    \* the backend's inverse "disabled" bit: the game asks for HDR
    changes,    \* how often the two have changed
    shape,      \* what the swap chain is: "eligible", "other" or "native" HDR
    revision,   \* ACTIVE_SWAP_CHAIN_REVISION
    cache,      \* HDR_CANDIDATE_CACHE of this address: revision and verdict
    object,     \* which swap chain lives at the address, 0 for none
    created,    \* how many have been created
    holder,     \* history: the chain whose color space the baseline is
    stage       \* where a thread is outside ManagedColorSpace

sessionVars == <<setting, request, changes, shape, revision, cache, object,
                 created, holder, stage>>
userVars == <<setting, request, changes>>
chainVars == <<shape, revision, cache, object, created>>
allVars == <<vars, sessionVars>>

Shapes == {"eligible", "other", "native"}

InitSession ==
    /\ Init
    /\ setting = "unknown"
    /\ request \in BOOLEAN
    /\ changes = 0
    /\ shape \in Shapes
    /\ revision = 1
    /\ cache = [revision |-> 0, eligible |-> FALSE]
    /\ object = 1
    /\ created = 1
    /\ holder = 0
    /\ stage = [t \in Threads |-> "none"]

Step(t, from, to) == stage[t] = from /\ stage' = [stage EXCEPT ![t] = to]

\* A thread outside this module's hooks, of a live chain.
Free(t) == object # 0 /\ pc[t] = "idle" /\ stage[t] = "none"

-----------------------------------------------------------------------------
(* The game: graphics_config_apply_hook stores what the original routine     *)
(* copied; the backend's request is the game's own.                          *)

ApplySetting(value) ==
    /\ changes < MaxChanges
    /\ setting' = value
    /\ changes' = changes + 1
    /\ UNCHANGED <<vars, request, chainVars, holder, stage>>

ChangeRequest ==
    /\ changes < MaxChanges
    /\ request' = ~request
    /\ changes' = changes + 1
    /\ UNCHANGED <<vars, setting, chainVars, holder, stage>>

-----------------------------------------------------------------------------
(* hdr_backend_actual_query_hook.                                            *)

\* Mutants: an observed "off" is ignored; an unknown setting is not enough.
AllowsAny(value) == TRUE
AllowsOnlyOn(value) == value = "on"

\* live_hdr_allows_request: before the first apply only the backend's bit
\* carries a setting that the game saved earlier.
Allows(value) == value \in {"unknown", "on"}

PollRead(q) ==
    /\ Free(q)
    /\ Step(q, "none", IF request /\ Allows(setting) /\ shape # "native"
                       THEN "wanted" ELSE "unwanted")
    /\ UNCHANGED <<vars, userVars, chainVars, holder>>

\* candidate_is_eligible, when the cache has the current revision.
PollHit(q) ==
    /\ cache.revision = revision
    /\ Step(q, "wanted", IF cache.eligible THEN "eligible" ELSE "unwanted")
    /\ UNCHANGED <<vars, userVars, chainVars, holder>>

\* It inspects the chain otherwise; a failing inspection counts as a refusal.
PollInspect(q, works) ==
    /\ cache.revision # revision
    /\ cache' = [revision |-> revision, eligible |-> shape = "eligible" /\ works]
    /\ Step(q, "wanted", IF cache'.eligible THEN "eligible" ELSE "unwanted")
    /\ UNCHANGED <<vars, userVars, shape, revision, object, created, holder>>

PollEnable(q) ==
    /\ Step(q, "eligible", "none")
    /\ QueryEnable(q)
    /\ holder' = IF Owning(managed) THEN holder ELSE object
    /\ UNCHANGED <<userVars, chainVars>>

PollRefused(q) ==
    /\ \/ stage[q] = "unwanted"
       \/ stage[q] = "eligible" /\ ~Accepts(managed, TRUE)
    /\ Step(q, stage[q], "none")
    /\ QueryRefused(q)
    /\ UNCHANGED <<userVars, chainVars, holder>>

PollWithdraw(q) ==
    /\ QueryWithdraw(q)
    /\ UNCHANGED sessionVars

-----------------------------------------------------------------------------
(* The hooks of a live swap chain.                                           *)

BeginPresent(t) ==
    /\ Free(t)
    /\ PresentBegin(t)
    /\ UNCHANGED sessionVars

\* The transition is validated by an inspection of its own, never the cache.
ContinuePresent(t) ==
    /\ \/ shape = "eligible" /\ ValidateAccept(t)
       \/ ValidateReject(t)
       \/ SetColorSpaceSucceeds(t) \/ SetColorSpaceFails(t)
       \/ PresentFinish(t)
    /\ UNCHANGED sessionVars

SetExternally(t, colorSpace) ==
    /\ Free(t)
    /\ ExternalSet(t, colorSpace)
    /\ UNCHANGED sessionVars

ObserveSet(t) == ExternalObserved(t) /\ UNCHANGED sessionVars

Resize(t, newShape) ==
    /\ Free(t)
    /\ revision < MaxRevision
    /\ Reconfigure(t)
    /\ shape' = newShape
    /\ UNCHANGED <<userVars, revision, cache, object, created, holder, stage>>

ResizeDone(t) ==
    /\ ReconfigureDone(t)
    /\ revision' = revision + 1
    /\ UNCHANGED <<userVars, shape, cache, object, created, holder, stage>>

\* resize_target_hook changes the revision but resubmits nothing.
Retarget(t, newShape) ==
    /\ Free(t)
    /\ revision < MaxRevision
    /\ Step(t, "none", "retargeted")
    /\ shape' = newShape
    /\ UNCHANGED <<vars, userVars, revision, cache, object, created, holder>>

RetargetDone(t) ==
    /\ Step(t, "retargeted", "none")
    /\ revision' = revision + 1
    /\ UNCHANGED <<vars, userVars, shape, cache, object, created, holder>>

-----------------------------------------------------------------------------
(* The last Release of the chain, and the creation of the next one. The game *)
(* does not release a chain that a thread of its own is using.               *)

ReleaseChain(t) ==
    /\ \A u \in Threads : Free(u)
    /\ created < MaxObjects
    /\ Step(t, "none", "freed")
    /\ object' = 0
    /\ UNCHANGED <<vars, userVars, shape, revision, cache, created, holder>>

\* Mutant: the managed state stays in the map.
ForgetState(t) ==
    /\ Step(t, "freed", "none")
    /\ revision' = revision + 1
    /\ UNCHANGED <<vars, userVars, shape, cache, object, created, holder>>

\* release_shadow_object after the forwarded call: no active chain, and
\* states.remove; a later access starts from the default state again.
RemoveState(t) ==
    /\ Step(t, "freed", "none")
    /\ revision' = revision + 1
    /\ managed' = [restore |-> NoColorSpace, desired |-> FALSE, pending |-> FALSE,
                   inProgress |-> FALSE, latched |-> FALSE, epoch |-> 0]
    /\ observed' = DefaultColorSpace
    /\ ours' = (ours /\ object # 0)
    /\ lateEnables' = 0
    /\ holder' = 0
    /\ UNCHANGED <<actual, reported, pc, transition, outcome, requested,
                   userVars, shape, cache, object, created>>

CreateChain(t, newShape) ==
    /\ object = 0 /\ stage[t] = "none" /\ pc[t] = "idle"
    /\ created' = created + 1
    /\ object' = created'
    /\ shape' = newShape
    /\ revision' = revision + 1
    /\ actual' = DefaultColorSpace
    /\ ours' = FALSE
    /\ UNCHANGED <<managed, observed, reported, pc, transition, outcome,
                   requested, lateEnables, userVars, cache, holder, stage>>

-----------------------------------------------------------------------------
User == ChangeRequest \/ \E value \in {"off", "on"} : ApplySetting(value)

Poll(q) ==
    \/ PollRead(q) \/ PollHit(q) \/ (\E works \in BOOLEAN : PollInspect(q, works))
    \/ PollEnable(q) \/ PollRefused(q) \/ PollWithdraw(q)

\* The rest of a hook that has started: its calls return.
Finishing(t) ==
    ContinuePresent(t) \/ ObserveSet(t) \/ ResizeDone(t) \/ RetargetDone(t)

NextSession ==
    \/ User
    \/ \E q \in Queriers : Poll(q)
    \/ \E t \in Threads : Finishing(t)
    \/ \E t \in Presenters : BeginPresent(t)
    \/ \E t \in Setters, c \in ColorSpaces : SetExternally(t, c)
    \/ \E t \in Resizers, s \in Shapes : Resize(t, s) \/ Retarget(t, s)
    \/ \E t \in Owners :
          ReleaseChain(t) \/ RemoveState(t) \/ \E s \in Shapes : CreateChain(t, s)

SpecSession == InitSession /\ [][NextSession]_allVars

\* A hook that started returns, a polling thread goes on polling and the game
\* keeps presenting frames. Nobody has to change the setting, to set a color
\* space, to resize or to release a chain.
FairnessSession ==
    /\ \A t \in Threads : WF_allVars(Finishing(t) \/ RemoveState(t))
    /\ \A q \in Queriers : WF_allVars(Poll(q))
    /\ \A t \in Presenters : SF_allVars(BeginPresent(t))

FairSession == SpecSession /\ FairnessSession

-----------------------------------------------------------------------------
SessionTypeOK ==
    /\ TypeOK
    /\ setting \in {"unknown", "off", "on"}
    /\ request \in BOOLEAN
    /\ changes \in 0..MaxChanges
    /\ shape \in Shapes
    /\ revision \in Nat
    /\ cache \in [revision : Nat, eligible : BOOLEAN]
    /\ created \in 1..MaxObjects
    /\ object \in {0, created}
    /\ holder \in 0..MaxObjects
    /\ stage \in [Threads -> {"none", "wanted", "unwanted", "eligible",
                              "retargeted", "freed"}]

\* A captured baseline belongs to the swap chain that now has the address: it
\* is never given back to a chain that was created later.
BaselineBelongsToChain == object # 0 /\ Owning(managed) => holder = object

\* What the baseline is for: it is released only while the swap chain is back
\* in it, or for good because another component took the color space over.
RestoredOnRelease ==
    [][object # 0 /\ Owning(managed) /\ ~Owning(managed') /\ ~managed'.latched
          => actual' = managed.restore]_allVars

\* The game and the user want HDR on a chain that can have it, and no failed
\* inspection is on file for its revision.
Wanted ==
    /\ object # 0 /\ shape = "eligible"
    /\ request /\ setting # "off"
    /\ cache.revision = revision => cache.eligible

Unwanted ==
    /\ object # 0
    /\ shape # "eligible" \/ ~request \/ setting = "off"

\* HDR that stays wanted is reported to the game and presented in PQ, also
\* when the only source of the wish is the game's own saved setting, unless a
\* failure or another component ended it for this chain.
WantedHdrStarts == <>[]Wanted => <>[](managed.latched \/ (reported /\ actual = PQ))

\* HDR that stays unwanted, by the setting, by the game or by what the chain
\* has become, is no longer reported, and PQ this module submitted does not
\* stay on the chain unless its restoration failed.
UnwantedHdrEnds ==
    <>[]Unwanted => <>[](~reported /\ (managed.latched \/ (~ours /\ ~Owning(managed))))

\* "A failed PQ submission must not leave the renderer in the emulated HDR
\* path": while a failure is latched the query ends up reporting no override.
FailureReachesTheGame == <>[](object # 0 /\ managed.latched) => <>[](~reported)

=============================================================================
