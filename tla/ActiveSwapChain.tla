--------------------------- MODULE ActiveSwapChain ---------------------------
(***************************************************************************)
(* Which swap chain the game uses, its revision, and the one-entry cache   *)
(* of "is it a windowed HDR candidate" that both game hooks consult        *)
(* (src/src/dxgi.rs and src/src/game_hdr.rs).                              *)
(*                                                                         *)
(* ACTIVE_SWAP_CHAIN and ACTIVE_SWAP_CHAIN_REVISION are two atomics that   *)
(* are read and written one at a time, so every load, swap and increment   *)
(* is a step of its own. What makes a chain a candidate is abstracted to   *)
(* the version of its configuration: every DXGI call that may change the   *)
(* answer increments it. An inspection is a sequence of DXGI calls whose   *)
(* facts may stem from different versions; its answer is as old as its     *)
(* oldest fact.                                                            *)
(***************************************************************************)
EXTENDS Naturals, FiniteSetsExt

CONSTANTS
    Chains,         \* addresses a swap chain may have
    NoChain,        \* the null pointer
    Failed,         \* an inspection that returned an error
    Backends,       \* threads that run the backend actual-state query
    Menus,          \* threads that run the common-availability query
    Owners,         \* threads that create, resize and release swap chains
    MaxVersion,     \* bound: configurations a chain address goes through
    MaxRevision     \* bound: no query notes another chain past this revision

Threads == Backends \cup Menus \cup Owners

ASSUME ChainAssumption == NoChain \notin Chains /\ Failed \notin Nat

ASSUME BoundAssumption == MaxVersion \in Nat /\ MaxRevision \in Nat

VARIABLES
    active,         \* ACTIVE_SWAP_CHAIN
    revision,       \* ACTIVE_SWAP_CHAIN_REVISION
    cache,          \* HDR_CANDIDATE_CACHE; seen is Failed or a version
    cacheOwner,     \* thread inside the cache's critical section
    alive,          \* chains that exist
    unhooked,       \* addresses whose newest chain could not be hooked
    version,        \* configuration of each chain
    settled,        \* history: newest configuration whose hook has returned
    pc,             \* where each thread is inside its hook
    chain,          \* the swap chain a thread is working on
    key,            \* the revision (or version, for an owner) it carries
    floor,          \* history: settled when the thread's query started
    answer          \* what its query was told; in an inspection, its oldest fact

vars == <<active, revision, cache, cacheOwner, alive, unhooked, version,
          settled, pc, chain, key, floor, answer>>

\* What only DXGI calls on a swap chain change.
chains == <<alive, unhooked, version, settled>>

NoThread == "nobody"

ASSUME ThreadAssumption == NoThread \notin Threads

Nothing == [c \in Chains |-> 0]

Init ==
    /\ active = NoChain
    /\ revision = 1
    /\ cache = [object |-> NoChain, revision |-> 0, seen |-> Failed]
    /\ cacheOwner = NoThread
    /\ alive = {}
    /\ unhooked = {}
    /\ version = Nothing
    /\ settled = Nothing
    /\ pc = [t \in Threads |-> "idle"]
    /\ chain = [t \in Threads |-> NoChain]
    /\ key = [t \in Threads |-> 0]
    /\ floor = [t \in Threads |-> Nothing]
    /\ answer = [t \in Threads |-> Failed]

Goto(t, from, to) == pc[t] = from /\ pc' = [pc EXCEPT ![t] = to]

\* The hook returns and its locals are gone.
Leave(t, from) ==
    /\ Goto(t, from, "idle")
    /\ chain' = [chain EXCEPT ![t] = NoChain]
    /\ key' = [key EXCEPT ![t] = 0]
    /\ floor' = [floor EXCEPT ![t] = Nothing]
    /\ answer' = [answer EXCEPT ![t] = Failed]

\* note_active_swap_chain: the swap, and whether the increment is still due.
NoteSwap(t, c, from, due, done) ==
    /\ Goto(t, from, IF active # c THEN due ELSE done)
    /\ active' = c

Bump(t, from, to) ==
    /\ Goto(t, from, to)
    /\ revision' = revision + 1

\* A chain reaches its users when the hook that created it has returned.
Created(c) ==
    /\ c \in alive
    /\ \A u \in Owners : chain[u] = c => pc[u] \notin {"capture", "captureBump"}

-----------------------------------------------------------------------------
(* hdr_backend_actual_query_hook: note the backend's chain, read its         *)
(* revision, then candidate_is_eligible.                                     *)

BackendQuery(t, c) ==
    /\ Created(c)
    /\ active = c \/ revision < MaxRevision
    /\ NoteSwap(t, c, "idle", "bump", "compare")
    /\ chain' = [chain EXCEPT ![t] = c]
    /\ floor' = [floor EXCEPT ![t] = settled]
    /\ UNCHANGED <<revision, cache, cacheOwner, chains, key, answer>>

BackendBump(t) ==
    /\ Bump(t, "bump", "compare")
    /\ UNCHANGED <<active, cache, cacheOwner, chains, chain, key, floor, answer>>

\* swap_chain_revision: 0 when another chain has become active meanwhile.
RevisionCompare(t) ==
    /\ Goto(t, "compare", IF active = chain[t] THEN "load" ELSE "lookup")
    /\ key' = [key EXCEPT ![t] = 0]
    /\ UNCHANGED <<active, revision, cache, cacheOwner, chains, chain, floor,
                   answer>>

RevisionLoad(t) ==
    /\ Goto(t, "load", "lookup")
    /\ key' = [key EXCEPT ![t] = revision]
    /\ UNCHANGED <<active, revision, cache, cacheOwner, chains, chain, floor,
                   answer>>

-----------------------------------------------------------------------------
(* hdr_common_availability_hook: active_swap_chain_snapshot, then            *)
(* candidate_is_eligible.                                                    *)

MenuQuery(t) ==
    /\ ~\E u \in Owners : pc[u] = "released" /\ chain[u] = active
    /\ Goto(t, "idle", "before")
    /\ floor' = [floor EXCEPT ![t] = settled]
    /\ UNCHANGED <<active, revision, cache, cacheOwner, chains, chain, key,
                   answer>>

SnapshotBefore(t) ==
    /\ Goto(t, "before", "pointer")
    /\ key' = [key EXCEPT ![t] = revision]
    /\ UNCHANGED <<active, revision, cache, cacheOwner, chains, chain, floor,
                   answer>>

SnapshotPointer(t) ==
    /\ Goto(t, "pointer", "after")
    /\ chain' = [chain EXCEPT ![t] = active]
    /\ UNCHANGED <<active, revision, cache, cacheOwner, chains, key, floor,
                   answer>>

\* Mutant: the two loads of the revision are never found equal.
SnapshotForever(t) ==
    /\ Goto(t, "after", "before")
    /\ UNCHANGED <<active, revision, cache, cacheOwner, chains, chain, key,
                   floor, answer>>

\* Retry when the revision moved; nothing to ask without an active chain.
SnapshotAfter(t) ==
    /\ IF revision = key[t] /\ chain[t] = NoChain
       THEN Leave(t, "after")
       ELSE /\ Goto(t, "after", IF revision = key[t] THEN "lookup" ELSE "before")
            /\ UNCHANGED <<chain, key, floor, answer>>
    /\ UNCHANGED <<active, revision, cache, cacheOwner, chains>>

-----------------------------------------------------------------------------
(* candidate_is_eligible: the cache lock is held across the inspection.      *)

\* Mutant: the entry is matched by the address of the swap chain alone.
HitByAddress(t) == cache.object = chain[t]

Hit(t) ==
    /\ cache.object = chain[t]
    /\ cache.revision = key[t]

LookupHit(t) ==
    /\ cacheOwner = NoThread
    /\ Hit(t)
    /\ Goto(t, "lookup", "answered")
    /\ answer' = [answer EXCEPT ![t] = cache.seen]
    /\ UNCHANGED <<active, revision, cache, cacheOwner, chains, chain, key,
                   floor>>

\* Mutant: the inspection runs with the cache unlocked.
LookupMissUnlocked(t) ==
    /\ cacheOwner = NoThread
    /\ ~Hit(t)
    /\ Goto(t, "lookup", "inspect")
    /\ UNCHANGED <<active, revision, cache, cacheOwner, chains, chain, key,
                   floor, answer>>

LookupMiss(t) ==
    /\ cacheOwner = NoThread
    /\ ~Hit(t)
    /\ Goto(t, "lookup", "inspect")
    /\ cacheOwner' = t
    /\ UNCHANGED <<active, revision, cache, chains, chain, key, floor, answer>>

-----------------------------------------------------------------------------
(* inspect_windowed_hdr_candidate: four queries, one after the other, on a   *)
(* chain whose record exists; each may fail, and gives back the references   *)
(* it obtained. Reconfigurations on other threads may fall between them.     *)

\* Mutant: an inspection does not ask for the record of the swap chain.
InspectUnchecked(t) ==
    /\ Goto(t, "inspect", "description")
    /\ UNCHANGED <<active, revision, cache, cacheOwner, chains, chain, key,
                   floor, answer>>

\* The result is filed, a failure like an answer, and the cache unlocked.
Conclude(t, from, seen) ==
    /\ Goto(t, from, "answered")
    /\ cache' = [object |-> chain[t], revision |-> key[t], seen |-> seen]
    /\ cacheOwner' = NoThread
    /\ answer' = [answer EXCEPT ![t] = seen]
    /\ UNCHANGED <<active, revision, chains, chain, key, floor>>

\* A chain that was not captured has no record.
Inspect(t) ==
    \/ /\ chain[t] \notin unhooked
       /\ Goto(t, "inspect", "description")
       /\ UNCHANGED <<active, revision, cache, cacheOwner, chains, chain, key,
                      floor, answer>>
    \/ /\ chain[t] \in unhooked
       /\ Conclude(t, "inspect", Failed)

\* swap_chain_description yields the first fact, and so the oldest.
InspectDescription(t) ==
    /\ Goto(t, "description", "fullscreen")
    /\ answer' = [answer EXCEPT ![t] = version[chain[t]]]
    /\ UNCHANGED <<active, revision, cache, cacheOwner, chains, chain, key,
                   floor>>

\* query_fullscreen_state, query_output_desc1
InspectNext(t) ==
    /\ Goto(t, "fullscreen", "output") \/ Goto(t, "output", "support")
    /\ UNCHANGED <<active, revision, cache, cacheOwner, chains, chain, key,
                   floor, answer>>

\* query_pq_present_support
InspectSupport(t) == Conclude(t, "support", answer[t])

Queries == {"description", "fullscreen", "output", "support"}

InspectFails(t) == pc[t] \in Queries /\ Conclude(t, pc[t], Failed)

Return(t) ==
    /\ Leave(t, "answered")
    /\ UNCHANGED <<active, revision, cache, cacheOwner, chains>>

-----------------------------------------------------------------------------
(* resize and fullscreen hooks: DXGI first, then                             *)
(* note_active_swap_chain_reconfigured.                                      *)

\* Nobody resizes or releases a chain on two threads at once, or releases one
\* that a query has, or by reading the active chain may get, in hand.
Owned(c) == \E u \in Owners : pc[u] # "idle" /\ chain[u] = c

Queried(c) ==
    \/ \E u \in Backends : pc[u] # "idle" /\ chain[u] = c
    \/ \E u \in Menus : pc[u] # "idle" /\ c \in {chain[u], active}

NewVersion(c) ==
    /\ version[c] < MaxVersion
    /\ version' = [version EXCEPT ![c] = @ + 1]

Reconfigure(t, c) ==
    /\ Created(c) /\ ~Owned(c) /\ c \notin unhooked
    /\ Goto(t, "idle", "reconfigured")
    /\ NewVersion(c)
    /\ chain' = [chain EXCEPT ![t] = c]
    /\ key' = [key EXCEPT ![t] = version'[c]]
    /\ UNCHANGED <<active, revision, cache, cacheOwner, alive, unhooked, settled,
                   floor, answer>>

\* Mutant: a reconfiguration does not advance the revision.
ReconfiguredQuietly(t) ==
    /\ Goto(t, "reconfigured", "settle")
    /\ UNCHANGED <<active, revision, cache, cacheOwner, chains, chain, key,
                   floor, answer>>

ReconfiguredCompare(t) ==
    /\ Goto(t, "reconfigured",
            IF active = chain[t] THEN "reconfiguredBump" ELSE "settle")
    /\ UNCHANGED <<active, revision, cache, cacheOwner, chains, chain, key,
                   floor, answer>>

OwnerBump(t) ==
    /\ Bump(t, pc[t], "settle")
    /\ pc[t] \in {"reconfiguredBump", "captureBump"}
    /\ UNCHANGED <<active, cache, cacheOwner, chains, chain, key, floor, answer>>

\* The hook returns to its caller: its configuration is the settled one.
Settle(t) ==
    /\ Leave(t, "settle")
    /\ settled' = [settled EXCEPT ![chain[t]] = Max({@, key[t]})]
    /\ UNCHANGED <<active, revision, cache, cacheOwner, alive, unhooked, version>>

-----------------------------------------------------------------------------
(* capture_swap_chain after a successful creation, and the part of           *)
(* release_shadow_object that follows the last Release. A new chain may get  *)
(* the address of a dead one as soon as that one is freed.                   *)

NewChain(c) ==
    /\ c \notin alive
    /\ alive' = alive \cup {c}
    /\ NewVersion(c)

Create(t, c) ==
    /\ NewChain(c)
    /\ Goto(t, "idle", "capture")
    /\ unhooked' = unhooked \ {c}
    /\ chain' = [chain EXCEPT ![t] = c]
    /\ key' = [key EXCEPT ![t] = version'[c]]
    /\ UNCHANGED <<active, revision, cache, cacheOwner, settled, floor, answer>>

\* patch_swap_chain fails: none of this module's hooks will run for the chain.
CaptureFails(t, c) ==
    /\ NewChain(c)
    /\ pc[t] = "idle"
    /\ unhooked' = unhooked \cup {c}
    /\ settled' = [settled EXCEPT ![c] = version'[c]]
    /\ UNCHANGED <<active, revision, cache, cacheOwner, pc, chain, key, floor,
                   answer>>

CaptureNote(t) ==
    /\ NoteSwap(t, chain[t], "capture", "captureBump", "settle")
    /\ UNCHANGED <<revision, cache, cacheOwner, chains, chain, key, floor,
                   answer>>

Release(t, c) ==
    /\ Created(c) /\ ~Owned(c) /\ ~Queried(c) /\ c \notin unhooked
    /\ Goto(t, "idle", "released")
    /\ alive' = alive \ {c}
    /\ chain' = [chain EXCEPT ![t] = c]
    /\ key' = [key EXCEPT ![t] = version[c]]
    /\ UNCHANGED <<active, revision, cache, cacheOwner, unhooked, version,
                   settled, floor, answer>>

\* Without a hook the last Release leaves nothing to do, the active pointer
\* included.
ReleaseUnhooked(t, c) ==
    /\ c \in alive \cap unhooked /\ ~Queried(c)
    /\ pc[t] = "idle"
    /\ alive' = alive \ {c}
    /\ UNCHANGED <<active, revision, cache, cacheOwner, unhooked, version,
                   settled, pc, chain, key, floor, answer>>

\* Mutant: the last Release leaves the pointer of the active chain alone.
ReleasedForgotten(t) ==
    /\ Goto(t, "released", "settle")
    /\ UNCHANGED <<active, revision, cache, cacheOwner, chains, chain, key,
                   floor, answer>>

ReleasedClear(t) ==
    /\ Goto(t, "released", IF active = chain[t] THEN "reconfiguredBump" ELSE "settle")
    /\ active' = IF active = chain[t] THEN NoChain ELSE active
    /\ UNCHANGED <<revision, cache, cacheOwner, chains, chain, key, floor,
                   answer>>

-----------------------------------------------------------------------------
Backend(t) == BackendBump(t) \/ RevisionCompare(t) \/ RevisionLoad(t)

Snapshot(t) == SnapshotBefore(t) \/ SnapshotPointer(t) \/ SnapshotAfter(t)

Inspecting(t) ==
    \/ Inspect(t) \/ InspectDescription(t) \/ InspectNext(t)
    \/ InspectSupport(t) \/ InspectFails(t)

Eligible(t) == LookupHit(t) \/ LookupMiss(t) \/ Inspecting(t) \/ Return(t)

Owner(t) ==
    \/ ReconfiguredCompare(t) \/ OwnerBump(t) \/ Settle(t)
    \/ CaptureNote(t) \/ ReleasedClear(t)

Next ==
    \/ \E t \in Backends : Backend(t) \/ \E c \in Chains : BackendQuery(t, c)
    \/ \E t \in Menus : MenuQuery(t) \/ Snapshot(t)
    \/ \E t \in Backends \cup Menus : Eligible(t)
    \/ \E t \in Owners :
          \/ Owner(t)
          \/ \E c \in Chains :
                \/ Create(t, c) \/ CaptureFails(t, c) \/ Reconfigure(t, c)
                \/ Release(t, c) \/ ReleaseUnhooked(t, c)

Spec == Init /\ [][Next]_vars

\* A query that has started runs to its end. The cache lock is a mutex that
\* other queries keep taking, so its acquisition needs strong fairness.
Fairness ==
    /\ \A t \in Backends : WF_vars(Backend(t))
    /\ \A t \in Menus : WF_vars(Snapshot(t))
    /\ \A t \in Backends \cup Menus : SF_vars(Eligible(t))

FairSpec == Spec /\ Fairness

-----------------------------------------------------------------------------
Locations ==
    {"idle", "bump", "compare", "load", "before", "pointer", "after", "lookup",
     "inspect", "answered", "reconfigured", "reconfiguredBump", "settle",
     "capture", "captureBump", "released"} \cup Queries

TypeOK ==
    /\ active \in Chains \cup {NoChain}
    /\ revision \in Nat
    /\ cache \in [object : Chains \cup {NoChain}, revision : Nat,
                  seen : Nat \cup {Failed}]
    /\ cacheOwner \in Threads \cup {NoThread}
    /\ \A t \in Threads :
          pc[t] \in {"inspect"} \cup Queries <=> cacheOwner = t
    /\ alive \subseteq Chains
    /\ unhooked \subseteq Chains
    /\ version \in [Chains -> Nat]
    /\ settled \in [Chains -> Nat]
    /\ pc \in [Threads -> Locations]
    /\ chain \in [Threads -> Chains \cup {NoChain}]
    /\ key \in [Threads -> Nat]
    /\ floor \in [Threads -> [Chains -> Nat]]
    /\ answer \in [Threads -> Nat \cup {Failed}]

\* No thread is inside a hook.
Quiet == \A t \in Threads : pc[t] = "idle"

\* Between hooks, an entry that the next query would hit tells the truth about
\* the active chain: nothing reconfigured, replaced or recreated it since.
CacheIsFresh ==
    Quiet /\ active # NoChain /\ cache.object = active /\ cache.revision = revision
        => cache.seen \in {Failed, version[active]}

\* Between hooks, the active chain is not one that was released, unless it
\* could not be hooked and its Release was never seen.
ActiveIsLive ==
    Quiet => active \in alive \cup {NoChain} \cup unhooked

\* The active pointer holds no COM reference and may dangle when a chain could
\* not be hooked; still no DXGI call of an inspection is made on a dead chain.
InspectsLiveChain ==
    \A t \in Backends \cup Menus : pc[t] \in Queries => chain[t] \in alive

\* "The candidate cache is bounded by the swap chain object and the
\* reconfiguration revision": a query is never answered from before a
\* reconfiguration whose hook had returned when the query started.
FreshAnswers ==
    \A t \in Backends \cup Menus :
        pc[t] = "answered" /\ answer[t] # Failed
            => answer[t] >= floor[t][chain[t]]

\* Every query returns, although queries wait for each other's inspections
\* and the snapshot retries while the revision moves.
QueriesReturn ==
    \A t \in Backends \cup Menus : pc[t] # "idle" ~> pc[t] = "idle"

=============================================================================
