------------------------ MODULE ActiveSwapChainProofs ------------------------
(***************************************************************************)
(* Proofs about ActiveSwapChain: for any chains and threads, that no dead  *)
(* chain is inspected or stays active and that the cache keeps no outdated *)
(* entry that would be hit; and for one address with one owner, that no    *)
(* query is answered from an outdated configuration.                       *)
(***************************************************************************)
EXTENDS ActiveSwapChain, TLAPS

Noting == {"bump", "compare", "load"}
Snapshotting == {"before", "pointer", "after"}
Looking == {"lookup", "inspect", "answered"} \cup Queries
Owning == {"reconfigured", "reconfiguredBump", "settle", "capture", "captureBump",
           "released"}

Known == alive \cup unhooked \cup {NoChain}
Hooked == alive \ unhooked

-----------------------------------------------------------------------------
(* The inductive invariant for any number of chains.                         *)

\* Who can be where.
Roles ==
    \A t \in Threads :
        /\ pc[t] \in Noting => t \in Backends
        /\ pc[t] \in Snapshotting => t \in Menus
        /\ pc[t] \in Looking => t \in Backends \cup Menus
        /\ pc[t] \in Owning => t \in Owners
        /\ pc[t] \in Noting \cup Looking \cup Owning => chain[t] \in Chains

\* The chain a thread has in hand is not released, or it was never hooked. Only
\* the check for a record tells the two apart.
InHand ==
    \A t \in Threads :
        /\ pc[t] \in Noting => chain[t] \in alive
        /\ pc[t] \in {"lookup", "inspect"} => chain[t] \in alive \cup unhooked
        /\ pc[t] = "after" => chain[t] \in Known
        /\ pc[t] \in Queries \cup {"capture"} => chain[t] \in Hooked

\* The active chain is known, or its release is about to clear it; nobody takes
\* a snapshot then.
ActiveIsKnown ==
    /\ active \in Known \/ \E u \in Owners : pc[u] = "released" /\ chain[u] = active
    /\ \A t \in Threads : pc[t] \in Snapshotting => active \in Known

ChainInv == TypeOK /\ Roles /\ InHand /\ ActiveIsKnown

-----------------------------------------------------------------------------
(* What is added for the entry of the cache, for any chains and owners.      *)

Answering == {"fullscreen", "output", "support"}
Keyed == {"pointer", "after"} \cup Looking

\* Somebody is about to advance the revision.
BumpDue == \E t \in Threads : pc[t] \in {"bump", "captureBump", "reconfiguredBump"}

\* A fact v about chain c under the current revision is the truth, or a hit on
\* it is impossible or about to be: c is not the active chain, or a bump is due,
\* or the hook that outdated the fact has yet to compare c with the active chain.
Holds(c, v) ==
    \/ v = version[c] /\ c \in Hooked
    \/ active # c
    \/ BumpDue
    \/ \E u \in Owners : pc[u] \in {"reconfigured", "released"} /\ chain[u] = c

KeysAreOld ==
    /\ cache.revision <= revision
    /\ \A t \in Threads : pc[t] \in Keyed => key[t] <= revision

EntryHolds ==
    cache.revision = revision /\ cache.seen # Failed => Holds(cache.object, cache.seen)

AnswersHold ==
    \A t \in Threads :
        pc[t] \in Answering /\ key[t] = revision => Holds(chain[t], answer[t])

EntryInv == ChainInv /\ KeysAreOld /\ EntryHolds /\ AnswersHold

-----------------------------------------------------------------------------
(* What is added for one address and one owner.                              *)

OneChain == \A c, d \in Chains : c = d
OneOwner == \A t, u \in Owners : t = u

\* A configuration has changed and the revision is still to follow.
Outdated == \E u \in Owners : pc[u] \in {"reconfigured", "reconfiguredBump", "released"}

Counters ==
    /\ cache.revision <= revision
    /\ \A c \in Chains : settled[c] <= version[c]
    /\ \A t \in Threads, c \in Chains :
        /\ floor[t][c] <= settled[c]
        /\ pc[t] \in Owning => key[t] <= version[c]
    /\ \A t \in Threads : pc[t] \in Keyed => key[t] <= revision
    /\ \A t \in Threads : pc[t] \in Answering => answer[t] # Failed

\* A hooked chain is the active one from its capture to its release, so that
\* every reconfiguration advances the revision.
HookedIsActive ==
    /\ \A c \in Hooked : (\A u \in Owners : pc[u] # "capture") => active = c
    /\ \A t \in Threads :
        /\ pc[t] \in Noting \cup {"released"} => active = chain[t]
        /\ pc[t] = "reconfigured" => chain[t] \in Hooked
        /\ pc[t] = "released" => chain[t] \notin alive

\* Facts under the current revision are those of the current configuration,
\* and while the revision is still to follow, of the settled one.
CurrentFacts ==
    \A c \in Chains :
        /\ cache.revision = revision /\ cache.seen # Failed =>
            /\ cache.seen >= settled[c]
            /\ ~Outdated => cache.seen = version[c] /\ c \in Hooked
        /\ \A t \in Threads : pc[t] \in Answering /\ key[t] = revision =>
            /\ answer[t] >= settled[c]
            /\ ~Outdated => answer[t] = version[c]

\* What a query may still be answered with is as new as it has to be.
FreshFacts ==
    \A t \in Threads, c \in Chains :
        /\ pc[t] \in Keyed \ {"answered"} =>
            /\ cache.revision = key[t] /\ cache.seen # Failed => cache.seen >= floor[t][c]
            /\ \A u \in Threads : pc[u] \in Answering /\ key[u] = key[t]
                                    => answer[u] >= floor[t][c]
        /\ pc[t] = "answered" /\ answer[t] # Failed => answer[t] >= floor[t][c]

SingleInv ==
    /\ ChainInv
    /\ Counters /\ HookedIsActive /\ CurrentFacts /\ FreshFacts

-----------------------------------------------------------------------------
(* Any chains, threads and owners.                                           *)

LEMMA MaxOfTwo ==
    ASSUME NEW m \in Nat, NEW n \in Nat
    PROVE  /\ Max({m, n}) = m \/ Max({m, n}) = n
           /\ Max({m, n}) \in Nat /\ Max({m, n}) >= m /\ Max({m, n}) >= n
<1>1. \E x \in {m, n} : \A y \in {m, n} : x >= y
    OBVIOUS
<1> QED BY <1>1 DEF Max

LEMMA MaxBetween ==
    ASSUME NEW m \in Nat, NEW n \in Nat, NEW v \in Nat, m <= v, n <= v
    PROVE  Max({m, n}) <= v /\ Max({m, n}) >= m
<1> QED BY MaxOfTwo

\* The initial state satisfies the invariant.
LEMMA ChainInit == Init => ChainInv
    BY ChainAssumption, ThreadAssumption
    DEF Init, Nothing, ChainInv, TypeOK, Roles, InHand, ActiveIsKnown, Known, Locations,
        Noting, Snapshotting, Looking, Owning, Queries, chains

\* Every step of a query, of an inspection and of an owner preserves it.
LEMMA ChainStep == ChainInv /\ [Next]_vars => ChainInv'
<1> SUFFICES ASSUME ChainInv, [Next]_vars PROVE ChainInv'
    OBVIOUS
<1> USE ChainAssumption, ThreadAssumption
    DEF ChainInv, TypeOK, Roles, InHand, ActiveIsKnown, Known, Hooked, Locations,
        Noting, Snapshotting, Looking, Owning, Queries, Nothing, Threads, chains
<1>1. ASSUME NEW t \in Backends, NEW c \in Chains, BackendQuery(t, c) PROVE ChainInv'
    BY <1>1 DEF BackendQuery, Created, NoteSwap, Goto
<1>2. ASSUME NEW t \in Backends, BackendBump(t) PROVE ChainInv'
    BY <1>2 DEF BackendBump, Bump, Goto
<1>3. ASSUME NEW t \in Backends, RevisionCompare(t) PROVE ChainInv'
    BY <1>3 DEF RevisionCompare, Goto
<1>4. ASSUME NEW t \in Backends, RevisionLoad(t) PROVE ChainInv'
    BY <1>4 DEF RevisionLoad, Goto
<1>5. ASSUME NEW t \in Menus, MenuQuery(t) PROVE ChainInv'
    BY <1>5 DEF MenuQuery, Goto
<1>6. ASSUME NEW t \in Menus, SnapshotBefore(t) PROVE ChainInv'
    BY <1>6 DEF SnapshotBefore, Goto
<1>7. ASSUME NEW t \in Menus, SnapshotPointer(t) PROVE ChainInv'
    BY <1>7 DEF SnapshotPointer, Goto
<1>8. ASSUME NEW t \in Menus, SnapshotAfter(t) PROVE ChainInv'
    <2>1. CASE revision = key[t] /\ chain[t] = NoChain
        BY <1>8, <2>1 DEF SnapshotAfter, Goto, Leave
    <2>2. CASE ~(revision = key[t] /\ chain[t] = NoChain)
        BY <1>8, <2>2 DEF SnapshotAfter, Goto, Leave
    <2> QED BY <2>1, <2>2
<1>9. ASSUME NEW t \in Backends \cup Menus, LookupHit(t) PROVE ChainInv'
    BY <1>9 DEF LookupHit, Hit, Goto
<1>10. ASSUME NEW t \in Backends \cup Menus, LookupMiss(t) PROVE ChainInv'
    BY <1>10 DEF LookupMiss, Hit, Goto
<1>11. ASSUME NEW t \in Backends \cup Menus, Inspect(t) PROVE ChainInv'
    <2>1. CASE chain[t] \notin unhooked
        BY <1>11, <2>1 DEF Inspect, Goto, Conclude
    <2>2. CASE chain[t] \in unhooked
        BY <1>11, <2>2 DEF Inspect, Goto, Conclude
    <2> QED BY <2>1, <2>2
<1>12. ASSUME NEW t \in Backends \cup Menus, InspectDescription(t) PROVE ChainInv'
    BY <1>12 DEF InspectDescription, Goto
<1>13. ASSUME NEW t \in Backends \cup Menus, InspectNext(t) PROVE ChainInv'
    BY <1>13 DEF InspectNext, Goto
<1>14. ASSUME NEW t \in Backends \cup Menus, InspectSupport(t) PROVE ChainInv'
    BY <1>14 DEF InspectSupport, Goto, Conclude
<1>15. ASSUME NEW t \in Backends \cup Menus, InspectFails(t) PROVE ChainInv'
    BY <1>15 DEF InspectFails, Goto, Conclude
<1>16. ASSUME NEW t \in Backends \cup Menus, Return(t) PROVE ChainInv'
    BY <1>16 DEF Return, Goto, Leave
<1>17. ASSUME NEW t \in Owners, ReconfiguredCompare(t) PROVE ChainInv'
    BY <1>17 DEF ReconfiguredCompare, Goto
<1>18. ASSUME NEW t \in Owners, OwnerBump(t) PROVE ChainInv'
    BY <1>18 DEF OwnerBump, Bump, Goto
<1>19. ASSUME NEW t \in Owners, Settle(t) PROVE ChainInv'
    <2>1. settled' \in [Chains -> Nat]
        <3>1. settled[chain[t]] \in Nat /\ key[t] \in Nat
            BY <1>19 DEF Settle, Goto, Leave
        <3>2. Max({settled[chain[t]], key[t]}) \in Nat
            BY <3>1, MaxOfTwo, Zenon
        <3> QED BY <1>19, <3>2 DEF Settle
    <2> QED BY <1>19, <2>1 DEF Settle, Goto, Leave
<1>20. ASSUME NEW t \in Owners, CaptureNote(t) PROVE ChainInv'
    BY <1>20 DEF CaptureNote, Goto, NoteSwap
<1>21. ASSUME NEW t \in Owners, ReleasedClear(t) PROVE ChainInv'
    BY <1>21 DEF ReleasedClear, Goto
<1>22. ASSUME NEW t \in Owners, NEW c \in Chains, Create(t, c) PROVE ChainInv'
    BY <1>22 DEF Create, NewChain, NewVersion, Goto
<1>23. ASSUME NEW t \in Owners, NEW c \in Chains, CaptureFails(t, c) PROVE ChainInv'
    BY <1>23 DEF CaptureFails, NewChain, NewVersion
<1>24. ASSUME NEW t \in Owners, NEW c \in Chains, Reconfigure(t, c) PROVE ChainInv'
    BY <1>24 DEF Reconfigure, Created, Owned, NewVersion, Goto
<1>25. ASSUME NEW t \in Owners, NEW c \in Chains, Release(t, c) PROVE ChainInv'
    BY <1>25 DEF Release, Created, Owned, Queried, Goto
<1>26. ASSUME NEW t \in Owners, NEW c \in Chains, ReleaseUnhooked(t, c) PROVE ChainInv'
    BY <1>26 DEF ReleaseUnhooked, Queried
<1>27. CASE UNCHANGED vars
    BY <1>27 DEF vars
<1> QED
    BY <1>1, <1>2, <1>3, <1>4, <1>5, <1>6, <1>7, <1>8, <1>9, <1>10, <1>11, <1>12, <1>13, <1>14, <1>15, <1>16, <1>17, <1>18, <1>19, <1>20, <1>21, <1>22, <1>23, <1>24, <1>25, <1>26, <1>27
    DEF Next, Backend, Snapshot, Inspecting, Eligible, Owner

\* The inductive invariant holds in every reachable state.
THEOREM ChainInvariant == Spec => []ChainInv
<1> QED BY ChainInit, ChainStep, PTL DEF Spec

\* Types, and one inspection at a time under the lock of the cache.
THEOREM TypeCorrect == Spec => []TypeOK
<1>1. ChainInv => TypeOK
    BY DEF ChainInv
<1> QED BY <1>1, ChainInvariant, PTL

\* However queries, captures that fail, releases and reuses of an address
\* interleave, no DXGI call of an inspection is made on a dead chain.
THEOREM InspectionsAreOfLiveChains == Spec => []InspectsLiveChain
<1>1. ChainInv => InspectsLiveChain
    BY DEF ChainInv, InHand, InspectsLiveChain, Hooked, Queries, Threads
<1> QED BY <1>1, ChainInvariant, PTL

\* Between hooks the active chain is not one that was released.
THEOREM ActiveStaysLive == Spec => []ActiveIsLive
<1>1. ChainInv => ActiveIsLive
    BY DEF ChainInv, ActiveIsKnown, Known, ActiveIsLive, Quiet, Threads
<1> QED BY <1>1, ChainInvariant, PTL

-----------------------------------------------------------------------------
(* The entry of the cache, for any chains and owners.                        *)

\* The initial state satisfies what is added.
LEMMA EntryInit == Init => EntryInv
<1> SUFFICES ASSUME Init PROVE EntryInv
    OBVIOUS
<1>1. ChainInv
    BY ChainInit
<1>2. KeysAreOld /\ EntryHolds /\ AnswersHold
    BY DEF Init, KeysAreOld, EntryHolds, AnswersHold, Keyed, Looking, Queries, Answering
<1> QED BY <1>1, <1>2 DEF EntryInv

\* Every step preserves it.
LEMMA EntryStep == EntryInv /\ [Next]_vars => EntryInv'
<1> SUFFICES ASSUME EntryInv, [Next]_vars PROVE EntryInv'
    OBVIOUS
<1>0. ChainInv /\ ChainInv'
    BY ChainStep DEF EntryInv
<1> USE ChainAssumption, ThreadAssumption, <1>0
    DEF EntryInv, ChainInv, TypeOK, InHand, Hooked, Locations, Looking, Queries,
        Threads, chains, Keyed, Answering
<1>1. ASSUME NEW t \in Backends, NEW c \in Chains, BackendQuery(t, c) PROVE EntryInv'
    <2>1. KeysAreOld'
        BY <1>1 DEF BackendQuery, Created, NoteSwap, Goto, KeysAreOld
    <2>2. EntryHolds'
        BY <1>1 DEF BackendQuery, Created, NoteSwap, Goto, KeysAreOld, EntryHolds, AnswersHold, Holds, BumpDue
    <2>3. AnswersHold'
        BY <1>1 DEF BackendQuery, Created, NoteSwap, Goto, KeysAreOld, AnswersHold, Holds, BumpDue
    <2> QED BY <2>1, <2>2, <2>3
<1>2. ASSUME NEW t \in Backends, BackendBump(t) PROVE EntryInv'
    <2>1. KeysAreOld'
        BY <1>2 DEF BackendBump, Bump, Goto, KeysAreOld
    <2>2. EntryHolds'
        BY <1>2 DEF BackendBump, Bump, Goto, KeysAreOld, EntryHolds, AnswersHold, Holds, BumpDue
    <2>3. AnswersHold'
        BY <1>2 DEF BackendBump, Bump, Goto, KeysAreOld, AnswersHold, Holds, BumpDue
    <2> QED BY <2>1, <2>2, <2>3
<1>3. ASSUME NEW t \in Backends, RevisionCompare(t) PROVE EntryInv'
    <2>1. KeysAreOld'
        BY <1>3 DEF RevisionCompare, Goto, KeysAreOld
    <2>2. EntryHolds'
        BY <1>3 DEF RevisionCompare, Goto, KeysAreOld, EntryHolds, AnswersHold, Holds, BumpDue
    <2>3. AnswersHold'
        BY <1>3 DEF RevisionCompare, Goto, KeysAreOld, AnswersHold, Holds, BumpDue
    <2> QED BY <2>1, <2>2, <2>3
<1>4. ASSUME NEW t \in Backends, RevisionLoad(t) PROVE EntryInv'
    <2>1. KeysAreOld'
        BY <1>4 DEF RevisionLoad, Goto, KeysAreOld
    <2>2. EntryHolds'
        BY <1>4 DEF RevisionLoad, Goto, KeysAreOld, EntryHolds, AnswersHold, Holds, BumpDue
    <2>3. AnswersHold'
        BY <1>4 DEF RevisionLoad, Goto, KeysAreOld, AnswersHold, Holds, BumpDue
    <2> QED BY <2>1, <2>2, <2>3
<1>5. ASSUME NEW t \in Menus, MenuQuery(t) PROVE EntryInv'
    <2>1. KeysAreOld'
        BY <1>5 DEF MenuQuery, Goto, KeysAreOld
    <2>2. EntryHolds'
        BY <1>5 DEF MenuQuery, Goto, KeysAreOld, EntryHolds, AnswersHold, Holds, BumpDue
    <2>3. AnswersHold'
        BY <1>5 DEF MenuQuery, Goto, KeysAreOld, AnswersHold, Holds, BumpDue
    <2> QED BY <2>1, <2>2, <2>3
<1>6. ASSUME NEW t \in Menus, SnapshotBefore(t) PROVE EntryInv'
    <2>1. KeysAreOld'
        BY <1>6 DEF SnapshotBefore, Goto, KeysAreOld
    <2>2. EntryHolds'
        BY <1>6 DEF SnapshotBefore, Goto, KeysAreOld, EntryHolds, AnswersHold, Holds, BumpDue
    <2>3. AnswersHold'
        BY <1>6 DEF SnapshotBefore, Goto, KeysAreOld, AnswersHold, Holds, BumpDue
    <2> QED BY <2>1, <2>2, <2>3
<1>7. ASSUME NEW t \in Menus, SnapshotPointer(t) PROVE EntryInv'
    <2>1. KeysAreOld'
        BY <1>7 DEF SnapshotPointer, Goto, KeysAreOld
    <2>2. EntryHolds'
        BY <1>7 DEF SnapshotPointer, Goto, KeysAreOld, EntryHolds, AnswersHold, Holds, BumpDue
    <2>3. AnswersHold'
        BY <1>7 DEF SnapshotPointer, Goto, KeysAreOld, AnswersHold, Holds, BumpDue
    <2> QED BY <2>1, <2>2, <2>3
<1>8. ASSUME NEW t \in Menus, SnapshotAfter(t) PROVE EntryInv'
    <2>1. KeysAreOld'
        BY <1>8 DEF SnapshotAfter, Goto, Leave, KeysAreOld
    <2>2. EntryHolds'
        BY <1>8 DEF SnapshotAfter, Goto, Leave, KeysAreOld, EntryHolds, AnswersHold, Holds, BumpDue
    <2>3. AnswersHold'
        BY <1>8 DEF SnapshotAfter, Goto, Leave, KeysAreOld, AnswersHold, Holds, BumpDue
    <2> QED BY <2>1, <2>2, <2>3
<1>9. ASSUME NEW t \in Backends \cup Menus, LookupHit(t) PROVE EntryInv'
    <2>1. KeysAreOld'
        BY <1>9 DEF LookupHit, Hit, Goto, KeysAreOld
    <2>2. EntryHolds'
        BY <1>9 DEF LookupHit, Hit, Goto, KeysAreOld, EntryHolds, AnswersHold, Holds, BumpDue
    <2>3. AnswersHold'
        BY <1>9 DEF LookupHit, Hit, Goto, KeysAreOld, AnswersHold, Holds, BumpDue
    <2> QED BY <2>1, <2>2, <2>3
<1>10. ASSUME NEW t \in Backends \cup Menus, LookupMiss(t) PROVE EntryInv'
    <2>1. KeysAreOld'
        BY <1>10 DEF LookupMiss, Hit, Goto, KeysAreOld
    <2>2. EntryHolds'
        BY <1>10 DEF LookupMiss, Hit, Goto, KeysAreOld, EntryHolds, AnswersHold, Holds, BumpDue
    <2>3. AnswersHold'
        BY <1>10 DEF LookupMiss, Hit, Goto, KeysAreOld, AnswersHold, Holds, BumpDue
    <2> QED BY <2>1, <2>2, <2>3
<1>11. ASSUME NEW t \in Backends \cup Menus, Inspect(t) PROVE EntryInv'
    <2>1. KeysAreOld'
        BY <1>11 DEF Inspect, Goto, Conclude, KeysAreOld
    <2>2. EntryHolds'
        BY <1>11 DEF Inspect, Goto, Conclude, KeysAreOld, EntryHolds, AnswersHold, Holds, BumpDue
    <2>3. AnswersHold'
        BY <1>11 DEF Inspect, Goto, Conclude, KeysAreOld, AnswersHold, Holds, BumpDue
    <2> QED BY <2>1, <2>2, <2>3
<1>12. ASSUME NEW t \in Backends \cup Menus, InspectDescription(t) PROVE EntryInv'
    <2>1. KeysAreOld'
        BY <1>12 DEF InspectDescription, Goto, KeysAreOld
    <2>2. EntryHolds'
        BY <1>12 DEF InspectDescription, Goto, KeysAreOld, EntryHolds, AnswersHold, Holds, BumpDue
    <2>3. AnswersHold'
        BY <1>12 DEF InspectDescription, Goto, KeysAreOld, AnswersHold, Holds, BumpDue
    <2> QED BY <2>1, <2>2, <2>3
<1>13. ASSUME NEW t \in Backends \cup Menus, InspectNext(t) PROVE EntryInv'
    <2>1. KeysAreOld'
        BY <1>13 DEF InspectNext, Goto, KeysAreOld
    <2>2. EntryHolds'
        BY <1>13 DEF InspectNext, Goto, KeysAreOld, EntryHolds, AnswersHold, Holds, BumpDue
    <2>3. AnswersHold'
        BY <1>13 DEF InspectNext, Goto, KeysAreOld, AnswersHold, Holds, BumpDue
    <2> QED BY <2>1, <2>2, <2>3
<1>14. ASSUME NEW t \in Backends \cup Menus, InspectSupport(t) PROVE EntryInv'
    <2>1. KeysAreOld'
        BY <1>14 DEF InspectSupport, Goto, Conclude, KeysAreOld
    <2>2. EntryHolds'
        BY <1>14 DEF InspectSupport, Goto, Conclude, KeysAreOld, EntryHolds, AnswersHold, Holds, BumpDue
    <2>3. AnswersHold'
        BY <1>14 DEF InspectSupport, Goto, Conclude, KeysAreOld, AnswersHold, Holds, BumpDue
    <2> QED BY <2>1, <2>2, <2>3
<1>15. ASSUME NEW t \in Backends \cup Menus, InspectFails(t) PROVE EntryInv'
    <2>1. KeysAreOld'
        BY <1>15 DEF InspectFails, Goto, Conclude, KeysAreOld
    <2>2. EntryHolds'
        BY <1>15 DEF InspectFails, Goto, Conclude, KeysAreOld, EntryHolds, AnswersHold, Holds, BumpDue
    <2>3. AnswersHold'
        BY <1>15 DEF InspectFails, Goto, Conclude, KeysAreOld, AnswersHold, Holds, BumpDue
    <2> QED BY <2>1, <2>2, <2>3
<1>16. ASSUME NEW t \in Backends \cup Menus, Return(t) PROVE EntryInv'
    <2>1. KeysAreOld'
        BY <1>16 DEF Return, Goto, Leave, KeysAreOld
    <2>2. EntryHolds'
        BY <1>16 DEF Return, Goto, Leave, KeysAreOld, EntryHolds, AnswersHold, Holds, BumpDue
    <2>3. AnswersHold'
        BY <1>16 DEF Return, Goto, Leave, KeysAreOld, AnswersHold, Holds, BumpDue
    <2> QED BY <2>1, <2>2, <2>3
<1>17. ASSUME NEW t \in Owners, ReconfiguredCompare(t) PROVE EntryInv'
    <2>1. KeysAreOld'
        BY <1>17 DEF ReconfiguredCompare, Goto, KeysAreOld
    <2>2. EntryHolds'
        BY <1>17 DEF ReconfiguredCompare, Goto, KeysAreOld, EntryHolds, AnswersHold, Holds, BumpDue
    <2>3. AnswersHold'
        BY <1>17 DEF ReconfiguredCompare, Goto, KeysAreOld, AnswersHold, Holds, BumpDue
    <2> QED BY <2>1, <2>2, <2>3
<1>18. ASSUME NEW t \in Owners, OwnerBump(t) PROVE EntryInv'
    <2>1. KeysAreOld'
        BY <1>18 DEF OwnerBump, Bump, Goto, KeysAreOld
    <2>2. EntryHolds'
        BY <1>18 DEF OwnerBump, Bump, Goto, KeysAreOld, EntryHolds, AnswersHold, Holds, BumpDue
    <2>3. AnswersHold'
        BY <1>18 DEF OwnerBump, Bump, Goto, KeysAreOld, AnswersHold, Holds, BumpDue
    <2> QED BY <2>1, <2>2, <2>3
<1>19. ASSUME NEW t \in Owners, Settle(t) PROVE EntryInv'
    <2>1. KeysAreOld'
        BY <1>19 DEF Settle, Goto, Leave, KeysAreOld
    <2>2. EntryHolds'
        BY <1>19 DEF Settle, Goto, Leave, KeysAreOld, EntryHolds, AnswersHold, Holds, BumpDue
    <2>3. AnswersHold'
        BY <1>19 DEF Settle, Goto, Leave, KeysAreOld, AnswersHold, Holds, BumpDue
    <2> QED BY <2>1, <2>2, <2>3
<1>20. ASSUME NEW t \in Owners, CaptureNote(t) PROVE EntryInv'
    <2>1. KeysAreOld'
        BY <1>20 DEF CaptureNote, Goto, NoteSwap, KeysAreOld
    <2>2. EntryHolds'
        BY <1>20 DEF CaptureNote, Goto, NoteSwap, KeysAreOld, EntryHolds, AnswersHold, Holds, BumpDue
    <2>3. AnswersHold'
        BY <1>20 DEF CaptureNote, Goto, NoteSwap, KeysAreOld, AnswersHold, Holds, BumpDue
    <2> QED BY <2>1, <2>2, <2>3
<1>21. ASSUME NEW t \in Owners, ReleasedClear(t) PROVE EntryInv'
    <2>1. KeysAreOld'
        BY <1>21 DEF ReleasedClear, Goto, KeysAreOld
    <2>2. EntryHolds'
        BY <1>21 DEF ReleasedClear, Goto, KeysAreOld, EntryHolds, AnswersHold, Holds, BumpDue
    <2>3. AnswersHold'
        BY <1>21 DEF ReleasedClear, Goto, KeysAreOld, AnswersHold, Holds, BumpDue
    <2> QED BY <2>1, <2>2, <2>3
<1>22. ASSUME NEW t \in Owners, NEW c \in Chains, Create(t, c) PROVE EntryInv'
    <2>1. KeysAreOld'
        BY <1>22 DEF Create, NewChain, NewVersion, Goto, KeysAreOld
    <2>2. EntryHolds'
        BY <1>22 DEF Create, NewChain, NewVersion, Goto, KeysAreOld, EntryHolds, AnswersHold, Holds, BumpDue
    <2>3. AnswersHold'
        BY <1>22 DEF Create, NewChain, NewVersion, Goto, KeysAreOld, AnswersHold, Holds, BumpDue
    <2> QED BY <2>1, <2>2, <2>3
<1>23. ASSUME NEW t \in Owners, NEW c \in Chains, CaptureFails(t, c) PROVE EntryInv'
    <2>1. KeysAreOld'
        BY <1>23 DEF CaptureFails, NewChain, NewVersion, KeysAreOld
    <2>2. EntryHolds'
        BY <1>23 DEF CaptureFails, NewChain, NewVersion, KeysAreOld, EntryHolds, AnswersHold, Holds, BumpDue
    <2>3. AnswersHold'
        BY <1>23 DEF CaptureFails, NewChain, NewVersion, KeysAreOld, AnswersHold, Holds, BumpDue
    <2> QED BY <2>1, <2>2, <2>3
<1>24. ASSUME NEW t \in Owners, NEW c \in Chains, Reconfigure(t, c) PROVE EntryInv'
    <2>1. KeysAreOld'
        BY <1>24 DEF Reconfigure, Created, Owned, NewVersion, Goto, KeysAreOld
    <2>2. EntryHolds'
        BY <1>24 DEF Reconfigure, Created, Owned, NewVersion, Goto, KeysAreOld, EntryHolds, AnswersHold, Holds, BumpDue
    <2>3. AnswersHold'
        BY <1>24 DEF Reconfigure, Created, Owned, NewVersion, Goto, KeysAreOld, AnswersHold, Holds, BumpDue
    <2> QED BY <2>1, <2>2, <2>3
<1>25. ASSUME NEW t \in Owners, NEW c \in Chains, Release(t, c) PROVE EntryInv'
    <2>1. KeysAreOld'
        BY <1>25 DEF Release, Created, Owned, Queried, Goto, KeysAreOld
    <2>2. EntryHolds'
        BY <1>25 DEF Release, Created, Owned, Queried, Goto, KeysAreOld, EntryHolds, AnswersHold, Holds, BumpDue
    <2>3. AnswersHold'
        BY <1>25 DEF Release, Created, Owned, Queried, Goto, KeysAreOld, AnswersHold, Holds, BumpDue
    <2> QED BY <2>1, <2>2, <2>3
<1>26. ASSUME NEW t \in Owners, NEW c \in Chains, ReleaseUnhooked(t, c) PROVE EntryInv'
    <2>1. KeysAreOld'
        BY <1>26 DEF ReleaseUnhooked, Queried, KeysAreOld
    <2>2. EntryHolds'
        BY <1>26 DEF ReleaseUnhooked, Queried, KeysAreOld, EntryHolds, AnswersHold, Holds, BumpDue
    <2>3. AnswersHold'
        BY <1>26 DEF ReleaseUnhooked, Queried, KeysAreOld, AnswersHold, Holds, BumpDue
    <2> QED BY <2>1, <2>2, <2>3
<1>27. CASE UNCHANGED vars
    BY <1>27 DEF vars, KeysAreOld, EntryHolds, AnswersHold, Holds, BumpDue
<1> QED
    BY <1>1, <1>2, <1>3, <1>4, <1>5, <1>6, <1>7, <1>8, <1>9, <1>10, <1>11, <1>12, <1>13, <1>14, <1>15, <1>16, <1>17, <1>18, <1>19, <1>20, <1>21, <1>22, <1>23, <1>24, <1>25, <1>26, <1>27
    DEF Next, Backend, Snapshot, Inspecting, Eligible, Owner

\* However the queries, creations, reconfigurations and releases of any swap
\* chains interleave, between hooks the cache holds no outdated entry that the
\* next query of the active chain would hit.
THEOREM EntriesAreFresh == Spec => []CacheIsFresh
<1>1. ASSUME EntryInv PROVE CacheIsFresh
    <2>1. ASSUME Quiet, cache.object = active, cache.revision = revision, cache.seen # Failed
          PROVE  cache.seen = version[active]
        <3>1. Holds(active, cache.seen)
            BY <1>1, <2>1 DEF EntryInv, EntryHolds
        <3> QED BY <2>1, <3>1 DEF Holds, BumpDue, Quiet, Threads
    <2> QED BY <2>1 DEF CacheIsFresh
<1> QED BY <1>1, EntryInit, EntryStep, PTL DEF Spec

-----------------------------------------------------------------------------
(* One address and one owner.                                                *)

\* The initial state satisfies what is added.
LEMMA SingleInit == Init => SingleInv
<1> SUFFICES ASSUME Init PROVE SingleInv
    OBVIOUS
<1>1. ChainInv
    BY ChainInit
<1>2. Counters
    BY DEF Init, Counters, Nothing, Owning, Keyed, Looking, Queries, Answering
<1>3. HookedIsActive
    BY DEF Init, HookedIsActive, Hooked, Noting
<1>4. CurrentFacts /\ FreshFacts
    BY DEF Init, CurrentFacts, FreshFacts, Keyed, Looking, Queries, Answering
<1> QED BY <1>1, <1>2, <1>3, <1>4 DEF SingleInv

\* Every step preserves it.
LEMMA SingleStep ==
    ASSUME OneChain, OneOwner
    PROVE  SingleInv /\ [Next]_vars => SingleInv'
<1> SUFFICES ASSUME SingleInv, [Next]_vars PROVE SingleInv'
    OBVIOUS
<1>0. ChainInv /\ ChainInv'
    BY ChainStep DEF SingleInv
<1> USE OneChain, OneOwner, ChainAssumption, ThreadAssumption, <1>0
    DEF SingleInv, ChainInv, TypeOK, Roles, InHand, Known, Hooked, Locations,
        Noting, Snapshotting, Looking, Owning, Queries, Nothing, Threads, chains,
        OneChain, OneOwner, Keyed, Answering
<1>1. ASSUME NEW t \in Backends, NEW c \in Chains, BackendQuery(t, c) PROVE SingleInv'
    <2>1. Counters'
        BY <1>1 DEF BackendQuery, Created, NoteSwap, Goto, Counters
    <2>2. HookedIsActive'
        BY <1>1 DEF BackendQuery, Created, NoteSwap, Goto, HookedIsActive
    <2>3. CurrentFacts'
        BY <1>1 DEF BackendQuery, Created, NoteSwap, Goto, Counters, HookedIsActive, CurrentFacts, Outdated
    <2>4. FreshFacts'
        BY <1>1 DEF BackendQuery, Created, NoteSwap, Goto, Counters, HookedIsActive, CurrentFacts, FreshFacts
    <2> QED BY <2>1, <2>2, <2>3, <2>4
<1>2. ASSUME NEW t \in Backends, BackendBump(t) PROVE SingleInv'
    <2>1. Counters'
        BY <1>2 DEF BackendBump, Bump, Goto, Counters
    <2>2. HookedIsActive'
        BY <1>2 DEF BackendBump, Bump, Goto, HookedIsActive
    <2>3. CurrentFacts'
        BY <1>2 DEF BackendBump, Bump, Goto, Counters, HookedIsActive, CurrentFacts, Outdated
    <2>4. FreshFacts'
        BY <1>2 DEF BackendBump, Bump, Goto, Counters, HookedIsActive, CurrentFacts, FreshFacts
    <2> QED BY <2>1, <2>2, <2>3, <2>4
<1>3. ASSUME NEW t \in Backends, RevisionCompare(t) PROVE SingleInv'
    <2>1. Counters'
        BY <1>3 DEF RevisionCompare, Goto, Counters
    <2>2. HookedIsActive'
        BY <1>3 DEF RevisionCompare, Goto, HookedIsActive
    <2>3. CurrentFacts'
        BY <1>3 DEF RevisionCompare, Goto, Counters, HookedIsActive, CurrentFacts, Outdated
    <2>4. FreshFacts'
        BY <1>3 DEF RevisionCompare, Goto, Counters, HookedIsActive, CurrentFacts, FreshFacts
    <2> QED BY <2>1, <2>2, <2>3, <2>4
<1>4. ASSUME NEW t \in Backends, RevisionLoad(t) PROVE SingleInv'
    <2>1. Counters'
        BY <1>4 DEF RevisionLoad, Goto, Counters
    <2>2. HookedIsActive'
        BY <1>4 DEF RevisionLoad, Goto, HookedIsActive
    <2>3. CurrentFacts'
        BY <1>4 DEF RevisionLoad, Goto, Counters, HookedIsActive, CurrentFacts, Outdated
    <2>4. FreshFacts'
        <3>1. \A c \in Chains :
                /\ cache.revision = revision /\ cache.seen # Failed => cache.seen >= floor[t][c]
                /\ \A u \in Threads : pc[u] \in Answering /\ key[u] = revision
                                        => answer[u] >= floor[t][c]
            BY DEF Counters, CurrentFacts
        <3>2. /\ pc' = [pc EXCEPT ![t] = "lookup"] /\ key' = [key EXCEPT ![t] = revision]
              /\ pc[t] = "load" /\ UNCHANGED <<cache, floor, answer>>
            BY <1>4 DEF RevisionLoad, Goto
        <3> QED BY <3>1, <3>2 DEF FreshFacts
    <2> QED BY <2>1, <2>2, <2>3, <2>4
<1>5. ASSUME NEW t \in Menus, MenuQuery(t) PROVE SingleInv'
    <2>1. Counters'
        BY <1>5 DEF MenuQuery, Goto, Counters
    <2>2. HookedIsActive'
        BY <1>5 DEF MenuQuery, Goto, HookedIsActive
    <2>3. CurrentFacts'
        BY <1>5 DEF MenuQuery, Goto, Counters, HookedIsActive, CurrentFacts, Outdated
    <2>4. FreshFacts'
        BY <1>5 DEF MenuQuery, Goto, Counters, HookedIsActive, CurrentFacts, FreshFacts
    <2> QED BY <2>1, <2>2, <2>3, <2>4
<1>6. ASSUME NEW t \in Menus, SnapshotBefore(t) PROVE SingleInv'
    <2>1. Counters'
        BY <1>6 DEF SnapshotBefore, Goto, Counters
    <2>2. HookedIsActive'
        BY <1>6 DEF SnapshotBefore, Goto, HookedIsActive
    <2>3. CurrentFacts'
        BY <1>6 DEF SnapshotBefore, Goto, Counters, HookedIsActive, CurrentFacts, Outdated
    <2>4. FreshFacts'
        BY <1>6 DEF SnapshotBefore, Goto, Counters, HookedIsActive, CurrentFacts, FreshFacts
    <2> QED BY <2>1, <2>2, <2>3, <2>4
<1>7. ASSUME NEW t \in Menus, SnapshotPointer(t) PROVE SingleInv'
    <2>1. Counters'
        BY <1>7 DEF SnapshotPointer, Goto, Counters
    <2>2. HookedIsActive'
        BY <1>7 DEF SnapshotPointer, Goto, HookedIsActive
    <2>3. CurrentFacts'
        BY <1>7 DEF SnapshotPointer, Goto, Counters, HookedIsActive, CurrentFacts, Outdated
    <2>4. FreshFacts'
        BY <1>7 DEF SnapshotPointer, Goto, Counters, HookedIsActive, CurrentFacts, FreshFacts
    <2> QED BY <2>1, <2>2, <2>3, <2>4
<1>8. ASSUME NEW t \in Menus, SnapshotAfter(t) PROVE SingleInv'
    <2>1. Counters'
        BY <1>8 DEF SnapshotAfter, Goto, Leave, Counters
    <2>2. HookedIsActive'
        BY <1>8 DEF SnapshotAfter, Goto, Leave, HookedIsActive
    <2>3. CurrentFacts'
        BY <1>8 DEF SnapshotAfter, Goto, Leave, Counters, HookedIsActive, CurrentFacts, Outdated
    <2>4. FreshFacts'
        <3>1. CASE revision = key[t] /\ chain[t] = NoChain
            <4>1. /\ UNCHANGED cache
                  /\ pc'[t] = "idle"
                  /\ \A x \in Threads \ {t} : /\ pc'[x] = pc[x] /\ key'[x] = key[x]
                                              /\ floor'[x] = floor[x] /\ answer'[x] = answer[x]
                BY <1>8, <3>1 DEF SnapshotAfter, Goto, Leave
            <4>2. ASSUME NEW x \in Threads, NEW c \in Chains, x # t
                  PROVE  /\ pc'[x] \in Keyed \ {"answered"} =>
                             /\ cache'.revision = key'[x] /\ cache'.seen # Failed
                                    => cache'.seen >= floor'[x][c]
                             /\ \A u \in Threads : pc'[u] \in Answering /\ key'[u] = key'[x]
                                                    => answer'[u] >= floor'[x][c]
                         /\ pc'[x] = "answered" /\ answer'[x] # Failed
                                => answer'[x] >= floor'[x][c]
                <5>1. \A u \in Threads : pc'[u] \in Answering
                          => pc[u] \in Answering /\ key'[u] = key[u] /\ answer'[u] = answer[u]
                    BY <4>1
                <5>2. /\ pc'[x] = pc[x] /\ key'[x] = key[x] /\ cache' = cache
                      /\ floor'[x][c] = floor[x][c] /\ answer'[x] = answer[x]
                    BY <4>1, <4>2
                <5>3. pc[x] \in Keyed \ {"answered"} =>
                        /\ cache.revision = key[x] /\ cache.seen # Failed
                               => cache.seen >= floor[x][c]
                        /\ \A u \in Threads : pc[u] \in Answering /\ key[u] = key[x]
                                               => answer[u] >= floor[x][c]
                    BY DEF FreshFacts
                <5>4. pc[x] = "answered" /\ answer[x] # Failed => answer[x] >= floor[x][c]
                    BY DEF FreshFacts
                <5> QED BY <5>1, <5>2, <5>3, <5>4
            <4> QED BY <4>1, <4>2 DEF FreshFacts
        <3>2. CASE ~(revision = key[t] /\ chain[t] = NoChain)
            BY <1>8, <3>2 DEF SnapshotAfter, Goto, FreshFacts
        <3> QED BY <3>1, <3>2
    <2> QED BY <2>1, <2>2, <2>3, <2>4
<1>9. ASSUME NEW t \in Backends \cup Menus, LookupHit(t) PROVE SingleInv'
    <2>1. Counters'
        BY <1>9 DEF LookupHit, Hit, Goto, Counters
    <2>2. HookedIsActive'
        BY <1>9 DEF LookupHit, Hit, Goto, HookedIsActive
    <2>3. CurrentFacts'
        BY <1>9 DEF LookupHit, Hit, Goto, Counters, HookedIsActive, CurrentFacts, Outdated
    <2>4. FreshFacts'
        BY <1>9 DEF LookupHit, Hit, Goto, Counters, HookedIsActive, CurrentFacts, FreshFacts
    <2> QED BY <2>1, <2>2, <2>3, <2>4
<1>10. ASSUME NEW t \in Backends \cup Menus, LookupMiss(t) PROVE SingleInv'
    <2>1. Counters'
        BY <1>10 DEF LookupMiss, Hit, Goto, Counters
    <2>2. HookedIsActive'
        BY <1>10 DEF LookupMiss, Hit, Goto, HookedIsActive
    <2>3. CurrentFacts'
        BY <1>10 DEF LookupMiss, Hit, Goto, Counters, HookedIsActive, CurrentFacts, Outdated
    <2>4. FreshFacts'
        BY <1>10 DEF LookupMiss, Hit, Goto, Counters, HookedIsActive, CurrentFacts, FreshFacts
    <2> QED BY <2>1, <2>2, <2>3, <2>4
<1>11. ASSUME NEW t \in Backends \cup Menus, Inspect(t) PROVE SingleInv'
    <2>1. Counters'
        BY <1>11 DEF Inspect, Goto, Conclude, Counters
    <2>2. HookedIsActive'
        BY <1>11 DEF Inspect, Goto, Conclude, HookedIsActive
    <2>3. CurrentFacts'
        BY <1>11 DEF Inspect, Goto, Conclude, Counters, HookedIsActive, CurrentFacts, Outdated
    <2>4. FreshFacts'
        BY <1>11 DEF Inspect, Goto, Conclude, Counters, HookedIsActive, CurrentFacts, FreshFacts
    <2> QED BY <2>1, <2>2, <2>3, <2>4
<1>12. ASSUME NEW t \in Backends \cup Menus, InspectDescription(t) PROVE SingleInv'
    <2>1. Counters'
        BY <1>12 DEF InspectDescription, Goto, Counters
    <2>2. HookedIsActive'
        BY <1>12 DEF InspectDescription, Goto, HookedIsActive
    <2>3. CurrentFacts'
        BY <1>12 DEF InspectDescription, Goto, Counters, HookedIsActive, CurrentFacts, Outdated
    <2>4. FreshFacts'
        BY <1>12 DEF InspectDescription, Goto, Counters, HookedIsActive, CurrentFacts, FreshFacts
    <2> QED BY <2>1, <2>2, <2>3, <2>4
<1>13. ASSUME NEW t \in Backends \cup Menus, InspectNext(t) PROVE SingleInv'
    <2>1. Counters'
        BY <1>13 DEF InspectNext, Goto, Counters
    <2>2. HookedIsActive'
        BY <1>13 DEF InspectNext, Goto, HookedIsActive
    <2>3. CurrentFacts'
        BY <1>13 DEF InspectNext, Goto, Counters, HookedIsActive, CurrentFacts, Outdated
    <2>4. FreshFacts'
        BY <1>13 DEF InspectNext, Goto, Counters, HookedIsActive, CurrentFacts, FreshFacts
    <2> QED BY <2>1, <2>2, <2>3, <2>4
<1>14. ASSUME NEW t \in Backends \cup Menus, InspectSupport(t) PROVE SingleInv'
    <2>1. Counters'
        BY <1>14 DEF InspectSupport, Goto, Conclude, Counters
    <2>2. HookedIsActive'
        BY <1>14 DEF InspectSupport, Goto, Conclude, HookedIsActive
    <2>3. CurrentFacts'
        BY <1>14 DEF InspectSupport, Goto, Conclude, Counters, HookedIsActive, CurrentFacts, Outdated
    <2>4. FreshFacts'
        BY <1>14 DEF InspectSupport, Goto, Conclude, Counters, HookedIsActive, CurrentFacts, FreshFacts
    <2> QED BY <2>1, <2>2, <2>3, <2>4
<1>15. ASSUME NEW t \in Backends \cup Menus, InspectFails(t) PROVE SingleInv'
    <2>1. Counters'
        BY <1>15 DEF InspectFails, Goto, Conclude, Counters
    <2>2. HookedIsActive'
        BY <1>15 DEF InspectFails, Goto, Conclude, HookedIsActive
    <2>3. CurrentFacts'
        BY <1>15 DEF InspectFails, Goto, Conclude, Counters, HookedIsActive, CurrentFacts, Outdated
    <2>4. FreshFacts'
        BY <1>15 DEF InspectFails, Goto, Conclude, Counters, HookedIsActive, CurrentFacts, FreshFacts
    <2> QED BY <2>1, <2>2, <2>3, <2>4
<1>16. ASSUME NEW t \in Backends \cup Menus, Return(t) PROVE SingleInv'
    <2>1. Counters'
        BY <1>16 DEF Return, Goto, Leave, Counters
    <2>2. HookedIsActive'
        BY <1>16 DEF Return, Goto, Leave, HookedIsActive
    <2>3. CurrentFacts'
        BY <1>16 DEF Return, Goto, Leave, Counters, HookedIsActive, CurrentFacts, Outdated
    <2>4. FreshFacts'
        BY <1>16 DEF Return, Goto, Leave, Counters, HookedIsActive, CurrentFacts, FreshFacts
    <2> QED BY <2>1, <2>2, <2>3, <2>4
<1>17. ASSUME NEW t \in Owners, ReconfiguredCompare(t) PROVE SingleInv'
    <2>1. Counters'
        BY <1>17 DEF ReconfiguredCompare, Goto, Counters
    <2>2. HookedIsActive'
        BY <1>17 DEF ReconfiguredCompare, Goto, HookedIsActive
    <2>3. CurrentFacts'
        BY <1>17 DEF ReconfiguredCompare, Goto, Counters, HookedIsActive, CurrentFacts, Outdated
    <2>4. FreshFacts'
        BY <1>17 DEF ReconfiguredCompare, Goto, Counters, HookedIsActive, CurrentFacts, FreshFacts
    <2> QED BY <2>1, <2>2, <2>3, <2>4
<1>18. ASSUME NEW t \in Owners, OwnerBump(t) PROVE SingleInv'
    <2>1. Counters'
        BY <1>18 DEF OwnerBump, Bump, Goto, Counters
    <2>2. HookedIsActive'
        BY <1>18 DEF OwnerBump, Bump, Goto, HookedIsActive
    <2>3. CurrentFacts'
        BY <1>18 DEF OwnerBump, Bump, Goto, Counters, HookedIsActive, CurrentFacts, Outdated
    <2>4. FreshFacts'
        BY <1>18 DEF OwnerBump, Bump, Goto, Counters, HookedIsActive, CurrentFacts, FreshFacts
    <2> QED BY <2>1, <2>2, <2>3, <2>4
<1>19. ASSUME NEW t \in Owners, Settle(t) PROVE SingleInv'
    <2>1. /\ settled[chain[t]] \in Nat /\ key[t] \in Nat
          /\ version[chain[t]] \in Nat
          /\ settled[chain[t]] <= version[chain[t]] /\ key[t] <= version[chain[t]]
        BY <1>19 DEF Settle, Goto, Leave, Counters
    <2>2. /\ Max({settled[chain[t]], key[t]}) <= version[chain[t]]
          /\ Max({settled[chain[t]], key[t]}) >= settled[chain[t]]
        BY <2>1, MaxBetween, Zenon
    <2>3. \A c \in Chains : settled'[c] >= settled[c] /\ settled'[c] <= version[c]
        BY <1>19, <2>1, <2>2 DEF Settle
    <2>9. /\ UNCHANGED <<revision, cache, alive, unhooked, version>>
          /\ pc'[t] = "idle" /\ floor'[t] = Nothing
          /\ \A x \in Threads \ {t} : /\ pc'[x] = pc[x] /\ key'[x] = key[x]
                                      /\ floor'[x] = floor[x] /\ answer'[x] = answer[x]
        BY <1>19 DEF Settle, Goto, Leave
    <2>4. ~Outdated /\ ~Outdated'
        BY <1>19 DEF Settle, Goto, Leave, Outdated
    <2>5. Counters'
        <3>1. \A x \in Threads, c \in Chains : floor'[x][c] <= settled'[c]
            BY <2>3, <2>9 DEF Counters
        <3>2. \A x \in Threads :
                /\ pc'[x] \in Keyed => key'[x] <= revision'
                /\ pc'[x] \in Answering => answer'[x] # Failed
                /\ \A c \in Chains : pc'[x] \in Owning => key'[x] <= version'[c]
            BY <2>9 DEF Counters
        <3> QED BY <2>3, <2>9, <3>1, <3>2 DEF Counters
    <2>6. HookedIsActive'
        BY <1>19 DEF Settle, Goto, Leave, HookedIsActive
    <2>7. CurrentFacts'
        BY <2>3, <2>4, <2>9 DEF CurrentFacts
    <2>8. FreshFacts'
        BY <1>19 DEF Settle, Goto, Leave, Counters, FreshFacts
    <2> QED BY <2>5, <2>6, <2>7, <2>8
<1>20. ASSUME NEW t \in Owners, CaptureNote(t) PROVE SingleInv'
    <2>1. Counters'
        BY <1>20 DEF CaptureNote, Goto, NoteSwap, Counters
    <2>2. HookedIsActive'
        BY <1>20 DEF CaptureNote, Goto, NoteSwap, HookedIsActive
    <2>3. CurrentFacts'
        BY <1>20 DEF CaptureNote, Goto, NoteSwap, Counters, HookedIsActive, CurrentFacts, Outdated
    <2>4. FreshFacts'
        BY <1>20 DEF CaptureNote, Goto, NoteSwap, Counters, HookedIsActive, CurrentFacts, FreshFacts
    <2> QED BY <2>1, <2>2, <2>3, <2>4
<1>21. ASSUME NEW t \in Owners, ReleasedClear(t) PROVE SingleInv'
    <2>1. Counters'
        BY <1>21 DEF ReleasedClear, Goto, Counters
    <2>2. HookedIsActive'
        BY <1>21 DEF ReleasedClear, Goto, HookedIsActive
    <2>3. CurrentFacts'
        BY <1>21 DEF ReleasedClear, Goto, Counters, HookedIsActive, CurrentFacts, Outdated
    <2>4. FreshFacts'
        BY <1>21 DEF ReleasedClear, Goto, Counters, HookedIsActive, CurrentFacts, FreshFacts
    <2> QED BY <2>1, <2>2, <2>3, <2>4
<1>22. ASSUME NEW t \in Owners, NEW c \in Chains, Create(t, c) PROVE SingleInv'
    <2>1. Counters'
        BY <1>22 DEF Create, NewChain, NewVersion, Goto, Counters
    <2>2. HookedIsActive'
        BY <1>22 DEF Create, NewChain, NewVersion, Goto, HookedIsActive
    <2>3. CurrentFacts'
        BY <1>22 DEF Create, NewChain, NewVersion, Goto, Counters, HookedIsActive, CurrentFacts, Outdated
    <2>4. FreshFacts'
        BY <1>22 DEF Create, NewChain, NewVersion, Goto, Counters, HookedIsActive, CurrentFacts, FreshFacts
    <2> QED BY <2>1, <2>2, <2>3, <2>4
<1>23. ASSUME NEW t \in Owners, NEW c \in Chains, CaptureFails(t, c) PROVE SingleInv'
    <2>1. Counters'
        BY <1>23 DEF CaptureFails, NewChain, NewVersion, Counters
    <2>2. HookedIsActive'
        BY <1>23 DEF CaptureFails, NewChain, NewVersion, HookedIsActive
    <2>3. CurrentFacts'
        BY <1>23 DEF CaptureFails, NewChain, NewVersion, Counters, HookedIsActive, CurrentFacts, Outdated
    <2>4. FreshFacts'
        BY <1>23 DEF CaptureFails, NewChain, NewVersion, Counters, HookedIsActive, CurrentFacts, FreshFacts
    <2> QED BY <2>1, <2>2, <2>3, <2>4
<1>24. ASSUME NEW t \in Owners, NEW c \in Chains, Reconfigure(t, c) PROVE SingleInv'
    <2>1. Counters'
        BY <1>24 DEF Reconfigure, Created, Owned, NewVersion, Goto, Counters
    <2>2. HookedIsActive'
        BY <1>24 DEF Reconfigure, Created, Owned, NewVersion, Goto, HookedIsActive
    <2>3. CurrentFacts'
        BY <1>24 DEF Reconfigure, Created, Owned, NewVersion, Goto, Counters, HookedIsActive, CurrentFacts, Outdated
    <2>4. FreshFacts'
        BY <1>24 DEF Reconfigure, Created, Owned, NewVersion, Goto, Counters, HookedIsActive, CurrentFacts, FreshFacts
    <2> QED BY <2>1, <2>2, <2>3, <2>4
<1>25. ASSUME NEW t \in Owners, NEW c \in Chains, Release(t, c) PROVE SingleInv'
    <2>1. Counters'
        BY <1>25 DEF Release, Created, Owned, Queried, Goto, Counters
    <2>2. HookedIsActive'
        BY <1>25 DEF Release, Created, Owned, Queried, Goto, HookedIsActive
    <2>3. CurrentFacts'
        BY <1>25 DEF Release, Created, Owned, Queried, Goto, Counters, HookedIsActive, CurrentFacts, Outdated
    <2>4. FreshFacts'
        BY <1>25 DEF Release, Created, Owned, Queried, Goto, Counters, HookedIsActive, CurrentFacts, FreshFacts
    <2> QED BY <2>1, <2>2, <2>3, <2>4
<1>26. ASSUME NEW t \in Owners, NEW c \in Chains, ReleaseUnhooked(t, c) PROVE SingleInv'
    <2>1. Counters'
        BY <1>26 DEF ReleaseUnhooked, Queried, Counters
    <2>2. HookedIsActive'
        BY <1>26 DEF ReleaseUnhooked, Queried, HookedIsActive
    <2>3. CurrentFacts'
        BY <1>26 DEF ReleaseUnhooked, Queried, Counters, HookedIsActive, CurrentFacts, Outdated
    <2>4. FreshFacts'
        BY <1>26 DEF ReleaseUnhooked, Queried, Counters, HookedIsActive, CurrentFacts, FreshFacts
    <2> QED BY <2>1, <2>2, <2>3, <2>4
<1>27. CASE UNCHANGED vars
    BY <1>27 DEF vars, Counters, HookedIsActive, CurrentFacts, FreshFacts, Outdated
<1> QED
    BY <1>1, <1>2, <1>3, <1>4, <1>5, <1>6, <1>7, <1>8, <1>9, <1>10, <1>11, <1>12, <1>13, <1>14, <1>15, <1>16, <1>17, <1>18, <1>19, <1>20, <1>21, <1>22, <1>23, <1>24, <1>25, <1>26, <1>27
    DEF Next, Backend, Snapshot, Inspecting, Eligible, Owner

\* With one address and one owner no query is answered from before a
\* reconfiguration, a capture or a release whose hook had returned when the
\* query started, however the loads of pointer and revision, the inspections
\* and the hooks of the owner interleave.
THEOREM AnswersAreFresh == OneChain /\ OneOwner /\ Spec => []FreshAnswers
<1>1. ASSUME SingleInv PROVE FreshAnswers
    <2>1. ASSUME NEW t \in Backends \cup Menus, pc[t] = "answered", answer[t] # Failed
          PROVE  answer[t] >= floor[t][chain[t]]
        BY <1>1, <2>1 DEF SingleInv, ChainInv, Roles, FreshFacts, Looking, Threads
    <2> QED BY <2>1 DEF FreshAnswers
<1>2. OneChain /\ OneOwner => (SingleInv /\ [Next]_vars => SingleInv')
    BY SingleStep
<1>3. CASE OneChain /\ OneOwner
    <2>1. SingleInv /\ [Next]_vars => SingleInv'
        BY <1>2, <1>3
    <2> QED BY <1>1, <2>1, SingleInit, PTL DEF Spec
<1> QED BY <1>3

=============================================================================
