# EldenRingWindowedHDR in TLA+

EldenRingWindowedHDR is a DLL that is loaded into `eldenring.exe`. It hooks DXGI and four functions of
the game so that the game's own HDR mode works in a window: it makes the game believe that HDR is active
and, in step with `Present`, puts the swap chain into the HDR10/PQ color space and later back into the
color space it had. This directory holds TLA+ models of the parts of the program that run concurrently
or can fail half way, the TLC configurations that check them, and proofs that TLAPS checks.

Paths such as `dxgi.rs:1595` are under `src/` of the repository, that is `src/src/` in `PROJECT.json`.

## 1. The system

### Threads

The code creates one thread (initialisation). Everything else runs on threads of others, inside hooks:

| thread | what it runs here |
| --- | --- |
| loader | `DllMain`, `elden_ring_windowed_hdr_init` (lib.rs:40-60) |
| initialisation | `initialize` (lib.rs:97-289), once |
| game logic | the backend actual-state query, the common-availability query, the menu gate, the graphics-config copy (game_hdr.rs) |
| render | `Present`, `ResizeBuffers`, `SetFullscreenState`, `SetColorSpace1`, creation and `Release` of swap chains (dxgi.rs) |
| overlays, other modules | any DXGI method on the same objects; patches of vtables and code |

### Components

| component | state | operations | interacts with | hard part | what makes it correct |
| --- | --- | --- | --- | --- | --- |
| Managed color space (dxgi.rs:258-383, 1547-1706) | per swap chain, under one mutex: captured baseline, desired HDR, pending, in progress, latch, epoch, observed color space | request, begin, finish, reapply, observe an external set | polled by the backend query; driven by `Present`, resize and `SetColorSpace1` hooks | the mutex is released around the DXGI calls of a transition | the baseline is captured once and given back; HDR is never left half on; one transition at a time; failures are final and bounded |
| HDR session (game_hdr.rs:402-672; dxgi.rs:1016-1053, 2226-2252) | live setting, the game's request, the cached verdict, which chain has the address | apply a setting, poll, create, reconfigure, release a chain | joins the observer, the backend query, the cache and the managed color space | every source is read at another moment; state is removed when a chain dies and its address is reused | HDR that stays wanted starts, HDR that stays unwanted ends, a baseline never reaches another chain |
| Active swap chain and candidate cache (dxgi.rs:1708-1755; game_hdr.rs:627-672) | two atomics; a one-entry cache under a mutex | note, reconfigure, clear, snapshot, look up, inspect | both game queries; creation, resize and release hooks | pointer and revision change one at a time; the lock is held across COM calls | no query is answered from an outdated configuration; queries return |
| Shadow vtables (dxgi.rs:396-429, 2226-2640) | lock-free list of records (active flag, entry count, originals, generations), cloned tables | install, expand, retire; lock-free look-up by every hooked call | every DXGI hook; overlays that patch the same tables | publication order without locks; address reuse; tables patched by others | every call finds its original, in bounds, without recursion, through the overlays; a captured object is hooked |
| Initialisation (lib.rs) | `INIT_STATE`, three switches | start, wait, initialise | all installers; the hooks read the switches | two entry points, partial failure, time limit, game threads that already run | the result is final; switches only over complete hooks |
| Verified hooks (game_hdr.rs:122-238, 691-898; windows.rs:244-282) | patched code, saved originals | verify, publish, patch, check, undo | game threads call the code while it is patched; other modules patch it too | failure after the patch; order of publication | a call always reaches the original; a hook reported absent is absent |
| Graphics-config observer (game_hdr.rs:462-509) | `LIVE_HDR_SETTING` | copy, remember, forward | read by the backend query | none beyond the hook itself | forwards unchanged |
| Candidate inspection (dxgi.rs:1477-1532) | none | four DXGI queries and one conjunction over their answers | cache and `Present` validation | each query may fail; reconfigurations fall between them | the verdict is no older than the query; no call on a dead chain |
| Game compatibility resolver (game_compat.rs) | none | scans for signatures, callers, a vtable with RTTI, a cookie | yields the targets and their prologues, or an error | ambiguity; the code is patched while it is read | the true targets or none |
| Configuration (config.rs) | none | create or read, parse | the mode decides what is hooked and switched on | sections, repeated keys, a retired mode | the mode is the one the file asks for |
| SHA-256 (sha256.rs) | partial block, length | update with any pieces, finalize | the digest selects a known build | block boundaries | the digest is that of the whole file |
| Import walk (dxgi.rs:615-760) | patched slots, stored originals | walk descriptors and thunks, patch slots | the factory hooks everything else starts from | malformed tables, ordinals, failure half way | every wanted slot is hooked, with its original stored first |
| Logger, AGS observer, state logging, scripts | none that others depend on | log | - | - | - |

`PROJECT.json` lists the same components with what is modelled of each, and under `hazards` the places
where each can go wrong in a way that a test would hardly reach.

## 2. The modules

```
ColorSpaceOwnership        abstract promise of a managed color space
  ^ refinement
ManagedColorSpace          the state machine and every hook that drives it
  |  MCManagedColorSpace     instances     ManagedColorSpaceProofs   theorems
  v extended by
HdrSession                 setting, request, polls and chain lifetimes around it
     MCHdrSession            instance      HdrSessionProofs          theorems

ActiveSwapChain            active pointer, revision, candidate cache, inspection
     MCActiveSwapChain       instances     ActiveSwapChainProofs     theorems

ShadowVtable               one COM object address and its shadow vtables
     MCShadowVtable          instances     ShadowVtableProofs        theorems

FileHash  ConfigFile  GameTargets  ImportTable
  |  the callees of initialize             FileHashProofs            theorems
  |                                        ConfigFileProofs          theorems
  v extended by
Initialization             start, hooks on the game's code, switches
     MCInitialization        instances     InitializationProofs      theorems
                                           CalleeProofs              theorems on the
                                             callees within the start
```

`HdrSession` composes the managed color space with everything that decides whether HDR is wanted. It extends
`ManagedColorSpace`: its steps are the steps of that module with their callers' conditions, and its theorems rest on that
module's. `Initialization` composes the functions it calls in the same way. The four top models meet at narrow interfaces,
and each takes the other side as a free choice: `HdrSession` has the revision as a counter and the inspection as one step,
while `ActiveSwapChain` has both in single loads and calls and abstracts the verdict to the configuration it stems from;
`ShadowVtable` decides whether the hooks that the other models speak of are reached at all; `Initialization` decides when
they exist.

### Granularity

A step is what one thread does between two points where another can see the state: a critical section,
an atomic load, store or compare-exchange, a write of a patch, or a call into DXGI that is made with no
lock held. Data is abstracted to what the properties tell apart: a color space is a model value, a
function pointer is the sequence of modules that run when it is called, a swap chain's configuration is a
version number, the bytes of a hooked function are whose code they lead to. Memory orderings are all
acquire/release in the code and the models are sequentially consistent.

### ManagedColorSpace

| code | model |
| --- | --- |
| `ManagedColorSpaceState` | record `managed`: `restore`, `desired`, `pending`, `inProgress`, `latched`, `epoch` |
| `SwapChainState.observed_color_space`; what DXGI really presents with | `observed`; `actual` |
| `ManagedColorSpaceTransition` in a local of a `Present` | `transition[t]`, with `outcome[t]` |
| `request`, `begin_transition`, `finish_transition`, `reapply_after_reconfiguration`, `observe_external_set` | `Request`, `CanBegin`/`Begin`/`TransitionOf`, `Finish`, `Reapply`, `ObserveExternalSet` |
| backend query: request(true) accepted; refused or not wanted, then request(false) | `QueryEnable`; `QueryRefused` then `QueryWithdraw` |
| `apply_managed_color_space_before_present` | `PresentBegin`, `ValidateAccept`/`ValidateReject`, `SetColorSpaceSucceeds`/`SetColorSpaceFails`, `PresentFinish` |
| `set_color_space1_hook`: the forwarded call, then the lock | `ExternalSet`, `ExternalObserved` |
| resize and fullscreen hooks, `advance_swap_chain_generation` | `Reconfigure`, `ReconfigureDone` |

Which thread may run which hook is a parameter (`Presenters`, `Setters`, `Resizers`, `Queriers`), so the
same module describes the usual game, where one render thread serialises everything but the polls, and the
game with an overlay on a thread of its own. `ours` and `lateEnables` are history variables. After a resize
`actual` may or may not be reset: DXGI does not promise either.

### HdrSession

| code | model |
| --- | --- |
| `LIVE_HDR_SETTING`; the backend's inverse "disabled" bit | `setting`, changed by `ApplySetting`; `request`, changed by `ChangeRequest` |
| `hdr_backend_actual_query_hook`: reads of both, `candidate_is_eligible`, request or withdrawal | `PollRead`; `PollHit` or `PollInspect`; `PollEnable`, `PollRefused`, `PollWithdraw`, on top of the managed queries |
| `HDR_CANDIDATE_CACHE` and the revision, seen from one address | `cache`, `revision` |
| what an inspection finds | `shape`: eligible, not eligible, or a native HDR chain that the backend reports itself |
| `Present` and its own validation; `SetColorSpace1`; resize and fullscreen; `ResizeTarget` | `BeginPresent`, `ContinuePresent`; `SetExternally`, `ObserveSet`; `Resize`, `ResizeDone`; `Retarget`, `RetargetDone` |
| last `Release`, with `states.remove`; creation of the next chain | `ReleaseChain`, `RemoveState`; `CreateChain` |

A poll takes its reads one after the other, so setting, request, shape and revision may change between any two of them.
`holder` is history: the chain whose color space the captured baseline is.

### ActiveSwapChain

`active`, `revision` and `cache` are the two atomics and the cache; `cacheOwner` is its mutex. Each load,
swap and increment is an action: `BackendQuery`, `BackendBump`, `RevisionCompare`, `RevisionLoad` for the
backend query; `SnapshotBefore`, `SnapshotPointer`, `SnapshotAfter` for the menu's; `LookupHit`,
`LookupMiss` for `candidate_is_eligible`; `Inspect`, `InspectDescription`, `InspectNext`, `InspectSupport`,
`InspectFails` for the four DXGI queries of an inspection, and `Conclude` for the filing of its result;
`Reconfigure`, `ReconfiguredCompare`, `Create`, `CaptureNote`, `CaptureFails`, `Release`, `ReleasedClear`,
`ReleaseUnhooked` for the DXGI hooks and for a chain that could not be hooked. What makes a chain a candidate is
reduced to a version that each DXGI call which may change the answer increments; the answer of an inspection is as
old as its oldest fact, which is that of its first query; a failed inspection is `Failed`. `settled` and `floor` are
history: the newest configuration whose hook had returned, now and when the query started.

Assumed of the game: it resizes or releases a chain on one thread at a time, and does not release a chain
that one of its queries has in hand (`Owned`, `Queried`); the code holds no COM reference of its own.

### ShadowVtable

`records` is the list of shadow records of one address and one kind, `shadows` their cloned tables, `root`
the table that DXGI gives new objects, `foreign` a table of another module, `vtable` the object's pointer.
`Create` and `Query` enter `install_shadow_vtable`, whose steps are `InstallClone`, `InstallSwing` or
`InstallAbandoned`, `PublishGeneration`; `ExpandSnapshot`, `ExpandOriginals`, `ExpandCount`, `ExpandSlots`;
`InstallNothing`; `InstallRefused`. `Call`, `LookUpRecord`, `LoadCount`, `LoadFunction` are a hooked call,
which takes no lock; `Release` and `Retire` are the forwarded final `Release` and the retirement. `PatchInPlace`,
`PatchRoot` and `ReplaceVtable` are what other modules do. `LiveRoot` says whether the root lies in `dxgi.dll`
(the code then follows it live), `PatchAnytime` whether others patch inside an installation too.
Slot 1 stands for the lifecycle methods; `Release` forwards to the saved function, as the code does.

### FileHash, ConfigFile, GameTargets, ImportTable

These four are the functions `initialize` calls before it hooks the game. Each has its state, its steps and a reference
definition that says in one formula what the steps should amount to.

* `FileHash` (sha256.rs): `Read(n)` is one read of `file_hex` with the `update` it feeds, `EndOfFile` is `finalize`. The
  content of a byte is its position in the file and the compression function is reduced to the list of blocks it is given, so
  `DigestOfWholeFile` compares that list with the blocks of the padded file, byte by byte.
* `ConfigFile` (config.rs): a line is what trimming and splitting leave of it. `ParseLine` is one turn of the loop,
  `ReferenceConfig` reads the file as a whole.
* `GameTargets` (game_compat.rs): an image is the set of places that match each pattern, with their sections and what they
  refer to; `Scan` is one scan in the order of `resolve`, `Capture` the comparison with a known build and the reading of the
  prologues. `site` says whose code is at each target, so that a patch by another module can hide a signature or end up in a
  captured prologue.
* `ImportTable` (dxgi.rs): `WalkDescriptor`, `HookImport`, `NextLibrary` walk descriptors and thunks and write the slots;
  `WantedSlots` says which slots the loader filled with a function that is to be hooked. The imports found are a set of slots,
  and `FirstPending` takes them in the order of the walk. The walk reads at most `MaxThunks` thunks of a descriptor (4096 in the
  code, dxgi.rs:2763) and goes on without an error, so a wanted import beyond them stays unhooked although `install` succeeds,
  and an executable with its factories only there is told to import none. `ImportsAreHooked` leaves exactly those slots out
  (`ReachedSlots`).

### Initialization

`initState` is `INIT_STATE`, `step` and `hook` the program counter of `initialize`. `Prepare` has the stages up to the
imports, each with its failure: `Begin`, `HashFile`/`Hashed`, `ParseConfig`/`Configured`, `ScanImage`/`Resolved`,
`HookImports`/`ImportsHooked`. `InstallHooks` installs the four hooks in the code's order by `PublishOriginal`, `WritePatch`
or `WritePatchFails`, `CheckPatch` or `CheckPatchFails`, `WithdrawOriginal`, or passes one over with `SkipHook` or
`RefuseHook`; `MayChain` says when a hook may be placed on the bytes it finds. `Ready` is
`hdr_backend_experiment_enabled`; `EnableOverride`, `EnableSync`, `EnableExperiment` store the switches one after the other
and `Finish` the result. `Call`, `LoadOriginal`, `LoadSwitch`, `LoadSync`, `Return` are a game thread in a hook; it may run
at any time because a loader that only loads the DLL does not wait for it. `WriteFailures` selects the two ways in which
`write_memory` fails, `Patched` the hooks whose code another module patches too (`PatchElsewhere`), and
`PatchWhileResolving` whether it does so in the middle of the scans.

## 3. What the runs check

All bounds are constants of the modules. 40 properties of passing runs are each paired with a mutation of
the model, a plausible mistake in the code, that makes TLC find the property violated
(`mutants` in `PROJECT.json`); the mutated operators stand beside the ones they replace.

| run | instance | properties |
| --- | --- | --- |
| hdr_session | 1 render thread that also creates and releases chains, 1 polling thread, 3 color spaces, 2 chains at one address, 2 changes of setting or request, revisions to 2, fair | `HdrIsSubmitted`, `NoOrphanedPq`, `BaselineBelongsToChain`, `RestoredOnRelease`; `WantedHdrStarts`, `UnwantedHdrEnds`, `FailureReachesTheGame` |
| managed_racing | 2 threads that present and set, 1 resizing, 1 polling, 3 color spaces, epochs to 3 | `TypeOK`, `AtMostOneTransition`, `DesiredHasBaseline`, `CurrentTransitionIsDesired`, `NoForgottenRestore`, `BoundedRetry`, `ImplementsOwnership` |
| active_single | 1 address, both queries, 1 owner, 3 configurations, fair | `TypeOK`, `FreshAnswers`, `InspectsLiveChain`; `QueriesReturn` |
| active_pair | 2 addresses, the backend query, 2 owners, 2 configurations of each | `CacheIsFresh`, `ActiveIsLive` |
| shadow_calls | 1 caller, 1 installer, 1 overlay that patches at any time, interfaces of 2 and 3 slots | `TypeOK`, `CallsAnswered`, `ReadsInBounds`, `NoRecursion` |
| shadow_overlays | 2 objects at one address, 2 slots, one interface length, root in dxgi.dll, 1 caller, 1 installer, 1 overlay | `RecordsAreCurrent`, `CapturedMeansHooked`, `WrappersAreCalled` |
| initialization | both entry points, 1 game thread, every failure of every stage, both write failures, a module that patches the menu gate; files of 0 to 9 bytes read in pieces of up to 6, configurations of up to 5 lines, 19 images, 14 import tables with up to 3 thunks read of each descriptor, fair | `TypeOK`, `DigestOfWholeFile`, `ParsedAsWritten`, `NeverALookAlike`, `ImportsAreHooked`, `TrueMeansHooked`, `FailureIsInert`, `ExperimentNeedsHooks`, `OverrideIsSynchronised`, `OverridesAreVerified`, `CallsReachOriginal`; `ResultIsFinal`, `InitializationEnds` |

Runs in which TLC finds the property violated, each a disagreement between the code and what a comment, a log
line or a document says of it (`findings` in `PROJECT.json`):

| run | property | what happens |
| --- | --- | --- |
| managed_conflict | `NoOrphanedPq` | another component sets a color space inside the unlocked part of a PQ submission: the module gives up the baseline, then its own PQ call lands and nobody restores |
| shadow_reuse | `CapturedMeansHooked` | an object created at an address that was freed but not yet retired is taken for one with a foreign vtable: installation succeeds without hooks |
| shadow_expansion | `WrappersAreCalled` | an overlay's wrapper beyond the short interface is saved as original on expansion and then bypassed in favour of the live root |
| init_halfpatched | `FailedHookIsAbsent` | `write_memory` fails after the copy: the hook counts as absent, its original is withdrawn, and the game still runs into it |
| init_resolution | `OverridesAreVerified` | a module patches the backend query after its signature matched and before its prologue is read: the patch is captured as the expected bytes and the emulating hook chained on top |

### Why the bounds are enough

*Threads.* Every race in the code is between two threads at a time and one object: two presenters, a
presenter and a setter, a query and an owner, a caller and an installer, a game thread and the initialisation thread.
`managed_racing` adds a resizer and a poller to two presenters. *Epochs.* In `managed_racing` three requests are enable,
disable, enable again, which is what a transition in flight has to survive for the epoch comparison to matter. Enables are
refused at the bound while every other operation goes on, so failures and conflicts at the bound still happen. In
`hdr_session` the epochs are bounded by the changes of setting, request, shape and chain, and `MaxEpoch` is out of their
reach, so that no liveness property leans on it. *Color spaces.* Three: the default, PQ and another, so a baseline can
differ from the default. *Session.* Two chains at one address are a removal of state and a reuse of the address; two changes
of setting or request are a wish and its reversal, from any initial setting. *Versions.* Three
configurations of an address cover a creation, a reconfiguration or a release, and a reuse; with two addresses
the interesting step is the change of the active chain, and two configurations of each suffice, with a revision
up to 4 so that backend queries also advance it after both creations. *Slots.* The lifecycle slot, a slot of
the short interface and one of only the long interface. *Records.* Two objects at one address are what a reuse
needs. *Root.* `shadow_calls` has `LiveRoot = FALSE` and shuts callers out during a first installation, as the
object is still its creator's; that no call enters the replacement twice when the root is read live, and that records stay
current with several installers, is covered by the theorems, which are for every value of both. *Blocks.* With four bytes to a block and two of length, files of 0 to 9 bytes end at every position of a block, in
one, two and three blocks, and the padding spills or does not; reads of 1 to 6 bytes leave, fill and pass the partial block.
*Files.* All pairs of lines, the same behind `[hdr]`, and two that go back to a section. *Import tables.* With three thunks read, a wanted name stands at the limit and beyond it, alone and behind a
hooked one, and an unreadable one beyond it. *Images.* The genuine one and one
with each look-alike or defect a check of the resolver is there for, at lower addresses than the targets.
*Patches of others.* The menu gate, which is the only hook that may be chained; for the other hooks
`InitializationProofs` covers every choice of `Patched`. Two model values for threads are not symmetric where their roles
differ, and liveness runs use no symmetry.

Deadlock is checked in `hdr_session`, in the managed runs and in `active_single`. It is off where the modelled world ends:
when initialisation is over, when no more objects are created (`MaxRecords`) and, in `active_pair`, when both
chains were released and every configuration of theirs was used (`MaxVersion`).

*One chain for `FreshAnswers`.* With two chains it does not hold: a query whose chain stops being the active
one between the note and the comparison of `swap_chain_revision` files its answer under revision 0
(`dxgi.rs:1733`), which reconfigurations of that chain do not change, and a second query that loses the same
race is answered from it. TLC shows it with `FreshAnswers` in `MCActiveSwapChain_pair.cfg` and
`MaxVersion = 3`. The code states no contrary claim about two simultaneous game chains, so this is a limit of
the guarantee, not a listed finding. Nor does it hold for one address with two owners: one releases the chain and has
yet to clear the active pointer, the capture of its successor at the same address by the other fails, and a query that
starts then is still answered from the released chain's entry. The cache itself stays sound in both cases: `CacheIsFresh`
is a theorem for any chains and owners.

*One owner for `BaselineBelongsToChain`.* With two threads that create and release chains, `states.remove` for an old chain
may run after a new one at its address has captured a baseline (`dxgi.rs:2246`), or a new chain may find the old one's state.
The game creates and releases its chain on one thread, which the run has as an instance and the theorem as its assumption `OneOwner`.

### Fairness, and what justifies it

* `HdrSession.FairnessSession`: a hook that started returns, since its calls into DXGI do, and the thread that released a
  chain finishes its `Release`; the game keeps polling; a presenter keeps presenting, with strong
  fairness because a conflict or a resize disables the begin again and again. Nobody is assumed to want HDR, to change a
  setting, to set a color space, to resize, to release or to create a chain.
* `ActiveSwapChain.Fairness`: queries that started run on; the acquisition of the cache mutex is strongly
  fair, since others keep taking it. Owners need no fairness: the revision moves only finitely often within
  the bounds, which is also what the code relies on for its retry loop.
* `Initialization.Fairness`: the thread that won the start goes on, and the spawned thread runs; nothing in
  `initialize` waits for another thread.

`WantedHdrStarts` and `UnwantedHdrEnds` have an exception the code makes on purpose: a failed submission or restoration is
latched and never repeated for that chain (dxgi.rs:337), and so is a conflict.

## 4. What is proved

All theorems hold for every value of the constants that satisfies the named assumptions beside their declarations: any sets
of threads, any bounds, any executable, configuration and import table, and any limit of thunks.

| module | theorem | statement |
| --- | --- | --- |
| ManagedColorSpaceProofs | `TypeCorrect`, `OneTransitionAtATime`, `BaselineIsHeld`, `StaleTransitionsAreInert`, `RestoreIsRemembered`, `RetryIsBounded` | `Spec => []` of `TypeOK`, `AtMostOneTransition`, `DesiredHasBaseline`, `CurrentTransitionIsDesired`, `NoForgottenRestore`, `BoundedRetry` |
| | `ImplementsOwnershipSpec` | `Spec => ImplementsOwnership` |
| | `DesiredHdrIsSubmitted`, `PqIsNeverOrphaned` | `Spec => []` of `HdrIsSubmitted`, `NoOrphanedPq`, with one renderer |
| HdrSessionProofs | `BaselinesStayWithTheirChain` | `SpecSession => []BaselineBelongsToChain`, with one owner |
| | `SessionKeepsManagedSafety` | the managed invariants above over a whole session, with one owner |
| | `SessionsLeaveNoColorSpaceBehind`, `ReleasedChainsAreRestored` | `[](HdrIsSubmitted /\ NoOrphanedPq)` and `RestoredOnRelease` over a whole session, with one owner and one renderer |
| ActiveSwapChainProofs | `TypeCorrect`, `InspectionsAreOfLiveChains`, `ActiveStaysLive` | `Spec => []` of `TypeOK`, `InspectsLiveChain`, `ActiveIsLive` |
| | `EntriesAreFresh` | `Spec => []CacheIsFresh` |
| | `AnswersAreFresh` | `[]FreshAnswers`, with one address and one owner |
| ShadowVtableProofs | `TypeCorrect`, `CallsAreAnswered`, `ReadsStayInBounds`, `CallsEnterOnce`, `RecordsStayCurrent` | `Spec => []` of `TypeOK`, `CallsAnswered`, `ReadsInBounds`, `NoRecursion`, `RecordsAreCurrent` |
| | `CapturedIsHooked` | `[]CapturedMeansHooked`, with one installer |
| | `WrappersAreAllCalled` | `[]WrappersAreCalled`, when others patch outside installations, and no table that is followed live has a longer interface to expand to (`Settled`) |
| FileHashProofs | `ReadsAreAccounted`, `DigestIsOfWholeFile` | `HashSpec => []` of `HashAccounted`, `DigestOfWholeFile` |
| ConfigFileProofs | `ParserFollowsTheFile` | `ConfigSpec => []ParsedAsWritten` |
| InitializationProofs | `TypeCorrect`, `TrueMeansImports`, `FailuresAreInert`, `ExperimentsHaveTheirHooks`, `OverridesAreSynchronised`, `CallsFindTheirOriginal` | `Spec => []` of `TypeOK`, `TrueMeansHooked`, `FailureIsInert`, `ExperimentNeedsHooks`, `OverrideIsSynchronised`, `CallsReachOriginal` |
| | `ResultsAreFinal` | `Spec => ResultIsFinal` |
| | `StartHashes`, `DigestSelectsTheBuild` | `Spec => HashSpec`, and with it `Spec => []DigestOfWholeFile` |
| CalleeProofs | `LookAlikesAreRefused` | `Spec => []NeverALookAlike`, when every image holds the game's functions (`HasTargets`) |
| | `AnswersAreVerified` | `Spec => []OverridesAreVerified`, when nobody patches while `resolve` runs |
| | `StartParses`, `ModeIsAsWritten` | `Spec => ConfigSpec`, and with it `Spec => []ParsedAsWritten` |
| | `WalkHooksAll`, `StartHooksImports`, `ImportsAreAllHooked` | `ImportSpec => []ImportsAreHooked`, `Spec => ImportSpec`, and with them `Spec => []ImportsAreHooked` |

None of the invariants is inductive by itself. Each proof has a step per action and, beneath it, one per part of the
invariant that the action disturbs.

**Managed color space.** `IInv` conjoins the invariants with three facts:

* `InFlightIsMarked`: a transition in flight is marked in progress, *or* the state is latched with nothing
  captured. The second half is what a conflict in mid-flight leaves behind, and why `transition_in_progress`
  alone does not exclude a second transition: no later begin is possible because nothing can be captured again
  after the latch. This gives `AtMostOneTransition`.
* `InFlightIsPast`: a transition in flight carries the current epoch or an older one, so arming a request
  (epoch + 1) makes every transition in flight a superseded one. This gives `CurrentTransitionIsDesired`, and with it
  that a finish never drops the baseline of a newer request.
* `RetryIsSpent`: which states still allow a PQ submission after a failure. A latch refuses new enables, but one
  that was armed before the stale failure may still begin; once it has, none can.

The refinement reads `phase` from `restore` and `desired`, `baseline` from `restore` and `failed` from `latched`; each
action maps to an action of `ColorSpaceOwnership` or to a stutter, using `DesiredHasBaseline` for a failing finish and
`CurrentTransitionIsDesired` for a releasing one.

**Session.** `SessionInv` conjoins `IInv`, types, and what a dead chain leaves behind: nobody is inside a hook while no chain
has the address (`DeadChainIsUnused`), and once the thread that released it is done no baseline is in the map
(`DeadChainHasNoState`). Every step of the session but removal and creation is a step of `ManagedColorSpace` or leaves it
alone (`StepsAreManaged`), so its invariant carries over; removal resets the state to one that satisfies it because nobody is
in flight.

**Active swap chain.** `ChainInv`, for any number of chains and owners, says which chain each thread has in hand: a query's is
alive, or was never hooked (`InHand`), and the check for a record is what separates the two before the first DXGI call. The
active pointer is known, or the release that will clear it is under way and no snapshot is being taken (`ActiveIsKnown`).
`EntryInv` adds, still for any chains and owners, what a fact filed or gathered under the current revision is worth (`Holds`):
it is the truth about a chain that lives and is hooked, or its chain is not the active one, or an increment of the revision
is due, or the hook that outdated it has yet to compare that chain with the active one. Between hooks the last two are
out of the question, and the chain of an entry that would be hit is the active one, which leaves the truth.
`SingleInv` adds to `ChainInv`, for one address and one owner, that a hooked chain is the active one from capture to release, so that
every reconfiguration does advance the revision (`HookedIsActive`); that facts filed or gathered under the current revision
are those of the current configuration, or of the settled one while the increment is due (`CurrentFacts`); and that facts
under the key of a query, current or not, are as new as that query needs (`FreshFacts`).

**Hash.** `HashInv` says which bytes of the file each compressed block and the partial block hold; the proof does the arithmetic
of the blocks once for `update` (fill up, whole blocks, rest) and once for the two cases of the padding.

**Initialisation.** `InitInv` conjoins: one loader spawns (`OneStart`); success is told after the imports were counted
(`Success`); hooks to come are untouched (`HookOrder`), which makes the writes of one hook not disturb the others; an original
is published before its patch and withdrawn with its status (`Originals`), hence what a game thread in a hook finds (`InHook`);
the switches are on only when ready and in their order (`Switches`), hence a query that has seen the experiment and is about
to load the second switch will find it stored (`SeenInOrder`). What `initialize` calls before the hooks leaves all of that
alone (`PrepareFrame`), whatever those functions do.

**Callees.** Four invariants, one for each thing `initialize` relies on before it hooks the game.

* The scans: targets are found in the order of `ScanOrder` and all of them before anything is captured (`ScanInv`). On it
  rests `GenuineSoFar`: while no function is patched, what is found is genuine, because `HasTargets` says that the genuine place
  is among the matches and `Unique` that there is one match. `HasTargets` is what "an executable of the game" means; without
  it a look-alike could be the only match, and no check of the resolver could tell.
* The verified hooks: `VerifiedInv` follows a function from its signature, which matches only where nobody has patched
  (`FoundIsNative`), over the captured prologue (`CapturedIsNative`) and the saved original, which leads to another module only
  for the menu gate of a mode that observes (`ChainedObserves`), to the call that carries it (`CalledObserves`). A patch between
  the match and the capture breaks the first step; the run init_resolution is that counterexample, and the theorem excludes
  it by its assumption `PatchWhileResolving = FALSE`.
* The parser: what is known after `n` lines is what the file says up to line `n` (`ConfigInv`). One line more adds at most one
  mode line, and the section it stands in is the parser's.
* The import walk: the slots to hook that the walk has come past, which are the wanted ones within the limit of thunks, are
  the hooked ones and the pending ones, and no other slot is hooked (`ImportInv`).

`StartHashes`, `StartParses` and `StartHooksImports` say that `Initialization` implements each callee's own specification: no
step of another thread, of another stage or of another module touches its state.

**Shadow vtables.** `IInv` follows a reader that takes no lock through everything that others may do between its loads:

* `OneActive` and `RetiredRecord`: one active record at most, and the thread that retires has that one in hand.
* `ObjectInUse`: who works on the object keeps it alive, and an active record of a dead object is about to be retired.
* `TablesLead`: where the object has an entry that does not lead straight to DXGI there is an active record whose count
  covers it; the object's table is that record's clone or a table of another module.
* `RecordCovers`: the saved originals lead to DXGI, so a call that goes on never comes back; the clone has the replacement in all
  lifecycle and common slots, and its other replacements are within the count.
* `LengthsAgree`: number of originals, count and hooked slots of the record grow in this order, each at its own step of an
  expansion. This is the publication order the code relies on in place of a lock, and what `ReadsInBounds` needs.
* `ReaderFinds`, `CreatorAlone`, `PathsEnterOnce`: a reader in the middle finds a record and is within its count; before
  an installation has returned only its creator works on the object; a call enters the replacement once.

`CapturedIsAttached` adds, for one installer, that a captured object has gone through its hooks: a creator can only find a
record left by a dead object if another thread has yet to retire it, which is what the run shadow_reuse shows with two.
`WrapInv` follows the wrappers of others: each is in the object's table or in what the replacement goes on to (`Kept`), also
in the copies that an installation or an expansion has taken and not yet published (`CloneFits`, `ExpansionFits`), and what a
call still owes is ahead of it (`CallFits`). Both halves of its assumption `Settled` are needed: a patch that falls between copy and
publication is in neither, and the run shadow_expansion shows an expansion that drops a wrapper in favour of the live root.

**One renderer.** `HdrIsSubmitted`, `NoOrphanedPq` and `RestoredOnRelease` speak of what DXGI presents with, and the run managed_conflict
shows that they fail when two threads set a color space at once. `OneRenderer` says that one thread presents, sets and resizes,
as in the game without such an overlay; any number may poll. `SerialInv` says what then survives the polls that come while
the lock is released: the baseline is neither released nor replaced under a transition, a poll that supersedes the transition
leaves the next one pending (`InFlightOwns`), and the result of a call is still true when it is recorded (`FinishIsCurrent`,
`ObservedIsCurrent`). `ReleaseStep` derives that a release is of a restoration that succeeded, or of a set to the baseline.

Only model-checked: the liveness properties under fairness, which these proof backends do not handle: `WantedHdrStarts`,
`UnwantedHdrEnds`, `FailureReachesTheGame`, `QueriesReturn`, `InitializationEnds`. Every safety property of a passing run is a
theorem, under the assumptions in the table; where an assumption restricts the threads or the moments of foreign patches,
a run with a counterexample shows why, or section 3 says so (`FreshAnswers`, `BaselineBelongsToChain`).

Assumptions on data, evaluated by TLC in the runs and cited by name in the proofs: the places of an image are finitely many and the
known build has an address for each target (`ImageAssumption`), a configuration is a sequence of lines (`LineAssumption`), an
import directory one of descriptors and the limit of thunks a number (`DirectoryAssumption`), function pointers of DXGI, of this module and of overlays differ
and the lifecycle slot is hooked (`ShadowAssumption`), PQ is not the default color space (`ColorSpaceAssumption`).

## 5. Not modelled

* The SHA-256 compression function, the byte patterns of the signatures, PE headers and RVA arithmetic, the conjunction of the
  candidate predicate: pure functions of data that the models abstract; known vectors
  and unit tests of the repository cover them.
* Machine code of trampolines, page protection and memory regions: abstracted to success or failure.
* The bodies of the AGS and adapter observers, logging, names of enumerators: no state that anything depends on.
* Branches of the installers for code that already holds this module's patch: a process initialises once, so they
  are not reached.
* Poisoned mutexes: no code panics while it holds one.
* The packaging and build scripts.

## 6. Plan

Done, in this order because the color space is what users see: `ManagedColorSpace` with its abstract specification and
proofs, `ActiveSwapChain`, `ShadowVtable`, `Initialization`; then `HdrSession`, the inspection in `ActiveSwapChain`, and the
callees of `initialize`; then the proofs of all of them, until every safety property that a run checks was a theorem.

Next:

1. An abstract call ("the wrappers, then DXGI") that `ShadowVtable` implements, with the step that publishes an expansion as
   a stutter.
2. `HdrSession` over the step-wise revision and cache of `ActiveSwapChain`, if the state space allows it.
3. `FreshAnswers` for two chains under the weakest assumption on the owners that keeps revision 0 out of the cache.
