---------------------------- MODULE Initialization ----------------------------
(***************************************************************************)
(* The start of the module (src/src/lib.rs): who starts initialisation and *)
(* who waits for it; the hash of the executable, its configuration, the    *)
(* resolver and the imports, in modules of their own; the four verified    *)
(* hooks on the game's code (src/src/game_hdr.rs, windows.rs); and the     *)
(* switches that turn behaviour on once every prerequisite is in place.    *)
(*                                                                         *)
(* A loader that uses the explicit initializer does not start the game     *)
(* before it returns; one that only loads the DLL does not wait, so game   *)
(* threads may call a hooked function at any step of its installation.     *)
(***************************************************************************)
EXTENDS FileHash, ConfigFile, GameTargets, ImportTable

CONSTANTS
    Loaders,        \* threads that run DllMain or the initializer
    Games,          \* threads of the game
    WriteFailures,  \* ways write_memory fails: Early, Late, both or none
    Patched,        \* hooks whose code other modules may patch too
    PatchWhileResolving     \* whether they do so while resolve runs

Threads == Loaders \cup Games

\* Early: the page could not be made writable. Late: the patch is in place but
\* the instruction cache or the page protection could not be restored.
Early == "early"
Late == "late"

ASSUME FailureAssumption ==
    /\ WriteFailures \subseteq {Early, Late}
    /\ Patched \subseteq Hooks /\ PatchWhileResolving \in BOOLEAN

EmulateModes == {"emulate_hdr_fullscreen_state", "emulate_hdr_and_set_pq", "windowed_hdr"}
SyncModes == {"emulate_hdr_and_set_pq", "windowed_hdr"}
UnlockModes == {"unlock_hdr_menu", "emulate_hdr_fullscreen_state", "emulate_hdr_and_set_pq"}

VARIABLES
    initState,      \* INIT_STATE: 0 not started, 1 running, 2 succeeded, 3 failed
    step,           \* where the initialization thread is
    hook,           \* index in Order of the hook it is installing
    mode,           \* the configured mode
    resolved,       \* whether game_compat::resolve found its targets
    imports,        \* factory imports hooked
    saved,          \* the *_ORIGINAL pointer of each hook
    status,         \* what initialize knows of each hook
    unlock,         \* HDR_MENU_GATE_UNLOCK
    override,       \* HDR_WINDOWED_AVAILABILITY_ENABLED
    sync,           \* HDR_BACKEND_COLOR_SPACE_SYNC_ENABLED
    experiment,     \* HDR_BACKEND_EXPERIMENT_ENABLED
    pc,             \* where each loader and game thread is
    local           \* what it carries

vars == <<initState, step, hook, mode, resolved, imports, site, saved, status,
          unlock, override, sync, experiment, pc, local, hashVars,
          configFileVars, targetVars, importVars>>

\* The locals of the functions that initialize calls before it hooks the game.
callees == <<hashVars, configFileVars, targetVars, importVars>>

switches == <<unlock, override, sync, experiment>>
hookVars == <<site, saved, status>>
configVars == <<mode, resolved, imports, callees>>
threadVars == <<pc, local>>

Idle == [hook |-> None, original |-> None, overridden |-> FALSE,
         synchronised |-> FALSE, result |-> FALSE]

Init ==
    /\ initState = 0
    /\ step = "none"
    /\ hook = 1
    /\ mode = None
    /\ resolved = FALSE
    /\ imports = 0
    /\ InitHash /\ InitConfig /\ InitTargets /\ InitImports
    /\ site \in [Hooks -> {"native", "other"}]
    /\ \A h \in Hooks \ Patched : site[h] = "native"
    /\ saved = [h \in Hooks |-> None]
    /\ status = [h \in Hooks |-> "absent"]
    /\ unlock = FALSE /\ override = FALSE /\ sync = FALSE /\ experiment = FALSE
    /\ pc = [t \in Threads |-> "idle"]
    /\ local = [t \in Threads |-> Idle]

Goto(t, from, to) == pc[t] = from /\ pc' = [pc EXCEPT ![t] = to]
Advance(from, to) == step = from /\ step' = to

-----------------------------------------------------------------------------
(* start_initialization and wait_for_initialization.                         *)

\* Mutant: initialisation is started without looking whether it was.
StartAgain(l) ==
    /\ Goto(l, "idle", "spawn")
    /\ initState' = 1
    /\ UNCHANGED <<step, hook, configVars, hookVars, switches, local>>

Start(l) ==
    /\ Goto(l, "idle", IF initState = 0 THEN "spawn" ELSE "wait")
    /\ initState' = IF initState = 0 THEN 1 ELSE initState
    /\ UNCHANGED <<step, hook, configVars, hookVars, switches, local>>

Spawn(l) ==
    /\ Goto(l, "spawn", "wait")
    /\ step' = "begin"
    /\ UNCHANGED <<initState, hook, configVars, hookVars, switches, local>>

\* Mutant: the failure to create the thread is not recorded.
SpawnFailsSilently(l) ==
    /\ Goto(l, "spawn", "wait")
    /\ UNCHANGED <<initState, step, hook, configVars, hookVars, switches, local>>

SpawnFails(l) ==
    /\ Goto(l, "spawn", "wait")
    /\ initState' = 3
    /\ UNCHANGED <<step, hook, configVars, hookVars, switches, local>>

\* The result, or false after INITIALIZER_WAIT_TIMEOUT_MS.
WaitEnds(l) ==
    /\ Goto(l, "wait", "returned")
    /\ local' = [local EXCEPT ![l].result = initState = 2]
    /\ UNCHANGED <<initState, step, hook, configVars, hookVars, switches>>

-----------------------------------------------------------------------------
(* initialize, in the order of its statements.                               *)

Fail(from) == Advance(from, "end") /\ initState' = 3

\* What stays as it is while one of the callees runs, or returns.
beyondSites == <<hook, saved, status, switches, threadVars>>
untouched == <<site, beyondSites>>

\* The module's path, its log and the name of the executable are in order.
Begin ==
    /\ Advance("begin", "hash")
    /\ OpenExecutable
    /\ UNCHANGED <<initState, mode, resolved, imports, configFileVars, targetVars,
                   importVars, untouched>>

BeginFails ==
    /\ Fail("begin")
    /\ UNCHANGED <<configVars, untouched>>

\* sha256::file_hex
HashFile ==
    /\ step = "hash"
    /\ (\E n \in 1..ReadSize : Read(n)) \/ EndOfFile
    /\ UNCHANGED <<initState, step, mode, resolved, imports, configFileVars,
                   targetVars, importVars, untouched>>

Hashed ==
    /\ digested
    /\ Advance("hash", "config")
    /\ CloseExecutable /\ OpenConfig
    /\ UNCHANGED <<initState, mode, resolved, imports, targetVars, importVars, untouched>>

HashFails ==
    /\ ~digested
    /\ Fail("hash")
    /\ CloseExecutable
    /\ UNCHANGED <<mode, resolved, imports, configFileVars, targetVars, importVars, untouched>>

\* Config::load_or_create
ParseConfig ==
    /\ step = "config"
    /\ ParseLine
    /\ UNCHANGED <<initState, step, mode, resolved, imports, hashVars, targetVars,
                   importVars, untouched>>

Configured ==
    /\ Parsed
    /\ Advance("config", "resolve")
    /\ mode' = config.mode
    /\ CloseConfig /\ MapImage
    /\ UNCHANGED <<initState, resolved, imports, hashVars, importVars, untouched>>

ConfigFails ==
    /\ ParseFails
    /\ Fail("config")
    /\ CloseConfig
    /\ UNCHANGED <<mode, resolved, imports, hashVars, targetVars, importVars, untouched>>

\* game_compat::resolve
ScanImage ==
    /\ step = "resolve"
    /\ Scan \/ (Scanned /\ captured = NotCaptured /\ Capture)
    /\ UNCHANGED <<initState, step, mode, resolved, imports, hashVars,
                   configFileVars, importVars, untouched>>

\* The bundle is complete, and from now on a site is the one that was found; or
\* initialize goes on without a bundle.
Resolved(complete) ==
    /\ complete => captured # NotCaptured
    /\ Advance("resolve", "imports")
    /\ resolved' = complete
    /\ UnmapImage(IF complete THEN captured ELSE NotCaptured)
    /\ site' = IF complete THEN FoundSites ELSE site
    /\ OpenImports
    /\ UNCHANGED <<initState, mode, imports, hashVars, configFileVars, beyondSites>>

\* dxgi::install
HookImports ==
    /\ step = "imports"
    /\ WalkDescriptor \/ HookImport \/ NextLibrary
    /\ UNCHANGED <<initState, step, mode, resolved, imports, hashVars,
                   configFileVars, targetVars, untouched>>

ImportsHooked ==
    /\ ImportsDone
    /\ Advance("imports", "verify")
    /\ imports' = Count("dxgi")
    /\ CloseImports
    /\ UNCHANGED <<initState, mode, resolved, hashVars, configFileVars, targetVars, untouched>>

\* A descriptor cannot be read or a slot not be written: initialize fails, and
\* what is hooked stays hooked.
HookImportsFails ==
    /\ \/ WalkFails /\ UNCHANGED importVars
       \/ \E failure \in WriteFailures : HookImportFails(failure = Late)
    /\ Fail("imports")
    /\ UNCHANGED <<mode, resolved, imports, hashVars, configFileVars, targetVars, untouched>>

Current == Order[hook]

Wanted(h) == resolved /\ (h = "availability" => mode = "windowed_hdr")

\* Mutant: the menu gate is chained in front of another module's patch in any
\* mode.
MayChainAlways(h) == h = "gate" \/ site[h] = captured[h]

\* A verified hook replaces the bytes that resolve has captured. Only the menu
\* gate, and only while observing, is chained in front of another module's patch.
MayChain(h) == site[h] = captured[h] \/ (h = "gate" /\ mode = "observe")

NextHook(from) ==
    /\ step = from
    /\ IF hook = Len(Order) THEN step' = "enable" /\ UNCHANGED hook
                            ELSE step' = "verify" /\ hook' = hook + 1

SkipHook ==
    /\ ~Wanted(Current)
    /\ NextHook("verify")
    /\ UNCHANGED <<initState, configVars, hookVars, switches, threadVars>>

\* install_menu_gate stores its switch before it checks anything.
SetUnlock ==
    /\ unlock' = IF Current = "gate" THEN mode \in UnlockModes ELSE unlock
    /\ UNCHANGED <<override, sync, experiment>>

\* The bytes or the neighbourhood are not the expected ones, or no memory.
RefuseHook ==
    /\ Wanted(Current)
    /\ NextHook("verify")
    /\ SetUnlock
    /\ status' = [status EXCEPT ![Current] = "failed"]
    /\ UNCHANGED <<initState, configVars, site, saved, threadVars>>

\* Mutant: the original is not published before the code is patched.
PublishNothing ==
    /\ Wanted(Current) /\ MayChain(Current)
    /\ Advance("verify", "write")
    /\ SetUnlock
    /\ UNCHANGED <<initState, hook, configVars, hookVars, threadVars>>

\* Verified: the trampoline (the menu gate's entry) is published first.
PublishOriginal ==
    /\ Wanted(Current) /\ MayChain(Current)
    /\ Advance("verify", "write")
    /\ SetUnlock
    /\ saved' = [saved EXCEPT ![Current] = site[Current]]
    /\ UNCHANGED <<initState, hook, configVars, site, status, threadVars>>

WritePatch ==
    /\ Advance("write", "check")
    /\ site' = [site EXCEPT ![Current] = "ours"]
    /\ UNCHANGED <<initState, hook, configVars, saved, status, switches, threadVars>>

\* write_memory returns Err: before it copied the patch, or after.
WritePatchFails(failure) ==
    /\ Advance("write", "undo")
    /\ site' = IF failure = Late THEN [site EXCEPT ![Current] = "ours"] ELSE site
    /\ UNCHANGED <<initState, hook, configVars, saved, status, switches, threadVars>>

CheckPatch ==
    /\ site[Current] = "ours"
    /\ NextHook("check")
    /\ status' = [status EXCEPT ![Current] = "installed"]
    /\ UNCHANGED <<initState, configVars, site, saved, switches, threadVars>>

\* Another module patched the same bytes meanwhile: put the original back.
CheckPatchFails ==
    /\ site[Current] # "ours"
    /\ Advance("check", "undo")
    /\ site' \in {site, [site EXCEPT ![Current] = saved[Current]]}
    /\ UNCHANGED <<initState, hook, configVars, saved, status, switches, threadVars>>

WithdrawOriginal ==
    /\ NextHook("undo")
    /\ saved' = [saved EXCEPT ![Current] = None]
    /\ status' = [status EXCEPT ![Current] = "failed"]
    /\ UNCHANGED <<initState, configVars, site, switches, threadVars>>

Installed(h) == status[h] = "installed"

\* Mutants: the experiment does not wait for the imports, or for the hooks.
ReadyWithoutImports == mode \in EmulateModes /\ \A h \in Hooks : Installed(h)
ReadyWithoutHooks == mode \in EmulateModes /\ Installed("backend") /\ imports # 0

\* hdr_backend_experiment_enabled.
Ready ==
    /\ mode \in EmulateModes
    /\ Installed("gate") /\ Installed("config") /\ Installed("backend")
    /\ mode = "windowed_hdr" => Installed("availability")
    /\ imports # 0

EnableOverride ==
    /\ Advance("enable", IF Ready THEN "sync" ELSE "finish")
    /\ override' = (Ready /\ mode = "windowed_hdr")
    /\ UNCHANGED <<initState, hook, configVars, hookVars, unlock, sync, experiment,
                   threadVars>>

\* Mutant: enable_backend_experiment stores the two switches in the other order.
EnableExperimentFirst ==
    /\ Advance("sync", "experiment")
    /\ experiment' = TRUE
    /\ UNCHANGED <<initState, hook, configVars, hookVars, unlock, override, sync,
                   threadVars>>

EnableSync ==
    /\ Advance("sync", "experiment")
    /\ sync' = (mode \in SyncModes)
    /\ UNCHANGED <<initState, hook, configVars, hookVars, unlock, override,
                   experiment, threadVars>>

EnableExperiment ==
    /\ Advance("experiment", "finish")
    /\ experiment' = TRUE
    /\ UNCHANGED <<initState, hook, configVars, hookVars, unlock, override, sync,
                   threadVars>>

\* Mutant: success is reported whatever imports were found.
FinishBlindly ==
    /\ Advance("finish", "end")
    /\ initState' = 2
    /\ UNCHANGED <<hook, configVars, hookVars, switches, threadVars>>

Finish ==
    /\ Advance("finish", "end")
    /\ initState' = IF imports = 0 THEN 3 ELSE 2
    /\ UNCHANGED <<hook, configVars, hookVars, switches, threadVars>>

-----------------------------------------------------------------------------
(* The game calls a hooked function. Every hook loads its original and calls  *)
(* it; then the menu gate and the availability query load the switch that     *)
(* lets them change its answer, and the backend query the two of its own.     *)

Call(g, h) ==
    /\ site[h] = "ours"
    /\ Goto(g, "idle", "load")
    /\ local' = [local EXCEPT ![g].hook = h]
    /\ UNCHANGED <<initState, step, hook, configVars, hookVars, switches>>

\* Where a hook goes on once it has called its original.
Continue == [gate |-> "switch", availability |-> "switch", config |-> "answered",
             backend |-> "switch"]

LoadOriginal(g) ==
    LET h == local[g].hook
    IN  /\ Goto(g, "load", IF saved[h] = None THEN "refused" ELSE Continue[h])
        /\ local' = [local EXCEPT ![g].original = saved[h]]
        /\ UNCHANGED <<initState, step, hook, configVars, hookVars, switches>>

LoadSwitch(g) ==
    LET switch == [gate |-> unlock, availability |-> override, backend |-> experiment]
        h == local[g].hook
    IN  /\ Goto(g, "switch", IF h = "backend" THEN "sync" ELSE "answered")
        /\ local' = [local EXCEPT ![g].overridden = switch[h]]
        /\ UNCHANGED <<initState, step, hook, configVars, hookVars, switches>>

LoadSync(g) ==
    /\ Goto(g, "sync", "answered")
    /\ local' = [local EXCEPT ![g].synchronised = sync]
    /\ UNCHANGED <<initState, step, hook, configVars, hookVars, switches>>

Return(g) ==
    /\ pc[g] \in {"answered", "refused"}
    /\ Goto(g, pc[g], "idle")
    /\ local' = [local EXCEPT ![g] = Idle]
    /\ UNCHANGED <<initState, step, hook, configVars, hookVars, switches>>

\* Another module patches the same code.
PatchElsewhere(h) ==
    /\ h \in Patched /\ site[h] # "other"
    /\ PatchWhileResolving \/ step # "resolve"
    /\ site' = [site EXCEPT ![h] = "other"]
    /\ UNCHANGED <<initState, step, hook, configVars, saved, status, switches,
                   threadVars>>

-----------------------------------------------------------------------------
\* Up to the imports, the hooks, the switches.
Prepare ==
    \/ Begin \/ BeginFails \/ HashFile \/ Hashed \/ HashFails
    \/ ParseConfig \/ Configured \/ ConfigFails
    \/ ScanImage \/ (\E complete \in BOOLEAN : Resolved(complete))
    \/ HookImports \/ ImportsHooked \/ HookImportsFails

InstallHooks ==
    \/ SkipHook \/ RefuseHook \/ PublishOriginal
    \/ WritePatch \/ (\E failure \in WriteFailures : WritePatchFails(failure))
    \/ CheckPatch \/ CheckPatchFails \/ WithdrawOriginal

Conclude == EnableOverride \/ EnableSync \/ EnableExperiment \/ Finish

Initialize == Prepare \/ InstallHooks \/ Conclude

Loader(l) == Start(l) \/ Spawn(l) \/ SpawnFails(l) \/ WaitEnds(l)

Game(g) == LoadOriginal(g) \/ LoadSwitch(g) \/ LoadSync(g) \/ Return(g)

Next ==
    \/ Initialize
    \/ \E l \in Loaders : Loader(l)
    \/ \E g \in Games : Game(g) \/ \E h \in Hooks : Call(g, h)
    \/ \E h \in Hooks : PatchElsewhere(h)

Spec == Init /\ [][Next]_vars

\* The thread that won the start goes on to spawn, and the thread it spawned
\* runs: nothing in initialize waits for another thread.
Fairness ==
    /\ WF_vars(Initialize)
    /\ \A l \in Loaders : WF_vars(Spawn(l) \/ SpawnFails(l))

FairSpec == Spec /\ Fairness

-----------------------------------------------------------------------------
Steps == {"none", "begin", "hash", "config", "resolve", "imports", "verify", "write",
          "check", "undo", "enable", "sync", "experiment", "finish", "end"}

Locations == {"idle", "spawn", "wait", "returned", "load", "refused",
              "switch", "sync", "answered"}

\* Types, and how INIT_STATE follows the thread: it is 0 or 3 without one, 1
\* while it runs and 2 or 3 once it ended.
TypeOK ==
    /\ mode \in AllModes \cup {None} /\ resolved \in BOOLEAN /\ imports \in Nat
    /\ hook \in DOMAIN Order
    /\ site \in [Hooks -> {"native", "ours", "other"}]
    /\ captured \in [Hooks -> {"native", "other", None}]
    /\ saved \in [Hooks -> {"native", "other", None}]
    /\ status \in [Hooks -> {"absent", "failed", "installed"}]
    /\ unlock \in BOOLEAN /\ override \in BOOLEAN /\ sync \in BOOLEAN /\ experiment \in BOOLEAN
    /\ pc \in [Threads -> Locations]
    /\ local \in [Threads -> [hook : Hooks \cup {None}, original : {"native", "other", None},
                              overridden : BOOLEAN, synchronised : BOOLEAN,
                              result : BOOLEAN]]
    /\ step \in Steps
    /\ step = "none" => initState \in {0, 1, 3}
    /\ step = "end" => initState \in {2, 3}
    /\ step \notin {"none", "end"} => initState = 1

\* Once initialisation has succeeded or failed, no later DllMain, initializer
\* call or step of the thread changes what callers are told.
ResultIsFinal == [][(initState \in {2, 3}) => initState' = initState]_vars

\* An initializer that returned true has the factory imports hooked, so the
\* game's swap chain cannot be created past the module.
TrueMeansHooked ==
    \A l \in Loaders : pc[l] = "returned" /\ local[l].result => imports # 0

\* An initialisation that failed has switched on no HDR emulation.
FailureIsInert == initState = 3 => ~override /\ ~experiment

\* The experiment runs only over hooks that are installed and whose originals
\* are published, whatever failed or was patched by others on the way.
ExperimentNeedsHooks ==
    experiment =>
        \A h \in Hooks : Wanted(h) => Installed(h) /\ saved[h] # None

\* A backend query that reports emulated HDR in a mode that submits PQ has seen
\* the submission switched on: the game never renders HDR into an SDR chain
\* because it caught enable_backend_experiment between its two stores.
OverrideIsSynchronised ==
    \A g \in Games :
        pc[g] = "answered" /\ local[g].hook = "backend" /\ local[g].overridden
            => (local[g].synchronised <=> mode \in SyncModes)

\* "refusing to place a behavior-changing HDR mode on top of an unknown hook":
\* a hook that may change an answer has asked the game's own code for it.
OverridesAreVerified ==
    \A g \in Games :
        pc[g] = "answered" /\ local[g].overridden => local[g].original = "native"

\* A call of a patched function finds the original to forward to, unless
\* initialize withdrew it and reported the hook as failed.
CallsReachOriginal ==
    \A g \in Games : pc[g] = "refused" => status[local[g].hook] = "failed"

\* "HDR menu-gate hook was not installed; no menu override is active": a hook
\* that initialize reports as failed is not in the way of the game.
FailedHookIsAbsent == \A h \in Hooks : status[h] = "failed" => site[h] # "ours"

\* Initialisation ends, also when its thread could not be created, so that
\* waiting for it is not what the time limit is for.
InitializationEnds == (initState = 1) ~> (initState \in {2, 3})

=============================================================================
