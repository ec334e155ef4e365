------------------------- MODULE InitializationProofs -------------------------
(***************************************************************************)
(* Proofs about Initialization, for every number of threads, every         *)
(* executable and every behaviour of the modules that patch the same code. *)
(***************************************************************************)
EXTENDS Initialization, FileHashProofs, FiniteSetTheorems, TLAPS

Preparing == {"begin", "hash", "config", "resolve", "imports"}
Switching == {"enable", "sync", "experiment", "finish", "end"}

-----------------------------------------------------------------------------
(* The inductive invariant.                                                  *)

\* The locals of the callees that TypeOK does not speak of.
CalleeTypes ==
    /\ config.mode \in AllModes
    /\ IsFiniteSet(patched)

\* One loader at most spawns, while there is no thread yet.
OneStart ==
    \A l \in Loaders : pc[l] = "spawn" =>
        /\ initState = 1 /\ step = "none"
        /\ \A k \in Loaders : pc[k] = "spawn" => k = l

\* Success is told after the imports were counted.
Success ==
    /\ initState = 2 => step = "end" /\ imports # 0
    /\ \A l \in Loaders : pc[l] = "returned" /\ local[l].result => initState = 2

\* Hooks are installed in order: those to come are untouched by the module.
HookOrder ==
    /\ step \in Preparing \cup {"none"} => hook = 1
    /\ \A k \in DOMAIN Order :
        /\ k > hook \/ (k = hook /\ step \notin Switching) => status[Order[k]] = "absent"
        /\ k > hook \/ (k = hook /\ step \in Preparing \cup {"none", "verify", "write"})
                => site[Order[k]] # "ours"

\* An original is published before the patch and withdrawn with the status.
Originals ==
    /\ step \in {"write", "check", "undo"} => saved[Current] # None
    /\ \A h \in Hooks : Installed(h) => saved[h] # None
    /\ \A h \in Hooks : site[h] = "ours" => saved[h] # None \/ status[h] = "failed"

\* So a game thread in a hook finds it, or the hook is reported as failed.
InHook ==
    \A g \in Games :
        /\ pc[g] \in {"load", "switch", "sync", "answered", "refused"}
                => local[g].hook \in Hooks
        /\ pc[g] = "switch" => local[g].hook # "config"
        /\ pc[g] = "load" => saved[local[g].hook] # None \/ status[local[g].hook] = "failed"
        /\ pc[g] = "refused" => status[local[g].hook] = "failed"

\* The switches are turned on when everything is ready and not before.
Switches ==
    /\ override \/ sync \/ experiment => step \in Switching \ {"enable"} /\ Ready
    /\ (override \/ experiment) /\ step = "end" => initState = 2
    /\ step \in {"sync", "experiment"} => Ready
    /\ step = "sync" => ~sync
    /\ experiment => step \in {"finish", "end"}
    /\ step = "experiment" \/ experiment => (sync <=> mode \in SyncModes)

\* A backend query that is going to load the second switch has seen the first.
SeenInOrder ==
    \A g \in Games :
        /\ local[g].hook = "backend" /\ local[g].overridden
        /\ pc[g] \in {"sync", "answered"}
        =>  /\ experiment
            /\ pc[g] = "answered" => (local[g].synchronised <=> mode \in SyncModes)

InitInv ==
    /\ TypeOK /\ CalleeTypes
    /\ OneStart /\ Success
    /\ HookOrder /\ Originals /\ InHook
    /\ Switches /\ SeenInOrder

-----------------------------------------------------------------------------
LEMMA OrderFacts ==
    /\ DOMAIN Order = 1..4 /\ Len(Order) = 4
    /\ Hooks = {"gate", "availability", "config", "backend"}
    /\ \A k \in 1..4 : Order[k] \in Hooks
    /\ \A j, k \in 1..4 : Order[j] = Order[k] => j = k
    /\ None \notin {"native", "other", "ours"} /\ None \notin Hooks
<1>1. DOMAIN Order = 1..4 /\ Len(Order) = 4
    BY DEF Order
<1>2. /\ Order[1] = "gate" /\ Order[2] = "availability"
      /\ Order[3] = "config" /\ Order[4] = "backend"
    BY DEF Order
<1>3. \A k \in 1..4 : k = 1 \/ k = 2 \/ k = 3 \/ k = 4
    OBVIOUS
<1>4. Hooks = {"gate", "availability", "config", "backend"}
    BY <1>1, <1>2, <1>3 DEF Hooks
<1> QED BY <1>1, <1>2, <1>3, <1>4 DEF None

-----------------------------------------------------------------------------
(* What the callees of initialize leave alone.                               *)

LEMMA PrepareFrame ==
    ASSUME Prepare
    PROVE  /\ step \in Preparing
           /\ UNCHANGED <<hook, saved, status, unlock, override, sync, experiment>>
           /\ UNCHANGED <<pc, local>>
           /\ \/ step' \in Preparing \cup {"verify"} /\ initState' = initState
              \/ step' = "end" /\ initState' = 3
           /\ site' = site \/ site' = FoundSites
<1> USE DEF Advance, Fail, untouched, beyondSites, switches, threadVars, Preparing
<1>1. CASE Begin
    BY <1>1 DEF Begin
<1>2. CASE BeginFails
    BY <1>2 DEF BeginFails
<1>3. CASE HashFile
    BY <1>3 DEF HashFile
<1>4. CASE Hashed
    BY <1>4 DEF Hashed
<1>5. CASE HashFails
    BY <1>5 DEF HashFails
<1>6. CASE ParseConfig
    BY <1>6 DEF ParseConfig
<1>7. CASE Configured
    BY <1>7 DEF Configured
<1>8. CASE ConfigFails
    BY <1>8 DEF ConfigFails
<1>9. CASE ScanImage
    BY <1>9 DEF ScanImage
<1>10. CASE \E complete \in BOOLEAN : Resolved(complete)
    BY <1>10 DEF Resolved
<1>11. CASE HookImports
    BY <1>11 DEF HookImports
<1>12. CASE ImportsHooked
    BY <1>12 DEF ImportsHooked
<1>13. CASE HookImportsFails
    BY <1>13 DEF HookImportsFails
<1> QED
    BY <1>1, <1>2, <1>3, <1>4, <1>5, <1>6, <1>7, <1>8, <1>9, <1>10, <1>11, <1>12, <1>13
    DEF Prepare

-----------------------------------------------------------------------------
(* The hooks, the switches, the loaders and the game, action by action.      *)

LEMMA UnlockIsBoolean ==
    ASSUME unlock \in BOOLEAN, SetUnlock
    PROVE  unlock' \in BOOLEAN
<1> DEFINE wanted == mode \in UnlockModes
<1>1. wanted \in BOOLEAN
    OBVIOUS
<1>2. unlock' = IF Current = "gate" THEN wanted ELSE unlock
    BY DEF SetUnlock
<1> HIDE DEF wanted
<1> QED BY <1>1, <1>2

USE DEF configVars, callees, hookVars, switches, threadVars, configFileVars,
        targetVars, importVars, hashVars, Threads

LEMMA StartStep ==
    ASSUME InitInv, NEW l \in Loaders, Start(l)
    PROVE  InitInv'
<1> USE DEF InitInv, Start, Goto
<1>1. CalleeTypes' /\ HookOrder' /\ Originals' /\ Switches'
    BY DEF CalleeTypes, HookOrder, Originals, Installed, Current, Switches, Ready
<1>2. TypeOK'
    BY DEF TypeOK, Steps, Locations
<1>3. OneStart'
    BY DEF OneStart, TypeOK
<1>4. Success'
    BY DEF Success
<1>5. InHook'
    BY DEF InHook
<1>6. SeenInOrder'
    BY DEF SeenInOrder
<1> QED BY <1>1, <1>2, <1>3, <1>4, <1>5, <1>6

LEMMA SpawnStep ==
    ASSUME InitInv, NEW l \in Loaders, Spawn(l)
    PROVE  InitInv'
<1> USE DEF InitInv, Spawn, Goto
<1>1. CalleeTypes'
    BY DEF CalleeTypes
<1>2. TypeOK'
    BY DEF TypeOK, Steps, Locations, OneStart
<1>3. OneStart'
    BY DEF OneStart, TypeOK
<1>4. Success'
    BY DEF Success, TypeOK, OneStart
<1>5. HookOrder'
    BY DEF HookOrder, Preparing, Switching, OneStart
<1>6. Originals'
    BY DEF Originals, Installed, Current
<1>7. InHook'
    BY DEF InHook
<1>8. Switches'
    BY DEF Switches, Switching, Ready, Installed, TypeOK, OneStart
<1>9. SeenInOrder'
    BY DEF SeenInOrder
<1> QED BY <1>1, <1>2, <1>3, <1>4, <1>5, <1>6, <1>7, <1>8, <1>9

LEMMA SpawnFailsStep ==
    ASSUME InitInv, NEW l \in Loaders, SpawnFails(l)
    PROVE  InitInv'
<1> USE DEF InitInv, SpawnFails, Goto
<1>1. CalleeTypes' /\ HookOrder' /\ Originals' /\ Switches'
    BY DEF CalleeTypes, HookOrder, Originals, Installed, Current, Switches, Ready,
       OneStart, Switching
<1>2. TypeOK'
    BY DEF TypeOK, Steps, Locations, OneStart
<1>3. OneStart'
    BY DEF OneStart, TypeOK
<1>4. Success'
    BY DEF Success, TypeOK, OneStart
<1>5. InHook'
    BY DEF InHook
<1>6. SeenInOrder'
    BY DEF SeenInOrder
<1> QED BY <1>1, <1>2, <1>3, <1>4, <1>5, <1>6

LEMMA WaitEndsStep ==
    ASSUME InitInv, NEW l \in Loaders, WaitEnds(l)
    PROVE  InitInv'
<1> USE DEF InitInv, WaitEnds, Goto
<1>1. CalleeTypes' /\ HookOrder' /\ Originals' /\ Switches'
    BY DEF CalleeTypes, HookOrder, Originals, Installed, Current, Switches, Ready
<1>2. TypeOK'
    <2>1. local' \in [Threads -> [hook : Hooks \cup {None},
                                  original : {"native", "other", None},
                                  overridden : BOOLEAN, synchronised : BOOLEAN,
                                  result : BOOLEAN]]
        <3> DEFINE told == initState = 2
        <3>1. told \in BOOLEAN
            OBVIOUS
        <3>2. local' = [local EXCEPT ![l].result = told]
            OBVIOUS
        <3> HIDE DEF told
        <3> QED BY <3>1, <3>2 DEF TypeOK
    <2>2. pc' \in [Threads -> Locations]
        BY DEF TypeOK, Locations
    <2> QED BY <2>1, <2>2 DEF TypeOK
<1>3. OneStart'
    BY DEF OneStart
<1>4. Success'
    <2>1. \A k \in Loaders \ {l} : pc'[k] = pc[k] /\ local'[k] = local[k]
        BY DEF TypeOK
    <2>2. local'[l].result => initState = 2
        BY DEF TypeOK
    <2> QED BY <2>1, <2>2 DEF Success
<1>5. InHook'
    BY DEF InHook
<1>6. SeenInOrder'
    BY DEF SeenInOrder
<1> QED BY <1>1, <1>2, <1>3, <1>4, <1>5, <1>6

LEMMA CallStep ==
    ASSUME InitInv, NEW g \in Games, NEW h \in Hooks, Call(g, h)
    PROVE  InitInv'
<1> USE DEF InitInv, Call, Goto
<1>1. CalleeTypes' /\ HookOrder' /\ Originals' /\ Switches'
    BY DEF CalleeTypes, HookOrder, Originals, Installed, Current, Switches, Ready
<1>2. TypeOK'
    BY DEF TypeOK, Steps, Locations
<1>3. OneStart'
    BY DEF OneStart
<1>4. Success'
    BY DEF Success
<1>5. InHook'
    BY DEF InHook, TypeOK, Originals
<1>6. SeenInOrder'
    BY DEF SeenInOrder
<1> QED BY <1>1, <1>2, <1>3, <1>4, <1>5, <1>6

LEMMA LoadOriginalStep ==
    ASSUME InitInv, NEW g \in Games, LoadOriginal(g)
    PROVE  InitInv'
<1> USE DEF InitInv, LoadOriginal, Goto
<1>1. CalleeTypes' /\ HookOrder' /\ Originals' /\ Switches'
    BY DEF CalleeTypes, HookOrder, Originals, Installed, Current, Switches, Ready
<1>2. TypeOK'
    BY OrderFacts DEF TypeOK, Steps, Locations, Continue, InHook
<1>3. OneStart'
    BY OrderFacts DEF OneStart, Continue, TypeOK, InHook
<1>4. Success'
    BY OrderFacts DEF Success, Continue, TypeOK, InHook
<1>5. InHook'
    BY OrderFacts DEF InHook, Continue, TypeOK
<1>6. SeenInOrder'
    BY DEF SeenInOrder, Continue, TypeOK
<1> QED BY <1>1, <1>2, <1>3, <1>4, <1>5, <1>6

LEMMA LoadSwitchStep ==
    ASSUME InitInv, NEW g \in Games, LoadSwitch(g)
    PROVE  InitInv'
<1> USE DEF InitInv, LoadSwitch, Goto
<1>1. CalleeTypes' /\ HookOrder' /\ Originals' /\ Switches'
    BY DEF CalleeTypes, HookOrder, Originals, Installed, Current, Switches, Ready
<1>2. TypeOK'
    BY OrderFacts DEF TypeOK, Steps, Locations, InHook
<1>3. OneStart'
    BY DEF OneStart
<1>4. Success'
    BY DEF Success
<1>5. InHook'
    BY DEF InHook
<1>6. SeenInOrder'
    BY DEF SeenInOrder, TypeOK
<1> QED BY <1>1, <1>2, <1>3, <1>4, <1>5, <1>6

LEMMA LoadSyncStep ==
    ASSUME InitInv, NEW g \in Games, LoadSync(g)
    PROVE  InitInv'
<1> USE DEF InitInv, LoadSync, Goto
<1>1. CalleeTypes' /\ HookOrder' /\ Originals' /\ Switches'
    BY DEF CalleeTypes, HookOrder, Originals, Installed, Current, Switches, Ready
<1>2. TypeOK'
    BY DEF TypeOK, Steps, Locations
<1>3. OneStart'
    BY DEF OneStart
<1>4. Success'
    BY DEF Success
<1>5. InHook'
    BY DEF InHook
<1>6. SeenInOrder'
    BY DEF SeenInOrder, TypeOK, Switches
<1> QED BY <1>1, <1>2, <1>3, <1>4, <1>5, <1>6

LEMMA ReturnStep ==
    ASSUME InitInv, NEW g \in Games, Return(g)
    PROVE  InitInv'
<1> USE DEF InitInv, Return, Goto
<1>1. CalleeTypes' /\ HookOrder' /\ Originals' /\ Switches'
    BY DEF CalleeTypes, HookOrder, Originals, Installed, Current, Switches, Ready
<1>2. TypeOK'
    BY DEF TypeOK, Steps, Locations, Idle
<1>3. OneStart'
    BY DEF OneStart
<1>4. Success'
    BY DEF Success
<1>5. InHook'
    BY DEF InHook, Idle, TypeOK
<1>6. SeenInOrder'
    BY DEF SeenInOrder, Idle, TypeOK
<1> QED BY <1>1, <1>2, <1>3, <1>4, <1>5, <1>6

LEMMA PatchElsewhereStep ==
    ASSUME InitInv, NEW h \in Hooks, PatchElsewhere(h)
    PROVE  InitInv'
<1> USE DEF InitInv, PatchElsewhere
<1>1. CalleeTypes' /\ OneStart' /\ Success' /\ InHook' /\ Switches' /\ SeenInOrder'
    BY DEF CalleeTypes, OneStart, Success, InHook, Switches, Ready, Installed, SeenInOrder
<1>2. TypeOK'
    BY DEF TypeOK, Steps, Locations
<1>3. HookOrder'
    BY DEF HookOrder, Preparing, Switching
<1>4. Originals'
    BY DEF Originals, Installed, Current
<1> QED BY <1>1, <1>2, <1>3, <1>4

LEMMA SkipHookStep ==
    ASSUME InitInv, SkipHook
    PROVE  InitInv'
<1> USE DEF InitInv, SkipHook, NextHook
<1>1. CalleeTypes' /\ InHook' /\ SeenInOrder'
    BY DEF CalleeTypes, InHook, SeenInOrder
<1>2. TypeOK'
    BY OrderFacts DEF TypeOK, Steps, Locations
<1>3. OneStart'
    BY DEF OneStart
<1>4. Success'
    BY DEF Success
<1>5. HookOrder'
    BY OrderFacts DEF HookOrder, TypeOK, Current, Preparing, Switching
<1>6. Originals'
    BY DEF Originals, Installed, Current
<1>7. Switches'
    BY DEF Switches, Switching, Ready, Installed
<1> QED BY <1>1, <1>2, <1>3, <1>4, <1>5, <1>6, <1>7

LEMMA RefuseHookStep ==
    ASSUME InitInv, RefuseHook
    PROVE  InitInv'
<1> USE DEF InitInv, RefuseHook, NextHook, SetUnlock
<1>1. CalleeTypes' /\ SeenInOrder'
    BY DEF CalleeTypes, SeenInOrder
<1>2. TypeOK'
    <2>1. unlock' \in BOOLEAN
        BY UnlockIsBoolean DEF TypeOK
    <2>2. status' \in [Hooks -> {"absent", "failed", "installed"}]
        BY DEF TypeOK
    <2>3. hook' \in DOMAIN Order /\ step' \in {"verify", "enable"}
        BY OrderFacts DEF TypeOK
    <2> QED BY <2>1, <2>2, <2>3 DEF TypeOK, Steps
<1>3. OneStart'
    BY DEF OneStart
<1>4. Success'
    BY DEF Success
<1>5. HookOrder'
    BY OrderFacts DEF HookOrder, TypeOK, Current, Preparing, Switching
<1>6. Originals'
    BY DEF Originals, Installed, Current
<1>7. InHook'
    BY DEF InHook
<1>8. Switches'
    BY DEF Switches, Switching, Ready, Installed
<1> QED BY <1>1, <1>2, <1>3, <1>4, <1>5, <1>6, <1>7, <1>8

LEMMA PublishOriginalStep ==
    ASSUME InitInv, PublishOriginal
    PROVE  InitInv'
<1> USE DEF InitInv, PublishOriginal, Advance, SetUnlock
<1>1. CalleeTypes' /\ SeenInOrder'
    BY DEF CalleeTypes, SeenInOrder
<1>2. TypeOK'
    <2>1. unlock' \in BOOLEAN
        BY UnlockIsBoolean DEF TypeOK
    <2>2. Current \in Hooks /\ site[Current] \in {"native", "other"}
        BY OrderFacts DEF TypeOK, HookOrder, Current
    <2>3. saved' \in [Hooks -> {"native", "other", None}]
        BY <2>2 DEF TypeOK
    <2> QED BY <2>1, <2>3 DEF TypeOK, Steps
<1>3. OneStart'
    BY DEF OneStart
<1>4. Success'
    BY DEF Success
<1>5. HookOrder'
    BY DEF HookOrder, Preparing, Switching
<1>6. Originals'
    BY OrderFacts DEF Originals, Installed, Current, TypeOK
<1>7. InHook'
    BY OrderFacts DEF InHook, TypeOK
<1>8. Switches'
    BY DEF Switches, Switching, Ready, Installed
<1> QED BY <1>1, <1>2, <1>3, <1>4, <1>5, <1>6, <1>7, <1>8

LEMMA WritePatchStep ==
    ASSUME InitInv, WritePatch
    PROVE  InitInv'
<1> USE DEF InitInv, WritePatch, Advance
<1>1. CalleeTypes' /\ InHook' /\ SeenInOrder'
    BY DEF CalleeTypes, InHook, SeenInOrder
<1>2. TypeOK'
    BY DEF TypeOK, Steps, Locations
<1>3. OneStart'
    BY DEF OneStart
<1>4. Success'
    BY DEF Success
<1>5. HookOrder'
    BY OrderFacts DEF HookOrder, TypeOK, Current, Preparing, Switching
<1>6. Originals'
    BY DEF Originals, Installed, Current
<1>7. Switches'
    BY DEF Switches, Switching, Ready, Installed
<1> QED BY <1>1, <1>2, <1>3, <1>4, <1>5, <1>6, <1>7

LEMMA WritePatchFailsStep ==
    ASSUME InitInv, NEW failure \in WriteFailures, WritePatchFails(failure)
    PROVE  InitInv'
<1> USE DEF InitInv, WritePatchFails, Advance
<1>1. CalleeTypes' /\ InHook' /\ SeenInOrder'
    BY DEF CalleeTypes, InHook, SeenInOrder
<1>2. TypeOK'
    BY DEF TypeOK, Steps, Locations
<1>3. OneStart'
    BY DEF OneStart
<1>4. Success'
    BY DEF Success
<1>5. HookOrder'
    BY OrderFacts DEF HookOrder, TypeOK, Current, Preparing, Switching
<1>6. Originals'
    BY DEF Originals, Installed, Current
<1>7. Switches'
    BY DEF Switches, Switching, Ready, Installed
<1> QED BY <1>1, <1>2, <1>3, <1>4, <1>5, <1>6, <1>7

LEMMA CheckPatchStep ==
    ASSUME InitInv, CheckPatch
    PROVE  InitInv'
<1> USE DEF InitInv, CheckPatch, NextHook
<1>1. CalleeTypes' /\ SeenInOrder'
    BY DEF CalleeTypes, SeenInOrder
<1>2. TypeOK'
    BY OrderFacts DEF TypeOK, Steps, Locations, Current
<1>3. OneStart'
    BY DEF OneStart
<1>4. Success'
    BY DEF Success
<1>5. HookOrder'
    BY OrderFacts DEF HookOrder, TypeOK, Current, Preparing, Switching
<1>6. Originals'
    BY DEF Originals, Installed, Current
<1>7. InHook'
    <2>1. Current \in Hooks /\ status[Current] = "absent" /\ saved[Current] # None
        BY OrderFacts DEF TypeOK, HookOrder, Current, Switching, Originals
    <2>2. \A h \in Hooks \ {Current} : status'[h] = status[h]
        BY DEF TypeOK
    <2> QED BY <2>1, <2>2 DEF InHook
<1>8. Switches'
    BY DEF Switches, Switching, Ready, Installed
<1> QED BY <1>1, <1>2, <1>3, <1>4, <1>5, <1>6, <1>7, <1>8

LEMMA CheckPatchFailsStep ==
    ASSUME InitInv, CheckPatchFails
    PROVE  InitInv'
<1> USE DEF InitInv, CheckPatchFails, Advance
<1>1. CalleeTypes' /\ InHook' /\ SeenInOrder'
    BY DEF CalleeTypes, InHook, SeenInOrder
<1>2. TypeOK'
    BY DEF TypeOK, Steps, Locations, Current, Originals
<1>3. OneStart'
    BY DEF OneStart
<1>4. Success'
    BY DEF Success
<1>5. HookOrder'
    BY OrderFacts DEF HookOrder, TypeOK, Current, Preparing, Switching
<1>6. Originals'
    BY DEF Originals, Installed, Current, TypeOK
<1>7. Switches'
    BY DEF Switches, Switching, Ready, Installed
<1> QED BY <1>1, <1>2, <1>3, <1>4, <1>5, <1>6, <1>7

LEMMA WithdrawOriginalStep ==
    ASSUME InitInv, WithdrawOriginal
    PROVE  InitInv'
<1> USE DEF InitInv, WithdrawOriginal, NextHook
<1>1. CalleeTypes' /\ SeenInOrder'
    BY DEF CalleeTypes, SeenInOrder
<1>2. TypeOK'
    BY OrderFacts DEF TypeOK, Steps, Locations, Current
<1>3. OneStart'
    BY DEF OneStart
<1>4. Success'
    BY DEF Success
<1>5. HookOrder'
    BY OrderFacts DEF HookOrder, TypeOK, Current, Preparing, Switching
<1>6. Originals'
    BY DEF Originals, Installed, Current, TypeOK
<1>7. InHook'
    BY DEF InHook, TypeOK
<1>8. Switches'
    BY DEF Switches, Switching, Ready, Installed
<1> QED BY <1>1, <1>2, <1>3, <1>4, <1>5, <1>6, <1>7, <1>8

LEMMA EnableOverrideStep ==
    ASSUME InitInv, EnableOverride
    PROVE  InitInv'
<1> USE DEF InitInv, EnableOverride, Advance
<1>1. CalleeTypes' /\ InHook' /\ SeenInOrder'
    BY DEF CalleeTypes, InHook, SeenInOrder
<1>2. TypeOK'
    BY DEF TypeOK, Steps, Locations
<1>3. OneStart'
    BY DEF OneStart
<1>4. Success'
    BY DEF Success
<1>5. HookOrder'
    BY DEF HookOrder, Preparing, Switching
<1>6. Originals'
    BY DEF Originals, Installed, Current
<1>7. Switches'
    BY DEF Switches, Switching, Ready, Installed
<1> QED BY <1>1, <1>2, <1>3, <1>4, <1>5, <1>6, <1>7

LEMMA EnableSyncStep ==
    ASSUME InitInv, EnableSync
    PROVE  InitInv'
<1> USE DEF InitInv, EnableSync, Advance
<1>1. CalleeTypes' /\ InHook' /\ SeenInOrder'
    BY DEF CalleeTypes, InHook, SeenInOrder
<1>2. TypeOK'
    BY DEF TypeOK, Steps, Locations
<1>3. OneStart'
    BY DEF OneStart
<1>4. Success'
    BY DEF Success
<1>5. HookOrder'
    BY DEF HookOrder, Preparing, Switching
<1>6. Originals'
    BY DEF Originals, Installed, Current
<1>7. Switches'
    BY DEF Switches, Switching, Ready, Installed
<1> QED BY <1>1, <1>2, <1>3, <1>4, <1>5, <1>6, <1>7

LEMMA EnableExperimentStep ==
    ASSUME InitInv, EnableExperiment
    PROVE  InitInv'
<1> USE DEF InitInv, EnableExperiment, Advance
<1>1. CalleeTypes' /\ InHook'
    BY DEF CalleeTypes, InHook
<1>2. TypeOK'
    BY DEF TypeOK, Steps, Locations
<1>3. OneStart'
    BY DEF OneStart
<1>4. Success'
    BY DEF Success
<1>5. HookOrder'
    BY DEF HookOrder, Preparing, Switching
<1>6. Originals'
    BY DEF Originals, Installed, Current
<1>7. Switches'
    BY DEF Switches, Switching, Ready, Installed
<1>8. SeenInOrder'
    BY DEF SeenInOrder
<1> QED BY <1>1, <1>2, <1>3, <1>4, <1>5, <1>6, <1>7, <1>8

LEMMA FinishStep ==
    ASSUME InitInv, Finish
    PROVE  InitInv'
<1> USE DEF InitInv, Finish, Advance
<1>1. CalleeTypes' /\ InHook' /\ SeenInOrder'
    BY DEF CalleeTypes, InHook, SeenInOrder
<1>2. TypeOK'
    BY DEF TypeOK, Steps, Locations
<1>3. OneStart'
    BY DEF OneStart
<1>4. Success'
    BY DEF Success
<1>5. HookOrder'
    BY DEF HookOrder, Preparing, Switching
<1>6. Originals'
    BY DEF Originals, Installed, Current
<1>7. Switches'
    BY DEF Switches, Switching, Ready, Installed
<1> QED BY <1>1, <1>2, <1>3, <1>4, <1>5, <1>6, <1>7

-----------------------------------------------------------------------------
(* The callees.                                                              *)

LEMMA FoundSitesType ==
    ASSUME TypeOK
    PROVE  /\ FoundSites \in [Hooks -> {"native", "ours", "other"}]
           /\ \A h \in Hooks : FoundSites[h] \in {site[h], "native"}
BY DEF TypeOK, FoundSites

\* What the callees return and what they keep is of its type.
LEMMA PrepareTypes ==
    ASSUME TypeOK, CalleeTypes, HookOrder, Prepare
    PROVE  /\ CalleeTypes'
           /\ mode' \in AllModes \cup {None} /\ resolved' \in BOOLEAN /\ imports' \in Nat
           /\ captured' \in [Hooks -> {"native", "other", None}]
<1> USE DEF Advance, Fail, untouched, beyondSites
<1>1. /\ DefaultMode \in AllModes /\ IsFiniteSet({})
      /\ NotCaptured \in [Hooks -> {"native", "other", None}]
    BY FS_EmptySet DEF DefaultMode, AllModes, NotCaptured
<1>2. CASE Begin \/ BeginFails \/ HashFile \/ HashFails
    BY <1>2 DEF Begin, BeginFails, HashFile, HashFails, TypeOK, CalleeTypes
<1>3. CASE Hashed
    BY <1>1, <1>3 DEF Hashed, OpenConfig, DefaultConfig, TypeOK, CalleeTypes
<1>4. CASE ParseConfig
    <2>1. config'.mode \in AllModes
        BY <1>4 DEF ParseConfig, ParseLine, Rejected, IsMode, CalleeTypes, AllModes
    <2> QED BY <1>4, <2>1 DEF ParseConfig, TypeOK, CalleeTypes
<1>5. CASE Configured
    BY <1>1, <1>5 DEF Configured, CloseConfig, DefaultConfig, MapImage, TypeOK, CalleeTypes
<1>6. CASE ConfigFails
    BY <1>1, <1>6 DEF ConfigFails, CloseConfig, DefaultConfig, TypeOK, CalleeTypes
<1>7. CASE ScanImage
    <2>1. \A h \in Hooks : site[h] \in {"native", "other"}
        <3>1. \A k \in 1..4 : site[Order[k]] # "ours"
            BY <1>7, OrderFacts DEF ScanImage, HookOrder, Preparing
        <3>2. \A h \in Hooks : \E k \in 1..4 : h = Order[k]
            BY OrderFacts DEF Hooks
        <3> QED BY <3>1, <3>2 DEF TypeOK
    <2>2. \A h \in Hooks : FoundSites[h] \in {"native", "other"}
        BY <2>1, FoundSitesType
    <2>3. captured' \in [Hooks -> {"native", "other", None}]
        <3>1. CASE Scan
            BY <3>1 DEF Scan, ResolveAvailability, ResolveGate, ResolveVtable, ResolveConfig,
                        ResolveBackend, ResolveCookie, Resolves, TypeOK
        <3>2. CASE Capture
            BY <3>2, <2>2 DEF Capture
        <3> QED BY <1>7, <3>1, <3>2 DEF ScanImage
    <2> QED BY <1>7, <2>3 DEF ScanImage, TypeOK, CalleeTypes
<1>8. CASE \E complete \in BOOLEAN : Resolved(complete)
    BY <1>1, <1>8 DEF Resolved, UnmapImage, OpenImports, TypeOK, CalleeTypes
<1>9. CASE HookImports
    <2>1. IsFiniteSet(patched')
        BY <1>9, FS_AddElement
        DEF HookImports, WalkDescriptor, HookImport, NextLibrary, CalleeTypes
    <2> QED BY <1>9, <2>1 DEF HookImports, TypeOK, CalleeTypes
<1>10. CASE ImportsHooked
    <2>1. Count("dxgi") \in Nat
        <3> DEFINE counted == {s \in patched : directory[s[1]].library = "dxgi"}
        <3>1. IsFiniteSet(counted)
            BY FS_Subset DEF CalleeTypes
        <3> QED BY <3>1, FS_CardinalityType DEF Count
    <2> QED BY <1>1, <1>10, <2>1 DEF ImportsHooked, CloseImports, TypeOK, CalleeTypes
<1>11. CASE HookImportsFails
    <2>1. IsFiniteSet(patched')
        BY <1>11, FS_AddElement DEF HookImportsFails, HookImportFails, CalleeTypes
    <2> QED BY <1>11, <2>1 DEF HookImportsFails, TypeOK, CalleeTypes
<1> QED
    BY <1>2, <1>3, <1>4, <1>5, <1>6, <1>7, <1>8, <1>9, <1>10, <1>11 DEF Prepare

LEMMA PrepareStep ==
    ASSUME InitInv, Prepare
    PROVE  InitInv'
<1>1. TypeOK' /\ CalleeTypes'
    BY PrepareFrame, PrepareTypes, FoundSitesType DEF InitInv, TypeOK, Steps, Preparing
<1>2. OneStart' /\ Success' /\ InHook'
    BY PrepareFrame DEF InitInv, OneStart, Success, InHook, TypeOK, Preparing
<1>3. HookOrder'
    BY PrepareFrame, FoundSitesType, OrderFacts
    DEF InitInv, HookOrder, TypeOK, Preparing, Switching
<1>4. Originals'
    BY PrepareFrame, FoundSitesType, OrderFacts
    DEF InitInv, Originals, Installed, Preparing
<1>5. Switches' /\ SeenInOrder'
    BY PrepareFrame DEF InitInv, Switches, SeenInOrder, Switching, Preparing
<1> QED BY <1>1, <1>2, <1>3, <1>4, <1>5 DEF InitInv

-----------------------------------------------------------------------------
LEMMA InvariantStarts == Init => InitInv
<1> SUFFICES ASSUME Init PROVE InitInv
    OBVIOUS
<1>1. TypeOK
    <2>1. captured \in [Hooks -> {"native", "other", None}]
        BY DEF Init, InitTargets, NotCaptured
    <2>2. site \in [Hooks -> {"native", "ours", "other"}]
        BY DEF Init
    <2>3. pc \in [Threads -> Locations]
        BY DEF Init, Locations
    <2>4. local \in [Threads -> [hook : Hooks \cup {None}, original : {"native", "other", None},
                                 overridden : BOOLEAN, synchronised : BOOLEAN,
                                 result : BOOLEAN]]
        BY DEF Init, Idle
    <2>5. saved \in [Hooks -> {"native", "other", None}]
        BY DEF Init
    <2>6. status \in [Hooks -> {"absent", "failed", "installed"}]
        BY DEF Init
    <2>7. /\ mode = None /\ resolved = FALSE /\ imports = 0 /\ hook = 1
          /\ unlock = FALSE /\ override = FALSE /\ sync = FALSE /\ experiment = FALSE
          /\ step = "none" /\ initState = 0
        BY DEF Init
    <2>8. hook \in DOMAIN Order
        BY OrderFacts, <2>7
    <2> QED BY <2>1, <2>2, <2>3, <2>4, <2>5, <2>6, <2>7, <2>8 DEF TypeOK, Steps
<1>2. CalleeTypes
    BY FS_EmptySet
    DEF Init, InitConfig, InitImports, DefaultConfig, DefaultMode, AllModes, CalleeTypes
<1>3. OneStart /\ Success /\ InHook /\ SeenInOrder
    BY DEF Init, OneStart, Success, InHook, SeenInOrder
<1>4. HookOrder /\ Originals /\ Switches
    BY OrderFacts DEF Init, HookOrder, Originals, Installed, Switches
<1> QED BY <1>1, <1>2, <1>3, <1>4 DEF InitInv

LEMMA InvariantStep ==
    ASSUME InitInv, [Next]_vars
    PROVE  InitInv'
<1>1. CASE Prepare
    BY <1>1, PrepareStep
<1>2. CASE InstallHooks
    BY <1>2, SkipHookStep, RefuseHookStep, PublishOriginalStep, WritePatchStep,
       WritePatchFailsStep, CheckPatchStep, CheckPatchFailsStep, WithdrawOriginalStep
    DEF InstallHooks
<1>3. CASE Conclude
    BY <1>3, EnableOverrideStep, EnableSyncStep, EnableExperimentStep, FinishStep DEF Conclude
<1>4. CASE \E l \in Loaders : Loader(l)
    BY <1>4, StartStep, SpawnStep, SpawnFailsStep, WaitEndsStep DEF Loader
<1>5. CASE \E g \in Games : Game(g) \/ \E h \in Hooks : Call(g, h)
    BY <1>5, LoadOriginalStep, LoadSwitchStep, LoadSyncStep, ReturnStep, CallStep DEF Game
<1>6. CASE \E h \in Hooks : PatchElsewhere(h)
    BY <1>6, PatchElsewhereStep
<1>7. CASE UNCHANGED vars
    BY <1>7 DEF vars, InitInv, TypeOK, CalleeTypes, OneStart, Success, HookOrder,
       Originals, InHook, Switches, SeenInOrder, Current, Installed, Ready
<1> QED
    BY <1>1, <1>2, <1>3, <1>4, <1>5, <1>6, <1>7 DEF Next, Initialize

\* Every reachable state satisfies the invariant.
THEOREM InitializationInvariant == Spec => []InitInv
<1> QED BY InvariantStarts, InvariantStep, PTL DEF Spec

-----------------------------------------------------------------------------
(* What follows from it.                                                     *)

\* Whatever the loaders, the game and other modules do meanwhile, INIT_STATE
\* follows the thread of initialize and every variable keeps its type.
THEOREM TypeCorrect == Spec => []TypeOK
<1>1. InitInv => TypeOK
    BY DEF InitInv
<1> QED BY <1>1, InitializationInvariant, PTL

\* start_initialization cannot begin a second time and no failure to create a
\* thread comes after a result: what callers were told stays true.
THEOREM ResultsAreFinal == Spec => ResultIsFinal
<1>1. ASSUME InitInv, [Next]_vars
      PROVE  initState \in {2, 3} => initState' = initState
    <2> SUFFICES ASSUME initState \in {2, 3} PROVE initState' = initState
        OBVIOUS
    <2>1. step \in {"none", "end"}
        BY <1>1 DEF InitInv, TypeOK
    <2>2. ~Initialize
        <3>1. ~Prepare
            BY <2>1, PrepareFrame DEF Preparing
        <3>2. ~InstallHooks
            BY <2>1 DEF InstallHooks, SkipHook, RefuseHook, PublishOriginal, WritePatch,
               WritePatchFails, CheckPatch, CheckPatchFails, WithdrawOriginal, NextHook,
               Advance
        <3>3. ~Conclude
            BY <2>1 DEF Conclude, EnableOverride, EnableSync, EnableExperiment, Finish,
               Advance
        <3> QED BY <3>1, <3>2, <3>3 DEF Initialize
    <2>3. CASE \E l \in Loaders : Loader(l)
        <3>1. \A l \in Loaders : ~SpawnFails(l)
            BY <1>1 DEF InitInv, OneStart, SpawnFails, Goto
        <3> QED BY <2>3, <3>1 DEF Loader, Start, Spawn, WaitEnds
    <2>4. CASE \E g \in Games : Game(g) \/ \E h \in Hooks : Call(g, h)
        BY <2>4 DEF Game, LoadOriginal, LoadSwitch, LoadSync, Return, Call
    <2>5. CASE \E h \in Hooks : PatchElsewhere(h)
        BY <2>5 DEF PatchElsewhere
    <2>6. CASE UNCHANGED vars
        BY <2>6 DEF vars
    <2> QED BY <1>1, <2>2, <2>3, <2>4, <2>5, <2>6 DEF Next
<1>2. ASSUME InitInv, [Next]_vars
      PROVE  [(initState \in {2, 3}) => initState' = initState]_vars
    BY <1>1, <1>2
<1> QED BY <1>2, InitializationInvariant, PTL DEF Spec, ResultIsFinal

\* An initializer that returned true was not told so before the factory
\* imports were counted, however its wait and the thread interleave.
THEOREM TrueMeansImports == Spec => []TrueMeansHooked
<1>1. InitInv => TrueMeansHooked
    BY DEF InitInv, Success, TrueMeansHooked
<1> QED BY <1>1, InitializationInvariant, PTL

\* Where initialize fails, early, late or before its thread exists, HDR
\* emulation is off.
THEOREM FailuresAreInert == Spec => []FailureIsInert
<1>1. InitInv => FailureIsInert
    BY DEF InitInv, Switches, TypeOK, Switching, FailureIsInert
<1> QED BY <1>1, InitializationInvariant, PTL

\* The experiment is on only with every hook that its mode needs installed and
\* its original published, whatever other modules patch.
THEOREM ExperimentsHaveTheirHooks == Spec => []ExperimentNeedsHooks
<1>1. ASSUME InitInv, experiment, NEW h \in Hooks, Wanted(h)
      PROVE  Installed(h) /\ saved[h] # None
    <2>1. Ready
        BY <1>1 DEF InitInv, Switches
    <2>2. Installed(h)
        BY <1>1, <2>1, OrderFacts DEF Ready, Wanted
    <2> QED BY <1>1, <2>2 DEF InitInv, Originals
<1>2. InitInv => ExperimentNeedsHooks
    BY <1>1 DEF ExperimentNeedsHooks
<1> QED BY <1>2, InitializationInvariant, PTL

\* However a backend query interleaves with enable_backend_experiment, an
\* answer that emulates HDR goes with the synchronisation of its mode.
THEOREM OverridesAreSynchronised == Spec => []OverrideIsSynchronised
<1>1. InitInv => OverrideIsSynchronised
    BY DEF InitInv, SeenInOrder, OverrideIsSynchronised
<1> QED BY <1>1, InitializationInvariant, PTL

\* A game thread that runs into a patched function at any step of its
\* installation finds the original, or the hook is one reported as failed.
THEOREM CallsFindTheirOriginal == Spec => []CallsReachOriginal
<1>1. InitInv => CallsReachOriginal
    BY DEF InitInv, InHook, CallsReachOriginal
<1> QED BY <1>1, InitializationInvariant, PTL

-----------------------------------------------------------------------------
(* The hash of the executable within the start.                              *)

\* Initialization implements HashSpec: initialize reads the file with file_hex
\* and nothing else of it, nor any other thread, touches its locals.
THEOREM StartHashes == Spec => HashSpec
<1>1. Init => InitHash
    BY DEF Init
<1>2. ASSUME [Next]_vars
      PROVE  [HashNext]_hashVars
    <2>1. CASE Prepare
        <3>1. CASE Begin \/ HashFile \/ Hashed \/ HashFails
            BY <3>1 DEF Begin, HashFile, Hashed, HashFails, HashNext
        <3>2. CASE BeginFails \/ ParseConfig \/ Configured \/ ConfigFails \/ ScanImage
                    \/ HookImports \/ ImportsHooked \/ HookImportsFails
            BY <3>2 DEF BeginFails, ParseConfig, Configured, ConfigFails, ScanImage,
               HookImports, ImportsHooked, HookImportsFails
        <3>3. CASE \E complete \in BOOLEAN : Resolved(complete)
            BY <3>3 DEF Resolved
        <3> QED BY <2>1, <3>1, <3>2, <3>3 DEF Prepare
    <2>2. CASE InstallHooks
        BY <2>2 DEF InstallHooks, SkipHook, RefuseHook, PublishOriginal, WritePatch,
           WritePatchFails, CheckPatch, CheckPatchFails, WithdrawOriginal
    <2>3. CASE Conclude
        BY <2>3 DEF Conclude, EnableOverride, EnableSync, EnableExperiment, Finish
    <2>4. CASE \E l \in Loaders : Loader(l)
        BY <2>4 DEF Loader, Start, Spawn, SpawnFails, WaitEnds
    <2>5. CASE \E g \in Games : Game(g) \/ \E h \in Hooks : Call(g, h)
        BY <2>5 DEF Game, LoadOriginal, LoadSwitch, LoadSync, Return, Call
    <2>6. CASE \E h \in Hooks : PatchElsewhere(h)
        BY <2>6 DEF PatchElsewhere
    <2>7. CASE UNCHANGED vars
        BY <2>7 DEF vars
    <2> QED BY <1>2, <2>1, <2>2, <2>3, <2>4, <2>5, <2>6, <2>7 DEF Next, Initialize
<1> QED BY <1>1, <1>2, PTL DEF Spec, HashSpec

\* So the digest that selects the build is that of the whole executable.
THEOREM DigestSelectsTheBuild == Spec => []DigestOfWholeFile
<1> QED BY StartHashes, DigestIsOfWholeFile, PTL

=============================================================================
