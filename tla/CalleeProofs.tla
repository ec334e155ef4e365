---------------------------- MODULE CalleeProofs ----------------------------
(***************************************************************************)
(* Proofs about the callees of initialize within Initialization: that the  *)
(* bundle the resolver returns is the game's own, and that no hook changes *)
(* an answer it did not get from the game's own code.                      *)
(***************************************************************************)
EXTENDS InitializationProofs, ConfigFileProofs, FunctionTheorems

USE DEF configVars, callees, hookVars, switches, threadVars, configFileVars,
        targetVars, importVars, hashVars, Threads

-----------------------------------------------------------------------------
(* The scans.                                                                *)

ScanTypes ==
    /\ found \in [TargetNames -> Nat \cup {NoTarget}]
    /\ step = "resolve" => image \in Images

LEMMA ProfileFacts ==
    /\ Profile \in [TargetNames -> Nat]
    /\ NoTargets \in [TargetNames -> {NoTarget}]
    /\ \A target \in TargetNames : NoTargets[target] = NoTarget
    /\ NoTarget \in Int /\ NoTarget \notin Nat
    /\ TargetNames = {"availability", "gate", "vtable", "config", "backend", "cookie"}
BY ImageAssumption DEF NoTargets, NoTarget, TargetNames, Signed

\* The one match that a scan accepts is a match.
LEMMA MatchIsOne ==
    ASSUME NEW matches \in SUBSET Nat, IsFiniteSet(matches), Unique(matches)
    PROVE  matches = {TheMatch(matches)}
<1>1. PICK rva : matches = {rva}
    BY FS_Singleton DEF Unique
<1>2. TheMatch(matches) \in matches
    <2>1. rva \in matches /\ \A other \in matches : rva <= other
        BY <1>1
    <2> QED BY <2>1 DEF TheMatch
<1> QED BY <1>1, <1>2

LEMMA PlacesAreFinite ==
    ASSUME NEW places, IsFiniteSet(places)
    PROVE  IsFiniteSet({p.at : p \in places})
<1> DEFINE at == [p \in places |-> p.at]
<1>1. at \in Surjection(places, {p.at : p \in places})
    BY Fun_IsSurj
<1> QED BY <1>1, FS_Surjection

LEMMA MatchesAreFinite ==
    ASSUME image \in Images, NEW h
    PROVE  Matches(h) \in SUBSET Nat /\ IsFiniteSet(Matches(h))
<1> DEFINE signed == {s \in image.signatures :
                        s.of = h /\ Executable(s)
                        /\ (s.at = Profile[h] => site[h] = "native")}
<1>1. IsFiniteSet(signed) /\ \A s \in signed : s.at \in Nat
    BY ImageAssumption, FS_Subset DEF Addressed
<1> HIDE DEF signed
<1>2. {s.at : s \in signed} \in SUBSET Nat /\ IsFiniteSet({s.at : s \in signed})
    BY <1>1, PlacesAreFinite
<1> QED BY <1>2 DEF Matches, signed

LEMMA GateBodiesAreFinite ==
    ASSUME image \in Images
    PROVE  GateBodies \in SUBSET Nat /\ IsFiniteSet(GateBodies)
<1> DEFINE calls == {c \in image.calls : Executable(c) /\ c.to = found.availability}
           callers == {c \in Callers : \E b \in image.bodies :
                        b.at = c - 4 /\ b.to = found.availability}
           body == [c \in callers |-> c - 4]
<1>1. IsFiniteSet(calls) /\ \A c \in calls : c.at \in Nat
    BY ImageAssumption, FS_Subset DEF Addressed
<1>2. Callers = {c.at : c \in calls}
    BY DEF Callers
<1>3. IsFiniteSet(Callers) /\ Callers \in SUBSET Nat
    <2> HIDE DEF calls
    <2> QED BY <1>1, <1>2, PlacesAreFinite
<1>4. IsFiniteSet(callers) /\ callers \in SUBSET Nat
    BY <1>3, FS_Subset
<1>5. GateBodies = {c - 4 : c \in callers} /\ GateBodies \in SUBSET Nat
    BY ImageAssumption DEF GateBodies, Addressed
<1> HIDE DEF calls, callers
<1>6. body \in Surjection(callers, {c - 4 : c \in callers})
    BY Fun_IsSurj
<1> QED BY <1>4, <1>5, <1>6, FS_Surjection

LEMMA VtablesAreFinite ==
    ASSUME image \in Images
    PROVE  {t.at : t \in Vtables} \in SUBSET Nat /\ IsFiniteSet({t.at : t \in Vtables})
<1>1. IsFiniteSet(Vtables) /\ \A t \in Vtables : t.at \in Nat
    BY ImageAssumption, FS_Subset DEF Vtables, Addressed
<1> QED BY <1>1, PlacesAreFinite

LEMMA CookiesAreFinite ==
    ASSUME image \in Images
    PROVE  Cookies \in SUBSET Nat /\ IsFiniteSet(Cookies)
<1> DEFINE kept == {c \in image.cookies :
                      c.of = found.availability /\ c.at % Pointer = 0 /\ Data(c)}
<1>1. IsFiniteSet(kept) /\ \A c \in kept : c.at \in Nat
    BY ImageAssumption, FS_Subset DEF Addressed
<1> HIDE DEF kept
<1>2. {c.at : c \in kept} \in SUBSET Nat /\ IsFiniteSet({c.at : c \in kept})
    BY <1>1, PlacesAreFinite
<1> QED BY <1>2 DEF Cookies, kept

\* What a scan makes of its matches: the target is the one match, and the others
\* stay as they were.
ScanOf(target, matches) ==
    /\ matches = {found'[target]}
    /\ found' \in [TargetNames -> Nat \cup {NoTarget}]
    /\ \A other \in TargetNames \ {target} : found'[other] = found[other]
    /\ UNCHANGED <<image, known, captured>>

LEMMA ResolvesOne ==
    ASSUME ScanTypes, image \in Images, NEW target \in TargetNames,
           NEW matches \in SUBSET Nat, IsFiniteSet(matches), Resolves(target, matches)
    PROVE  ScanOf(target, matches)
<1>1. matches = {TheMatch(matches)}
    BY MatchIsOne DEF Resolves
<1>2. TheMatch(matches) \in Nat
    BY <1>1
<1> QED BY <1>1, <1>2 DEF Resolves, ScanTypes, ScanOf

\* The targets are found in the order of the scans.
Prefix ==
    \A i \in 1..5 : found[ScanOrder[i + 1]] # NoTarget => found[ScanOrder[i]] # NoTarget

NextScan == ScanOrder[1 + Cardinality({t \in DOMAIN found : found[t] # NoTarget})]

LEMMA ScanOrderFacts ==
    /\ ScanOrder[1] = "availability" /\ ScanOrder[2] = "gate" /\ ScanOrder[3] = "vtable"
    /\ ScanOrder[4] = "config" /\ ScanOrder[5] = "backend" /\ ScanOrder[6] = "cookie"
    /\ \A i \in 1..6 : ScanOrder[i] \in TargetNames
    /\ \A i, j \in 1..6 : ScanOrder[i] = ScanOrder[j] => i = j
    /\ \A target \in TargetNames : \E i \in 1..6 : target = ScanOrder[i]
<1>1. /\ ScanOrder[1] = "availability" /\ ScanOrder[2] = "gate" /\ ScanOrder[3] = "vtable"
      /\ ScanOrder[4] = "config" /\ ScanOrder[5] = "backend" /\ ScanOrder[6] = "cookie"
    BY DEF ScanOrder
<1>2. \A i \in 1..6 : i = 1 \/ i = 2 \/ i = 3 \/ i = 4 \/ i = 5 \/ i = 6
    OBVIOUS
<1> QED BY <1>1, <1>2, ProfileFacts

\* The next scan looks for the first target that is missing.
LEMMA NextIsMissing ==
    ASSUME ScanTypes, Prefix, ~Scanned
    PROVE  \E n \in 0..5 : /\ NextScan = ScanOrder[n + 1]
                           /\ found[NextScan] = NoTarget
                           /\ \A k \in 1..n : found[ScanOrder[k]] # NoTarget
<1>1. DOMAIN found = TargetNames
    BY DEF ScanTypes
<1>2. PICK n \in 0..5 : /\ found[ScanOrder[n + 1]] = NoTarget
                        /\ \A k \in 1..n : found[ScanOrder[k]] # NoTarget
    <2> DEFINE has(i) == found[ScanOrder[i]] # NoTarget
    <2>1. \E i \in 1..6 : ~has(i)
        BY <1>1, ScanOrderFacts DEF Scanned
    <2>2. (has(2) => has(1)) /\ (has(3) => has(2)) /\ (has(4) => has(3))
          /\ (has(5) => has(4)) /\ (has(6) => has(5))
        BY DEF Prefix
    <2>3. CASE ~has(1)
        BY <2>3
    <2>4. CASE has(1) /\ ~has(2)
        <3>1. \A k \in 1..1 : has(k)
            BY <2>4
        <3> QED BY <2>4, <3>1
    <2>5. CASE has(2) /\ ~has(3)
        <3>1. \A k \in 1..2 : has(k)
            BY <2>2, <2>5
        <3> QED BY <2>5, <3>1
    <2>6. CASE has(3) /\ ~has(4)
        <3>1. \A k \in 1..3 : has(k)
            BY <2>2, <2>6
        <3> QED BY <2>6, <3>1
    <2>7. CASE has(4) /\ ~has(5)
        <3>1. \A k \in 1..4 : has(k)
            BY <2>2, <2>7
        <3> QED BY <2>7, <3>1
    <2>8. CASE has(5) /\ ~has(6)
        <3>1. \A k \in 1..5 : has(k)
            BY <2>2, <2>8
        <3> QED BY <2>8, <3>1
    <2>9. CASE has(6)
        <3>1. \A i \in 1..6 : i = 1 \/ i = 2 \/ i = 3 \/ i = 4 \/ i = 5 \/ i = 6
            OBVIOUS
        <3> HIDE DEF has
        <3> QED BY <2>1, <2>2, <2>9, <3>1
    <2> HIDE DEF has
    <2> QED BY <2>3, <2>4, <2>5, <2>6, <2>7, <2>8, <2>9
<1>3. \A i \in n + 1..6 : found[ScanOrder[i]] = NoTarget
    <2> DEFINE has(i) == found[ScanOrder[i]] # NoTarget
    <2>1. ~has(n + 1) /\ \A i \in 1..5 : has(i + 1) => has(i)
        BY <1>2 DEF Prefix
    <2>2. (has(2) => has(1)) /\ (has(3) => has(2)) /\ (has(4) => has(3))
          /\ (has(5) => has(4)) /\ (has(6) => has(5))
        BY DEF Prefix
    <2>3. n = 0 \/ n = 1 \/ n = 2 \/ n = 3 \/ n = 4 \/ n = 5
        OBVIOUS
    <2>4. \A i \in n + 1..6 : i = 1 \/ i = 2 \/ i = 3 \/ i = 4 \/ i = 5 \/ i = 6
        OBVIOUS
    <2> HIDE DEF has
    <2>5. \A i \in n + 1..6 : ~has(i)
        BY <2>1, <2>2, <2>3, <2>4
    <2> QED BY <2>5 DEF has
<1>4. Cardinality({t \in DOMAIN found : found[t] # NoTarget}) = n
    <2> DEFINE got == {t \in DOMAIN found : found[t] # NoTarget}
               nth == [k \in 1..n |-> ScanOrder[k]]
    <2>1. \A k \in 1..n : nth[k] \in got
        BY <1>1, <1>2, ScanOrderFacts
    <2>2. \A j, k \in 1..n : nth[j] = nth[k] => j = k
        BY ScanOrderFacts
    <2>3. \A t \in got : \E k \in 1..n : nth[k] = t
        BY <1>1, <1>3, ScanOrderFacts
    <2> HIDE DEF got
    <2>4. nth \in Bijection(1..n, got)
        BY <2>1, <2>2, <2>3, Fun_IsBij
    <2>5. ExistsBijection(1..n, got)
        BY <2>4, Fun_ExistsBij
    <2>6. Cardinality(got) = n
        BY <2>5, FS_CountingElements
    <2> QED BY <2>6 DEF got
<1> QED BY <1>2, <1>4 DEF NextScan

\* One scan: which target it looks for, among which matches, and that those it
\* starts from are found.
LEMMA ScanSteps ==
    ASSUME ScanTypes, Prefix, image \in Images, Scan
    PROVE  /\ Prefix'
           /\ \/ ScanOf("availability", Matches("availability"))
              \/ found.availability # NoTarget /\ ScanOf("gate", GateBodies)
              \/ found.gate # NoTarget /\ ScanOf("vtable", {t.at : t \in Vtables})
              \/ ScanOf("config", Matches("config"))
              \/ ScanOf("backend", Matches("backend"))
              \/ found.availability # NoTarget /\ ScanOf("cookie", Cookies)
<1>1. PICK n \in 0..5 : /\ NextScan = ScanOrder[n + 1]
                        /\ found[NextScan] = NoTarget
                        /\ \A k \in 1..n : found[ScanOrder[k]] # NoTarget
    BY NextIsMissing DEF Scan
<1>2. ASSUME NEW matches, ScanOf(NextScan, matches)
      PROVE  Prefix'
    <2>1. \A i \in 1..6 : ScanOrder[i] # NextScan => found'[ScanOrder[i]] = found[ScanOrder[i]]
        BY <1>2, ScanOrderFacts DEF ScanOf
    <2>2. ASSUME NEW i \in 1..5, found'[ScanOrder[i + 1]] # NoTarget
          PROVE  found'[ScanOrder[i]] # NoTarget
        <3>1. CASE i = n
            BY <1>1, <2>1, <3>1, ScanOrderFacts
        <3>2. CASE i # n
            <4>1. i + 1 \in 1..6 /\ n + 1 \in 1..6 /\ i \in 1..6
                BY <2>2
            <4>2. ScanOrder[i + 1] # NextScan
                BY <1>1, <3>2, <4>1, ScanOrderFacts
            <4>3. found[ScanOrder[i]] # NoTarget
                BY <2>1, <2>2, <4>1, <4>2 DEF Prefix
            <4> QED BY <1>1, <2>1, <4>1, <4>3
        <3> QED BY <3>1, <3>2
    <2> QED BY <2>2, ScanOrderFacts DEF Prefix
<1>3. \A i \in 1..6 : ScanOrder[i] = NextScan => i = n + 1
    BY <1>1, ScanOrderFacts
<1>4. CASE NextScan = "availability" /\ ResolveAvailability
    <2>1. ScanOf(NextScan, Matches("availability"))
        BY <1>4, MatchesAreFinite, ResolvesOne, ProfileFacts DEF ResolveAvailability
    <2> QED BY <1>2, <1>4, <2>1
<1>5. CASE NextScan = "gate" /\ ResolveGate
    <2>1. ScanOf(NextScan, GateBodies)
        BY <1>5, GateBodiesAreFinite, ResolvesOne, ProfileFacts DEF ResolveGate
    <2>2. found.availability # NoTarget
        BY <1>1, <1>3, <1>5, ScanOrderFacts
    <2> QED BY <1>2, <1>5, <2>1, <2>2
<1>6. CASE NextScan = "vtable" /\ ResolveVtable
    <2>1. ScanOf(NextScan, {t.at : t \in Vtables})
        BY <1>6, VtablesAreFinite, ResolvesOne, ProfileFacts DEF ResolveVtable
    <2>2. found.gate # NoTarget
        BY <1>1, <1>3, <1>6, ScanOrderFacts
    <2> QED BY <1>2, <1>6, <2>1, <2>2
<1>7. CASE NextScan = "config" /\ ResolveConfig
    <2>1. ScanOf(NextScan, Matches("config"))
        BY <1>7, MatchesAreFinite, ResolvesOne, ProfileFacts DEF ResolveConfig
    <2> QED BY <1>2, <1>7, <2>1
<1>8. CASE NextScan = "backend" /\ ResolveBackend
    <2>1. ScanOf(NextScan, Matches("backend"))
        BY <1>8, MatchesAreFinite, ResolvesOne, ProfileFacts DEF ResolveBackend
    <2> QED BY <1>2, <1>8, <2>1
<1>9. CASE NextScan = "cookie" /\ ResolveCookie
    <2>1. ScanOf(NextScan, Cookies)
        BY <1>9, CookiesAreFinite, ResolvesOne, ProfileFacts DEF ResolveCookie
    <2>2. found.availability # NoTarget
        BY <1>1, <1>3, <1>9, ScanOrderFacts
    <2> QED BY <1>2, <1>9, <2>1, <2>2
<1> QED BY <1>4, <1>5, <1>6, <1>7, <1>8, <1>9 DEF Scan, NextScan

-----------------------------------------------------------------------------
(* What initialize does with the targets.                                    *)

\* The resolver begins, scans or captures, or returns; and every other step, of
\* whatever thread, leaves its locals alone.
LEMMA TargetSteps ==
    ASSUME InitInv, [Next]_vars
    PROVE  \/ step = "config" /\ step' = "resolve" /\ MapImage /\ site' = site
           \/ /\ step = "resolve" /\ step' = "resolve" /\ site' = site
              /\ Scan \/ (Scanned /\ captured = NotCaptured /\ Capture)
           \/ /\ step = "resolve" /\ step' = "imports"
              /\ UnmapImage(captured) \/ UnmapImage(NotCaptured)
           \/ /\ UNCHANGED targetVars
              /\ step' = "resolve" <=> step = "resolve"
              /\ step = "resolve" => \/ site' = site
                                     \/ /\ PatchWhileResolving
                                        /\ \E h \in Hooks :
                                            site' = [site EXCEPT ![h] = "other"]
<1> USE DEF Advance, Fail, untouched, beyondSites
<1>1. CASE Prepare
    <2>1. CASE Begin \/ BeginFails \/ HashFile \/ Hashed \/ HashFails \/ ParseConfig
                \/ ConfigFails
        BY <2>1 DEF Begin, BeginFails, HashFile, Hashed, HashFails, ParseConfig, ConfigFails
    <2>2. CASE Configured
        BY <2>2 DEF Configured
    <2>3. CASE ScanImage
        BY <2>3 DEF ScanImage
    <2>4. CASE \E complete \in BOOLEAN : Resolved(complete)
        BY <2>4 DEF Resolved
    <2>5. CASE HookImports \/ ImportsHooked \/ HookImportsFails
        BY <2>5 DEF HookImports, ImportsHooked, HookImportsFails
    <2> QED BY <1>1, <2>1, <2>2, <2>3, <2>4, <2>5 DEF Prepare
<1>2. CASE InstallHooks
    BY <1>2 DEF InstallHooks, SkipHook, RefuseHook, PublishOriginal, WritePatch,
       WritePatchFails, CheckPatch, CheckPatchFails, WithdrawOriginal, NextHook
<1>3. CASE Conclude
    BY <1>3 DEF Conclude, EnableOverride, EnableSync, EnableExperiment, Finish
<1>4. CASE \E l \in Loaders : Loader(l)
    BY <1>4 DEF Loader, Start, Spawn, SpawnFails, WaitEnds, Goto, InitInv, OneStart
<1>5. CASE \E g \in Games : Game(g) \/ \E h \in Hooks : Call(g, h)
    BY <1>5 DEF Game, LoadOriginal, LoadSwitch, LoadSync, Return, Call
<1>6. CASE \E h \in Hooks : PatchElsewhere(h)
    BY <1>6 DEF PatchElsewhere
<1>7. CASE UNCHANGED vars
    BY <1>7 DEF vars
<1> QED BY <1>1, <1>2, <1>3, <1>4, <1>5, <1>6, <1>7 DEF Next, Initialize

\* What is found lasts as long as resolve does, and a bundle is captured when
\* all of it is found.
ScanInv ==
    /\ ScanTypes /\ Prefix
    /\ step # "resolve" => found = NoTargets
    /\ step = "resolve" /\ captured # NotCaptured => Scanned /\ (known => found = Profile)

LEMMA ScanStarts == Init => ScanInv
<1>1. NoTargets \in [TargetNames -> {NoTarget}]
    BY ProfileFacts
<1> SUFFICES ASSUME Init PROVE ScanInv
    OBVIOUS
<1>2. found = NoTargets /\ step = "none"
    BY DEF Init, InitTargets
<1> QED BY <1>1, <1>2, ScanOrderFacts DEF ScanInv, ScanTypes, Prefix

LEMMA ScanStep ==
    ASSUME InitInv, ScanInv, [Next]_vars
    PROVE  ScanInv'
<1> USE DEF ScanInv
<1>1. CASE step = "config" /\ step' = "resolve" /\ MapImage
    BY <1>1, ProfileFacts, ScanOrderFacts DEF MapImage, ScanTypes, Prefix
<1>2. CASE step = "resolve" /\ step' = "resolve" /\ Scan
    <2>1. captured = NotCaptured
        BY <1>2 DEF Scan
    <2>2. captured' = captured /\ image' = image /\ ScanTypes'
        BY <1>2, ScanSteps DEF ScanOf, ScanTypes
    <2>3. Prefix'
        BY <1>2, ScanSteps DEF ScanTypes
    <2> QED BY <1>2, <2>1, <2>2, <2>3 DEF NotCaptured
<1>3. CASE step = "resolve" /\ step' = "resolve" /\ Scanned /\ Capture
    BY <1>3 DEF Capture, ScanTypes, Prefix, Scanned
<1>4. CASE step = "resolve" /\ step' = "imports"
            /\ (UnmapImage(captured) \/ UnmapImage(NotCaptured))
    BY <1>4, ProfileFacts, ScanOrderFacts DEF UnmapImage, ScanTypes, Prefix
<1>5. CASE UNCHANGED targetVars /\ (step' = "resolve" <=> step = "resolve")
    BY <1>5 DEF ScanTypes, Prefix, Scanned
<1> QED BY <1>1, <1>2, <1>3, <1>4, <1>5, TargetSteps

-----------------------------------------------------------------------------
(* Look-alikes.                                                              *)

\* An image of the game: the functions with their callers, the table with the
\* code that refers to it, and its cookie unless nothing passes for one.
HasTargets(i) ==
    /\ \A h \in Signed : \E s \in i.signatures :
            s.of = h /\ s.at = Profile[h] /\ Executable(s)
    /\ \E c \in i.calls :
            c.at = Profile.gate + 4 /\ c.to = Profile.availability /\ Executable(c)
    /\ \E b \in i.bodies : b.at = Profile.gate /\ b.to = Profile.availability
    /\ \E t \in i.tables :
            /\ t.at = Profile.vtable /\ t.at % Pointer = 0 /\ Data(t)
            /\ t.invoke = Profile.gate /\ t.locator /\ t.rtti /\ t.neighbors
            /\ \E l \in i.leas : Executable(l) /\ l.to = t.at
    /\ \A other \in i.cookies : other.at % Pointer = 0 /\ Data(other) =>
            \E c \in i.cookies : /\ c.at = Profile.cookie /\ c.of = Profile.availability
                                 /\ c.at % Pointer = 0 /\ Data(c)

Unpatched == \A h \in Hooks : site[h] = "native"

\* While nobody has patched a function, what is found is genuine: a look-alike
\* never stands alone.
GenuineSoFar ==
    step = "resolve" /\ Unpatched
        => \A target \in TargetNames : found[target] \in {NoTarget, Profile[target]}

LEMMA GenuineStep ==
    ASSUME \A i \in Images : HasTargets(i),
           InitInv, ScanInv, GenuineSoFar, [Next]_vars
    PROVE  GenuineSoFar'
<1> USE DEF GenuineSoFar, ScanInv
<1>1. CASE step = "config" /\ step' = "resolve" /\ MapImage
    BY <1>1, ProfileFacts DEF MapImage
<1>2. CASE step = "resolve" /\ step' = "resolve" /\ site' = site /\ Scan
    <2> SUFFICES ASSUME Unpatched
                 PROVE  \A target \in TargetNames :
                            found'[target] \in {NoTarget, Profile[target]}
        BY <1>2 DEF Unpatched
    <2>1. HasTargets(image) /\ image \in Images
        BY <1>2 DEF ScanTypes
    <2>2. ASSUME NEW target \in TargetNames, NEW matches, ScanOf(target, matches),
                 Profile[target] \in matches
          PROVE  \A other \in TargetNames :
                    found'[other] \in {NoTarget, Profile[other]}
        <3>1. found'[target] = Profile[target]
            BY <2>2 DEF ScanOf
        <3>2. \A other \in TargetNames \ {target} : found'[other] = found[other]
            BY <2>2 DEF ScanOf
        <3> QED BY <1>2, <3>1, <3>2
    <2>3. \A h \in Signed : Profile[h] \in Matches(h)
        <3>1. Signed \subseteq Hooks
            BY OrderFacts DEF Signed
        <3> QED BY <2>1, <3>1 DEF HasTargets, Matches, Unpatched
    <2>4. Profile \in [TargetNames -> Nat] /\ Signed \subseteq TargetNames
        BY ProfileFacts DEF TargetNames
    <2>5. ASSUME found.availability = Profile.availability
          PROVE  Profile.gate \in GateBodies
        <3>1. Profile.gate + 4 \in Callers
            BY <2>1, <2>5 DEF HasTargets, Callers
        <3>2. (Profile.gate + 4) - 4 = Profile.gate
            <4>1. Profile["gate"] \in Nat
                BY ProfileFacts
            <4> QED BY <4>1
        <3> QED BY <2>1, <2>5, <3>1, <3>2 DEF HasTargets, GateBodies
    <2>6. ASSUME found.gate = Profile.gate
          PROVE  Profile.vtable \in {t.at : t \in Vtables}
        BY <2>1, <2>6, OrderFacts
        DEF HasTargets, Vtables, Validated, References, Unpatched
    <2>7. ASSUME found.availability = Profile.availability, NEW cookie \in Cookies
          PROVE  Profile.cookie \in Cookies
        BY <2>1, <2>7 DEF HasTargets, Cookies
    <2>8. \A target \in TargetNames :
            found[target] # NoTarget => found[target] = Profile[target]
        BY <1>2
    <2>9. CASE ScanOf("availability", Matches("availability"))
        BY <2>2, <2>3, <2>9, ProfileFacts DEF Signed
    <2>10. CASE found.availability # NoTarget /\ ScanOf("gate", GateBodies)
        BY <2>2, <2>5, <2>8, <2>10, ProfileFacts
    <2>11. CASE found.gate # NoTarget /\ ScanOf("vtable", {t.at : t \in Vtables})
        BY <2>2, <2>6, <2>8, <2>11, ProfileFacts
    <2>12. CASE ScanOf("config", Matches("config"))
        BY <2>2, <2>3, <2>12, ProfileFacts DEF Signed
    <2>13. CASE ScanOf("backend", Matches("backend"))
        BY <2>2, <2>3, <2>13, ProfileFacts DEF Signed
    <2>14. CASE found.availability # NoTarget /\ ScanOf("cookie", Cookies)
        <3>1. found.availability = Profile.availability
            BY <2>8, <2>14, ProfileFacts
        <3>2. Profile.cookie \in Cookies
            BY <2>7, <2>14, <3>1 DEF ScanOf
        <3> QED BY <2>2, <2>14, <3>2, ProfileFacts
    <2> QED BY <1>2, <2>1, <2>9, <2>10, <2>11, <2>12, <2>13, <2>14, ScanSteps
<1>3. CASE step = "resolve" /\ step' = "resolve" /\ site' = site /\ Scanned /\ Capture
    BY <1>3 DEF Capture, Unpatched
<1>4. CASE step = "resolve" /\ step' = "imports"
    BY <1>4
<1>5. CASE /\ UNCHANGED targetVars /\ (step' = "resolve" <=> step = "resolve")
           /\ step = "resolve" =>
                    site' = site \/ \E h \in Hooks : site' = [site EXCEPT ![h] = "other"]
    <2>1. step' = "resolve" /\ Unpatched' => Unpatched
        BY <1>5 DEF Unpatched, InitInv, TypeOK
    <2> QED BY <1>5, <2>1
<1> QED BY <1>1, <1>2, <1>3, <1>4, <1>5, TargetSteps

\* In an image of the game, whatever else in it resembles its functions, the
\* bundle that resolve captures holds the genuine targets as long as no other
\* module has patched them; and that of a known build does in any case.
THEOREM LookAlikesAreRefused ==
    ASSUME \A i \in Images : HasTargets(i)
    PROVE  Spec => []NeverALookAlike
<1>1. Init => GenuineSoFar
    BY DEF Init, GenuineSoFar
<1>2. ScanInv /\ GenuineSoFar => NeverALookAlike
    <2> SUFFICES ASSUME ScanInv, GenuineSoFar, captured # NotCaptured, Scanned,
                        known \/ Unpatched
                 PROVE  found = Profile
        BY DEF NeverALookAlike, Unpatched
    <2>1. DOMAIN found = TargetNames /\ found # NoTargets
        BY ProfileFacts, ScanOrderFacts DEF ScanInv, ScanTypes, Scanned
    <2>2. step = "resolve" /\ (known => found = Profile)
        BY <2>1 DEF ScanInv
    <2>3. CASE Unpatched
        <3>1. \A target \in TargetNames : found[target] = Profile[target]
            BY <2>1, <2>2, <2>3 DEF GenuineSoFar, Scanned
        <3> QED BY <3>1, ProfileFacts DEF ScanInv, ScanTypes
    <2> QED BY <2>2, <2>3
<1>3. InitInv /\ ScanInv /\ GenuineSoFar /\ [Next]_vars => ScanInv' /\ GenuineSoFar'
    BY ScanStep, GenuineStep
<1> QED BY <1>1, <1>2, <1>3, ScanStarts, InitializationInvariant, PTL DEF Spec

-----------------------------------------------------------------------------
(* Verified hooks.                                                           *)

\* A hook that another module has patched is not found by its signature, and
\* nobody patches it before its prologue is captured.
FoundIsNative ==
    step = "resolve" =>
        \A h \in {"config", "backend"} : found[h] = Profile[h] => site[h] = "native"

CapturedIsNative == \A h \in Hooks : captured[h] \in {"native", None}

InHooks == {"load", "refused", "switch", "sync", "answered"}

\* Before the hooks are installed there is nothing to call through.
NothingInstalled ==
    step \in Preparing \cup {"none"} =>
        /\ ~unlock /\ \A h \in Hooks : saved[h] = None
        /\ \A g \in Games : pc[g] \notin InHooks

\* Only the menu gate is chained in front of another module's patch, and only
\* while it does not change an answer.
ChainedObserves ==
    /\ \A h \in Hooks : saved[h] = "other" => h = "gate" /\ mode = "observe"
    /\ unlock => mode \in UnlockModes

\* A call carries the original it has loaded, and the switch.
CalledObserves ==
    \A g \in Games : pc[g] \in {"switch", "sync", "answered"} =>
        /\ local[g].original # None
        /\ local[g].original = "other" => local[g].hook = "gate" /\ mode = "observe"
        /\ pc[g] = "sync" => local[g].hook = "backend"
        /\ pc[g] = "answered" /\ local[g].hook = "gate" /\ local[g].overridden
                => mode \in UnlockModes

VerifiedInv ==
    /\ FoundIsNative /\ CapturedIsNative
    /\ NothingInstalled /\ ChainedObserves /\ CalledObserves

LEMMA VerifiedStarts == Init => VerifiedInv
<1> SUFFICES ASSUME Init PROVE VerifiedInv
    OBVIOUS
<1>1. /\ step = "none" /\ unlock = FALSE
      /\ \A h \in Hooks : saved[h] = None /\ captured[h] = None
      /\ \A g \in Games : pc[g] = "idle"
    BY DEF Init, InitTargets, NotCaptured
<1> QED BY <1>1 DEF VerifiedInv, FoundIsNative, CapturedIsNative, NothingInstalled,
           ChainedObserves, CalledObserves, InHooks, None

\* resolve scans, captures and returns.
LEMMA ResolverVerifies ==
    ASSUME PatchWhileResolving = FALSE, InitInv, ScanInv,
           FoundIsNative, CapturedIsNative, [Next]_vars
    PROVE  FoundIsNative' /\ CapturedIsNative'
<1> USE DEF FoundIsNative, CapturedIsNative, ScanInv
<1>1. CASE step = "config" /\ step' = "resolve" /\ MapImage
    BY <1>1, ProfileFacts, OrderFacts DEF MapImage, NotCaptured
<1>2. CASE step = "resolve" /\ step' = "resolve" /\ site' = site /\ Scan
    <2>1. image \in Images
        BY <1>2 DEF ScanTypes
    <2>2. ASSUME NEW target \in TargetNames, NEW matches, ScanOf(target, matches),
                 \A h \in {"config", "backend"} :
                    target = h /\ Profile[h] \in matches => site[h] = "native"
          PROVE  \A h \in {"config", "backend"} : found'[h] = Profile[h] => site[h] = "native"
        <3>1. \A other \in TargetNames \ {target} : found'[other] = found[other]
            BY <2>2 DEF ScanOf
        <3>2. found'[target] \in matches
            BY <2>2 DEF ScanOf
        <3> QED BY <1>2, <2>2, <3>1, <3>2, ProfileFacts
    <2>3. \A h : Profile[h] \in Matches(h) => site[h] = "native"
        BY DEF Matches
    <2>4. \A h \in {"config", "backend"} : found'[h] = Profile[h] => site[h] = "native"
        BY <1>2, <2>1, <2>2, <2>3, ScanSteps, ProfileFacts
    <2>5. captured' = captured
        BY <1>2, <2>1, ScanSteps DEF ScanOf
    <2> QED BY <1>2, <2>4, <2>5
<1>3. CASE step = "resolve" /\ step' = "resolve" /\ site' = site /\ Scanned /\ Capture
    <2>1. \A h \in {"config", "backend"} : FoundSites[h] = "native"
        BY <1>3, OrderFacts DEF FoundSites
    <2> QED BY <1>3, <2>1 DEF Capture
<1>4. CASE step = "resolve" /\ step' = "imports"
            /\ (UnmapImage(captured) \/ UnmapImage(NotCaptured))
    BY <1>4, OrderFacts DEF UnmapImage, NotCaptured
<1>5. CASE /\ UNCHANGED targetVars /\ (step' = "resolve" <=> step = "resolve")
           /\ step = "resolve" => site' = site
    BY <1>5
<1> QED BY <1>1, <1>2, <1>3, <1>4, <1>5, TargetSteps

LEMMA PrepareVerifies ==
    ASSUME InitInv, VerifiedInv, Prepare
    PROVE  NothingInstalled' /\ ChainedObserves' /\ CalledObserves'
<1>1. /\ step \in Preparing
      /\ UNCHANGED <<saved, unlock, pc, local>>
    BY PrepareFrame
<1>2. /\ ~unlock /\ \A h \in Hooks : saved[h] = None
      /\ \A g \in Games : pc[g] \notin InHooks
    BY <1>1 DEF VerifiedInv, NothingInstalled
<1> QED BY <1>1, <1>2 DEF NothingInstalled, ChainedObserves, CalledObserves, InHooks, None

LEMMA InstallVerifies ==
    ASSUME InitInv, VerifiedInv, InstallHooks
    PROVE  NothingInstalled' /\ ChainedObserves' /\ CalledObserves'
<1> USE DEF Advance, NextHook
<1>1. step \notin Preparing \cup {"none"} /\ step' \notin Preparing \cup {"none"}
      /\ UNCHANGED <<mode, pc, local>>
    BY DEF InstallHooks, SkipHook, RefuseHook, PublishOriginal, WritePatch,
       WritePatchFails, CheckPatch, CheckPatchFails, WithdrawOriginal, Preparing
<1>2. unlock' => mode \in UnlockModes
    BY DEF InstallHooks, SkipHook, RefuseHook, PublishOriginal, WritePatch,
       WritePatchFails, CheckPatch, CheckPatchFails, WithdrawOriginal, SetUnlock,
       VerifiedInv, ChainedObserves
<1>3. ASSUME NEW h \in Hooks, saved'[h] = "other"
      PROVE  h = "gate" /\ mode = "observe"
    <2>1. CASE PublishOriginal
        <3>1. CASE h = Current
            <4>1. site[h] = "other"
                BY <1>3, <2>1, <3>1 DEF PublishOriginal, InitInv, TypeOK
            <4>2. captured[h] # "other"
                BY OrderFacts DEF VerifiedInv, CapturedIsNative
            <4> QED BY <2>1, <3>1, <4>1, <4>2 DEF PublishOriginal, MayChain
        <3>2. CASE h # Current
            BY <1>3, <2>1, <3>2 DEF PublishOriginal, InitInv, TypeOK, VerifiedInv, ChainedObserves
        <3> QED BY <3>1, <3>2
    <2>2. CASE WithdrawOriginal
        BY <1>3, <2>2, OrderFacts DEF WithdrawOriginal, InitInv, TypeOK, VerifiedInv, ChainedObserves
    <2>3. CASE saved' = saved
        BY <1>3, <2>3 DEF VerifiedInv, ChainedObserves
    <2> QED BY <2>1, <2>2, <2>3 DEF InstallHooks, SkipHook, RefuseHook, WritePatch,
               WritePatchFails, CheckPatch, CheckPatchFails
<1>4. CalledObserves'
    BY <1>1 DEF VerifiedInv, CalledObserves
<1> QED BY <1>1, <1>2, <1>3, <1>4 DEF NothingInstalled, ChainedObserves

LEMMA GameVerifies ==
    ASSUME InitInv, VerifiedInv, NEW g \in Games,
           Game(g) \/ \E h \in Hooks : Call(g, h)
    PROVE  NothingInstalled' /\ ChainedObserves' /\ CalledObserves'
<1> USE DEF Goto
<1>1. UNCHANGED <<step, mode, saved, unlock>>
    BY DEF Game, LoadOriginal, LoadSwitch, LoadSync, Return, Call
<1>2. ChainedObserves'
    BY <1>1 DEF VerifiedInv, ChainedObserves
<1>3. \A other \in Games \ {g} : pc'[other] = pc[other] /\ local'[other] = local[other]
    BY DEF Game, LoadOriginal, LoadSwitch, LoadSync, Return, Call, InitInv, TypeOK
<1>4. NothingInstalled'
    <2>1. CASE step \in Preparing \cup {"none"}
        <3>1. \A h \in Hooks : site[h] # "ours"
            <4>1. \A k \in 1..4 : site[Order[k]] # "ours"
                BY <2>1, OrderFacts DEF InitInv, HookOrder
            <4> QED BY <4>1, OrderFacts DEF Hooks
        <3>2. ~\E h \in Hooks : Call(g, h)
            BY <3>1 DEF Call
        <3>3. pc[g] \notin InHooks
            BY <2>1 DEF VerifiedInv, NothingInstalled
        <3>4. ~Game(g)
            BY <3>3 DEF Game, LoadOriginal, LoadSwitch, LoadSync, Return, InHooks
        <3> QED BY <3>2, <3>4
    <2>2. CASE step \notin Preparing \cup {"none"}
        BY <1>1, <2>2 DEF NothingInstalled
    <2> QED BY <2>1, <2>2
<1>5. CalledObserves'
    <2> SUFFICES ASSUME pc'[g] \in {"switch", "sync", "answered"}
                 PROVE  /\ local'[g].original # None
                        /\ local'[g].original = "other"
                                => local'[g].hook = "gate" /\ mode = "observe"
                        /\ pc'[g] = "sync" => local'[g].hook = "backend"
                        /\ pc'[g] = "answered" /\ local'[g].hook = "gate"
                           /\ local'[g].overridden
                                => mode \in UnlockModes
        BY <1>1, <1>3 DEF VerifiedInv, CalledObserves
    <2>1. CASE \E h \in Hooks : Call(g, h)
        BY <2>1 DEF Call, InitInv, TypeOK
    <2>2. CASE LoadOriginal(g)
        <3>1. local[g].hook \in Hooks /\ pc[g] = "load"
            BY <2>2 DEF LoadOriginal, InitInv, InHook
        <3>2. saved[local[g].hook] # None /\ local'[g].original = saved[local[g].hook]
              /\ local'[g].hook = local[g].hook
            BY <2>2 DEF LoadOriginal, InitInv, TypeOK
        <3>3. (local[g].hook = "gate" => pc'[g] = "switch") /\ pc'[g] # "sync"
            BY <2>2, <3>1, <3>2, OrderFacts DEF LoadOriginal, InitInv, TypeOK, Continue
        <3> QED BY <3>1, <3>2, <3>3 DEF VerifiedInv, ChainedObserves
    <2>3. CASE LoadSwitch(g)
        <3>1. local[g].hook \in Hooks /\ pc[g] = "switch"
            BY <2>3 DEF LoadSwitch, InitInv, InHook
        <3>2. local'[g].original = local[g].original /\ local'[g].hook = local[g].hook
              /\ (local[g].hook = "gate" => local'[g].overridden = unlock)
            BY <2>3 DEF LoadSwitch, InitInv, TypeOK
        <3>3. pc'[g] = "sync" => local[g].hook = "backend"
            BY <2>3 DEF LoadSwitch, InitInv, TypeOK
        <3> QED BY <3>1, <3>2, <3>3 DEF VerifiedInv, ChainedObserves, CalledObserves
    <2>4. CASE LoadSync(g)
        <3>1. pc[g] = "sync" /\ pc'[g] = "answered" /\ local'[g].original = local[g].original
              /\ local'[g].hook = local[g].hook
              /\ local'[g].overridden = local[g].overridden
            BY <2>4 DEF LoadSync, InitInv, TypeOK
        <3> QED BY <3>1 DEF VerifiedInv, CalledObserves
    <2>5. CASE Return(g)
        BY <2>5 DEF Return, InitInv, TypeOK
    <2> QED BY <2>1, <2>2, <2>3, <2>4, <2>5 DEF Game
<1> QED BY <1>2, <1>4, <1>5

LEMMA VerifiedStep ==
    ASSUME PatchWhileResolving = FALSE, InitInv, ScanInv, VerifiedInv, [Next]_vars
    PROVE  VerifiedInv'
<1>1. FoundIsNative' /\ CapturedIsNative'
    BY ResolverVerifies DEF VerifiedInv
<1>2. CASE Prepare
    BY <1>1, <1>2, PrepareVerifies DEF VerifiedInv
<1>3. CASE InstallHooks
    BY <1>1, <1>3, InstallVerifies DEF VerifiedInv
<1>4. CASE Conclude
    <2>1. step \notin Preparing \cup {"none"} /\ step' \notin Preparing \cup {"none"}
          /\ UNCHANGED <<mode, saved, unlock, pc, local>>
        BY <1>4 DEF Conclude, EnableOverride, EnableSync, EnableExperiment, Finish,
           Advance, Preparing
    <2> QED BY <1>1, <2>1 DEF VerifiedInv, NothingInstalled, ChainedObserves, CalledObserves
<1>5. CASE \E l \in Loaders : Loader(l)
    <2>1. PICK l \in Loaders : Loader(l)
        BY <1>5
    <2>2. UNCHANGED <<mode, saved, unlock>> /\ pc'[l] \notin InHooks
          /\ \A g \in Games \ {l} : pc'[g] = pc[g] /\ local'[g] = local[g]
        BY <2>1 DEF Loader, Start, Spawn, SpawnFails, WaitEnds, Goto, InHooks,
           InitInv, TypeOK
    <2>3. step' \in Preparing \cup {"none"} => step \in Preparing \cup {"none"}
        BY <2>1 DEF Loader, Start, Spawn, SpawnFails, WaitEnds, Goto, InitInv, OneStart
    <2> QED BY <1>1, <2>2, <2>3
            DEF VerifiedInv, NothingInstalled, ChainedObserves, CalledObserves, InHooks
<1>6. CASE \E g \in Games : Game(g) \/ \E h \in Hooks : Call(g, h)
    BY <1>1, <1>6, GameVerifies DEF VerifiedInv
<1>7. CASE (\E h \in Hooks : PatchElsewhere(h)) \/ UNCHANGED vars
    <2>1. UNCHANGED <<step, mode, saved, unlock, pc, local>>
        BY <1>7 DEF PatchElsewhere, vars
    <2> QED BY <1>1, <2>1 DEF VerifiedInv, NothingInstalled, ChainedObserves, CalledObserves
<1> QED BY <1>2, <1>3, <1>4, <1>5, <1>6, <1>7 DEF Next, Initialize

\* However game threads run into the hooks while they are installed and other
\* modules patch the same functions, except while resolve captures them, an
\* answer is only ever changed after the game's own code has given it.
THEOREM AnswersAreVerified ==
    ASSUME PatchWhileResolving = FALSE
    PROVE  Spec => []OverridesAreVerified
<1>1. InitInv /\ VerifiedInv => OverridesAreVerified
    <2> SUFFICES ASSUME InitInv, VerifiedInv, NEW g \in Games, pc[g] = "answered",
                        local[g].overridden
                 PROVE  local[g].original = "native"
        BY DEF OverridesAreVerified
    <2>1. local[g].original \in {"native", "other", None}
        BY DEF InitInv, TypeOK
    <2>2. "observe" \notin UnlockModes
        BY DEF UnlockModes
    <2> QED BY <2>1, <2>2 DEF VerifiedInv, CalledObserves
<1>2. InitInv /\ ScanInv /\ VerifiedInv /\ [Next]_vars => ScanInv' /\ VerifiedInv'
    BY ScanStep, VerifiedStep
<1> QED BY <1>1, <1>2, ScanStarts, VerifiedStarts, InitializationInvariant, PTL DEF Spec

-----------------------------------------------------------------------------
(* The configuration within the start.                                       *)

\* Initialization implements ConfigSpec: between the hash and the resolver
\* initialize parses the file, and no other step of any thread interferes.
THEOREM StartParses == Spec => ConfigSpec
<1>1. Init => InitConfig
    BY DEF Init
<1>2. ASSUME [Next]_vars
      PROVE  [ConfigNext]_configFileVars
    <2>1. CASE Prepare
        <3>1. CASE Hashed \/ ParseConfig \/ Configured \/ ConfigFails
            BY <3>1 DEF Hashed, ParseConfig, Configured, ConfigFails, ConfigNext
        <3>2. CASE Begin \/ BeginFails \/ HashFile \/ HashFails \/ ScanImage
                    \/ HookImports \/ ImportsHooked \/ HookImportsFails
            BY <3>2 DEF Begin, BeginFails, HashFile, HashFails, ScanImage,
               HookImports, ImportsHooked, HookImportsFails
        <3>3. CASE \E complete \in BOOLEAN : Resolved(complete)
            BY <3>3 DEF Resolved
        <3> QED BY <2>1, <3>1, <3>2, <3>3 DEF Prepare
    <2>2. CASE InstallHooks
        BY <2>2 DEF InstallHooks, SkipHook, RefuseHook, PublishOriginal, WritePatch,
           WritePatchFails, CheckPatch, CheckPatchFails, WithdrawOriginal
    <2>3. CASE Conclude
        BY <2>3 DEF Conclude, EnableOverride, EnableSync, EnableExperiment, Finish
    <2>4. CASE \E l \in Loaders : Loader(l)
        BY <2>4 DEF Loader, Start, Spawn, SpawnFails, WaitEnds
    <2>5. CASE \E g \in Games : Game(g) \/ \E h \in Hooks : Call(g, h)
        BY <2>5 DEF Game, LoadOriginal, LoadSwitch, LoadSync, Return, Call
    <2>6. CASE \E h \in Hooks : PatchElsewhere(h)
        BY <2>6 DEF PatchElsewhere
    <2>7. CASE UNCHANGED vars
        BY <2>7 DEF vars
    <2> QED BY <1>2, <2>1, <2>2, <2>3, <2>4, <2>5, <2>6, <2>7 DEF Next, Initialize
<1> QED BY <1>1, <1>2, PTL DEF Spec, ConfigSpec

\* So initialize acts on the mode that the file asks for.
THEOREM ModeIsAsWritten == Spec => []ParsedAsWritten
<1> QED BY StartParses, ParserFollowsTheFile, PTL

-----------------------------------------------------------------------------
(* The walk of the import table and the hooks on it.                         *)

\* The slots to hook that the walk has come past: those of the modules before,
\* and those of this module in the descriptors before.
Passed ==
    {s \in ReachedSlots :
        \/ \E k \in 1..library - 1 : directory[s[1]].library = Libraries[k]
        \/ directory[s[1]].library = Module /\ s[1] < descriptor}

PendingWanted == {s \in pending : Name(s) \in WantedImports[Module]}

WalkTypes ==
    /\ directory \in Seq(Descriptor)
    /\ library \in 1..2 /\ descriptor \in Nat \ {0}

\* The walk is in front of the null descriptor, and every slot to hook that it
\* has passed is hooked or pending, and no other is.
ImportInv ==
    /\ WalkTypes
    /\ \A k \in 1..descriptor - 1 : k \in DOMAIN directory /\ directory[k] # NullDescriptor
    /\ patched \cup PendingWanted = Passed
    /\ \A slot \in patched : Name(slot) \in originals

LEMMA LibraryFacts ==
    /\ Libraries[1] = "dxgi" /\ Libraries[2] = "ags" /\ Len(Libraries) = 2
    /\ DOMAIN WantedImports = {"dxgi", "ags"}
    /\ \A lib \in DOMAIN WantedImports : Ordinal \notin WantedImports[lib]
BY DEF Libraries, WantedImports, Ordinal

LEMMA WantedSlot ==
    ASSUME WalkTypes, NEW s
    PROVE  s \in ReachedSlots <=>
            \E d \in BeforeNull : \E i \in Thunks(d) :
                /\ s = <<d, i>> /\ directory[d].library \in DOMAIN WantedImports
                /\ directory[d].thunks[i] \in WantedImports[directory[d].library]
<1>1. s \in ReachedSlots <=>
        \E d \in BeforeNull : \E i \in DOMAIN directory[d].thunks :
            /\ s = <<d, i>> /\ i <= MaxThunks
            /\ \E lib \in DOMAIN WantedImports :
                    directory[s[1]].library = lib /\ Name(s) \in WantedImports[lib]
    BY DEF ReachedSlots, WantedSlots
<1> QED BY <1>1 DEF Name, Thunks

LEMMA NothingWalked ==
    ASSUME directory \in Seq(Descriptor), library = 1, descriptor = 1, pending = {},
           patched = {}, originals = {}
    PROVE  ImportInv
<1>1. WalkTypes /\ DOMAIN directory \subseteq Nat \ {0}
    BY DEF WalkTypes
<1>2. Passed = {}
    <2>1. ASSUME NEW s \in ReachedSlots
          PROVE  ~(s[1] < descriptor)
        BY <1>1, <2>1, WantedSlot DEF BeforeNull
    <2> QED BY <2>1 DEF Passed
<1> QED BY <1>1, <1>2 DEF ImportInv, PendingWanted

Unwalked ==
    /\ directory \in Seq(Descriptor)
    /\ library = 1 /\ descriptor = 1
    /\ pending = {} /\ patched = {} /\ originals = {}

LEMMA UnwalkedInv == Unwalked => ImportInv
BY NothingWalked DEF Unwalked

LEMMA WalkDescriptorStep ==
    ASSUME ImportInv, WalkDescriptor
    PROVE  ImportInv'
<1>1. /\ descriptor <= Len(directory) /\ directory[descriptor] # NullDescriptor
      /\ descriptor' = descriptor + 1
      /\ pending' = IF Ours(descriptor) THEN pending \cup Named(descriptor) ELSE pending
      /\ UNCHANGED <<directory, library, patched, originals>>
    BY DEF WalkDescriptor, More
<1>2. WalkTypes /\ WalkTypes'
    BY <1>1 DEF ImportInv, WalkTypes
<1>3. descriptor \in Nat \ {0} /\ descriptor \in DOMAIN directory
    BY <1>1, <1>2 DEF WalkTypes
<1>4. \A k \in 1..descriptor' - 1 : k \in DOMAIN directory /\ directory[k] # NullDescriptor
    <2>1. \A k \in 1..descriptor' - 1 : k = descriptor \/ k \in 1..descriptor - 1
        BY <1>1, <1>3
    <2> QED BY <1>1, <1>3, <2>1 DEF ImportInv
<1>5. descriptor \in BeforeNull
    <2>1. 1..descriptor \subseteq 1..descriptor' - 1
        BY <1>1, <1>3
    <2> QED BY <1>3, <1>4, <2>1 DEF BeforeNull
<1>6. Module' = Module /\ ReachedSlots' = ReachedSlots /\ \A s : Name(s)' = Name(s)
    BY <1>1 DEF Module, ReachedSlots, WantedSlots, BeforeNull, Name
<1>7. Module \in DOMAIN WantedImports
    BY <1>2, LibraryFacts DEF WalkTypes, Module
<1> DEFINE here == {s \in ReachedSlots : directory[s[1]].library = Module /\ s[1] = descriptor}
<1>8. Passed' = Passed \cup here
    <2>1. \A s \in ReachedSlots : s[1] \in Nat
        BY <1>2, WantedSlot DEF BeforeNull, WalkTypes
    <2>2. \A n \in Nat : n < descriptor' <=> n < descriptor \/ n = descriptor
        BY <1>1, <1>3
    <2> QED BY <1>1, <1>6, <2>1, <2>2 DEF Passed
<1>9. PendingWanted' = PendingWanted \cup here
    <2>1. CASE Ours(descriptor)
        <3>1. {s \in Named(descriptor) : Name(s) \in WantedImports[Module]} = here
            <4>1. ASSUME NEW s \in Named(descriptor), Name(s) \in WantedImports[Module]
                  PROVE  s \in here
                BY <1>2, <1>5, <1>7, <2>1, <4>1, WantedSlot DEF Named, Name, Ours
            <4>2. ASSUME NEW s \in here
                  PROVE  s \in Named(descriptor) /\ Name(s) \in WantedImports[Module]
                <5>1. PICK d \in BeforeNull : \E i \in Thunks(d) :
                        /\ s = <<d, i>>
                        /\ directory[d].thunks[i] \in WantedImports[directory[d].library]
                    BY <1>2, <4>2, WantedSlot
                <5>2. PICK i \in Thunks(d) :
                        /\ s = <<d, i>>
                        /\ directory[d].thunks[i] \in WantedImports[directory[d].library]
                    BY <5>1
                <5>3. d = descriptor
                    BY <4>2, <5>2
                <5>4. directory[descriptor].thunks[i] # Ordinal
                    BY <1>7, <2>1, <5>2, <5>3, LibraryFacts DEF Ours
                <5> QED BY <2>1, <5>2, <5>3, <5>4 DEF Named, Name
            <4> QED BY <4>1, <4>2
        <3> HIDE DEF here
        <3> QED BY <1>1, <1>6, <2>1, <3>1 DEF PendingWanted
    <2>2. CASE ~Ours(descriptor)
        <3>1. here = {}
            BY <2>2 DEF Ours
        <3> QED BY <1>1, <1>6, <2>2, <3>1 DEF PendingWanted
    <2> QED BY <2>1, <2>2
<1>10. patched' \cup PendingWanted' = Passed'
    BY <1>1, <1>8, <1>9 DEF ImportInv
<1>11. \A slot \in patched' : Name(slot)' \in originals'
    BY <1>1, <1>6 DEF ImportInv
<1> QED BY <1>1, <1>2, <1>4, <1>10, <1>11 DEF ImportInv

LEMMA HookStep ==
    ASSUME ImportInv, HookImport \/ \E late \in BOOLEAN : HookImportFails(late)
    PROVE  ImportInv'
<1>1. UNCHANGED <<directory, library, descriptor>>
    BY DEF HookImport, HookImportFails
<1>2. Module' = Module /\ Passed' = Passed /\ \A s : Name(s)' = Name(s)
    BY <1>1 DEF Module, Passed, ReachedSlots, WantedSlots, BeforeNull, Name
<1>3. patched' \cup PendingWanted' = patched \cup PendingWanted
    BY <1>2 DEF HookImport, HookImportFails, PendingWanted
<1>4. \A slot \in patched' : Name(slot)' \in originals'
    BY <1>2 DEF HookImport, HookImportFails, ImportInv
<1> QED BY <1>1, <1>2, <1>3, <1>4 DEF ImportInv, WalkTypes

\* The walk is over: no slot of the module lies beyond it.
LEMMA WalkOver ==
    ASSUME ImportInv, ~More
    PROVE  BeforeNull = 1..descriptor - 1
<1>1. DOMAIN directory = 1..Len(directory) /\ Len(directory) \in Nat /\ descriptor \in Nat \ {0}
    BY DEF ImportInv, WalkTypes
<1>2. ASSUME NEW d \in BeforeNull PROVE d < descriptor
    <2>1. d \in 1..Len(directory) /\ \A k \in 1..d : directory[k] # NullDescriptor
        BY <1>1 DEF BeforeNull
    <2>2. CASE descriptor > Len(directory)
        BY <1>1, <2>1, <2>2
    <2>3. CASE descriptor <= Len(directory)
        <3>1. descriptor \notin 1..d
            BY <2>1, <2>3 DEF More
        <3> QED BY <1>1, <2>1, <3>1
    <2> QED BY <1>1, <2>2, <2>3
<1>3. ASSUME NEW d \in 1..descriptor - 1 PROVE d \in BeforeNull
    <2>1. d \in DOMAIN directory /\ 1..d \subseteq 1..descriptor - 1
        BY <1>1 DEF ImportInv
    <2> QED BY <2>1 DEF BeforeNull, ImportInv
<1>4. \A d \in BeforeNull : d \in 1..descriptor - 1
    BY <1>1, <1>2 DEF BeforeNull
<1> QED BY <1>3, <1>4

LEMMA NextLibraryStep ==
    ASSUME ImportInv, NextLibrary
    PROVE  ImportInv'
<1>1. /\ library = 1 /\ library' = 2 /\ descriptor' = 1 /\ pending = {}
      /\ ~More /\ UNCHANGED <<directory, pending, patched, originals>>
    BY LibraryFacts DEF NextLibrary, ImportInv, WalkTypes
<1>2. WalkTypes /\ WalkTypes'
    BY <1>1 DEF ImportInv, WalkTypes
<1>3. ReachedSlots' = ReachedSlots /\ BeforeNull' = BeforeNull /\ \A s : Name(s)' = Name(s)
    BY <1>1 DEF ReachedSlots, WantedSlots, BeforeNull, Name
<1>4. \A s \in ReachedSlots : s[1] \in BeforeNull /\ s[1] \in 1..descriptor - 1
    BY <1>1, <1>2, WantedSlot, WalkOver
<1>5. Passed = {s \in ReachedSlots : directory[s[1]].library = Libraries[1]}
    BY <1>1, <1>2, <1>4 DEF Passed, Module, WalkTypes
<1>6. Passed' = {s \in ReachedSlots : directory[s[1]].library = Libraries[1]}
    <2>1. 1..library' - 1 = {1}
        BY <1>1
    <2>2. \A s \in ReachedSlots : ~(s[1] < 1)
        BY <1>2, <1>4 DEF WalkTypes
    <2> QED BY <1>1, <1>3, <2>1, <2>2 DEF Passed
<1>7. PendingWanted = {} /\ PendingWanted' = {}
    BY <1>1 DEF PendingWanted
<1> QED BY <1>1, <1>2, <1>3, <1>5, <1>6, <1>7 DEF ImportInv

LEMMA ImportStep ==
    ASSUME ImportInv, [ImportNext]_importVars
    PROVE  ImportInv' \/ Unwalked'
<1>1. CASE OpenImports
    BY <1>1, DirectoryAssumption DEF OpenImports, Unwalked
<1>2. CASE CloseImports
    BY <1>2 DEF CloseImports, Unwalked
<1>3. CASE UNCHANGED importVars
    <2>1. PendingWanted' = PendingWanted /\ Passed' = Passed /\ \A s : Name(s)' = Name(s)
        BY <1>3 DEF importVars, PendingWanted, Passed, ReachedSlots, WantedSlots, BeforeNull, Module, Name
    <2> QED BY <1>3, <2>1 DEF importVars, ImportInv, WalkTypes
<1> QED BY <1>1, <1>2, <1>3, WalkDescriptorStep, HookStep, NextLibraryStep DEF ImportNext

\* Whatever the directory of the executable holds, when the walk has succeeded
\* for both modules every wanted slot among the first MaxThunks of its descriptor
\* is hooked and no other slot is, and at any step a hooked slot has its original.
THEOREM WalkHooksAll == ImportSpec => []ImportsAreHooked
<1>1. ImportInv => ImportsAreHooked
    <2> SUFFICES ASSUME ImportInv, ImportsDone PROVE patched = ReachedSlots
        BY DEF ImportInv, ImportsAreHooked
    <2>1. ~More /\ pending = {} /\ library = 2 /\ WalkTypes
        BY LibraryFacts DEF ImportsDone, ImportInv
    <2>2. Passed = ReachedSlots
        <3>1. ASSUME NEW s \in ReachedSlots PROVE s \in Passed
            <4>1. s[1] < descriptor /\ directory[s[1]].library \in {"dxgi", "ags"}
                BY <2>1, WantedSlot, WalkOver, LibraryFacts DEF WalkTypes
            <4>2. 1 \in 1..library - 1 /\ Module = Libraries[2]
                BY <2>1 DEF Module
            <4> QED BY <4>1, <4>2, LibraryFacts DEF Passed
        <3> QED BY <3>1 DEF Passed
    <2> QED BY <2>1, <2>2 DEF ImportInv, PendingWanted
<1>2. InitImports => Unwalked
    BY DEF InitImports, Unwalked
<1> QED BY <1>1, <1>2, UnwalkedInv, ImportStep, PTL DEF ImportSpec

\* Initialization implements ImportSpec: after the resolver initialize installs
\* the hooks on imports, and no other step of any thread interferes.
THEOREM StartHooksImports == Spec => ImportSpec
<1>1. Init => InitImports
    BY DEF Init
<1>2. ASSUME [Next]_vars
      PROVE  [ImportNext]_importVars
    <2>1. CASE Prepare
        <3>1. CASE HookImports \/ ImportsHooked
            BY <3>1 DEF HookImports, ImportsHooked, ImportNext
        <3>2. CASE HookImportsFails
            <4>1. CASE UNCHANGED importVars
                BY <4>1
            <4>2. CASE \E failure \in WriteFailures : HookImportFails(failure = Late)
                <5>1. PICK failure \in WriteFailures : HookImportFails(failure = Late)
                    BY <4>2
                <5>2. (failure = Late) \in BOOLEAN
                    OBVIOUS
                <5> QED BY <5>1, <5>2 DEF ImportNext
            <4> QED BY <3>2, <4>1, <4>2 DEF HookImportsFails
        <3>3. CASE \E complete \in BOOLEAN : Resolved(complete)
            BY <3>3 DEF Resolved, ImportNext
        <3>4. CASE Begin \/ BeginFails \/ HashFile \/ Hashed \/ HashFails \/ ParseConfig
                    \/ Configured \/ ConfigFails \/ ScanImage
            BY <3>4 DEF Begin, BeginFails, HashFile, Hashed, HashFails, ParseConfig,
               Configured, ConfigFails, ScanImage
        <3> QED BY <2>1, <3>1, <3>2, <3>3, <3>4 DEF Prepare
    <2>2. CASE InstallHooks
        BY <2>2 DEF InstallHooks, SkipHook, RefuseHook, PublishOriginal, WritePatch,
           WritePatchFails, CheckPatch, CheckPatchFails, WithdrawOriginal
    <2>3. CASE Conclude
        BY <2>3 DEF Conclude, EnableOverride, EnableSync, EnableExperiment, Finish
    <2>4. CASE \E l \in Loaders : Loader(l)
        BY <2>4 DEF Loader, Start, Spawn, SpawnFails, WaitEnds
    <2>5. CASE \E g \in Games : Game(g) \/ \E h \in Hooks : Call(g, h)
        BY <2>5 DEF Game, LoadOriginal, LoadSwitch, LoadSync, Return, Call
    <2>6. CASE \E h \in Hooks : PatchElsewhere(h)
        BY <2>6 DEF PatchElsewhere
    <2>7. CASE UNCHANGED vars
        BY <2>7 DEF vars
    <2> QED BY <1>2, <2>1, <2>2, <2>3, <2>4, <2>5, <2>6, <2>7 DEF Next, Initialize
<1> QED BY <1>1, <1>2, PTL DEF Spec, ImportSpec

\* So it is within the whole start, with game threads running: what initialize
\* counts is what is hooked, and no wanted import is missed but those beyond the
\* limit of the walk.
THEOREM ImportsAreAllHooked == Spec => []ImportsAreHooked
<1> QED BY StartHooksImports, WalkHooksAll, PTL

=============================================================================
