----------------------------- MODULE GameTargets -----------------------------
(***************************************************************************)
(* The resolver of the game's functions (src/src/game_compat.rs): nothing  *)
(* is trusted at a fixed address; signatures, callers, the vtable with its *)
(* RTTI and the security cookie must single out one bundle of targets.     *)
(*                                                                         *)
(* The image is abstracted to the places the scans look for: byte patterns *)
(* and data, each at an address in a section. Other modules may patch the  *)
(* game's functions while it is scanned.                                   *)
(***************************************************************************)
EXTENDS Integers, FiniteSets, Sequences

CONSTANTS
    Images,         \* images of executables
    Profile         \* the targets of KNOWN_BUILDS, which are the true ones

\* The functions that are hooked, in the order in which initialize hooks them.
Order == <<"gate", "availability", "config", "backend">>
Hooks == {Order[i] : i \in DOMAIN Order}

None == "none"          \* a null original, a prologue that was not captured

Signed == {"availability", "config", "backend"}
TargetNames == Signed \cup {"gate", "vtable", "cookie"}

\* The places of one kind in an image.
Addressed(places) == IsFiniteSet(places) /\ \A p \in places : p.at \in Nat

ASSUME ImageAssumption ==
    /\ \A i \in Images : /\ Addressed(i.signatures) /\ Addressed(i.calls)
                         /\ Addressed(i.bodies) /\ Addressed(i.tables)
                         /\ Addressed(i.cookies)
    /\ Profile \in [TargetNames -> Nat]

VARIABLES
    site,           \* what the bytes (the gate's slot) of each hook lead to
    image,          \* the image that is scanned
    known,          \* whether the fingerprint is one of KNOWN_BUILDS
    found,          \* targets resolved so far
    captured        \* whose prologue was captured for the verified hooks

targetVars == <<image, known, found, captured>>

NoImage == [signatures |-> {}, calls |-> {}, bodies |-> {}, leas |-> {},
            tables |-> {}, cookies |-> {}]
NoTarget == -1
NoTargets == [availability |-> NoTarget, gate |-> NoTarget, vtable |-> NoTarget,
              config |-> NoTarget, backend |-> NoTarget, cookie |-> NoTarget]
NotCaptured == [h \in Hooks |-> None]

InitTargets ==
    /\ image = NoImage
    /\ known = FALSE
    /\ found = NoTargets
    /\ captured = NotCaptured

\* resolve begins; known_build has looked the fingerprint up.
MapImage ==
    /\ image' \in Images
    /\ known' \in BOOLEAN
    /\ found' = NoTargets
    /\ captured' = NotCaptured

\* resolve returns the bundle with its prologues, or an error.
UnmapImage(bundle) ==
    /\ image' = NoImage
    /\ known' = FALSE
    /\ found' = NoTargets
    /\ captured' = bundle

Executable(place) == place.section = "text"

\* is_readable_non_executable
Data(place) == place.section = "rdata"

Pointer == 8

\* Mutant: of several matches the first is taken.
SomeMatch(matches) == matches # {}

\* require_unique
Unique(matches) == Cardinality(matches) = 1

TheMatch(matches) == CHOOSE rva \in matches : \A other \in matches : rva <= other

\* find_signature; a function that another module patched no longer matches.
Matches(h) ==
    {s.at : s \in {s \in image.signatures :
                      s.of = h /\ Executable(s)
                      /\ (s.at = Profile[h] => site[h] = "native")}}

Resolves(target, matches) ==
    /\ Unique(matches)
    /\ found' = [found EXCEPT ![target] = TheMatch(matches)]
    /\ UNCHANGED <<image, known, captured>>

-----------------------------------------------------------------------------
\* find_direct_calls_to
Callers == {c.at : c \in {c \in image.calls :
                             Executable(c) /\ c.to = found.availability}}

\* menu_gate_body_matches, four bytes before each of the two callers.
GateBodies ==
    {c - 4 : c \in {c \in Callers : \E b \in image.bodies :
                        b.at = c - 4 /\ b.to = found.availability}}

\* validate_menu_gate_vtable
Validated(t) ==
    /\ t.at % Pointer = 0 /\ Data(t)
    /\ t.invoke = found.gate /\ (t.at = Profile.vtable => site.gate = "native")
    /\ t.locator /\ t.rtti /\ t.neighbors

References(t) == {l \in image.leas : Executable(l) /\ l.to = t.at}

\* resolve_menu_gate_vtable: the validated tables that code refers to.
Vtables == {t \in image.tables : References(t) # {} /\ Validated(t)}

ResolveAvailability == Resolves("availability", Matches("availability"))

ResolveGate ==
    /\ Cardinality(Callers) = 2
    /\ Resolves("gate", GateBodies)

ResolveVtable ==
    /\ \A t \in Vtables : Cardinality(References(t)) >= 2
    /\ Resolves("vtable", {t.at : t \in Vtables})

ResolveConfig == Resolves("config", Matches("config"))

ResolveBackend == Resolves("backend", Matches("backend"))

\* What is at the addresses that were found (the gate's slot is in its table); a
\* look-alike is nobody's patch.
FoundSites ==
    [h \in Hooks |-> LET target == IF h = "gate" THEN "vtable" ELSE h
                     IN  IF found[target] = Profile[target] THEN site[h] ELSE "native"]

\* resolve_security_cookie, which reads the prologue once more.
Cookies ==
    {c.at : c \in {c \in image.cookies :
                      c.of = found.availability /\ c.at % Pointer = 0 /\ Data(c)}}

ResolveCookie ==
    /\ FoundSites.availability = "native"
    /\ Resolves("cookie", Cookies)

\* The bundle must be that of the build, if it is a known one. The prologues
\* the hooks will compare with and copy are read only now, after the scans.
Capture ==
    /\ known => found = Profile
    /\ captured' = [h \in Hooks |-> IF h \in {"config", "backend"} THEN FoundSites[h]
                                                                   ELSE "native"]
    /\ UNCHANGED <<image, known, found>>

ScanOrder == <<"availability", "gate", "vtable", "config", "backend", "cookie">>

Scanned == \A target \in DOMAIN found : found[target] # NoTarget

\* The next scan in the order of resolve.
Scan ==
    LET next == ScanOrder[1 + Cardinality({t \in DOMAIN found : found[t] # NoTarget})]
    IN  /\ ~Scanned
        /\ \/ next = "availability" /\ ResolveAvailability
           \/ next = "gate" /\ ResolveGate
           \/ next = "vtable" /\ ResolveVtable
           \/ next = "config" /\ ResolveConfig
           \/ next = "backend" /\ ResolveBackend
           \/ next = "cookie" /\ ResolveCookie

-----------------------------------------------------------------------------
\* "resolving all runtime targets instead of trusting fixed RVAs": look-alikes
\* of any target, in code, in data or as a third caller, make resolve fail
\* rather than return one of them. (A module that patched the true function
\* before the scan leaves its look-alike alone; then only the profile of a known
\* build tells.)
NeverALookAlike ==
    captured # NotCaptured /\ Scanned /\ (known \/ \A h \in Hooks : site[h] = "native")
        => found = Profile

=============================================================================
