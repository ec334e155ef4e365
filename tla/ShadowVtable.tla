----------------------------- MODULE ShadowVtable -----------------------------
(***************************************************************************)
(* The object-local shadow vtable of one COM object address of one kind    *)
(* (src/src/dxgi.rs): installing it, expanding it when a longer interface  *)
(* of the object is queried, calling through it without a lock, retiring   *)
(* its record with the last Release, and other modules that patch the same *)
(* tables meanwhile.                                                       *)
(*                                                                         *)
(* A function pointer is the sequence of modules that run when it is       *)
(* called, outermost first. It ends in Native, or in Hook: the replacement *)
(* then looks up where to continue, which is what the readers below do.    *)
(***************************************************************************)
EXTENDS Naturals, Sequences, FiniteSetsExt, Functions

CONSTANTS
    Callers,        \* threads that call methods of the object
    Installers,     \* threads that create, query and release the object
    Overlays,       \* other modules that wrap methods
    SlotCount,      \* entries of the longest interface
    Lengths,        \* entry counts of the interfaces the object has
    Hooked,         \* slots this module replaces
    PatchAnytime,   \* whether overlays patch also while an installation runs
    LiveRoot,       \* whether the table of new objects lies in dxgi.dll
    Native,         \* the implementation in DXGI
    Hook,           \* this module's replacement
    NoThread,       \* nobody holds SHADOW_INSTALL_LOCK
    MaxRecords      \* bound: records made, so objects captured, in a behaviour

Threads == Callers \cup Installers
Slots == 1..SlotCount
Layers == Overlays \cup {Native, Hook}

\* QueryInterface and Release, which every interface has and the module hooks.
Lifecycle == 1

ASSUME ShadowAssumption ==
    /\ SlotCount \in Nat /\ MaxRecords \in Nat
    /\ Lengths \subseteq Slots
    /\ Hooked \subseteq Slots
    /\ Lifecycle \in Hooked
    /\ LiveRoot \in BOOLEAN /\ PatchAnytime \in BOOLEAN
    /\ Native # Hook /\ Native \notin Overlays /\ Hook \notin Overlays
    /\ NoThread \notin Threads

VARIABLES
    alive,          \* whether an object exists at the address
    vtable,         \* its vtable: 0 (root), a record's shadow, or Foreign
    root,           \* the table DXGI gives new objects
    foreign,        \* the table another module gave the object
    shadows,        \* the cloned tables, one per record
    records,        \* SHADOW_RECORDS for this address and kind, oldest first
    lockOwner,      \* holder of SHADOW_INSTALL_LOCK
    pc,             \* where each thread is
    local,          \* what each thread carries
    captured,       \* history: installation for the current object returned Ok
    wrapped         \* history: overlays that wrapped each slot of the object

vars == <<alive, vtable, root, foreign, shadows, records, lockOwner, pc, local,
          captured, wrapped>>

Foreign == MaxRecords + 1
Table == IF vtable = 0 THEN root ELSE IF vtable = Foreign THEN foreign ELSE shadows[vtable]

Reaches(pointer) == pointer[Len(pointer)]

Idle == [slot |-> 0, length |-> 0, record |-> 0, path |-> <<>>,
         originals |-> <<>>, due |-> {}]

Init ==
    /\ alive = FALSE
    /\ vtable = 0
    /\ root = [s \in Slots |-> <<Native>>]
    /\ foreign = root
    /\ shadows = <<>>
    /\ records = <<>>
    /\ lockOwner = NoThread
    /\ pc = [t \in Threads |-> "idle"]
    /\ local = [t \in Threads |-> Idle]
    /\ captured = FALSE
    /\ wrapped = [s \in Slots |-> {}]

Goto(t, from, to) == pc[t] = from /\ pc' = [pc EXCEPT ![t] = to]

Leave(t, from) ==
    /\ Goto(t, from, "idle")
    /\ local' = [local EXCEPT ![t] = Idle]

\* A thread that has a reference to the object and uses it.
InUse == \E t \in Threads : pc[t] \notin {"idle", "retire"}

\* find_shadow_record: the newest active record of the address, 0 for none.
NewestActive(recs) ==
    LET active == {r \in DOMAIN recs : recs[r].active}
    IN  IF active = {} THEN 0 ELSE Max(active)

FindRecord == NewestActive(records)

-----------------------------------------------------------------------------
(* install_shadow_vtable, called when the object is created and when an      *)
(* interface of it is queried through the hook.                              *)

\* The factory hook got a new object, perhaps where a dead one was.
Create(t, length) ==
    /\ ~alive
    /\ Len(records) < MaxRecords
    /\ Goto(t, "idle", "install")
    /\ alive' = TRUE
    /\ vtable' = 0
    /\ local' = [local EXCEPT ![t].length = length]
    /\ captured' = FALSE
    /\ wrapped' = [s \in Slots |-> Range(root[s]) \cap Overlays]
    /\ UNCHANGED <<root, foreign, shadows, records, lockOwner>>

\* The object's creation has not returned to the game.
Creating == ~captured /\ \E t \in Installers : pc[t] \notin {"idle", "retire"}

\* QueryInterface reaches this module's hook and returns the same object.
Query(t, length) ==
    /\ alive /\ captured
    /\ Reaches(Table[Lifecycle]) = Hook
    /\ FindRecord # 0
    /\ Goto(t, "idle", "install")
    /\ local' = [local EXCEPT ![t].length = length]
    /\ UNCHANGED <<alive, vtable, root, foreign, shadows, records, lockOwner,
                   captured, wrapped>>

\* The shadow in use is long enough, or the object has a foreign vtable.
NothingToInstall(length) ==
    /\ FindRecord # 0
    /\ vtable = FindRecord /\ records[vtable].generation # 0
          => records[vtable].generation >= length

InstallNothing(t) ==
    /\ lockOwner = NoThread
    /\ NothingToInstall(local[t].length)
    /\ Leave(t, "install")
    /\ captured' = TRUE
    /\ UNCHANGED <<alive, vtable, root, foreign, shadows, records, lockOwner,
                   wrapped>>

\* No memory for a clone, a clone too small for the longer interface, a page
\* that stays read-only, or a slot that already holds the replacement.
InstallRefused(t) ==
    /\ lockOwner = NoThread
    /\ ~NothingToInstall(local[t].length)
    /\ Leave(t, "install")
    /\ UNCHANGED <<alive, vtable, root, foreign, shadows, records, lockOwner,
                   captured, wrapped>>

Replaced(table, slots) ==
    [s \in Slots |-> IF s \in slots THEN <<Hook>> ELSE table[s]]

\* Clone the table, replace the hooked slots of the clone, publish the record.
InstallClone(t) ==
    LET length == local[t].length
        first  == [s \in 1..length |-> Table[s]]
    IN  /\ lockOwner = NoThread
        /\ FindRecord = 0
        /\ \A s \in Hooked \cap 1..length : first[s] # <<Hook>>
        /\ Goto(t, "install", "swing")
        /\ lockOwner' = t
        /\ shadows' = Append(shadows, Replaced(Table, Hooked \cap 1..length))
        /\ records' = Append(records,
              [active |-> TRUE, count |-> length, originals |-> first,
               generation |-> 0, live |-> LiveRoot /\ vtable = 0])
        /\ local' = [local EXCEPT ![t].record = vtable]
        /\ UNCHANGED <<alive, vtable, root, foreign, captured, wrapped>>

\* compare_exchange_pointer on the object's vtable pointer.
InstallSwing(t) ==
    /\ vtable = local[t].record
    /\ Goto(t, "swing", "generation")
    /\ vtable' = Len(records)
    /\ local' = [local EXCEPT ![t].record = Len(records)]
    /\ UNCHANGED <<alive, root, foreign, shadows, records, lockOwner, captured,
                   wrapped>>

\* Mutant: the lost race returns with the installation lock held.
AbandonKeepsLock(t) ==
    /\ Leave(t, "swing")
    /\ records' = [records EXCEPT ![Len(records)].active = FALSE]
    /\ UNCHANGED <<alive, vtable, root, foreign, shadows, lockOwner, captured,
                   wrapped>>

\* Another module won, or the pointer could not be made writable.
InstallAbandoned(t) ==
    /\ Leave(t, "swing")
    /\ records' = [records EXCEPT ![Len(records)].active = FALSE]
    /\ lockOwner' = NoThread
    /\ UNCHANGED <<alive, vtable, root, foreign, shadows, captured, wrapped>>

PublishGeneration(t) ==
    /\ Leave(t, "generation")
    /\ records' = [records EXCEPT ![local[t].record].generation = local[t].length]
    /\ lockOwner' = NoThread
    /\ captured' = TRUE
    /\ UNCHANGED <<alive, vtable, root, foreign, shadows, wrapped>>

-----------------------------------------------------------------------------
(* expand_owned_shadow: a longer interface of an object already captured.    *)

\* Mutants: the new slots are replaced before the tables readers use are; the
\* whole new table is read from the shadow, replacements included.
Snapshot(t, originals, table) ==
    /\ lockOwner = NoThread
    /\ FindRecord # 0 /\ ~NothingToInstall(local[t].length)
    /\ Goto(t, "install", "originals")
    /\ lockOwner' = t
    /\ local' = [local EXCEPT ![t].record = FindRecord, ![t].originals = originals]
    /\ shadows' = [shadows EXCEPT ![FindRecord] = table]
    /\ UNCHANGED <<alive, vtable, root, foreign, records, captured, wrapped>>

SlotsFirst(t) ==
    /\ FindRecord # 0
    /\ Snapshot(t, [s \in 1..local[t].length |-> <<Native>>],
                Replaced(shadows[FindRecord], Hooked \cap 1..local[t].length))

SnapshotOfShadow(t) ==
    /\ FindRecord # 0
    /\ Snapshot(t, [s \in 1..local[t].length |-> shadows[FindRecord][s]],
                shadows[FindRecord])

ExpandSnapshot(t) ==
    LET r == FindRecord
    IN  /\ lockOwner = NoThread
        /\ r # 0 /\ ~NothingToInstall(local[t].length)
        /\ Goto(t, "install", "originals")
        /\ lockOwner' = t
        /\ local' = [local EXCEPT
              ![t].record = r,
              ![t].originals = [s \in 1..local[t].length |->
                    IF s <= records[r].generation THEN records[r].originals[s]
                                                  ELSE shadows[r][s]]]
        /\ UNCHANGED <<alive, vtable, root, foreign, shadows, records, captured,
                       wrapped>>

\* Mutant: the entry count is stored before the function table it bounds.
CountFirst(t) ==
    /\ Goto(t, "originals", "entryCount")
    /\ records' = [records EXCEPT ![local[t].record].count = local[t].length]
    /\ UNCHANGED <<alive, vtable, root, foreign, shadows, lockOwner, local,
                   captured, wrapped>>

ExpandOriginals(t) ==
    /\ Goto(t, "originals", "entryCount")
    /\ records' = [records EXCEPT ![local[t].record].originals = local[t].originals]
    /\ UNCHANGED <<alive, vtable, root, foreign, shadows, lockOwner, local,
                   captured, wrapped>>

ExpandCount(t) ==
    /\ Goto(t, "entryCount", "slots")
    /\ records' = [records EXCEPT ![local[t].record].count = local[t].length]
    /\ UNCHANGED <<alive, vtable, root, foreign, shadows, lockOwner, local,
                   captured, wrapped>>

\* A wrapper that another module put around our hook stays outside it.
ExpandSlots(t) ==
    LET r     == local[t].record
        fresh == {s \in Hooked \cap 1..local[t].length : s > records[r].generation}
    IN  /\ Goto(t, "slots", "generation")
        /\ shadows' = [shadows EXCEPT ![r] = Replaced(@, fresh)]
        /\ UNCHANGED <<alive, vtable, root, foreign, records, lockOwner, local,
                       captured, wrapped>>

-----------------------------------------------------------------------------
(* release_shadow_object: the forwarded Release frees the object, then the   *)
(* record of its address is retired. COM: nobody else uses the object. A     *)
(* hook that finds no record leaves the object alone.                        *)

Release(t) ==
    /\ alive /\ ~InUse
    /\ IF Reaches(Table[Lifecycle]) = Hook
       THEN /\ FindRecord # 0
            /\ Goto(t, "idle", "retire")
            /\ local' = [local EXCEPT ![t].record = FindRecord]
       ELSE pc[t] = "idle" /\ UNCHANGED <<pc, local>>
    /\ alive' = FALSE
    /\ UNCHANGED <<vtable, root, foreign, shadows, records, lockOwner, captured,
                   wrapped>>

\* Mutant: the last Release does not retire the record.
RetireNothing(t) ==
    /\ Leave(t, "retire")
    /\ UNCHANGED <<alive, vtable, root, foreign, shadows, records, lockOwner,
                   captured, wrapped>>

Retire(t) ==
    /\ Leave(t, "retire")
    /\ records' = [records EXCEPT ![local[t].record].active = FALSE]
    /\ UNCHANGED <<alive, vtable, root, foreign, shadows, lockOwner, captured,
                   wrapped>>

-----------------------------------------------------------------------------
(* A call of a method, and where the hook goes on: find_shadow_record, then  *)
(* load_record_function. path is every module the call has run so far.       *)

Follow(t, from, pointer) ==
    /\ Goto(t, from, IF Reaches(pointer) = Hook THEN "find" ELSE "returned")
    /\ local' = [local EXCEPT ![t].path = @ \o pointer]

Call(t, s) ==
    /\ alive /\ ~Creating
    /\ Goto(t, "idle", IF Reaches(Table[s]) = Hook THEN "find" ELSE "returned")
    /\ local' = [local EXCEPT ![t].slot = s, ![t].path = Table[s], ![t].due = wrapped[s]]
    /\ UNCHANGED <<alive, vtable, root, foreign, shadows, records, lockOwner,
                   captured, wrapped>>

LookUpRecord(t) ==
    /\ Goto(t, "find", IF FindRecord = 0 THEN "lost" ELSE "count")
    /\ local' = [local EXCEPT ![t].record = FindRecord]
    /\ UNCHANGED <<alive, vtable, root, foreign, shadows, records, lockOwner,
                   captured, wrapped>>

LoadCount(t) ==
    /\ Goto(t, "count",
            IF local[t].slot > records[local[t].record].count THEN "lost" ELSE "saved")
    /\ UNCHANGED <<alive, vtable, root, foreign, shadows, records, lockOwner,
                   local, captured, wrapped>>

Saved(t) == records[local[t].record].originals[local[t].slot]

\* Mutant: the hook goes on to what was saved, whoever patched the root since.
SavedOnly(t) == Saved(t)

\* With live_root_slots, the root's entry as it is now, unless it is ours.
Continuation(t) ==
    LET current == root[local[t].slot]
    IN  IF records[local[t].record].live /\ current # <<Hook>>
        THEN current ELSE Saved(t)

LoadFunction(t) ==
    /\ Follow(t, "saved", Continuation(t))
    /\ UNCHANGED <<alive, vtable, root, foreign, shadows, records, lockOwner,
                   captured, wrapped>>

Return(t) ==
    /\ Leave(t, pc[t])
    /\ pc[t] \in {"returned", "lost"}
    /\ UNCHANGED <<alive, vtable, root, foreign, shadows, records, lockOwner,
                   captured, wrapped>>

-----------------------------------------------------------------------------
(* Other modules: they patch the table the object uses in place, the table   *)
(* all objects share, or give the object a patched copy of its table.        *)

Wrap(o, pointer) == <<o>> \o pointer

MayPatch == PatchAnytime \/ lockOwner = NoThread

PatchInPlace(o, s) ==
    LET wrapping == [Table EXCEPT ![s] = Wrap(o, @)]
    IN  /\ MayPatch /\ alive /\ o \notin Range(Table[s])
        /\ root' = IF vtable = 0 THEN wrapping ELSE root
        /\ foreign' = IF vtable = Foreign THEN wrapping ELSE foreign
        /\ shadows' = IF vtable \in DOMAIN shadows
                      THEN [shadows EXCEPT ![vtable] = wrapping] ELSE shadows
        /\ wrapped' = [wrapped EXCEPT ![s] = @ \cup {o}]
        /\ UNCHANGED <<alive, vtable, records, lockOwner, pc, local, captured>>

\* The shared table counts for an object whose hook follows it live.
PatchRoot(o, s) ==
    LET r == FindRecord
        followed == /\ alive /\ Reaches(Table[s]) = Hook
                    /\ r # 0 /\ records[r].live /\ s <= records[r].count
    IN  /\ MayPatch /\ ~(alive /\ vtable = 0) /\ o \notin Range(root[s])
        /\ root' = [root EXCEPT ![s] = Wrap(o, @)]
        /\ wrapped' = IF followed THEN [wrapped EXCEPT ![s] = @ \cup {o}] ELSE wrapped
        /\ UNCHANGED <<alive, vtable, foreign, shadows, records, lockOwner, pc,
                       local, captured>>

ReplaceVtable(o, s) ==
    /\ MayPatch /\ alive /\ vtable # Foreign /\ o \notin Range(Table[s])
    /\ vtable' = Foreign
    /\ foreign' = [Table EXCEPT ![s] = Wrap(o, @)]
    /\ wrapped' = [wrapped EXCEPT ![s] = @ \cup {o}]
    /\ UNCHANGED <<alive, root, shadows, records, lockOwner, pc, local, captured>>

-----------------------------------------------------------------------------
Install(t) ==
    \/ InstallNothing(t) \/ InstallClone(t) \/ InstallSwing(t)
    \/ InstallAbandoned(t) \/ PublishGeneration(t)
    \/ InstallRefused(t) \/ ExpandSnapshot(t) \/ ExpandOriginals(t)
    \/ ExpandCount(t) \/ ExpandSlots(t)

Read(t) == LookUpRecord(t) \/ LoadCount(t) \/ LoadFunction(t) \/ Return(t)

Next ==
    \/ \E t \in Installers :
          \/ \E length \in Lengths : Create(t, length) \/ Query(t, length)
          \/ Install(t) \/ Release(t) \/ Retire(t)
    \/ \E t \in Callers : Read(t) \/ \E s \in Slots : Call(t, s)
    \/ \E o \in Overlays, s \in Slots :
          PatchInPlace(o, s) \/ PatchRoot(o, s) \/ ReplaceVtable(o, s)

Spec == Init /\ [][Next]_vars

-----------------------------------------------------------------------------
Holding == {"swing", "generation", "originals", "entryCount", "slots"}

Locations ==
    Holding \cup {"idle", "install", "retire", "find", "count", "saved",
                  "returned", "lost"}

Pointers ==
    {p \in Seq(Layers) :
        /\ p # <<>> /\ Reaches(p) \in {Native, Hook}
        /\ \A i \in 1..Len(p) - 1 : p[i] \in Overlays}

Tables == [Slots -> Pointers]

Records == [active : BOOLEAN, live : BOOLEAN, count : Lengths,
            generation : Lengths \cup {0}, originals : Seq(Pointers)]

Locals == [slot : Slots \cup {0}, length : Lengths \cup {0}, record : 0..Foreign,
           path : Seq(Layers), originals : Seq(Pointers),
           due : SUBSET Overlays]

TypeOK ==
    /\ alive \in BOOLEAN /\ captured \in BOOLEAN
    /\ vtable \in {0, Foreign} \cup DOMAIN shadows
    /\ root \in Tables /\ foreign \in Tables
    /\ shadows \in Seq(Tables) /\ records \in Seq(Records)
    /\ Len(shadows) = Len(records) /\ Len(records) <= MaxRecords
    /\ pc \in [Threads -> Locations] /\ local \in [Threads -> Locals]
    /\ lockOwner \in Threads \cup {NoThread}
    /\ \A t \in Threads : pc[t] \in Holding <=> lockOwner = t
    /\ wrapped \in [Slots -> SUBSET Overlays]

\* A call through a replaced slot always finds its record and, within the
\* record's entry count, a function to go on to: the game is never answered
\* by the hook's own error value, at whatever step of an installation or
\* expansion the lock-free reader looks.
CallsAnswered == \A t \in Threads : pc[t] # "lost"

\* A reader that passed the entry-count check reads inside the function table
\* it loads next, although count and table are two atomics of the record.
ReadsInBounds ==
    \A t \in Threads :
        pc[t] = "saved" => local[t].slot \in DOMAIN records[local[t].record].originals

\* The function saved for a slot never leads back into the replacement.
NoRecursion ==
    \A t \in Threads : Cardinality({i \in DOMAIN local[t].path : local[t].path[i] = Hook}) <= 1

\* "Release only retires the address so allocator reuse cannot inherit an old
\* hook chain": at most one record of the address is active, and none is once
\* the Release that freed the object has returned.
RecordsAreCurrent ==
    /\ Cardinality({r \in DOMAIN records : records[r].active}) <= 1
    /\ FindRecord # 0 /\ ~alive => \E t \in Threads : pc[t] = "retire"

\* "captured the game swap chain with an object-local shadow vtable; HDR
\* observation hooks are active": when installation returned Ok, the methods
\* of the object do reach the hooks.
CapturedMeansHooked ==
    alive /\ captured
        => \A s \in Hooked \cap 1..Min(Lengths) : Reaches(Table[s]) = Hook

\* "Preserves the hook chain of overlays": a call runs every other module that
\* had wrapped the method, in the object's own table or in the live root.
WrappersAreCalled ==
    \A t \in Threads :
        pc[t] = "returned" => local[t].due \subseteq Range(local[t].path)

=============================================================================
