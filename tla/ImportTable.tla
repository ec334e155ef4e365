----------------------------- MODULE ImportTable -----------------------------
(***************************************************************************)
(* The hooks on imported functions (src/src/dxgi.rs): Image::imports walks   *)
(* the import descriptors and thunks of the executable, install stores the *)
(* original of every function it wants and writes its hook into the slot.  *)
(*                                                                         *)
(* A slot is the pair of its descriptor and its index; a thunk is a name,  *)
(* an ordinal, or one whose name cannot be read. A descriptor is of the    *)
(* module "" when the walk skips it for lack of a name or of an address    *)
(* table.                                                                  *)
(***************************************************************************)
EXTENDS Integers, Sequences, FiniteSets

CONSTANTS
    ImportTables,       \* import directories an executable may have
    MaxThunks           \* thunks that are read of one descriptor: 4096

\* What install looks for in each module, in this order.
Libraries == <<"dxgi", "ags">>
WantedImports == [dxgi |-> {"CreateDXGIFactory", "CreateDXGIFactory1"},
                  ags  |-> {"agsSetDisplayMode"}]
Functions == WantedImports.dxgi \cup WantedImports.ags

Ordinal == "#1"
Unreadable == "?"

NullDescriptor == [library |-> "", names |-> FALSE, thunks |-> <<>>]

Descriptor == [library : STRING, names : BOOLEAN, thunks : Seq(STRING)]

ASSUME DirectoryAssumption ==
    /\ \A table \in ImportTables : table \in Seq(Descriptor)
    /\ MaxThunks \in Nat

VARIABLES
    directory,      \* the import directory
    library,        \* index in Libraries of the module whose imports are hooked
    descriptor,     \* index of the next descriptor
    pending,        \* slots found and not yet hooked
    patched,        \* slots that hold the hook
    originals       \* functions whose original was stored

importVars == <<directory, library, descriptor, pending, patched, originals>>

InitImports ==
    /\ directory = <<>>
    /\ library = 1 /\ descriptor = 1
    /\ pending = {}
    /\ patched = {} /\ originals = {}

\* Image::main_module finds the import directory of the executable.
OpenImports ==
    /\ directory' \in ImportTables
    /\ library' = 1 /\ descriptor' = 1
    /\ pending' = {}
    /\ patched' = {} /\ originals' = {}

\* install returns.
CloseImports ==
    /\ directory' = <<>>
    /\ library' = 1 /\ descriptor' = 1
    /\ pending' = {}
    /\ patched' = {} /\ originals' = {}

Module == Libraries[library]

Name(slot) == directory[slot[1]].thunks[slot[2]]

\* The walk goes on to the next descriptor after MaxThunks thunks, silently.
Thunks(d) == {i \in DOMAIN directory[d].thunks : i <= MaxThunks}

\* Mutant: the thunks end at the first import by ordinal.
NamedUpToOrdinal(d) ==
    {<<d, i>> : i \in {i \in Thunks(d) :
                            \A k \in 1..i : directory[d].thunks[k] # Ordinal}}

\* The imports of a descriptor by name; those by ordinal are passed over.
Named(d) == {<<d, i>> : i \in {i \in Thunks(d) : directory[d].thunks[i] # Ordinal}}

\* Directory entries to come, up to the null one.
More == descriptor <= Len(directory) /\ directory[descriptor] # NullDescriptor

Ours(d) == directory[d].library = Module

\* Every module's name is read, and of the requested module the table of names.
Malformed(d) ==
    \/ directory[d].library = Unreadable
    \/ /\ Ours(d)
       /\ \/ ~directory[d].names
          \/ \E i \in Thunks(d) : directory[d].thunks[i] = Unreadable

\* One descriptor of Image::imports; other modules are passed over.
WalkDescriptor ==
    /\ More /\ ~Malformed(descriptor)
    /\ pending' = IF Ours(descriptor) THEN pending \cup Named(descriptor) ELSE pending
    /\ descriptor' = descriptor + 1
    /\ UNCHANGED <<directory, library, patched, originals>>

WalkFails == More /\ Malformed(descriptor)

\* The imports that were found are hooked in the order of the walk.
FirstPending(slot) ==
    \A other \in pending :
        slot[1] < other[1] \/ (slot[1] = other[1] /\ slot[2] <= other[2])

\* install: the original first, then the slot; other functions are left alone.
HookImport ==
    \E slot \in pending :
        /\ ~More /\ FirstPending(slot)
        /\ pending' = pending \ {slot}
        /\ IF Name(slot) \in WantedImports[Module]
           THEN /\ originals' = originals \cup {Name(slot)}
                /\ patched' = patched \cup {slot}
           ELSE UNCHANGED <<originals, patched>>
        /\ UNCHANGED <<directory, library, descriptor>>

\* A slot cannot be written, or only after the fact: what was hooked before
\* stays hooked.
HookImportFails(late) ==
    \E slot \in pending :
        /\ ~More /\ FirstPending(slot) /\ Name(slot) \in WantedImports[Module]
        /\ originals' = originals \cup {Name(slot)}
        /\ patched' = IF late THEN patched \cup {slot} ELSE patched
        /\ UNCHANGED <<directory, library, descriptor, pending>>

NextLibrary ==
    /\ ~More /\ pending = {} /\ library < Len(Libraries)
    /\ library' = library + 1
    /\ descriptor' = 1
    /\ UNCHANGED <<directory, pending, patched, originals>>

ImportsDone == ~More /\ pending = {} /\ library = Len(Libraries)

\* install on its own.
ImportNext ==
    \/ OpenImports \/ WalkDescriptor \/ HookImport \/ NextLibrary \/ CloseImports
    \/ \E late \in BOOLEAN : HookImportFails(late)

ImportSpec == InitImports /\ [][ImportNext]_importVars

Count(lib) == Cardinality({s \in patched : directory[s[1]].library = lib})

-----------------------------------------------------------------------------
\* The slots the loader fills with a function that install is to hook.
BeforeNull == {d \in DOMAIN directory : \A k \in 1..d : directory[k] # NullDescriptor}

WantedSlots ==
    {s \in UNION {{d} \X DOMAIN directory[d].thunks : d \in BeforeNull} :
        \E lib \in DOMAIN WantedImports :
            directory[s[1]].library = lib /\ Name(s) \in WantedImports[lib]}

\* Those of them the walk can come to.
ReachedSlots == {slot \in WantedSlots : slot[2] <= MaxThunks}

\* When install has succeeded, what it left unhooked lies beyond the first
\* MaxThunks thunks of its descriptor: every other wanted slot is hooked, through
\* every descriptor and past imports by ordinal, and no slot that is not wanted.
\* (So "eldenring.exe imports neither ..." may be told only of an executable
\* whose factory imports, if any, lie there.) At any step a hooked slot has its
\* original stored, so that a call through it finds its way.
ImportsAreHooked ==
    /\ \A slot \in patched : Name(slot) \in originals
    /\ ImportsDone => patched = ReachedSlots

=============================================================================
