-------------------------- MODULE ShadowVtableProofs --------------------------
(***************************************************************************)
(* Proofs about ShadowVtable, for any callers, installers, other modules   *)
(* that patch, interfaces and objects captured one after the other: types, *)
(* one record at a time, and calls that find a function to go on to; with  *)
(* one installer, that a captured object is hooked; and for patches that   *)
(* do not fall into an installation, that every wrapper is called.         *)
(***************************************************************************)
EXTENDS ShadowVtable, SequenceTheorems, FiniteSetTheorems, WellFoundedInduction, TLAPS

Retiring == \E t \in Threads : pc[t] = "retire"
Swinging == \E t \in Threads : pc[t] = "swing"

\* The object has gone through its hooks since the record's table was swung in.
Attached == alive /\ FindRecord # 0 /\ ~Retiring /\ ~Swinging

Searching == {"find", "count", "saved"}
Expanding == {"originals", "entryCount", "slots"}
Installing == Holding \cup {"install"}

\* The hooked slots of every interface, the lifecycle slot among them.
Common == {s \in Hooked : \A length \in Lengths : s <= length}

IsNative(table, s) == Reaches(table[s]) = Native

-----------------------------------------------------------------------------
(* The inductive invariant.                                                  *)

\* "Active records never overlap at one address."
OneActive ==
    \A r, q \in DOMAIN records : records[r].active /\ records[q].active => r = q

\* Who is where, and the reference that keeps the object alive.
ObjectInUse ==
    /\ \A t \in Threads :
        /\ pc[t] \in Installing \cup {"retire"} => t \in Installers
        /\ pc[t] \in Installing => local[t].length \in Lengths
        /\ pc[t] \notin {"idle", "retire"} => alive
    /\ FindRecord # 0 /\ ~alive => Retiring

\* One thread at most retires, and the active record.
RetiredRecord ==
    /\ \A t \in Threads : pc[t] = "retire" => FindRecord # 0 /\ local[t].record = FindRecord
    /\ \A t, u \in Threads : pc[t] = "retire" /\ pc[u] = "retire" => t = u

\* What the object's table and the table of new objects lead to.
TablesLead ==
    /\ \A s \in Slots : IsNative(root, s)
    /\ alive /\ ~Attached =>
        /\ vtable \in {0, Foreign}
        /\ \A s \in Slots : IsNative(Table, s)
    /\ Attached =>
        /\ vtable \in {FindRecord, Foreign}
        /\ \A s \in Common : ~IsNative(Table, s)
        /\ \A s \in Slots : ~IsNative(Table, s) => s <= records[FindRecord].count

\* What an active record holds for every reader that may have found it.
RecordCovers ==
    \A r \in DOMAIN records : records[r].active =>
        /\ records[r].count <= Len(records[r].originals)
        /\ \A s \in 1..Len(records[r].originals) : IsNative(records[r].originals, s)
        /\ \A s \in Common : ~IsNative(shadows[r], s)
        /\ \A s \in Slots : ~IsNative(shadows[r], s) => s <= records[r].count

\* A call that is looking for its function will find it.
ReaderFinds ==
    \A t \in Threads :
        /\ pc[t] # "lost"
        /\ pc[t] \in Searching =>
            /\ Attached
            /\ local[t].slot \in 1..records[FindRecord].count
        /\ pc[t] \in {"count", "saved"} => local[t].record = FindRecord

\* While nobody captures or retires, the three lengths of the record agree.
\* Swinging and expanding are where they do not.
LengthsAgree ==
    /\ Attached /\ lockOwner = NoThread =>
        /\ records[FindRecord].generation = records[FindRecord].count
        /\ records[FindRecord].count = Len(records[FindRecord].originals)
    /\ \A t \in Threads :
        LET r == FindRecord
            length == local[t].length
        IN  /\ pc[t] = "swing" =>
                /\ r = Len(records) /\ r # 0 /\ ~captured /\ ~Retiring
                /\ records[r].count = length /\ Len(records[r].originals) = length
            /\ pc[t] \in Holding \ {"swing"} => Attached /\ local[t].record = r
            /\ pc[t] = "generation" =>
                records[r].count = length /\ Len(records[r].originals) = length
            /\ pc[t] \in Expanding => records[r].generation < length
            /\ pc[t] \in {"originals", "entryCount"} =>
                records[r].count = records[r].generation
            /\ pc[t] = "originals" =>
                /\ Len(records[r].originals) = records[r].count
                /\ Len(local[t].originals) = length
                /\ \A s \in 1..length : IsNative(local[t].originals, s)
                /\ \A s \in 1..records[r].count :
                    local[t].originals[s] = records[r].originals[s]
            /\ pc[t] \in {"entryCount", "slots"} => Len(records[r].originals) = length
            /\ pc[t] = "slots" => records[r].count = length

\* Until its installation returned Ok, only its creator works on the object; the
\* interfaces queried later find the record.
CreatorAlone ==
    /\ ~captured =>
        /\ \A t, u \in Threads : pc[t] \in Installing /\ pc[u] \in Installing => t = u
        /\ \A t \in Threads : pc[t] = "install" => Len(records) < MaxRecords
    /\ captured => \A t \in Threads : pc[t] = "install" => Attached

\* A path has entered the replacement once at most, as its last step until the
\* reader goes on.
PathsEnterOnce ==
    \A t \in Threads :
        /\ pc[t] \in Searching => local[t].path \in Pointers /\ Reaches(local[t].path) = Hook
        /\ \A i, j \in DOMAIN local[t].path :
            local[t].path[i] = Hook /\ local[t].path[j] = Hook => i = j

IInv ==
    /\ TypeOK /\ OneActive /\ ObjectInUse /\ RetiredRecord /\ TablesLead
    /\ RecordCovers /\ ReaderFinds /\ LengthsAgree /\ CreatorAlone
    /\ PathsEnterOnce

-----------------------------------------------------------------------------
(* Pointers, tables and records.                                             *)

\* A pointer is wrappers, then the implementation or the replacement.
LEMMA PointerShape ==
    ASSUME NEW p \in Pointers
    PROVE  /\ p \in Seq(Layers) /\ Len(p) \in Nat \ {0} /\ DOMAIN p = 1..Len(p)
           /\ Reaches(p) \in {Native, Hook} /\ Reaches(p) = p[Len(p)]
           /\ \A i \in DOMAIN p : p[i] = Hook => i = Len(p) /\ Reaches(p) = Hook
<1>1. p \in Seq(Layers) /\ Len(p) \in Nat \ {0} /\ DOMAIN p = 1..Len(p)
    BY EmptySeq, LenProperties DEF Pointers
<1>2. \A i \in 1..Len(p) - 1 : p[i] # Hook
    BY ShadowAssumption DEF Pointers
<1> QED BY <1>1, <1>2 DEF Pointers, Reaches

\* The functions that this module and DXGI start with.
LEMMA BarePointer ==
    ASSUME NEW f \in {Native, Hook}
    PROVE  <<f>> \in Pointers /\ Reaches(<<f>>) = f
    BY DEF Pointers, Reaches, Layers

\* Wrapping adds the wrapper and leads where the wrapped function leads.
LEMMA WrapPointer ==
    ASSUME NEW o \in Overlays, NEW p \in Pointers
    PROVE  /\ Wrap(o, p) \in Pointers /\ Reaches(Wrap(o, p)) = Reaches(p)
           /\ Range(Wrap(o, p)) = {o} \cup Range(p)
<1> DEFINE w == Wrap(o, p)
<1>1. /\ w \in Seq(Layers) /\ Len(w) = 1 + Len(p) /\ w[1] = o
      /\ \A i \in 1..Len(p) : w[i + 1] = p[i]
    <2>1. <<o>> \in Seq(Layers) /\ Len(<<o>>) = 1 /\ <<o>>[1] = o
        BY DEF Layers
    <2>2. /\ w \in Seq(Layers) /\ Len(w) = Len(<<o>>) + Len(p)
          /\ \A i \in 1..Len(<<o>>) + Len(p) :
                w[i] = IF i <= Len(<<o>>) THEN <<o>>[i] ELSE p[i - Len(<<o>>)]
        BY <2>1, PointerShape, ConcatProperties DEF Wrap
    <2> QED BY <2>1, <2>2, PointerShape
<1> HIDE DEF w
<1>2. Reaches(w) = Reaches(p)
    BY <1>1, PointerShape DEF Reaches
<1>3. \A i \in 1..Len(w) - 1 : w[i] \in Overlays
    <2>1. ASSUME NEW i \in 2..Len(w) - 1 PROVE w[i] \in Overlays
        <3>1. i - 1 \in 1..Len(p) - 1 /\ i = (i - 1) + 1 /\ i - 1 \in 1..Len(p)
            BY <1>1, PointerShape
        <3>2. w[i] = p[i - 1]
            BY <1>1, <3>1
        <3> QED BY <3>1, <3>2 DEF Pointers
    <2> QED BY <1>1, <2>1
<1>4. w # <<>>
    BY <1>1, PointerShape, EmptySeq
<1>5. w \in Pointers
    BY <1>1, <1>2, <1>3, <1>4, PointerShape DEF Pointers
<1>6. Range(w) = {o} \cup Range(p)
    <2>1. DOMAIN w = 1..Len(p) + 1 /\ DOMAIN p = 1..Len(p) /\ Len(p) \in Nat
        BY <1>1, PointerShape, LenProperties
    <2>2. ASSUME NEW x \in Range(p) PROVE x \in Range(w)
        <3>1. PICK i \in 1..Len(p) : p[i] = x
            BY <2>1, <2>2 DEF Range
        <3> QED BY <1>1, <2>1, <3>1 DEF Range
    <2>3. ASSUME NEW x \in Range(w) PROVE x = o \/ x \in Range(p)
        <3>1. PICK i \in 1..Len(p) + 1 : w[i] = x
            BY <2>1, <2>3 DEF Range
        <3>2. i = 1 \/ (i - 1 \in 1..Len(p) /\ w[(i - 1) + 1] = p[i - 1])
            BY <1>1, <2>1, <3>1
        <3> QED BY <1>1, <2>1, <3>1, <3>2 DEF Range
    <2>4. o \in Range(w)
        BY <1>1, <2>1 DEF Range
    <2> QED BY <2>2, <2>3, <2>4
<1> QED BY <1>2, <1>5, <1>6 DEF w

\* A reader goes on from the replacement to a function that leads to DXGI.
LEMMA FollowedPath ==
    ASSUME NEW p \in Pointers, NEW q \in Pointers, Reaches(q) = Native
    PROVE  /\ p \o q \in Seq(Layers) /\ Range(p \o q) = Range(p) \cup Range(q)
           /\ \A i, j \in DOMAIN (p \o q) :
                (p \o q)[i] = Hook /\ (p \o q)[j] = Hook => i = j
<1> DEFINE c == p \o q
<1>1. /\ c \in Seq(Layers) /\ Len(c) = Len(p) + Len(q)
      /\ \A i \in 1..Len(p) + Len(q) : c[i] = IF i <= Len(p) THEN p[i] ELSE q[i - Len(p)]
    BY PointerShape, ConcatProperties
<1>2. /\ DOMAIN c = 1..Len(p) + Len(q) /\ Len(p) \in Nat /\ Len(q) \in Nat
      /\ DOMAIN p = 1..Len(p) /\ DOMAIN q = 1..Len(q)
    BY <1>1, PointerShape, LenProperties
<1> HIDE DEF c
<1>3. ASSUME NEW i \in DOMAIN c, c[i] = Hook PROVE i = Len(p)
    <2>1. CASE i <= Len(p)
        BY <1>1, <1>2, <1>3, <2>1, PointerShape
    <2>2. CASE i > Len(p)
        <3>1. i - Len(p) \in DOMAIN q /\ q[i - Len(p)] = Hook
            BY <1>1, <1>2, <1>3, <2>2
        <3> QED BY <3>1, PointerShape, ShadowAssumption
    <2> QED BY <1>2, <2>1, <2>2
<1>4. Range(c) = Range(p) \cup Range(q)
    <2>1. ASSUME NEW i \in 1..Len(p) PROVE c[i] = p[i] /\ i \in DOMAIN c
        BY <1>1, <1>2
    <2>2. ASSUME NEW i \in 1..Len(q)
          PROVE  c[Len(p) + i] = q[i] /\ Len(p) + i \in DOMAIN c
        BY <1>1, <1>2
    <2>3. ASSUME NEW i \in DOMAIN c, i > Len(p)
          PROVE  i - Len(p) \in 1..Len(q) /\ c[i] = q[i - Len(p)]
        BY <1>1, <1>2, <2>3
    <2>4. Range(p) \subseteq Range(c) /\ Range(q) \subseteq Range(c)
        BY <1>2, <2>1, <2>2 DEF Range
    <2>5. ASSUME NEW i \in DOMAIN c PROVE c[i] \in Range(p) \cup Range(q)
        BY <1>2, <2>1, <2>3 DEF Range
    <2> QED BY <2>4, <2>5 DEF Range
<1> QED BY <1>1, <1>3, <1>4 DEF c

\* With one active record at most, the newest is the one.
LEMMA FoundRecord ==
    ASSUME NEW recs \in Seq(Records),
           \A r, q \in DOMAIN recs : recs[r].active /\ recs[q].active => r = q
    PROVE  /\ NewestActive(recs) = 0 \/ NewestActive(recs) \in DOMAIN recs
           /\ NewestActive(recs) \in Nat
           /\ NewestActive(recs) # 0 => recs[NewestActive(recs)].active
           /\ \A r \in DOMAIN recs : recs[r].active => r = NewestActive(recs)
           /\ DOMAIN recs = 1..Len(recs) /\ Len(recs) \in Nat
<1> DEFINE found == {r \in DOMAIN recs : recs[r].active}
<1>1. DOMAIN recs = 1..Len(recs) /\ Len(recs) \in Nat
    BY LenProperties
<1>2. CASE found = {}
    BY <1>1, <1>2 DEF NewestActive
<1>3. ASSUME NEW r \in found PROVE NewestActive(recs) = r
    <2>1. found = {r} /\ r >= r
        BY <1>1, <1>3
    <2>2. Max(found) = r
        BY <2>1 DEF Max
    <2> QED BY <1>3, <2>2 DEF NewestActive
<1> QED BY <1>1, <1>2, <1>3

\* One record, or one table, changes.
LEMMA ChangedEntry ==
    ASSUME NEW S, NEW old \in Seq(S), NEW r \in DOMAIN old, NEW e \in S, NEW new,
           new = [old EXCEPT ![r] = e]
    PROVE  /\ new \in Seq(S) /\ Len(new) = Len(old) /\ DOMAIN new = DOMAIN old
           /\ new[r] = e /\ \A q \in DOMAIN old : q # r => new[q] = old[q]
<1>1. DOMAIN old = 1..Len(old)
    BY LenProperties
<1>2. /\ new \in Seq(S) /\ Len(new) = Len(old)
      /\ \A j \in 1..Len(old) : new[j] = IF j = r THEN e ELSE old[j]
    BY <1>1, ExceptSeq
<1> QED BY <1>1, <1>2, LenProperties

\* Replacing slots of a table.
LEMMA ReplacedTable ==
    ASSUME NEW table \in Tables, NEW slots \in SUBSET Slots
    PROVE  /\ Replaced(table, slots) \in Tables
           /\ \A s \in slots : ~IsNative(Replaced(table, slots), s)
           /\ \A s \in Slots \ slots : Replaced(table, slots)[s] = table[s]
    BY BarePointer, ShadowAssumption DEF Replaced, Tables, IsNative

\* Wrapping one slot of a table.
LEMMA WrappedTable ==
    ASSUME NEW table \in Tables, NEW o \in Overlays, NEW s \in Slots
    PROVE  LET new == [table EXCEPT ![s] = Wrap(o, @)]
           IN  /\ new \in Tables
               /\ \A x \in Slots : IsNative(new, x) <=> IsNative(table, x)
               /\ \A x \in Slots : Reaches(new[x]) = Reaches(table[x])
               /\ Range(new[s]) = {o} \cup Range(table[s])
               /\ \A x \in Slots : x # s => new[x] = table[x]
    BY WrapPointer DEF Tables, IsNative

-----------------------------------------------------------------------------
(* What the steps have in common.                                            *)

\* Facts about the records and the table in use.
LEMMA RecordNow ==
    ASSUME TypeOK, OneActive
    PROVE  /\ FindRecord \in Nat
           /\ FindRecord = 0 \/ FindRecord \in DOMAIN records
           /\ FindRecord # 0 => records[FindRecord].active
           /\ \A r \in DOMAIN records : records[r].active => r = FindRecord
<1>1. records \in Seq(Records)
    BY DEF TypeOK
<1> QED BY <1>1, FoundRecord DEF OneActive, FindRecord

LEMMA RecordTypes ==
    ASSUME TypeOK
    PROVE  /\ DOMAIN records = 1..Len(records) /\ DOMAIN shadows = DOMAIN records
           /\ Len(records) \in 0..MaxRecords
           /\ \A r \in DOMAIN records :
                /\ records[r] \in Records /\ shadows[r] \in Tables
                /\ records[r].count \in Lengths /\ records[r].count \in 1..SlotCount
                /\ records[r].generation \in 0..SlotCount
                /\ records[r].active \in BOOLEAN
                /\ records[r].originals \in Seq(Pointers)
                /\ Len(records[r].originals) \in Nat
                /\ DOMAIN records[r].originals = 1..Len(records[r].originals)
           /\ Lengths \subseteq 1..SlotCount /\ SlotCount \in Nat
           /\ vtable \in 0..Foreign /\ Table \in Tables
<1>1. records \in Seq(Records) /\ shadows \in Seq(Tables) /\ Len(shadows) = Len(records)
    BY DEF TypeOK
<1>2. /\ DOMAIN records = 1..Len(records) /\ Len(records) \in Nat
      /\ DOMAIN shadows = DOMAIN records
    BY <1>1, LenProperties
<1>3. Len(records) \in 0..MaxRecords /\ MaxRecords \in Nat
    BY <1>2, ShadowAssumption DEF TypeOK
<1>4. \A r \in DOMAIN records : records[r] \in Records /\ shadows[r] \in Tables
    BY <1>1, <1>2, ElementOfSeq
<1>5. Lengths \subseteq 1..SlotCount /\ SlotCount \in Nat
    BY ShadowAssumption DEF Slots
<1>6. ASSUME NEW r \in DOMAIN records
      PROVE  /\ records[r].count \in Lengths /\ records[r].generation \in Lengths \cup {0}
             /\ records[r].active \in BOOLEAN
             /\ records[r].originals \in Seq(Pointers)
    BY <1>4 DEF Records
<1>7. ASSUME NEW r \in DOMAIN records
      PROVE  /\ records[r].count \in 1..SlotCount /\ records[r].generation \in 0..SlotCount
             /\ Len(records[r].originals) \in Nat
             /\ DOMAIN records[r].originals = 1..Len(records[r].originals)
    <2>0. records[r].count \in Lengths /\ records[r].generation \in Lengths \cup {0}
        BY <1>6
    <2>4. \A g \in Lengths \cup {0} : g \in 0..SlotCount
        BY <1>5
    <2>1. records[r].count \in 1..SlotCount /\ records[r].generation \in 0..SlotCount
        BY <1>5, <2>0, <2>4
    <2>2. records[r].originals \in Seq(Pointers)
        BY <1>6
    <2>3. /\ Len(records[r].originals) \in Nat
          /\ DOMAIN records[r].originals = 1..Len(records[r].originals)
        BY <2>2, LenProperties
    <2> QED BY <2>1, <2>3
<1>8. vtable \in 0..Foreign
    <2>1. vtable \in {0, Foreign} \cup DOMAIN records
        BY <1>2 DEF TypeOK
    <2> QED BY <1>2, <1>3, <2>1 DEF Foreign
<1>9. Table \in Tables
    BY <1>2, <1>4 DEF TypeOK, Table
<1> QED BY <1>2, <1>3, <1>4, <1>5, <1>6, <1>7, <1>8, <1>9

LEMMA TypesNow ==
    ASSUME TypeOK
    PROVE  /\ \A t \in Threads : /\ local[t] \in Locals /\ pc[t] \in Locations
                                 /\ pc[t] \in Holding <=> lockOwner = t
           /\ \A s \in Slots : root[s] \in Pointers /\ foreign[s] \in Pointers
           /\ \A s \in Slots : wrapped[s] \in SUBSET Overlays
    BY DEF TypeOK, Tables

\* The tables and the record stay as they are, and nobody takes up or ends a
\* retirement or a swing.
Untouched ==
    /\ UNCHANGED <<alive, vtable, root, foreign, shadows, records>>
    /\ Retiring' = Retiring /\ Swinging' = Swinging

LEMMA UntouchedKeeps ==
    ASSUME IInv, Untouched
    PROVE  /\ FindRecord' = FindRecord /\ Table' = Table /\ Attached' = Attached
           /\ OneActive' /\ TablesLead' /\ RecordCovers'
<1>1. FindRecord' = FindRecord /\ Table' = Table
    BY DEF Untouched, FindRecord, Table, Foreign
<1>2. Attached' = Attached
    BY <1>1 DEF Untouched, Attached
<1> QED BY <1>1, <1>2 DEF Untouched, IInv, OneActive, TablesLead, RecordCovers

LEMMA MovedUntouched ==
    ASSUME TypeOK, NEW t \in Threads, NEW from, NEW to, Goto(t, from, to),
           from \notin {"retire", "swing"}, to \notin {"retire", "swing"},
           UNCHANGED <<alive, vtable, root, foreign, shadows, records>>
    PROVE  Untouched
<1>1. Retiring' = Retiring
    BY DEF Goto, TypeOK, Retiring
<1>2. Swinging' = Swinging
    BY DEF Goto, TypeOK, Swinging
<1> QED BY <1>1, <1>2 DEF Untouched

\* Types after a move that does not take or release the lock.
LEMMA MovedTypes ==
    ASSUME TypeOK, NEW t \in Threads, NEW from, NEW to, Goto(t, from, to),
           from \notin Holding, to \in Locations \ Holding, local' \in [Threads -> Locals],
           UNCHANGED <<alive, vtable, root, foreign, shadows, records, lockOwner, captured, wrapped>>
    PROVE  TypeOK'
<1>1. pc' \in [Threads -> Locations]
    BY DEF Goto, TypeOK
<1>2. \A u \in Threads : pc'[u] \in Holding <=> pc[u] \in Holding
    BY DEF Goto, TypeOK
<1>3. \A u \in Threads : pc'[u] \in Holding <=> lockOwner' = u
    BY <1>2 DEF TypeOK
<1> QED BY <1>1, <1>3 DEF TypeOK, Foreign

\* A thread takes up a record, or a length.
LEMMA RecordTaken ==
    ASSUME TypeOK, NEW t \in Threads, NEW r \in 0..Foreign,
           local' = [local EXCEPT ![t].record = r]
    PROVE  local' \in [Threads -> Locals]
<1> DEFINE new == [local[t] EXCEPT !.record = r]
<1>1. local \in [Threads -> Locals] /\ local[t] \in Locals
    BY DEF TypeOK
<1>2. new \in Locals
    BY <1>1 DEF Locals
<1>3. local' = [local EXCEPT ![t] = new]
    BY Zenon
<1> HIDE DEF new
<1> QED BY <1>1, <1>2, <1>3

LEMMA LengthTaken ==
    ASSUME TypeOK, NEW t \in Threads, NEW length \in Lengths,
           local' = [local EXCEPT ![t].length = length]
    PROVE  local' \in [Threads -> Locals]
<1> DEFINE new == [local[t] EXCEPT !.length = length]
<1>1. local \in [Threads -> Locals] /\ local[t] \in Locals
    BY DEF TypeOK
<1>2. new \in Locals
    BY <1>1 DEF Locals
<1>3. local' = [local EXCEPT ![t] = new]
    BY Zenon
<1> HIDE DEF new
<1> QED BY <1>1, <1>2, <1>3

\* In an object that is hooked nobody retires or swings; a slot that does not
\* lead to DXGI is one of the record's.
LEMMA HookedSlot ==
    ASSUME IInv, alive, NEW s \in Slots, Reaches(Table[s]) = Hook
    PROVE  Attached /\ s \in 1..records[FindRecord].count
<1>1. ~IsNative(Table, s) /\ s \in Nat /\ s >= 1
    BY ShadowAssumption DEF IsNative, Slots
<1>2. Attached /\ s <= records[FindRecord].count
    BY <1>1 DEF IInv, TablesLead
<1>3. records[FindRecord].count \in Nat
    BY <1>2, RecordNow, RecordTypes DEF IInv, Attached
<1> QED BY <1>1, <1>2, <1>3

\* A reader has the active record, or will find it, and its slot has an entry.
LEMMA SearchingReader ==
    ASSUME IInv, NEW t \in Threads, pc[t] \in Searching
    PROVE  /\ FindRecord \in DOMAIN records /\ FindRecord # 0
           /\ local[t].slot \in 1..records[FindRecord].count
           /\ local[t].slot \in Slots
           /\ local[t].slot \in DOMAIN records[FindRecord].originals
           /\ IsNative(records[FindRecord].originals, local[t].slot)
<1> DEFINE r == FindRecord
<1> DEFINE s == local[t].slot
<1>1. /\ r \in DOMAIN records /\ r # 0 /\ records[r].active
      /\ s \in 1..records[r].count
    BY RecordNow DEF IInv, ReaderFinds, Attached
<1>2. /\ records[r].count \in 1..SlotCount /\ SlotCount \in Nat
      /\ Len(records[r].originals) \in Nat
      /\ DOMAIN records[r].originals = 1..Len(records[r].originals)
    BY <1>1, RecordTypes DEF IInv
<1>3. /\ records[r].count <= Len(records[r].originals)
      /\ \A x \in 1..Len(records[r].originals) : IsNative(records[r].originals, x)
    BY <1>1 DEF IInv, RecordCovers
<1>4. s \in Slots /\ s \in 1..Len(records[r].originals)
    BY <1>1, <1>2, <1>3 DEF Slots
<1> QED BY <1>1, <1>2, <1>3, <1>4

\* Saved and live continuations of a reader lead to DXGI.
LEMMA ContinuationLeads ==
    ASSUME IInv, NEW t \in Threads, pc[t] = "saved"
    PROVE  /\ local[t].slot \in DOMAIN records[local[t].record].originals
           /\ Continuation(t) \in Pointers /\ Reaches(Continuation(t)) = Native
<1> DEFINE r == FindRecord
<1> DEFINE s == local[t].slot
<1>1. /\ r \in DOMAIN records /\ s \in Slots /\ s \in DOMAIN records[r].originals
      /\ IsNative(records[r].originals, s)
    BY SearchingReader DEF Searching
<1>2. local[t].record = r
    BY DEF IInv, ReaderFinds
<1>3. records[r].originals[s] \in Pointers
    BY <1>1, RecordTypes, ElementOfSeq DEF IInv
<1>4. root[s] \in Pointers /\ Reaches(root[s]) = Native
    BY <1>1, TypesNow DEF IInv, TablesLead, IsNative
<1> QED BY <1>1, <1>2, <1>3, <1>4 DEF Continuation, Saved, IsNative

-----------------------------------------------------------------------------
(* The initial state and the steps of callers.                               *)

LEMMA InitHolds == Init => IInv
<1> SUFFICES ASSUME Init PROVE IInv
    OBVIOUS
<1> USE DEF Init
<1>1. \A s \in Slots : root[s] = <<Native>>
    OBVIOUS
<1>2. root \in Tables /\ foreign \in Tables /\ \A s \in Slots : IsNative(root, s)
    BY <1>1, BarePointer DEF Tables, IsNative
<1>3. shadows \in Seq(Tables) /\ records \in Seq(Records) /\ Len(shadows) = 0 /\ Len(records) = 0
      /\ DOMAIN records = {}
    BY EmptySeq
<1>4. Idle \in Locals /\ Idle.path = <<>> /\ DOMAIN Idle.path = {}
    BY ShadowAssumption, EmptySeq DEF Idle, Locals, Foreign
<1>5. TypeOK
    <2>1. pc \in [Threads -> Locations] /\ \A t \in Threads : pc[t] \notin Holding
        BY DEF Locations, Holding
    <2>2. local \in [Threads -> Locals] /\ wrapped \in [Slots -> SUBSET Overlays]
        BY <1>4
    <2>3. \A t \in Threads : lockOwner # t
        BY ShadowAssumption
    <2>4. /\ alive \in BOOLEAN /\ captured \in BOOLEAN /\ vtable \in {0, Foreign} \cup DOMAIN shadows
          /\ lockOwner \in Threads \cup {NoThread}
        OBVIOUS
    <2>5. Len(records) <= MaxRecords
        BY <1>3, ShadowAssumption
    <2> HIDE DEF Init
    <2> QED BY <1>2, <1>3, <2>1, <2>2, <2>3, <2>4, <2>5 DEF TypeOK
<1>6. FindRecord = 0
    BY <1>3 DEF FindRecord, NewestActive
<1>7. \A t \in Threads : pc[t] = "idle" /\ local[t] = Idle
    OBVIOUS
<1>8. OneActive /\ ObjectInUse /\ RetiredRecord
    BY <1>3, <1>6, <1>7 DEF OneActive, ObjectInUse, RetiredRecord, Installing, Holding
<1>9. TablesLead /\ RecordCovers /\ ReaderFinds
    BY <1>2, <1>3, <1>7 DEF TablesLead, RecordCovers, ReaderFinds, Searching, Attached
<1>10. LengthsAgree /\ CreatorAlone /\ PathsEnterOnce
    BY <1>4, <1>7 DEF LengthsAgree, CreatorAlone, PathsEnterOnce, Attached, Expanding,
                      Installing, Holding, Searching
<1> QED BY <1>5, <1>8, <1>9, <1>10 DEF IInv

LEMMA CallKeeps ==
    ASSUME IInv, NEW t \in Callers, NEW s \in Slots, Call(t, s)
    PROVE  IInv' /\ (Attached => Attached')
<1> USE DEF IInv
<1>1. t \in Threads /\ Table[s] \in Pointers
    BY RecordTypes DEF Threads, Tables
<1>2. Untouched
    BY <1>1, MovedUntouched DEF Call
<1>3. FindRecord' = FindRecord /\ Attached' = Attached /\ OneActive' /\ TablesLead' /\ RecordCovers'
    BY <1>2, UntouchedKeeps
<1>4. TypeOK'
    <2>1. Table[s] \in Seq(Layers) /\ wrapped[s] \in SUBSET Overlays
        BY <1>1, TypesNow DEF Pointers
    <2>2. local[t] \in Locals /\ local \in [Threads -> Locals]
        BY <1>1 DEF TypeOK
    <2>3. [local[t] EXCEPT !.slot = s, !.path = Table[s], !.due = wrapped[s]] \in Locals
        BY <2>1, <2>2 DEF Locals
    <2>4. local' = [local EXCEPT ![t] = [local[t] EXCEPT !.slot = s, !.path = Table[s], !.due = wrapped[s]]]
        BY <1>1, <2>2, Zenon DEF Call
    <2>5. local' \in [Threads -> Locals]
        BY <1>1, <2>2, <2>3, <2>4
    <2>6. pc' \in [Threads -> Locations] /\ \A u \in Threads : pc'[u] \in Holding <=> pc[u] \in Holding
        BY <1>1 DEF Call, Goto, TypeOK, Locations, Holding
    <2> QED BY <2>5, <2>6 DEF Call, TypeOK, Foreign
<1>5. ObjectInUse' /\ RetiredRecord'
    BY <1>1, <1>2, <1>3 DEF Call, Goto, Untouched, TypeOK, ObjectInUse, RetiredRecord, Installing, Holding, Locals, Idle
<1>6. ReaderFinds'
    BY <1>1, <1>3, HookedSlot DEF Call, Goto, TypeOK, ReaderFinds, Searching, Idle
<1>7. LengthsAgree' /\ CreatorAlone'
    BY <1>1, <1>2, <1>3 DEF Call, Goto, Untouched, TypeOK, LengthsAgree, CreatorAlone, Expanding, Holding, Installing
<1>8. PathsEnterOnce'
    BY <1>1, PointerShape DEF Call, Goto, TypeOK, PathsEnterOnce, Searching, Idle
<1> QED BY <1>3, <1>4, <1>5, <1>6, <1>7, <1>8

LEMMA LookUpRecordKeeps ==
    ASSUME IInv, NEW t \in Callers, LookUpRecord(t)
    PROVE  IInv' /\ (Attached => Attached')
<1> USE DEF IInv
<1>1. t \in Threads /\ pc[t] = "find" /\ pc[t] \in Searching
    BY DEF LookUpRecord, Goto, Threads, Searching
<1>2. FindRecord # 0 /\ FindRecord \in 0..Foreign
    BY <1>1, SearchingReader, RecordTypes, ShadowAssumption DEF Foreign
<1>3. pc' = [pc EXCEPT ![t] = "count"] /\ local' = [local EXCEPT ![t].record = FindRecord]
    BY <1>2 DEF LookUpRecord, Goto
<1>4. Untouched
    BY <1>1, <1>2, MovedUntouched DEF LookUpRecord
<1>5. FindRecord' = FindRecord /\ Attached' = Attached /\ OneActive' /\ TablesLead' /\ RecordCovers'
    BY <1>4, UntouchedKeeps
<1>6. TypeOK'
    <2>1. local' \in [Threads -> Locals]
        BY <1>1, <1>2, <1>3, RecordTaken
    <2> QED BY <1>1, <2>1, MovedTypes DEF LookUpRecord, Locations, Holding
<1>7. ObjectInUse' /\ RetiredRecord'
    BY <1>1, <1>3, <1>4, <1>5 DEF Untouched, TypeOK, ObjectInUse, RetiredRecord, Installing, Holding, Locals
<1>8. ReaderFinds'
    BY <1>1, <1>3, <1>4, <1>5 DEF Untouched, TypeOK, ReaderFinds, Searching, Locals
<1>9. LengthsAgree' /\ CreatorAlone'
    BY <1>1, <1>3, <1>4, <1>5
    DEF LookUpRecord, Untouched, TypeOK, LengthsAgree, CreatorAlone, Expanding, Holding, Installing, Locals
<1>10. PathsEnterOnce'
    BY <1>1, <1>3 DEF TypeOK, PathsEnterOnce, Searching, Locals
<1> QED BY <1>5, <1>6, <1>7, <1>8, <1>9, <1>10

LEMMA LoadCountKeeps ==
    ASSUME IInv, NEW t \in Callers, LoadCount(t)
    PROVE  IInv' /\ (Attached => Attached')
<1> USE DEF IInv
<1>1. t \in Threads /\ pc[t] = "count" /\ pc[t] \in Searching
    BY DEF LoadCount, Goto, Threads, Searching
<1>2. ~(local[t].slot > records[local[t].record].count)
    <2>1. /\ FindRecord \in DOMAIN records /\ local[t].record = FindRecord
          /\ local[t].slot \in 1..records[FindRecord].count
        BY <1>1, SearchingReader DEF ReaderFinds
    <2>2. records[FindRecord].count \in Nat
        BY <2>1, RecordTypes
    <2> QED BY <2>1, <2>2
<1>3. pc' = [pc EXCEPT ![t] = "saved"] /\ local' = local
    BY <1>2 DEF LoadCount, Goto
<1>4. Untouched
    BY <1>1, <1>2, MovedUntouched DEF LoadCount
<1>5. FindRecord' = FindRecord /\ Attached' = Attached /\ OneActive' /\ TablesLead' /\ RecordCovers'
    BY <1>4, UntouchedKeeps
<1>6. TypeOK'
    BY <1>1, <1>3 DEF LoadCount, TypeOK, Locations, Holding, Foreign
<1>7. ObjectInUse' /\ RetiredRecord'
    BY <1>1, <1>3, <1>4, <1>5 DEF Untouched, TypeOK, ObjectInUse, RetiredRecord, Installing, Holding
<1>8. ReaderFinds'
    BY <1>1, <1>3, <1>4, <1>5 DEF Untouched, TypeOK, ReaderFinds, Searching
<1>9. LengthsAgree' /\ CreatorAlone'
    BY <1>1, <1>3, <1>4, <1>5
    DEF LoadCount, Untouched, TypeOK, LengthsAgree, CreatorAlone, Expanding, Holding, Installing
<1>10. PathsEnterOnce'
    BY <1>1, <1>3 DEF TypeOK, PathsEnterOnce, Searching
<1> QED BY <1>5, <1>6, <1>7, <1>8, <1>9, <1>10

LEMMA LoadFunctionKeeps ==
    ASSUME IInv, NEW t \in Callers, LoadFunction(t)
    PROVE  IInv' /\ (Attached => Attached')
<1> USE DEF IInv
<1>1. t \in Threads /\ pc[t] = "saved" /\ pc[t] \in Searching
    BY DEF LoadFunction, Follow, Goto, Threads, Searching
<1> DEFINE path == local[t].path \o Continuation(t)
<1>2. /\ path \in Seq(Layers)
      /\ \A i, j \in DOMAIN path : path[i] = Hook /\ path[j] = Hook => i = j
      /\ Reaches(Continuation(t)) # Hook
    BY <1>1, ContinuationLeads, FollowedPath, ShadowAssumption DEF PathsEnterOnce
<1>3. pc' = [pc EXCEPT ![t] = "returned"] /\ local' = [local EXCEPT ![t].path = path]
    BY <1>2 DEF LoadFunction, Follow, Goto
<1> HIDE DEF path
<1>4. Untouched
    BY <1>1, <1>2, MovedUntouched DEF LoadFunction, Follow
<1>5. FindRecord' = FindRecord /\ Attached' = Attached /\ OneActive' /\ TablesLead' /\ RecordCovers'
    BY <1>4, UntouchedKeeps
<1>6. TypeOK'
    <2>1. [local[t] EXCEPT !.path = path] \in Locals
        BY <1>1, <1>2 DEF TypeOK, Locals
    <2>2. local' \in [Threads -> Locals]
        BY <1>1, <1>3, <2>1 DEF TypeOK
    <2>3. pc' \in [Threads -> Locations]
        BY <1>3 DEF TypeOK, Locations
    <2>4. \A u \in Threads : pc'[u] \in Holding <=> pc[u] \in Holding
        BY <1>1, <1>3 DEF TypeOK, Holding
    <2>5. UNCHANGED <<alive, vtable, root, foreign, shadows, records, lockOwner, captured, wrapped>>
        BY DEF LoadFunction
    <2> QED BY <2>2, <2>3, <2>4, <2>5 DEF TypeOK, Foreign
<1>7. ObjectInUse' /\ RetiredRecord'
    BY <1>1, <1>3, <1>4, <1>5 DEF Untouched, TypeOK, ObjectInUse, RetiredRecord, Installing, Holding, Locals
<1>8. ReaderFinds'
    BY <1>1, <1>3, <1>4, <1>5 DEF Untouched, TypeOK, ReaderFinds, Searching, Locals
<1>9. LengthsAgree' /\ CreatorAlone'
    BY <1>1, <1>3, <1>4, <1>5
    DEF LoadFunction, Untouched, TypeOK, LengthsAgree, CreatorAlone, Expanding, Holding, Installing, Locals
<1>10. PathsEnterOnce'
    BY <1>1, <1>2, <1>3 DEF TypeOK, PathsEnterOnce, Searching, Locals
<1> QED BY <1>5, <1>6, <1>7, <1>8, <1>9, <1>10

\* A thread that is done forgets what it carried.
LEMMA LeavingKeeps ==
    ASSUME IInv, NEW t \in Threads, NEW from, Leave(t, from),
           from \notin {"retire", "swing"}
    PROVE  /\ pc' = [pc EXCEPT ![t] = "idle"] /\ local' = [local EXCEPT ![t] = Idle]
           /\ local' \in [Threads -> Locals] /\ PathsEnterOnce'
           /\ UNCHANGED <<alive, vtable, root, foreign, shadows, records>> => Untouched
<1>1. pc[t] = from /\ pc' = [pc EXCEPT ![t] = "idle"] /\ local' = [local EXCEPT ![t] = Idle]
    BY DEF Leave, Goto
<1>2. Idle \in Locals /\ DOMAIN Idle.path = {}
    BY ShadowAssumption, EmptySeq DEF Idle, Locals, Foreign
<1>3. local' \in [Threads -> Locals]
    BY <1>1, <1>2 DEF IInv, TypeOK
<1>4. PathsEnterOnce'
    BY <1>1, <1>2 DEF IInv, TypeOK, PathsEnterOnce, Searching
<1>5. UNCHANGED <<alive, vtable, root, foreign, shadows, records>> => Untouched
    BY <1>1, MovedUntouched DEF IInv, Leave
<1> QED BY <1>1, <1>3, <1>4, <1>5

LEMMA ReturnKeeps ==
    ASSUME IInv, NEW t \in Callers, Return(t)
    PROVE  IInv' /\ (Attached => Attached')
<1> USE DEF IInv
<1>1. t \in Threads /\ pc[t] \in {"returned", "lost"}
    BY DEF Return, Threads
<1>2. /\ pc' = [pc EXCEPT ![t] = "idle"] /\ local' = [local EXCEPT ![t] = Idle]
      /\ local' \in [Threads -> Locals] /\ PathsEnterOnce' /\ Untouched
    BY <1>1, LeavingKeeps DEF Return
<1>3. FindRecord' = FindRecord /\ Attached' = Attached /\ OneActive' /\ TablesLead' /\ RecordCovers'
    BY <1>2, UntouchedKeeps
<1>4. TypeOK'
    BY <1>1, <1>2 DEF Return, TypeOK, Locations, Holding, Foreign
<1>5. ObjectInUse' /\ RetiredRecord'
    BY <1>1, <1>2, <1>3 DEF Untouched, TypeOK, ObjectInUse, RetiredRecord, Installing, Holding
<1>6. ReaderFinds'
    BY <1>1, <1>2, <1>3 DEF Untouched, TypeOK, ReaderFinds, Searching
<1>7. LengthsAgree' /\ CreatorAlone'
    BY <1>1, <1>2, <1>3
    DEF Return, Untouched, TypeOK, LengthsAgree, CreatorAlone, Expanding, Holding, Installing
<1> QED BY <1>2, <1>3, <1>4, <1>5, <1>6, <1>7

-----------------------------------------------------------------------------
(* Installers: objects and interfaces come and go.                           *)

LEMMA QueryKeeps ==
    ASSUME IInv, NEW t \in Installers, NEW length \in Lengths, Query(t, length)
    PROVE  IInv' /\ (Attached => Attached')
<1> USE DEF IInv
<1>1. t \in Threads /\ pc[t] = "idle" /\ alive /\ captured
    BY DEF Query, Goto, Threads
<1>2. Attached
    <2>1. Lifecycle \in Slots
        BY ShadowAssumption
    <2> QED BY <1>1, <2>1, HookedSlot DEF Query
<1>3. pc' = [pc EXCEPT ![t] = "install"] /\ local' = [local EXCEPT ![t].length = length]
    BY DEF Query, Goto
<1>4. Untouched
    BY <1>1, MovedUntouched DEF Query
<1>5. FindRecord' = FindRecord /\ Attached' = Attached /\ OneActive' /\ TablesLead' /\ RecordCovers'
    BY <1>4, UntouchedKeeps
<1>6. TypeOK'
    <2>1. local' \in [Threads -> Locals]
        BY <1>1, <1>3, LengthTaken
    <2> QED BY <1>1, <2>1, MovedTypes DEF Query, Locations, Holding
<1>7. ObjectInUse' /\ RetiredRecord'
    BY <1>1, <1>3, <1>4, <1>5 DEF Untouched, TypeOK, ObjectInUse, RetiredRecord, Installing, Holding, Locals
<1>8. ReaderFinds'
    BY <1>1, <1>3, <1>4, <1>5 DEF Untouched, TypeOK, ReaderFinds, Searching, Locals
<1>9. LengthsAgree'
    BY <1>1, <1>3, <1>4, <1>5 DEF Query, Untouched, TypeOK, LengthsAgree, Expanding, Holding, Locals
<1>10. CreatorAlone'
    BY <1>1, <1>2, <1>3, <1>4, <1>5 DEF Query, Untouched, TypeOK, CreatorAlone, Holding, Installing
<1>11. PathsEnterOnce'
    BY <1>1, <1>3 DEF TypeOK, PathsEnterOnce, Searching, Locals
<1> QED BY <1>5, <1>6, <1>7, <1>8, <1>9, <1>10, <1>11

LEMMA InstallNothingKeeps ==
    ASSUME IInv, NEW t \in Installers, InstallNothing(t)
    PROVE  IInv' /\ (Attached => Attached')
<1> USE DEF IInv
<1>1. t \in Threads /\ pc[t] = "install"
    BY DEF InstallNothing, Leave, Goto, Threads
<1>2. /\ pc' = [pc EXCEPT ![t] = "idle"] /\ local' = [local EXCEPT ![t] = Idle]
      /\ local' \in [Threads -> Locals] /\ PathsEnterOnce' /\ Untouched
    BY <1>1, LeavingKeeps DEF InstallNothing
<1>3. FindRecord' = FindRecord /\ Attached' = Attached /\ OneActive' /\ TablesLead' /\ RecordCovers'
    BY <1>2, UntouchedKeeps
<1>4. TypeOK'
    BY <1>1, <1>2 DEF InstallNothing, TypeOK, Locations, Holding
<1>5. ObjectInUse' /\ RetiredRecord'
    BY <1>1, <1>2, <1>3 DEF Untouched, TypeOK, ObjectInUse, RetiredRecord, Installing, Holding
<1>6. ReaderFinds'
    BY <1>1, <1>2, <1>3 DEF Untouched, TypeOK, ReaderFinds, Searching
<1>7. LengthsAgree'
    <2>1. lockOwner = NoThread /\ lockOwner' = NoThread /\ captured' /\ records' = records
        BY DEF InstallNothing
    <2>2. \A u \in Threads : pc[u] \notin Holding
        BY <2>1, ShadowAssumption DEF TypeOK
    <2>3. \A u \in Threads : pc'[u] \notin Holding
        BY <1>2, <2>2 DEF TypeOK, Holding
    <2> QED BY <1>2, <1>3, <2>1, <2>3 DEF LengthsAgree, Expanding, Holding
<1>8. CreatorAlone'
    BY <1>1, <1>2, <1>3 DEF InstallNothing, Untouched, TypeOK, CreatorAlone, Holding, Installing
<1> QED BY <1>2, <1>3, <1>4, <1>5, <1>6, <1>7, <1>8

LEMMA InstallRefusedKeeps ==
    ASSUME IInv, NEW t \in Installers, InstallRefused(t)
    PROVE  IInv' /\ (Attached => Attached')
<1> USE DEF IInv
<1>1. t \in Threads /\ pc[t] = "install"
    BY DEF InstallRefused, Leave, Goto, Threads
<1>2. /\ pc' = [pc EXCEPT ![t] = "idle"] /\ local' = [local EXCEPT ![t] = Idle]
      /\ local' \in [Threads -> Locals] /\ PathsEnterOnce' /\ Untouched
    BY <1>1, LeavingKeeps DEF InstallRefused
<1>3. FindRecord' = FindRecord /\ Attached' = Attached /\ OneActive' /\ TablesLead' /\ RecordCovers'
    BY <1>2, UntouchedKeeps
<1>4. TypeOK'
    BY <1>1, <1>2 DEF InstallRefused, TypeOK, Locations, Holding
<1>5. ObjectInUse' /\ RetiredRecord'
    BY <1>1, <1>2, <1>3 DEF Untouched, TypeOK, ObjectInUse, RetiredRecord, Installing, Holding
<1>6. ReaderFinds'
    BY <1>1, <1>2, <1>3 DEF Untouched, TypeOK, ReaderFinds, Searching
<1>7. LengthsAgree'
    BY <1>1, <1>2, <1>3 DEF InstallRefused, Untouched, TypeOK, LengthsAgree, Expanding, Holding
<1>8. CreatorAlone'
    BY <1>1, <1>2, <1>3 DEF InstallRefused, Untouched, TypeOK, CreatorAlone, Holding, Installing
<1> QED BY <1>2, <1>3, <1>4, <1>5, <1>6, <1>7, <1>8

\* A new object starts with DXGI's table, whatever record is still to retire.
LEMMA CreateKeeps ==
    ASSUME IInv, NEW t \in Installers, NEW length \in Lengths, Create(t, length)
    PROVE  IInv'
<1> USE DEF IInv
<1>1. t \in Threads /\ pc[t] = "idle" /\ ~alive /\ Len(records) < MaxRecords
    BY DEF Create, Goto, Threads
<1>2. /\ pc' = [pc EXCEPT ![t] = "install"] /\ local' = [local EXCEPT ![t].length = length]
      /\ alive' = TRUE /\ captured' = FALSE /\ vtable' = 0
      /\ UNCHANGED <<root, foreign, shadows, records, lockOwner>>
    BY DEF Create, Goto
<1>3. FindRecord' = FindRecord /\ Table' = root
    BY <1>2 DEF FindRecord, Table
<1>4. \A u \in Threads : pc[u] \in {"idle", "retire"}
    BY <1>1 DEF ObjectInUse
<1>5. Retiring' = Retiring /\ ~Swinging' /\ ~Swinging
    BY <1>1, <1>2, <1>4 DEF TypeOK, Retiring, Swinging
<1>6. ~Attached' /\ ~Attached
    BY <1>1, <1>3, <1>5 DEF ObjectInUse, Attached
<1>7. \A u \in Threads : pc'[u] \in {"idle", "retire", "install"} /\ (u # t => pc'[u] # "install")
    BY <1>1, <1>2, <1>4 DEF TypeOK
<1>8. TypeOK'
    <2>1. local' \in [Threads -> Locals]
        BY <1>1, <1>2, LengthTaken
    <2>2. wrapped' \in [Slots -> SUBSET Overlays]
        BY DEF Create
    <2> QED BY <1>1, <1>2, <2>1, <2>2 DEF TypeOK, Locations, Holding
<1>9. OneActive' /\ RecordCovers'
    BY <1>2 DEF OneActive, RecordCovers
<1>10. ObjectInUse'
    BY <1>1, <1>2, <1>4 DEF TypeOK, ObjectInUse, Installing, Holding, Locals
<1>11. RetiredRecord'
    BY <1>1, <1>2, <1>3 DEF TypeOK, RetiredRecord, Locals
<1>12. TablesLead'
    BY <1>2, <1>3, <1>6 DEF TablesLead
<1>13. ReaderFinds'
    BY <1>7 DEF ReaderFinds, Searching
<1>14. LengthsAgree'
    BY <1>6, <1>7 DEF LengthsAgree, Expanding, Holding
<1>15. CreatorAlone'
    BY <1>1, <1>2, <1>7 DEF CreatorAlone, Installing, Holding
<1>16. PathsEnterOnce'
    BY <1>1, <1>2 DEF TypeOK, PathsEnterOnce, Searching, Locals
<1> QED BY <1>8, <1>9, <1>10, <1>11, <1>12, <1>13, <1>14, <1>15, <1>16

\* A Release that reaches the hook begins to retire the object's record; one that
\* does not leaves no record behind.
LEMMA ReleaseKeeps ==
    ASSUME IInv, NEW t \in Installers, Release(t)
    PROVE  IInv'
<1> USE DEF IInv
<1>1. /\ t \in Threads /\ alive /\ alive' = FALSE
      /\ UNCHANGED <<vtable, root, foreign, shadows, records, lockOwner, captured, wrapped>>
    BY DEF Release, Threads
<1>2. \A u \in Threads : pc[u] \in {"idle", "retire"}
    BY DEF Release, InUse
<1>3. FindRecord' = FindRecord /\ Table' = Table /\ ~Attached'
    BY <1>1 DEF FindRecord, Table, Attached
<1>4. OneActive' /\ RecordCovers' /\ TablesLead'
    BY <1>1, <1>3 DEF OneActive, RecordCovers, TablesLead
<1>5. CASE Reaches(Table[Lifecycle]) = Hook
    <2>1. /\ pc[t] = "idle" /\ pc' = [pc EXCEPT ![t] = "retire"]
          /\ local' = [local EXCEPT ![t].record = FindRecord] /\ FindRecord # 0
        BY <1>5 DEF Release, Goto
    <2>2. Attached /\ FindRecord \in 0..Foreign
        <3>1. Lifecycle \in Slots
            BY ShadowAssumption
        <3> QED BY <1>1, <1>5, <2>1, <3>1, HookedSlot, RecordNow, RecordTypes, ShadowAssumption DEF Foreign
    <2>3. \A u \in Threads : pc[u] = "idle"
        BY <1>2, <2>2 DEF Attached, Retiring
    <2>4. \A u \in Threads : pc'[u] \in {"idle", "retire"} /\ (u # t => pc'[u] = "idle")
        BY <1>1, <2>1, <2>3 DEF TypeOK
    <2>5. TypeOK'
        <3>1. local' \in [Threads -> Locals]
            BY <1>1, <2>1, <2>2, RecordTaken
        <3> QED BY <1>1, <2>1, <3>1 DEF TypeOK, Locations, Holding
    <2>6. ObjectInUse'
        BY <1>1, <1>3, <2>1, <2>4 DEF TypeOK, ObjectInUse, Retiring, Installing, Holding, Locals
    <2>7. RetiredRecord'
        BY <1>1, <1>3, <2>1, <2>4 DEF TypeOK, RetiredRecord, Locals
    <2>8. ReaderFinds' /\ LengthsAgree' /\ CreatorAlone'
        BY <1>1, <1>3, <2>4 DEF ReaderFinds, LengthsAgree, CreatorAlone, Searching, Expanding, Holding, Installing
    <2>9. PathsEnterOnce'
        BY <1>1, <2>1, <2>4 DEF TypeOK, PathsEnterOnce, Searching, Locals
    <2> QED BY <1>4, <2>5, <2>6, <2>7, <2>8, <2>9
<1>6. CASE Reaches(Table[Lifecycle]) # Hook
    <2>1. pc' = pc /\ local' = local
        BY <1>6 DEF Release
    <2>2. ~Attached
        <3>1. Lifecycle \in Slots /\ Lifecycle \in Common
            BY ShadowAssumption DEF Common, Lifecycle, Slots
        <3>2. Table[Lifecycle] \in Pointers
            BY <3>1, RecordTypes DEF Tables
        <3>3. IsNative(Table, Lifecycle)
            BY <1>6, <3>2 DEF Pointers, IsNative
        <3> QED BY <3>1, <3>3 DEF TablesLead
    <2>3. FindRecord # 0 => Retiring
        BY <1>1, <1>2, <2>2 DEF Attached, Swinging
    <2>4. ObjectInUse'
        BY <1>1, <1>2, <1>3, <2>1, <2>3 DEF ObjectInUse, Retiring
    <2>5. TypeOK' /\ RetiredRecord' /\ PathsEnterOnce'
        BY <1>1, <1>3, <2>1 DEF TypeOK, RetiredRecord, PathsEnterOnce
    <2>6. ReaderFinds' /\ LengthsAgree' /\ CreatorAlone'
        BY <1>1, <1>2, <1>3, <2>1
        DEF ReaderFinds, LengthsAgree, CreatorAlone, Searching, Expanding, Holding, Installing
    <2> QED BY <1>4, <2>4, <2>5, <2>6
<1> QED BY <1>5, <1>6

\* The record of the dead object goes; no other object depends on it.
LEMMA RetireKeeps ==
    ASSUME IInv, NEW t \in Installers, Retire(t)
    PROVE  IInv'
<1> USE DEF IInv
<1> DEFINE r == FindRecord
<1>1. /\ t \in Threads /\ pc[t] = "retire" /\ r # 0 /\ local[t].record = r /\ r \in DOMAIN records
      /\ UNCHANGED <<alive, vtable, root, foreign, shadows, lockOwner, captured, wrapped>>
    BY RecordNow DEF Retire, Leave, Goto, Threads, RetiredRecord
<1>2. /\ pc' = [pc EXCEPT ![t] = "idle"] /\ local' = [local EXCEPT ![t] = Idle]
      /\ local' \in [Threads -> Locals] /\ PathsEnterOnce'
    <2>1. Idle \in Locals /\ DOMAIN Idle.path = {}
        BY ShadowAssumption, EmptySeq DEF Idle, Locals, Foreign
    <2>2. pc' = [pc EXCEPT ![t] = "idle"] /\ local' = [local EXCEPT ![t] = Idle]
        BY DEF Retire, Leave, Goto
    <2> QED BY <2>1, <2>2 DEF TypeOK, PathsEnterOnce, Searching
<1>3. \A u \in Threads : pc[u] = "retire" => u = t
    BY <1>1 DEF RetiredRecord
<1>4. \A u \in Threads : pc[u] \notin Searching \cup Holding /\ pc'[u] \notin Searching \cup Holding \cup {"retire"}
    <2>1. \A u \in Threads : pc[u] \notin Searching \cup Holding
        BY <1>1 DEF ReaderFinds, LengthsAgree, Attached, Retiring, Holding
    <2> QED BY <1>2, <1>3, <2>1 DEF TypeOK, Searching, Holding
<1>5. /\ records' \in Seq(Records) /\ Len(records') = Len(records) /\ DOMAIN records' = DOMAIN records
      /\ \A q \in DOMAIN records : ~records'[q].active
    <2>1. records' = [records EXCEPT ![r] = [records[r] EXCEPT !.active = FALSE]]
        BY <1>1 DEF Retire, TypeOK
    <2>2. [records[r] EXCEPT !.active = FALSE] \in Records /\ r \in 1..Len(records)
        BY <1>1, RecordTypes DEF Records
    <2>3. /\ records' \in Seq(Records) /\ Len(records') = Len(records) /\ DOMAIN records' = DOMAIN records
          /\ records'[r] = [records[r] EXCEPT !.active = FALSE]
          /\ \A q \in DOMAIN records : q # r => records'[q] = records[q]
        BY <1>1, <2>1, <2>2, ChangedEntry DEF TypeOK
    <2>4. \A q \in DOMAIN records : q # r => ~records[q].active
        BY RecordNow
    <2>5. ~records'[r].active
        BY <1>1, <2>3, RecordTypes DEF Records
    <2> QED BY <2>3, <2>4, <2>5
<1>6. FindRecord' = 0
    BY <1>5 DEF FindRecord, NewestActive
<1>7. ~Attached' /\ ~Attached
    BY <1>1, <1>6 DEF Attached, Retiring
<1>8. Table' = Table
    BY <1>1 DEF Table
<1>9. TypeOK'
    BY <1>1, <1>2, <1>4, <1>5 DEF TypeOK, Locations
<1>10. OneActive' /\ RecordCovers'
    BY <1>5 DEF OneActive, RecordCovers
<1>11. ObjectInUse' /\ RetiredRecord'
    BY <1>1, <1>2, <1>4, <1>6 DEF TypeOK, ObjectInUse, RetiredRecord, Installing, Holding
<1>12. TablesLead'
    BY <1>1, <1>7, <1>8 DEF TablesLead
<1>13. ReaderFinds' /\ LengthsAgree'
    <2>1. \A u \in Threads : pc'[u] # "lost"
        BY <1>1, <1>2 DEF TypeOK, ReaderFinds
    <2> QED BY <1>4, <1>7, <2>1 DEF ReaderFinds, LengthsAgree, Searching, Holding, Expanding
<1>14. CreatorAlone'
    BY <1>1, <1>2, <1>5, <1>7 DEF TypeOK, CreatorAlone, Installing, Holding
<1> QED BY <1>2, <1>9, <1>10, <1>11, <1>12, <1>13, <1>14

-----------------------------------------------------------------------------
(* Installers: capturing an object.                                          *)

\* At most one thread is between taking and giving back the installation lock.
LEMMA LockHolder ==
    ASSUME TypeOK, NEW t \in Threads, pc[t] \in Holding
    PROVE  lockOwner = t /\ \A u \in Threads : pc[u] \in Holding => u = t
    BY DEF TypeOK

LEMMA InstallCloneKeeps ==
    ASSUME IInv, NEW t \in Installers, InstallClone(t)
    PROVE  IInv'
<1> USE DEF IInv
<1> DEFINE length == local[t].length
<1> DEFINE first == [s \in 1..length |-> Table[s]]
<1> DEFINE n == Len(records) + 1
<1> DEFINE table == Replaced(Table, Hooked \cap 1..length)
<1> DEFINE record == [active |-> TRUE, count |-> length, originals |-> first,
                      generation |-> 0, live |-> LiveRoot /\ vtable = 0]
<1>1. /\ t \in Threads /\ pc[t] = "install" /\ lockOwner = NoThread /\ FindRecord = 0
      /\ alive /\ length \in Lengths /\ ~Attached /\ ~captured
    BY DEF InstallClone, Goto, Threads, ObjectInUse, Installing, Attached, CreatorAlone
<1>2. /\ pc' = [pc EXCEPT ![t] = "swing"] /\ lockOwner' = t
      /\ shadows' = Append(shadows, table) /\ records' = Append(records, record)
      /\ local' = [local EXCEPT ![t].record = vtable]
      /\ UNCHANGED <<alive, vtable, root, foreign, captured, wrapped>>
    BY DEF InstallClone, Goto
<1>3. /\ Len(records) < MaxRecords /\ Len(records) \in Nat /\ length \in 1..SlotCount /\ SlotCount \in Nat
      /\ 1..length \subseteq Slots
    <2>1. Len(records) < MaxRecords
        BY <1>1 DEF CreatorAlone
    <2>2. Len(records) \in Nat
        BY RecordTypes
    <2>3. length \in 1..SlotCount /\ SlotCount \in Nat
        BY <1>1, RecordTypes
    <2> QED BY <2>1, <2>2, <2>3 DEF Slots
<1>4. first \in Seq(Pointers) /\ Len(first) = length /\ \A s \in 1..length : IsNative(first, s)
    <2>1. first \in [1..length -> Pointers] /\ length \in Nat
        BY <1>3, RecordTypes DEF Tables
    <2>2. first \in Seq(Pointers) /\ Len(first) = length
        BY <2>1, SeqDef
    <2>3. \A s \in 1..length : IsNative(first, s)
        BY <1>1, <1>3 DEF TablesLead, IsNative
    <2> QED BY <2>2, <2>3
<1>5. /\ table \in Tables /\ \A s \in Common : ~IsNative(table, s)
      /\ \A s \in Slots : ~IsNative(table, s) => s <= length
    <2>1. Hooked \cap 1..length \subseteq Slots /\ Table \in Tables
        BY ShadowAssumption, RecordTypes
    <2>2. /\ table \in Tables /\ \A s \in Hooked \cap 1..length : ~IsNative(table, s)
          /\ \A s \in Slots \ (Hooked \cap 1..length) : table[s] = Table[s]
        BY <2>1, ReplacedTable
    <2>3. Common \subseteq Hooked \cap 1..length
        <3>1. ASSUME NEW s \in Common PROVE s \in Hooked /\ s <= length
            BY <1>1 DEF Common
        <3>2. \A s \in Hooked : s \in 1..SlotCount
            BY ShadowAssumption DEF Slots
        <3> QED BY <1>3, <3>1, <3>2
    <2>4. \A s \in Slots \ (Hooked \cap 1..length) : IsNative(table, s)
        BY <1>1, <2>2 DEF TablesLead, IsNative
    <2>5. \A s \in 1..length : s <= length
        BY <1>3
    <2> QED BY <2>2, <2>3, <2>4, <2>5
<1>6. record \in Records /\ record.active /\ record.count = length /\ record.originals = first
      /\ record.generation = 0
    BY <1>1, <1>4, ShadowAssumption DEF Records
<1> HIDE DEF record, table, first
<1>7. /\ records' \in Seq(Records) /\ Len(records') = n /\ DOMAIN records' = 1..n
      /\ records'[n] = record /\ \A r \in DOMAIN records : records'[r] = records[r]
      /\ DOMAIN records = 1..Len(records)
    BY <1>2, <1>6, AppendProperties, LenProperties DEF TypeOK
<1>8. /\ shadows' \in Seq(Tables) /\ Len(shadows') = n /\ DOMAIN shadows' = 1..n
      /\ shadows'[n] = table /\ \A r \in DOMAIN records : shadows'[r] = shadows[r]
      /\ DOMAIN shadows = DOMAIN records
    BY <1>2, <1>5, AppendProperties, LenProperties DEF TypeOK
<1>9. \A r \in 1..n : records'[r].active => r = n
    <2>1. \A r \in DOMAIN records : ~records[r].active
        BY <1>1, <1>7, RecordNow
    <2>2. \A r \in 1..n : r \in DOMAIN records \/ r = n
        BY <1>3, <1>7
    <2> QED BY <1>7, <2>1, <2>2
<1>10. OneActive'
    BY <1>7, <1>9 DEF OneActive
<1>11. FindRecord' = n /\ n # 0
    <2>1. n \in DOMAIN records' /\ records'[n].active
        BY <1>3, <1>6, <1>7
    <2> QED BY <1>3, <1>7, <1>10, <2>1, FoundRecord DEF OneActive, FindRecord
<1>12. Table' = Table /\ vtable \in {0, Foreign}
    <2>1. vtable \in {0, Foreign}
        BY <1>1 DEF TablesLead
    <2> QED BY <1>2, <2>1 DEF Table
<1>13. Swinging' /\ ~Attached'
    BY <1>1, <1>2 DEF TypeOK, Swinging, Attached
<1>14. ~Retiring /\ ~Retiring'
    <2>1. ~Retiring
        BY <1>1 DEF RetiredRecord, Retiring
    <2> QED BY <1>1, <1>2, <2>1 DEF TypeOK, Retiring
<1>15. \A u \in Threads : pc[u] \notin Holding
    BY <1>1, ShadowAssumption DEF TypeOK
<1>16. TypeOK'
    <2>1. local' \in [Threads -> Locals]
        BY <1>1, <1>2, RecordTypes, RecordTaken
    <2>2. \A u \in Threads : pc'[u] \in Holding <=> lockOwner' = u
        BY <1>1, <1>2, <1>15 DEF TypeOK, Holding
    <2>3. vtable' \in {0, Foreign} \cup DOMAIN shadows' /\ Len(records') <= MaxRecords
        BY <1>2, <1>3, <1>7, <1>12, ShadowAssumption
    <2>4. pc' \in [Threads -> Locations]
        BY <1>2 DEF TypeOK, Locations, Holding
    <2> QED BY <1>1, <1>2, <1>7, <1>8, <2>1, <2>2, <2>3, <2>4 DEF TypeOK
<1>17. ObjectInUse'
    BY <1>1, <1>2, <1>14 DEF TypeOK, ObjectInUse, Retiring, Installing, Holding, Locals
<1>18. RetiredRecord'
    BY <1>14 DEF RetiredRecord, Retiring
<1>19. TablesLead'
    BY <1>1, <1>2, <1>12, <1>13 DEF TablesLead
<1>20. RecordCovers'
    <2>1. ASSUME NEW r \in DOMAIN records', records'[r].active
          PROVE  /\ records'[r].count <= Len(records'[r].originals)
                 /\ \A s \in 1..Len(records'[r].originals) : IsNative(records'[r].originals, s)
                 /\ \A s \in Common : ~IsNative(shadows'[r], s)
                 /\ \A s \in Slots : ~IsNative(shadows'[r], s) => s <= records'[r].count
        <3>1. r = n
            BY <1>7, <1>9, <2>1
        <3> QED BY <1>3, <1>4, <1>5, <1>6, <1>7, <1>8, <3>1
    <2> QED BY <2>1 DEF RecordCovers, IsNative
<1>21. ReaderFinds'
    BY <1>1, <1>2 DEF TypeOK, ReaderFinds, Searching, Locals
<1>22. LengthsAgree'
    <2>1. \A u \in Threads : u # t => pc'[u] \notin Holding
        BY <1>1, <1>2, <1>15 DEF TypeOK
    <2>2. pc'[t] = "swing" /\ local'[t].length = length
        BY <1>1, <1>2 DEF TypeOK, Locals
    <2> QED BY <1>1, <1>2, <1>4, <1>6, <1>7, <1>11, <1>13, <1>14, <2>1, <2>2
            DEF LengthsAgree, Holding, Expanding
<1>23. CreatorAlone'
    <2>1. \A u \in Threads : u # t => pc'[u] \notin Installing
        BY <1>1, <1>2 DEF TypeOK, CreatorAlone, Installing
    <2>2. pc'[t] = "swing"
        BY <1>1, <1>2 DEF TypeOK
    <2> QED BY <1>1, <1>2, <2>1, <2>2 DEF CreatorAlone, Installing
<1>24. PathsEnterOnce'
    BY <1>1, <1>2 DEF TypeOK, PathsEnterOnce, Searching, Locals
<1> QED BY <1>10, <1>16, <1>17, <1>18, <1>19, <1>20, <1>21, <1>22, <1>23, <1>24

\* The compare-exchange makes the object the record's.
LEMMA InstallSwingKeeps ==
    ASSUME IInv, NEW t \in Installers, InstallSwing(t)
    PROVE  IInv' /\ (Attached => Attached')
<1> USE DEF IInv
<1> DEFINE r == FindRecord
<1>1. /\ t \in Threads /\ pc[t] = "swing" /\ pc[t] \in Holding /\ lockOwner = t /\ alive
      /\ r = Len(records) /\ r # 0 /\ r \in DOMAIN records /\ records[r].active
      /\ ~Retiring /\ ~Attached /\ ~captured
      /\ records[r].count = local[t].length /\ Len(records[r].originals) = local[t].length
    BY RecordNow, LockHolder
    DEF InstallSwing, Goto, Threads, Holding, ObjectInUse, LengthsAgree, Swinging, Attached
<1>2. /\ pc' = [pc EXCEPT ![t] = "generation"] /\ vtable' = r
      /\ local' = [local EXCEPT ![t].record = r]
      /\ UNCHANGED <<alive, root, foreign, shadows, records, lockOwner, captured, wrapped>>
    BY <1>1 DEF InstallSwing, Goto
<1>3. \A u \in Threads : u # t => pc[u] \notin Holding /\ pc'[u] = pc[u]
    BY <1>1, <1>2, LockHolder DEF TypeOK
<1>4. pc'[t] = "generation" /\ local'[t].record = r /\ local'[t].length = local[t].length
    BY <1>1, <1>2 DEF TypeOK, Locals
<1>5. FindRecord' = r
    BY <1>2 DEF FindRecord
<1>6. ~Swinging' /\ ~Retiring'
    BY <1>1, <1>3, <1>4 DEF Swinging, Retiring, Holding
<1>7. Attached' /\ Table' = shadows[r]
    <2>1. r \in 1..MaxRecords /\ r # Foreign
        BY <1>1, RecordTypes, ShadowAssumption DEF Foreign
    <2> QED BY <1>1, <1>2, <1>5, <1>6, <2>1 DEF Attached, Table, Foreign
<1>8. TypeOK'
    <2>0. r \in 0..Foreign
        BY <1>1, RecordTypes, ShadowAssumption DEF Foreign
    <2>1. local' \in [Threads -> Locals]
        BY <1>1, <1>2, <2>0, RecordTaken
    <2>2. vtable' \in {0, Foreign} \cup DOMAIN shadows'
        BY <1>1, <1>2, RecordTypes
    <2>3. \A u \in Threads : pc'[u] \in Holding <=> lockOwner' = u
        BY <1>1, <1>2, <1>3, <1>4 DEF TypeOK, Holding
    <2> QED BY <1>1, <1>2, <2>1, <2>2, <2>3 DEF TypeOK, Locations, Holding
<1>9. OneActive' /\ RecordCovers'
    BY <1>2 DEF OneActive, RecordCovers
<1>10. ObjectInUse' /\ RetiredRecord'
    BY <1>1, <1>2, <1>3, <1>4, <1>6 DEF ObjectInUse, RetiredRecord, Retiring, Installing, Holding, TypeOK, Locals
<1>11. TablesLead'
    <2>1. /\ \A s \in Common : ~IsNative(shadows[r], s)
          /\ \A s \in Slots : ~IsNative(shadows[r], s) => s <= records[r].count
        BY <1>1 DEF RecordCovers
    <2> QED BY <1>2, <1>5, <1>7, <2>1 DEF TablesLead
<1>12. ReaderFinds'
    BY <1>1, <1>2, <1>3, <1>4, <1>5, <1>7 DEF ReaderFinds, Searching, TypeOK, Locals
<1>13. LengthsAgree'
    <2>1. lockOwner' # NoThread
        BY <1>1, <1>2, ShadowAssumption
    <2> QED BY <1>1, <1>2, <1>3, <1>4, <1>5, <1>7, <2>1 DEF LengthsAgree, Holding, Expanding
<1>14. CreatorAlone'
    BY <1>1, <1>2, <1>3, <1>4 DEF CreatorAlone, Installing, Holding
<1>15. PathsEnterOnce'
    BY <1>1, <1>2 DEF TypeOK, PathsEnterOnce, Searching, Locals
<1> QED BY <1>7, <1>8, <1>9, <1>10, <1>11, <1>12, <1>13, <1>14, <1>15

\* The lost race takes the record back; the object never led into it.
LEMMA InstallAbandonedKeeps ==
    ASSUME IInv, NEW t \in Installers, InstallAbandoned(t)
    PROVE  IInv'
<1> USE DEF IInv
<1> DEFINE r == FindRecord
<1>1. /\ t \in Threads /\ pc[t] = "swing" /\ pc[t] \in Holding /\ lockOwner = t /\ alive
      /\ r = Len(records) /\ r # 0 /\ r \in DOMAIN records
      /\ ~Retiring /\ ~Attached /\ ~captured
    BY RecordNow, LockHolder
    DEF InstallAbandoned, Leave, Goto, Threads, Holding, ObjectInUse, LengthsAgree, Swinging, Attached
<1>2. /\ pc' = [pc EXCEPT ![t] = "idle"] /\ local' = [local EXCEPT ![t] = Idle]
      /\ records' = [records EXCEPT ![r].active = FALSE] /\ lockOwner' = NoThread
      /\ UNCHANGED <<alive, vtable, root, foreign, shadows, captured, wrapped>>
    BY <1>1 DEF InstallAbandoned, Leave, Goto
<1>3. local' \in [Threads -> Locals] /\ PathsEnterOnce'
    <2>1. Idle \in Locals /\ DOMAIN Idle.path = {}
        BY ShadowAssumption, EmptySeq DEF Idle, Locals, Foreign
    <2> QED BY <1>2, <2>1 DEF TypeOK, PathsEnterOnce, Searching
<1>4. \A u \in Threads : pc'[u] \notin Holding \cup Searching
    <2>1. \A u \in Threads : pc[u] \notin Searching
        BY <1>1 DEF ReaderFinds
    <2>2. \A u \in Threads : u # t => pc[u] \notin Holding
        BY <1>1, LockHolder
    <2> QED BY <1>2, <2>1, <2>2 DEF TypeOK, Holding, Searching
<1>5. /\ records' \in Seq(Records) /\ Len(records') = Len(records) /\ DOMAIN records' = DOMAIN records
      /\ \A q \in DOMAIN records : ~records'[q].active
    <2>1. records' = [records EXCEPT ![r] = [records[r] EXCEPT !.active = FALSE]]
        BY <1>1, <1>2
    <2>2. [records[r] EXCEPT !.active = FALSE] \in Records
        BY <1>1, RecordTypes DEF Records
    <2>3. /\ records' \in Seq(Records) /\ Len(records') = Len(records) /\ DOMAIN records' = DOMAIN records
          /\ records'[r] = [records[r] EXCEPT !.active = FALSE]
          /\ \A q \in DOMAIN records : q # r => records'[q] = records[q]
        BY <1>1, <2>1, <2>2, ChangedEntry DEF TypeOK
    <2>4. \A q \in DOMAIN records : q # r => ~records[q].active
        BY RecordNow
    <2>5. ~records'[r].active
        BY <1>1, <2>3, RecordTypes DEF Records
    <2> QED BY <2>3, <2>4, <2>5
<1>6. FindRecord' = 0 /\ ~Attached'
    BY <1>5 DEF FindRecord, NewestActive, Attached
<1>7. Table' = Table
    BY <1>2 DEF Table
<1>8. TypeOK'
    <2>1. \A u \in Threads : pc'[u] \in Holding <=> lockOwner' = u
        BY <1>2, <1>4, ShadowAssumption
    <2> QED BY <1>1, <1>2, <1>3, <1>5, <2>1 DEF TypeOK, Locations
<1>9. OneActive' /\ RecordCovers'
    BY <1>5 DEF OneActive, RecordCovers
<1>10. ~Retiring'
    BY <1>1, <1>2 DEF TypeOK, Retiring
<1>11. ObjectInUse' /\ RetiredRecord'
    BY <1>1, <1>2, <1>6, <1>10 DEF TypeOK, ObjectInUse, RetiredRecord, Retiring, Installing, Holding
<1>12. TablesLead'
    BY <1>1, <1>2, <1>6, <1>7 DEF TablesLead
<1>13. ReaderFinds' /\ LengthsAgree'
    <2>1. \A u \in Threads : pc'[u] # "lost"
        BY <1>1, <1>2 DEF TypeOK, ReaderFinds
    <2> QED BY <1>4, <1>6, <2>1 DEF ReaderFinds, LengthsAgree, Searching, Holding, Expanding
<1>14. CreatorAlone'
    <2>1. \A u \in Threads : pc'[u] \notin Installing
        BY <1>1, <1>2 DEF TypeOK, CreatorAlone, Installing, Holding
    <2> QED BY <1>1, <1>2, <2>1 DEF CreatorAlone, Installing
<1> QED BY <1>3, <1>8, <1>9, <1>11, <1>12, <1>13, <1>14

-----------------------------------------------------------------------------
(* Installers: the steps that work on the active record of a hooked object.  *)

\* What such a step starts from.
LEMMA WorkingOn ==
    ASSUME IInv, NEW t \in Threads, pc[t] \in Holding \ {"swing"}
    PROVE  /\ Attached /\ alive /\ local[t].record = FindRecord
           /\ FindRecord \in DOMAIN records /\ FindRecord # 0 /\ records[FindRecord].active
           /\ local[t].length \in Lengths /\ local[t].length \in 1..SlotCount /\ SlotCount \in Nat
           /\ lockOwner = t /\ \A u \in Threads : u # t => pc[u] \notin Holding
<1>1. Attached /\ alive /\ local[t].record = FindRecord /\ local[t].length \in Lengths
    BY DEF IInv, LengthsAgree, Attached, ObjectInUse, Installing
<1>2. FindRecord \in DOMAIN records /\ FindRecord # 0 /\ records[FindRecord].active
    BY <1>1, RecordNow DEF IInv, Attached
<1>3. local[t].length \in 1..SlotCount /\ SlotCount \in Nat
    BY <1>1, RecordTypes DEF IInv
<1>4. lockOwner = t /\ \A u \in Threads : u # t => pc[u] \notin Holding
    BY LockHolder DEF IInv
<1> QED BY <1>1, <1>2, <1>3, <1>4

\* The record takes new contents and stays the active one.
LEMMA ActiveRecordChanges ==
    ASSUME TypeOK, OneActive, NEW e \in Records, e.active,
           FindRecord \in DOMAIN records, records' = [records EXCEPT ![FindRecord] = e]
    PROVE  /\ records' \in Seq(Records) /\ Len(records') = Len(records)
           /\ DOMAIN records' = DOMAIN records /\ records'[FindRecord] = e
           /\ \A r \in DOMAIN records' : records'[r].active => r = FindRecord
           /\ FindRecord' = FindRecord /\ OneActive'
<1> DEFINE r == FindRecord
<1>1. records[r].active
    BY RecordNow, RecordTypes
<1>2. /\ records' \in Seq(Records) /\ Len(records') = Len(records) /\ DOMAIN records' = DOMAIN records
      /\ records'[r] = e /\ \A q \in DOMAIN records : q # r => records'[q] = records[q]
    BY ChangedEntry DEF TypeOK
<1>3. \A q \in DOMAIN records' : records'[q].active => q = r
    BY <1>2, RecordNow
<1>4. OneActive'
    BY <1>3 DEF OneActive
<1>5. FindRecord' = r
    BY <1>2, <1>4, FoundRecord DEF OneActive, FindRecord
<1> QED BY <1>2, <1>3, <1>4, <1>5

LEMMA PublishGenerationKeeps ==
    ASSUME IInv, NEW t \in Installers, PublishGeneration(t)
    PROVE  IInv' /\ (Attached => Attached')
<1> USE DEF IInv
<1> DEFINE r == FindRecord
<1> DEFINE length == local[t].length
<1> DEFINE e == [records[r] EXCEPT !.generation = length]
<1>1. t \in Threads /\ pc[t] = "generation" /\ pc[t] \in Holding \ {"swing"}
    BY DEF PublishGeneration, Leave, Goto, Threads, Holding
<1>2. /\ Attached /\ alive /\ local[t].record = r /\ r \in DOMAIN records /\ r # 0
      /\ records[r].active /\ length \in Lengths /\ lockOwner = t
      /\ \A u \in Threads : u # t => pc[u] \notin Holding
    BY <1>1, WorkingOn
<1>3. /\ pc' = [pc EXCEPT ![t] = "idle"] /\ local' = [local EXCEPT ![t] = Idle]
      /\ lockOwner' = NoThread /\ captured' = TRUE
      /\ UNCHANGED <<alive, vtable, root, foreign, shadows, wrapped>>
    BY DEF PublishGeneration, Leave, Goto
<1>4. records' = [records EXCEPT ![r] = e]
    BY <1>2 DEF PublishGeneration
<1>5. /\ e \in Records /\ e.active = records[r].active /\ e.count = records[r].count
      /\ e.originals = records[r].originals /\ e.generation = length
    BY <1>2, RecordTypes DEF Records
<1>6. records[r].count = length /\ Len(records[r].originals) = length
    BY <1>1 DEF LengthsAgree
<1> HIDE DEF e
<1>7. /\ records' \in Seq(Records) /\ Len(records') = Len(records) /\ DOMAIN records' = DOMAIN records
      /\ records'[r] = e /\ \A q \in DOMAIN records' : records'[q].active => q = r
      /\ FindRecord' = r /\ OneActive'
    BY <1>2, <1>4, <1>5, ActiveRecordChanges
<1>8. /\ local' \in [Threads -> Locals] /\ PathsEnterOnce'
    BY <1>1, <1>3, LeavingKeeps DEF PublishGeneration
<1>9. Table' = Table
    BY <1>3 DEF Table
<1>10. \A u \in Threads : pc'[u] = (IF u = t THEN "idle" ELSE pc[u]) /\ pc'[u] \notin Holding
    BY <1>1, <1>2, <1>3 DEF TypeOK, Holding
<1>11. ~Retiring' /\ ~Swinging' /\ Attached'
    BY <1>2, <1>3, <1>7, <1>10 DEF Attached, Retiring, Swinging, Holding
<1>12. TypeOK'
    <2>1. \A u \in Threads : pc'[u] \in Holding <=> lockOwner' = u
        BY <1>3, <1>10, ShadowAssumption
    <2> QED BY <1>1, <1>2, <1>3, <1>7, <1>8, <2>1 DEF TypeOK, Locations
<1>13. ObjectInUse' /\ RetiredRecord'
    BY <1>2, <1>3, <1>10, <1>11 DEF TypeOK, ObjectInUse, RetiredRecord, Retiring, Installing, Holding
<1>14. TablesLead'
    BY <1>2, <1>3, <1>5, <1>7, <1>9, <1>11 DEF TablesLead
<1>15. RecordCovers'
    BY <1>2, <1>3, <1>5, <1>7 DEF RecordCovers
<1>16. ReaderFinds'
    BY <1>2, <1>3, <1>5, <1>7, <1>10, <1>11 DEF TypeOK, ReaderFinds, Searching
<1>17. LengthsAgree'
    BY <1>5, <1>6, <1>7, <1>10 DEF LengthsAgree, Holding, Expanding
<1>18. CreatorAlone'
    BY <1>3, <1>11 DEF CreatorAlone
<1> QED BY <1>7, <1>8, <1>11, <1>12, <1>13, <1>14, <1>15, <1>16, <1>17, <1>18

LEMMA ExpandSnapshotKeeps ==
    ASSUME IInv, NEW t \in Installers, ExpandSnapshot(t)
    PROVE  IInv' /\ (Attached => Attached')
<1> USE DEF IInv
<1> DEFINE r == FindRecord
<1> DEFINE length == local[t].length
<1> DEFINE copy == [s \in 1..length |-> IF s <= records[r].generation
                                        THEN records[r].originals[s] ELSE shadows[r][s]]
<1>1. /\ t \in Threads /\ pc[t] = "install" /\ lockOwner = NoThread /\ r # 0
      /\ alive /\ length \in Lengths /\ ~NothingToInstall(length)
    BY DEF ExpandSnapshot, Goto, Threads, ObjectInUse, Installing
<1>2. /\ pc' = [pc EXCEPT ![t] = "originals"] /\ lockOwner' = t
      /\ local' = [local EXCEPT ![t].record = r, ![t].originals = copy]
      /\ UNCHANGED <<alive, vtable, root, foreign, shadows, records, captured, wrapped>>
    BY DEF ExpandSnapshot, Goto
<1>3. /\ r \in DOMAIN records /\ records[r].active /\ r \in 0..Foreign /\ r # Foreign
      /\ length \in 1..SlotCount /\ SlotCount \in Nat
      /\ records[r].generation \in Nat /\ records[r].count \in Nat
    BY <1>1, RecordNow, RecordTypes, ShadowAssumption DEF Foreign
<1>4. vtable = r /\ records[r].generation < length
    BY <1>1, <1>3 DEF NothingToInstall
<1>5. Attached
    BY <1>1, <1>3, <1>4 DEF TablesLead
<1>6. /\ records[r].generation = records[r].count
      /\ records[r].count = Len(records[r].originals)
    BY <1>1, <1>5 DEF LengthsAgree
<1>7. /\ copy \in Seq(Pointers) /\ Len(copy) = length
      /\ \A s \in 1..length : IsNative(copy, s)
      /\ \A s \in 1..records[r].count : copy[s] = records[r].originals[s]
    <2>1. ASSUME NEW s \in 1..length, s <= records[r].generation
          PROVE  copy[s] \in Pointers /\ IsNative(copy, s)
        <3>1. s \in 1..Len(records[r].originals) /\ copy[s] = records[r].originals[s]
            BY <1>6, <2>1
        <3>2. records[r].originals[s] \in Pointers
            BY <1>3, <3>1, RecordTypes, ElementOfSeq
        <3> QED BY <1>3, <3>1, <3>2 DEF RecordCovers, IsNative
    <2>2. ASSUME NEW s \in 1..length, ~(s <= records[r].generation)
          PROVE  copy[s] \in Pointers /\ IsNative(copy, s)
        <3>1. s \in Slots /\ copy[s] = shadows[r][s] /\ ~(s <= records[r].count)
            BY <1>3, <1>6, <2>2 DEF Slots
        <3> QED BY <1>3, <3>1, RecordTypes DEF RecordCovers, IsNative, Tables
    <2>3. copy \in [1..length -> Pointers] /\ length \in Nat
        <3>1. \A s \in 1..length : copy[s] \in Pointers
            BY <2>1, <2>2
        <3>2. copy = [s \in 1..length |-> copy[s]]
            OBVIOUS
        <3> HIDE DEF copy
        <3> QED BY <1>3, <3>1, <3>2
    <2>4. copy \in Seq(Pointers) /\ Len(copy) = length
        BY <2>3, SeqDef
    <2>5. \A s \in 1..records[r].count : copy[s] = records[r].originals[s]
        BY <1>3, <1>4, <1>6
    <2> QED BY <2>1, <2>2, <2>4, <2>5
<1> HIDE DEF copy
<1>8. /\ local'[t].record = r /\ local'[t].originals = copy /\ local'[t].length = length
      /\ local'[t].path = local[t].path
      /\ \A u \in Threads : u # t => local'[u] = local[u]
    BY <1>1, <1>2 DEF TypeOK, Locals
<1>9. /\ pc'[t] = "originals" /\ \A u \in Threads : u # t => pc'[u] = pc[u]
      /\ \A u \in Threads : pc[u] \notin Holding
    BY <1>1, <1>2, ShadowAssumption DEF TypeOK
<1>10. Untouched
    BY <1>1, <1>2, MovedUntouched DEF ExpandSnapshot
<1>11. FindRecord' = r /\ Attached' /\ OneActive' /\ TablesLead' /\ RecordCovers'
    BY <1>5, <1>10, UntouchedKeeps
<1>12. TypeOK'
    <2>1. local[t] \in Locals /\ local \in [Threads -> Locals]
        BY <1>1 DEF TypeOK
    <2>4. [local[t] EXCEPT !.record = r, !.originals = copy] \in Locals
        BY <1>3, <1>7, <2>1 DEF Locals
    <2>5. local' = [local EXCEPT ![t] = [local[t] EXCEPT !.record = r, !.originals = copy]]
        BY <1>1, <1>2, <2>1, Zenon
    <2>2. local' \in [Threads -> Locals]
        BY <1>1, <2>1, <2>4, <2>5
    <2>3. \A u \in Threads : pc'[u] \in Holding <=> lockOwner' = u
        BY <1>1, <1>2, <1>9 DEF Holding
    <2> QED BY <1>1, <1>2, <2>2, <2>3 DEF TypeOK, Locations, Holding
<1>13. ObjectInUse' /\ RetiredRecord'
    <2>1. \A u \in Threads : pc'[u] = "retire" => u # t /\ pc[u] = "retire"
        BY <1>9
    <2>2. RetiredRecord'
        BY <1>8, <1>11, <2>1 DEF RetiredRecord
    <2>3. ObjectInUse'
        BY <1>1, <1>2, <1>8, <1>9 DEF ObjectInUse, Installing, Holding
    <2> QED BY <2>2, <2>3
<1>14. ReaderFinds'
    BY <1>1, <1>2, <1>8, <1>9, <1>11 DEF ReaderFinds, Searching
<1>15. LengthsAgree'
    <2>1. lockOwner' # NoThread
        BY <1>1, <1>2, ShadowAssumption
    <2>2. \A u \in Threads : u # t => pc'[u] \notin Holding
        BY <1>9
    <2>3. /\ records' = records /\ records[r].generation < length
          /\ records[r].count = records[r].generation /\ Len(records[r].originals) = records[r].count
        BY <1>2, <1>4, <1>6
    <2> QED BY <1>7, <1>8, <1>9, <1>11, <2>1, <2>2, <2>3 DEF LengthsAgree, Holding, Expanding
<1>16. CreatorAlone'
    BY <1>1, <1>2, <1>9, <1>11 DEF CreatorAlone, Installing, Holding
<1>17. PathsEnterOnce'
    BY <1>8, <1>9 DEF PathsEnterOnce, Searching
<1> QED BY <1>11, <1>12, <1>13, <1>14, <1>15, <1>16, <1>17

LEMMA ExpandOriginalsKeeps ==
    ASSUME IInv, NEW t \in Installers, ExpandOriginals(t)
    PROVE  IInv' /\ (Attached => Attached')
<1> USE DEF IInv
<1> DEFINE r == FindRecord
<1> DEFINE length == local[t].length
<1> DEFINE e == [records[r] EXCEPT !.originals = local[t].originals]
<1>1. t \in Threads /\ pc[t] = "originals" /\ pc[t] \in Holding \ {"swing"} /\ pc[t] \in Expanding
    BY DEF ExpandOriginals, Goto, Threads, Holding, Expanding
<1>2. /\ Attached /\ alive /\ local[t].record = r /\ r \in DOMAIN records /\ r # 0
      /\ records[r].active /\ length \in Lengths /\ lockOwner = t
      /\ length \in 1..SlotCount /\ SlotCount \in Nat
      /\ \A u \in Threads : u # t => pc[u] \notin Holding
    BY <1>1, WorkingOn
<1>3. /\ pc' = [pc EXCEPT ![t] = "entryCount"]
      /\ UNCHANGED <<alive, vtable, root, foreign, shadows, lockOwner, local, captured, wrapped>>
    BY DEF ExpandOriginals, Goto
<1>4. records' = [records EXCEPT ![r] = e]
    BY <1>2 DEF ExpandOriginals
<1>5. /\ e \in Records /\ e.active = records[r].active /\ e.count = records[r].count
      /\ e.originals = local[t].originals /\ e.generation = records[r].generation
    <2>1. local[t].originals \in Seq(Pointers)
        BY <1>1 DEF TypeOK, Locals
    <2>2. records[r] \in Records
        BY <1>2, RecordTypes
    <2> QED BY <1>2, <2>1, <2>2 DEF Records
<1>6. /\ Len(e.originals) = length /\ e.count < length /\ e.count = e.generation
      /\ \A s \in 1..length : IsNative(e.originals, s)
    BY <1>1, <1>5 DEF LengthsAgree
<1> HIDE DEF e
<1>7. /\ records' \in Seq(Records) /\ Len(records') = Len(records) /\ DOMAIN records' = DOMAIN records
      /\ records'[r] = e /\ \A q \in DOMAIN records' : records'[q].active => q = r
      /\ FindRecord' = r /\ OneActive'
    BY <1>2, <1>4, <1>5, ActiveRecordChanges
<1>8. Table' = Table
    BY <1>3 DEF Table
<1>9. \A u \in Threads : pc'[u] = (IF u = t THEN "entryCount" ELSE pc[u])
    BY <1>1, <1>3 DEF TypeOK
<1>10. ~Retiring' /\ ~Swinging' /\ Attached'
    BY <1>2, <1>3, <1>7, <1>9 DEF Attached, Retiring, Swinging
<1>11. TypeOK'
    <2>1. \A u \in Threads : pc'[u] \in Holding <=> lockOwner' = u
        BY <1>1, <1>3, <1>9 DEF TypeOK, Holding
    <2> QED BY <1>1, <1>3, <1>7, <2>1 DEF TypeOK, Locations, Holding
<1>12. ObjectInUse' /\ RetiredRecord'
    BY <1>2, <1>3, <1>9, <1>10, <1>1 DEF ObjectInUse, RetiredRecord, Retiring, Installing, Holding
<1>13. TablesLead'
    BY <1>2, <1>3, <1>5, <1>7, <1>8, <1>10 DEF TablesLead
<1>14. RecordCovers'
    <2>1. e.count \in Nat
        BY <1>2, <1>5, RecordTypes
    <2>2. e.count <= Len(e.originals)
        BY <1>2, <1>6, <2>1
    <2>3. \A s \in 1..Len(e.originals) : IsNative(e.originals, s)
        BY <1>6
    <2> QED BY <1>2, <1>3, <1>5, <1>7, <2>2, <2>3 DEF RecordCovers
<1>15. ReaderFinds'
    BY <1>2, <1>3, <1>5, <1>7, <1>9, <1>10 DEF ReaderFinds, Searching
<1>16. LengthsAgree'
    <2>1. lockOwner' # NoThread
        BY <1>1, <1>2, <1>3, ShadowAssumption
    <2>2. e.generation < length
        BY <1>6
    <2> QED BY <1>1, <1>2, <1>3, <1>5, <1>6, <1>7, <1>9, <1>10, <2>1, <2>2 DEF LengthsAgree, Holding, Expanding
<1>17. CreatorAlone'
    BY <1>1, <1>2, <1>3, <1>7, <1>9, <1>10 DEF CreatorAlone, Installing, Holding
<1>18. PathsEnterOnce'
    BY <1>1, <1>3, <1>9 DEF PathsEnterOnce, Searching
<1> QED BY <1>7, <1>10, <1>11, <1>12, <1>13, <1>14, <1>15, <1>16, <1>17, <1>18

LEMMA ExpandCountKeeps ==
    ASSUME IInv, NEW t \in Installers, ExpandCount(t)
    PROVE  IInv' /\ (Attached => Attached')
<1> USE DEF IInv
<1> DEFINE r == FindRecord
<1> DEFINE length == local[t].length
<1> DEFINE e == [records[r] EXCEPT !.count = length]
<1>1. t \in Threads /\ pc[t] = "entryCount" /\ pc[t] \in Holding \ {"swing"} /\ pc[t] \in Expanding
    BY DEF ExpandCount, Goto, Threads, Holding, Expanding
<1>2. /\ Attached /\ alive /\ local[t].record = r /\ r \in DOMAIN records /\ r # 0
      /\ records[r].active /\ length \in Lengths /\ lockOwner = t
      /\ length \in 1..SlotCount /\ SlotCount \in Nat
      /\ \A u \in Threads : u # t => pc[u] \notin Holding
    BY <1>1, WorkingOn
<1>3. /\ pc' = [pc EXCEPT ![t] = "slots"]
      /\ UNCHANGED <<alive, vtable, root, foreign, shadows, lockOwner, local, captured, wrapped>>
    BY DEF ExpandCount, Goto
<1>4. records' = [records EXCEPT ![r] = e]
    BY <1>2 DEF ExpandCount
<1>5. /\ e \in Records /\ e.active = records[r].active /\ e.count = length
      /\ e.originals = records[r].originals /\ e.generation = records[r].generation
    BY <1>1, <1>2, RecordTypes DEF Records
<1>6. /\ Len(e.originals) = length /\ records[r].count < length /\ e.generation < length
    BY <1>1, <1>5 DEF LengthsAgree
<1> HIDE DEF e
<1>7. /\ records' \in Seq(Records) /\ Len(records') = Len(records) /\ DOMAIN records' = DOMAIN records
      /\ records'[r] = e /\ \A q \in DOMAIN records' : records'[q].active => q = r
      /\ FindRecord' = r /\ OneActive'
    BY <1>2, <1>4, <1>5, ActiveRecordChanges
<1>8. Table' = Table
    BY <1>3 DEF Table
<1>9. \A u \in Threads : pc'[u] = (IF u = t THEN "slots" ELSE pc[u])
    BY <1>1, <1>3 DEF TypeOK
<1>10. ~Retiring' /\ ~Swinging' /\ Attached'
    BY <1>2, <1>3, <1>7, <1>9 DEF Attached, Retiring, Swinging
<1>11. TypeOK'
    <2>1. \A u \in Threads : pc'[u] \in Holding <=> lockOwner' = u
        BY <1>1, <1>3, <1>9 DEF TypeOK, Holding
    <2> QED BY <1>1, <1>3, <1>7, <2>1 DEF TypeOK, Locations, Holding
<1>12. ObjectInUse' /\ RetiredRecord'
    BY <1>2, <1>3, <1>9, <1>10, <1>1 DEF ObjectInUse, RetiredRecord, Retiring, Installing, Holding
<1>13. /\ records[r].count \in Nat /\ length \in Nat
       /\ \A s \in Slots : s <= records[r].count => s <= length
       /\ \A x \in 1..records[r].count : x \in 1..length
    <2>1. records[r].count \in Nat
        BY <1>2, RecordTypes
    <2> QED BY <1>2, <1>6, <2>1 DEF Slots
<1>14. TablesLead'
    BY <1>2, <1>3, <1>5, <1>7, <1>8, <1>10, <1>13 DEF TablesLead
<1>15. RecordCovers'
    BY <1>2, <1>3, <1>5, <1>6, <1>7, <1>13 DEF RecordCovers
<1>16. ReaderFinds'
    BY <1>2, <1>3, <1>5, <1>7, <1>9, <1>10, <1>13 DEF ReaderFinds, Searching
<1>17. LengthsAgree'
    <2>1. lockOwner' # NoThread
        BY <1>1, <1>2, <1>3, ShadowAssumption
    <2> QED BY <1>1, <1>2, <1>3, <1>5, <1>6, <1>7, <1>9, <1>10, <2>1 DEF LengthsAgree, Holding, Expanding
<1>18. CreatorAlone'
    BY <1>1, <1>2, <1>3, <1>7, <1>9, <1>10 DEF CreatorAlone, Installing, Holding
<1>19. PathsEnterOnce'
    BY <1>1, <1>3, <1>9 DEF PathsEnterOnce, Searching
<1> QED BY <1>7, <1>10, <1>11, <1>12, <1>14, <1>15, <1>16, <1>17, <1>18, <1>19

\* Another table is written; which record is in use, and what its entries are,
\* stays.
LEMMA ExpandSlotsKeeps ==
    ASSUME IInv, NEW t \in Installers, ExpandSlots(t)
    PROVE  IInv' /\ (Attached => Attached')
<1> USE DEF IInv
<1> DEFINE r == FindRecord
<1> DEFINE length == local[t].length
<1> DEFINE fresh == {s \in Hooked \cap 1..length : s > records[r].generation}
<1> DEFINE table == Replaced(shadows[r], fresh)
<1>1. t \in Threads /\ pc[t] = "slots" /\ pc[t] \in Holding \ {"swing"} /\ pc[t] \in Expanding
    BY DEF ExpandSlots, Goto, Threads, Holding, Expanding
<1>2. /\ Attached /\ alive /\ local[t].record = r /\ r \in DOMAIN records /\ r # 0
      /\ records[r].active /\ length \in Lengths /\ lockOwner = t
      /\ length \in 1..SlotCount /\ SlotCount \in Nat
      /\ \A u \in Threads : u # t => pc[u] \notin Holding
    BY <1>1, WorkingOn
<1>3. /\ pc' = [pc EXCEPT ![t] = "generation"] /\ shadows' = [shadows EXCEPT ![r] = table]
      /\ UNCHANGED <<alive, vtable, root, foreign, records, lockOwner, local, captured, wrapped>>
    BY <1>2 DEF ExpandSlots, Goto
<1>4. /\ fresh \subseteq Slots /\ shadows[r] \in Tables /\ r \in DOMAIN shadows
      /\ DOMAIN shadows = DOMAIN records /\ r # Foreign
    BY <1>2, RecordTypes, ShadowAssumption DEF Foreign
<1>5. records[r].count = length /\ Len(records[r].originals) = length
    BY <1>1 DEF LengthsAgree
<1>6. /\ table \in Tables
      /\ \A s \in Common : ~IsNative(table, s)
      /\ \A s \in Slots : ~IsNative(table, s) => s <= length
    <2>1. /\ table \in Tables /\ \A s \in fresh : ~IsNative(table, s)
          /\ \A s \in Slots \ fresh : table[s] = shadows[r][s]
        BY <1>4, ReplacedTable
    <2>2. /\ \A s \in Common : ~IsNative(shadows[r], s)
          /\ \A s \in Slots : ~IsNative(shadows[r], s) => s <= length
        BY <1>2, <1>5 DEF RecordCovers
    <2>3. \A s \in fresh : s <= length
        BY <1>2
    <2>4. Common \subseteq Slots
        BY ShadowAssumption DEF Common
    <2> QED BY <2>1, <2>2, <2>3, <2>4 DEF IsNative
<1> HIDE DEF table, fresh
<1>7. /\ shadows' \in Seq(Tables) /\ Len(shadows') = Len(shadows) /\ DOMAIN shadows' = DOMAIN shadows
      /\ shadows'[r] = table
    BY <1>3, <1>4, <1>6, ChangedEntry DEF TypeOK
<1>8. FindRecord' = r
    BY <1>3 DEF FindRecord
<1>9. \A u \in Threads : pc'[u] = (IF u = t THEN "generation" ELSE pc[u])
    BY <1>1, <1>3 DEF TypeOK
<1>10. ~Retiring' /\ ~Swinging' /\ Attached'
    BY <1>2, <1>3, <1>8, <1>9 DEF Attached, Retiring, Swinging
<1>11. vtable \in {r, Foreign}
    BY <1>2 DEF TablesLead
<1>12. \/ vtable = r /\ Table' = table
       \/ vtable = Foreign /\ Table' = Table
    BY <1>2, <1>3, <1>4, <1>7, <1>11, ShadowAssumption DEF Table, Foreign
<1>13. TypeOK'
    <2>1. \A u \in Threads : pc'[u] \in Holding <=> lockOwner' = u
        BY <1>1, <1>3, <1>9 DEF TypeOK, Holding
    <2> QED BY <1>1, <1>3, <1>7, <2>1 DEF TypeOK, Locations, Holding
<1>14. OneActive' /\ ObjectInUse' /\ RetiredRecord'
    BY <1>2, <1>3, <1>8, <1>9, <1>10, <1>1
    DEF OneActive, ObjectInUse, RetiredRecord, Retiring, Installing, Holding
<1>15. TablesLead'
    BY <1>2, <1>3, <1>5, <1>6, <1>8, <1>10, <1>11, <1>12 DEF TablesLead, IsNative
<1>16. RecordCovers'
    <2>1. \A q \in DOMAIN records : records[q].active => q = r
        BY RecordNow
    <2> QED BY <1>2, <1>3, <1>5, <1>6, <1>7, <2>1 DEF RecordCovers, IsNative
<1>17. ReaderFinds'
    BY <1>2, <1>3, <1>8, <1>9, <1>10 DEF ReaderFinds, Searching
<1>18. LengthsAgree'
    <2>1. lockOwner' # NoThread
        BY <1>1, <1>2, <1>3, ShadowAssumption
    <2> QED BY <1>1, <1>2, <1>3, <1>5, <1>8, <1>9, <1>10, <2>1 DEF LengthsAgree, Holding, Expanding
<1>19. CreatorAlone'
    BY <1>1, <1>2, <1>3, <1>9, <1>10 DEF CreatorAlone, Installing, Holding
<1>20. PathsEnterOnce'
    BY <1>1, <1>3, <1>9 DEF PathsEnterOnce, Searching
<1> QED BY <1>10, <1>13, <1>14, <1>15, <1>16, <1>17, <1>18, <1>19, <1>20

-----------------------------------------------------------------------------
(* Other modules, at any moment: wrapped functions lead where they led.      *)

SameLead(new, old) == \A s \in Slots : IsNative(new, s) <=> IsNative(old, s)

LEMMA PatchedKeeps ==
    ASSUME IInv,
           UNCHANGED <<alive, records, lockOwner, pc, local, captured>>,
           root' \in Tables, foreign' \in Tables,
           shadows' \in Seq(Tables), Len(shadows') = Len(shadows),
           vtable' = vtable \/ (alive /\ vtable' = Foreign),
           wrapped' \in [Slots -> SUBSET Overlays],
           SameLead(root', root), alive => SameLead(Table', Table),
           \A r \in DOMAIN records : SameLead(shadows'[r], shadows[r])
    PROVE  IInv' /\ (Attached => Attached')
<1> USE DEF IInv
<1>1. FindRecord' = FindRecord /\ Attached' = Attached
    BY DEF FindRecord, Attached, Retiring, Swinging
<1>2. DOMAIN shadows' = DOMAIN shadows
    BY LenProperties DEF TypeOK
<1>3. Common \subseteq Slots
    BY ShadowAssumption DEF Common
<1>4. TypeOK'
    BY <1>2 DEF TypeOK
<1>5. OneActive' /\ RetiredRecord' /\ PathsEnterOnce' /\ ReaderFinds'
    BY <1>1 DEF OneActive, RetiredRecord, PathsEnterOnce, ReaderFinds
<1>6. ObjectInUse'
    BY <1>1 DEF ObjectInUse, Retiring
<1>7. TablesLead'
    <2>1. \A s \in Slots : IsNative(root', s)
        BY DEF TablesLead, SameLead
    <2>2. ASSUME alive, ~Attached
          PROVE  vtable' \in {0, Foreign} /\ \A s \in Slots : IsNative(Table', s)
        BY <2>2 DEF TablesLead, SameLead
    <2>3. ASSUME Attached
          PROVE  /\ vtable' \in {FindRecord, Foreign}
                 /\ \A s \in Common : ~IsNative(Table', s)
                 /\ \A s \in Slots : ~IsNative(Table', s) => s <= records[FindRecord].count
        BY <1>3, <2>3 DEF TablesLead, SameLead, Attached
    <2> QED BY <1>1, <2>1, <2>2, <2>3 DEF TablesLead, IsNative
<1>8. RecordCovers'
    <2>1. ASSUME NEW r \in DOMAIN records, records[r].active
          PROVE  /\ \A s \in Common : ~IsNative(shadows'[r], s)
                 /\ \A s \in Slots : ~IsNative(shadows'[r], s) => s <= records[r].count
        BY <1>3, <2>1 DEF RecordCovers, SameLead
    <2> QED BY <2>1 DEF RecordCovers, IsNative
<1>9. LengthsAgree'
    BY <1>1 DEF LengthsAgree, Retiring
<1>10. CreatorAlone'
    BY <1>1 DEF CreatorAlone
<1> QED BY <1>1, <1>4, <1>5, <1>6, <1>7, <1>8, <1>9, <1>10

LEMMA PatchInPlaceKeeps ==
    ASSUME IInv, NEW o \in Overlays, NEW s \in Slots, PatchInPlace(o, s)
    PROVE  IInv' /\ (Attached => Attached')
<1> USE DEF IInv
<1> DEFINE wrapping == [Table EXCEPT ![s] = Wrap(o, @)]
<1>1. /\ alive
      /\ root' = (IF vtable = 0 THEN wrapping ELSE root)
      /\ foreign' = (IF vtable = Foreign THEN wrapping ELSE foreign)
      /\ shadows' = (IF vtable \in DOMAIN shadows THEN [shadows EXCEPT ![vtable] = wrapping] ELSE shadows)
      /\ wrapped' = [wrapped EXCEPT ![s] = @ \cup {o}]
      /\ UNCHANGED <<alive, vtable, records, lockOwner, pc, local, captured>>
    BY DEF PatchInPlace
<1>2. wrapping \in Tables /\ SameLead(wrapping, Table)
    BY RecordTypes, WrappedTable DEF SameLead
<1> HIDE DEF wrapping
<1>3. /\ vtable \in {0, Foreign} \cup DOMAIN shadows /\ DOMAIN shadows = 1..Len(records)
      /\ Foreign \notin DOMAIN shadows /\ 0 \notin DOMAIN shadows /\ Foreign # 0
      /\ DOMAIN shadows = DOMAIN records
    <2>1. Len(records) \in 0..MaxRecords /\ MaxRecords \in Nat
        BY RecordTypes, ShadowAssumption
    <2>2. DOMAIN shadows = 1..Len(records) /\ DOMAIN shadows = DOMAIN records
        BY RecordTypes
    <2>3. vtable \in {0, Foreign} \cup DOMAIN shadows
        BY DEF TypeOK
    <2> QED BY <2>1, <2>2, <2>3 DEF Foreign
<1>4. wrapped' \in [Slots -> SUBSET Overlays]
    BY <1>1 DEF TypeOK
<1>5. /\ \A x \in Slots : IsNative(root, x)
      /\ root \in Tables /\ foreign \in Tables /\ shadows \in Seq(Tables)
    BY DEF TablesLead, TypeOK
<1>6. CASE vtable = 0
    <2>1. /\ root' = wrapping /\ foreign' = foreign /\ shadows' = shadows
          /\ Table = root /\ Table' = wrapping
        BY <1>1, <1>3, <1>6 DEF Table
    <2> QED BY <1>1, <1>2, <1>4, <1>5, <2>1, PatchedKeeps DEF SameLead
<1>7. CASE vtable = Foreign
    <2>1. root' = root /\ foreign' = wrapping /\ shadows' = shadows /\ Table' = wrapping
        BY <1>1, <1>3, <1>7 DEF Table, Foreign
    <2> QED BY <1>1, <1>2, <1>4, <1>5, <2>1, PatchedKeeps DEF SameLead
<1>8. CASE vtable \in DOMAIN shadows
    <2>1. /\ root' = root /\ foreign' = foreign /\ shadows' = [shadows EXCEPT ![vtable] = wrapping]
          /\ Table = shadows[vtable]
        BY <1>1, <1>3, <1>8 DEF Table
    <2>2. /\ shadows' \in Seq(Tables) /\ Len(shadows') = Len(shadows) /\ shadows'[vtable] = wrapping
          /\ \A q \in DOMAIN shadows : q # vtable => shadows'[q] = shadows[q]
        BY <1>2, <1>5, <1>8, <2>1, ChangedEntry
    <2>3. Table' = wrapping
        BY <1>1, <1>3, <1>8, <2>2 DEF Table, Foreign
    <2>4. \A r \in DOMAIN records : SameLead(shadows'[r], shadows[r])
        BY <1>2, <1>3, <2>1, <2>2 DEF SameLead
    <2>5. SameLead(root', root) /\ SameLead(Table', Table)
        BY <1>2, <2>1, <2>3 DEF SameLead
    <2> QED BY <1>1, <1>4, <1>5, <2>1, <2>2, <2>4, <2>5, PatchedKeeps
<1> QED BY <1>3, <1>6, <1>7, <1>8

LEMMA PatchRootKeeps ==
    ASSUME IInv, NEW o \in Overlays, NEW s \in Slots, PatchRoot(o, s)
    PROVE  IInv' /\ (Attached => Attached')
<1> USE DEF IInv
<1>1. /\ ~(alive /\ vtable = 0) /\ root' = [root EXCEPT ![s] = Wrap(o, @)]
      /\ wrapped' = wrapped \/ wrapped' = [wrapped EXCEPT ![s] = @ \cup {o}]
      /\ UNCHANGED <<alive, vtable, foreign, shadows, records, lockOwner, pc, local, captured>>
    BY DEF PatchRoot
<1>2. root' \in Tables /\ SameLead(root', root)
    BY <1>1, WrappedTable DEF SameLead, TypeOK
<1>3. wrapped' \in [Slots -> SUBSET Overlays]
    BY <1>1 DEF TypeOK
<1>4. alive => Table' = Table
    BY <1>1 DEF Table, Foreign
<1> QED BY <1>1, <1>2, <1>3, <1>4, PatchedKeeps DEF SameLead, TypeOK

LEMMA ReplaceVtableKeeps ==
    ASSUME IInv, NEW o \in Overlays, NEW s \in Slots, ReplaceVtable(o, s)
    PROVE  IInv' /\ (Attached => Attached')
<1> USE DEF IInv
<1>1. /\ alive /\ vtable' = Foreign /\ foreign' = [Table EXCEPT ![s] = Wrap(o, @)]
      /\ wrapped' = [wrapped EXCEPT ![s] = @ \cup {o}]
      /\ UNCHANGED <<alive, root, shadows, records, lockOwner, pc, local, captured>>
    BY DEF ReplaceVtable
<1>2. foreign' \in Tables /\ SameLead(foreign', Table)
    BY <1>1, RecordTypes, WrappedTable DEF SameLead
<1>3. wrapped' \in [Slots -> SUBSET Overlays]
    BY <1>1 DEF TypeOK
<1>4. Table' = foreign'
    BY <1>1, ShadowAssumption DEF Table, Foreign
<1> QED BY <1>1, <1>2, <1>3, <1>4, PatchedKeeps DEF SameLead, TypeOK

-----------------------------------------------------------------------------
(* Theorems.                                                                 *)

LEMMA Inductive == IInv /\ [Next]_vars => IInv'
<1> SUFFICES ASSUME IInv, [Next]_vars PROVE IInv'
    OBVIOUS
<1>1. ASSUME NEW t \in Installers, NEW length \in Lengths, Create(t, length) \/ Query(t, length)
      PROVE  IInv'
    BY <1>1, CreateKeeps, QueryKeeps
<1>2. ASSUME NEW t \in Installers, Install(t) PROVE IInv'
    BY <1>2, InstallNothingKeeps, InstallCloneKeeps, InstallSwingKeeps, InstallAbandonedKeeps,
       PublishGenerationKeeps, InstallRefusedKeeps, ExpandSnapshotKeeps, ExpandOriginalsKeeps,
       ExpandCountKeeps, ExpandSlotsKeeps DEF Install
<1>3. ASSUME NEW t \in Installers, Release(t) \/ Retire(t) PROVE IInv'
    BY <1>3, ReleaseKeeps, RetireKeeps
<1>4. ASSUME NEW t \in Callers, Read(t) PROVE IInv'
    BY <1>4, LookUpRecordKeeps, LoadCountKeeps, LoadFunctionKeeps, ReturnKeeps DEF Read
<1>5. ASSUME NEW t \in Callers, NEW s \in Slots, Call(t, s) PROVE IInv'
    BY <1>5, CallKeeps
<1>6. ASSUME NEW o \in Overlays, NEW s \in Slots,
             PatchInPlace(o, s) \/ PatchRoot(o, s) \/ ReplaceVtable(o, s)
      PROVE  IInv'
    BY <1>6, PatchInPlaceKeeps, PatchRootKeeps, ReplaceVtableKeeps
<1>7. CASE UNCHANGED vars
    <2>1. /\ UNCHANGED <<alive, records, lockOwner, pc, local, captured>>
          /\ UNCHANGED <<root, foreign, shadows, vtable, wrapped>> /\ Table' = Table
        BY <1>7 DEF vars, Table, Foreign
    <2> QED BY <2>1, PatchedKeeps DEF SameLead, IInv, TypeOK
<1> QED BY <1>1, <1>2, <1>3, <1>4, <1>5, <1>6, <1>7 DEF Next

\* The inductive invariant of captured objects, for any callers, installers and
\* modules that patch at any moment.
THEOREM ShadowInvariant == Spec => []IInv
BY InitHolds, Inductive, PTL DEF Spec

\* The variables keep their types, and the installation lock is held exactly
\* between the steps of one installation or expansion.
THEOREM TypeCorrect == Spec => []TypeOK
BY ShadowInvariant, PTL DEF IInv

\* However the lock-free reader interleaves with installations, expansions and
\* patches, it finds a record and, within the entry count, a function.
THEOREM CallsAreAnswered == Spec => []CallsAnswered
<1>1. IInv => CallsAnswered
    BY DEF IInv, ReaderFinds, CallsAnswered
<1> QED BY <1>1, ShadowInvariant, PTL

\* A slot that passed the check against entry_count lies in the function table
\* that is loaded next.
THEOREM ReadsStayInBounds == Spec => []ReadsInBounds
<1>1. IInv => ReadsInBounds
    BY ContinuationLeads DEF ReadsInBounds
<1> QED BY <1>1, ShadowInvariant, PTL

\* No call runs through the replacement twice.
THEOREM CallsEnterOnce == Spec => []NoRecursion
<1>1. ASSUME IInv, NEW t \in Threads
      PROVE  Cardinality({i \in DOMAIN local[t].path : local[t].path[i] = Hook}) <= 1
    <2> DEFINE entries == {i \in DOMAIN local[t].path : local[t].path[i] = Hook}
    <2>1. \A i, j \in entries : i = j
        BY <1>1 DEF IInv, PathsEnterOnce
    <2>2. CASE entries = {}
        BY <2>2, FS_EmptySet
    <2>3. ASSUME NEW i \in entries PROVE Cardinality(entries) <= 1
        <3>1. entries = {i}
            BY <2>1, <2>3
        <3> QED BY <3>1, FS_Singleton
    <2> QED BY <2>2, <2>3
<1>2. IInv => NoRecursion
    BY <1>1 DEF NoRecursion
<1> QED BY <1>2, ShadowInvariant, PTL

\* Active records never overlap, and none outlives the Release that freed its
\* object by more than the step that retires it.
THEOREM RecordsStayCurrent == Spec => []RecordsAreCurrent
<1>1. ASSUME IInv
      PROVE  Cardinality({r \in DOMAIN records : records[r].active}) <= 1
    <2> DEFINE actives == {r \in DOMAIN records : records[r].active}
    <2>1. \A r, q \in actives : r = q
        BY <1>1 DEF IInv, OneActive
    <2>2. CASE actives = {}
        BY <2>2, FS_EmptySet
    <2>3. ASSUME NEW r \in actives PROVE Cardinality(actives) <= 1
        <3>1. actives = {r}
            BY <2>1, <2>3
        <3> QED BY <3>1, FS_Singleton
    <2> QED BY <2>2, <2>3
<1>2. IInv => RecordsAreCurrent
    BY <1>1 DEF RecordsAreCurrent, IInv, ObjectInUse, Retiring
<1> QED BY <1>2, ShadowInvariant, PTL

-----------------------------------------------------------------------------
(* One installer: what the game was told of is what it has.                  *)

OneInstaller == \A t, u \in Installers : t = u

CapturedIsAttached == alive /\ captured => Attached

\* A record that a creator finds is that of a dead object whose Release is still
\* to retire it: with one installer there is none.
LEMMA CaptureStep ==
    ASSUME OneInstaller, IInv, CapturedIsAttached, [Next]_vars
    PROVE  CapturedIsAttached'
<1> USE DEF CapturedIsAttached
<1>1. ASSUME NEW t \in Installers, NEW length \in Lengths, Create(t, length)
      PROVE  CapturedIsAttached'
    BY <1>1 DEF Create
<1>2. ASSUME NEW t \in Installers, NEW length \in Lengths, Query(t, length)
      PROVE  CapturedIsAttached'
    BY <1>2, QueryKeeps DEF Query
<1>3. ASSUME NEW t \in Installers, InstallNothing(t) PROVE CapturedIsAttached'
    <2>1. pc[t] = "install" /\ FindRecord # 0 /\ t \in Threads /\ alive
        BY <1>3 DEF InstallNothing, NothingToInstall, Leave, Goto, Threads, IInv, ObjectInUse
    <2>2. ASSUME NEW u \in Threads PROVE pc[u] \notin {"retire", "swing"}
        BY <2>1 DEF IInv, ObjectInUse, Installing, Holding, OneInstaller
    <2>3. Attached
        BY <2>1, <2>2 DEF Attached, Retiring, Swinging
    <2> QED BY <1>3, <2>3, InstallNothingKeeps
<1>4. ASSUME NEW t \in Installers, InstallClone(t) \/ InstallSwing(t) \/ InstallAbandoned(t)
      PROVE  CapturedIsAttached'
    <2>1. CASE InstallClone(t)
        <3>1. ~captured /\ captured' = captured
            BY <2>1 DEF InstallClone, Goto, Threads, IInv, CreatorAlone, Attached
        <3> QED BY <3>1
    <2>2. CASE InstallSwing(t) \/ InstallAbandoned(t)
        <3>1. ~captured /\ captured' = captured
            BY <2>2 DEF InstallSwing, InstallAbandoned, Leave, Goto, Threads, IInv, LengthsAgree
        <3> QED BY <3>1
    <2> QED BY <1>4, <2>1, <2>2
<1>5. ASSUME NEW t \in Installers, PublishGeneration(t) PROVE CapturedIsAttached'
    <2>1. Attached
        BY <1>5, WorkingOn DEF PublishGeneration, Leave, Goto, Holding, Threads
    <2> QED BY <1>5, <2>1, PublishGenerationKeeps
<1>6. ASSUME NEW t \in Installers, InstallRefused(t) PROVE CapturedIsAttached'
    BY <1>6, InstallRefusedKeeps DEF InstallRefused
<1>7. ASSUME NEW t \in Installers,
             ExpandSnapshot(t) \/ ExpandOriginals(t) \/ ExpandCount(t) \/ ExpandSlots(t)
      PROVE  CapturedIsAttached'
    <2>1. alive' = alive /\ captured' = captured
        BY <1>7 DEF ExpandSnapshot, ExpandOriginals, ExpandCount, ExpandSlots
    <2> QED BY <1>7, <2>1, ExpandSnapshotKeeps, ExpandOriginalsKeeps, ExpandCountKeeps, ExpandSlotsKeeps
<1>8. ASSUME NEW t \in Installers, Release(t) PROVE CapturedIsAttached'
    BY <1>8 DEF Release
<1>9. ASSUME NEW t \in Installers, Retire(t) PROVE CapturedIsAttached'
    <2>1. Retiring /\ alive' = alive /\ captured' = captured
        BY <1>9 DEF Retire, Leave, Goto, Retiring, Threads
    <2> QED BY <2>1 DEF Attached
<1>10. ASSUME NEW t \in Callers, Read(t) PROVE CapturedIsAttached'
    <2>1. alive' = alive /\ captured' = captured
        BY <1>10 DEF Read, LookUpRecord, LoadCount, LoadFunction, Return
    <2> QED BY <1>10, <2>1, LookUpRecordKeeps, LoadCountKeeps, LoadFunctionKeeps, ReturnKeeps DEF Read
<1>11. ASSUME NEW t \in Callers, NEW s \in Slots, Call(t, s) PROVE CapturedIsAttached'
    BY <1>11, CallKeeps DEF Call
<1>12. ASSUME NEW o \in Overlays, NEW s \in Slots,
              PatchInPlace(o, s) \/ PatchRoot(o, s) \/ ReplaceVtable(o, s)
       PROVE  CapturedIsAttached'
    <2>1. alive' = alive /\ captured' = captured
        BY <1>12 DEF PatchInPlace, PatchRoot, ReplaceVtable
    <2> QED BY <1>12, <2>1, PatchInPlaceKeeps, PatchRootKeeps, ReplaceVtableKeeps
<1>13. CASE UNCHANGED vars
    BY <1>13 DEF vars, Attached, FindRecord, Retiring, Swinging
<1> QED BY <1>1, <1>2, <1>3, <1>4, <1>5, <1>6, <1>7, <1>8, <1>9, <1>10, <1>11, <1>12, <1>13
        DEF Next, Install

\* Of a set of naturals, the least.
LEMMA LeastNatural ==
    ASSUME NEW S \in SUBSET Nat, S # {}
    PROVE  Min(S) \in S /\ \A n \in S : Min(S) <= n
<1> DEFINE R == OpToRel(<, Nat)
<1>1. IsWellFoundedOn(R, Nat)
    BY NatLessThanWellFounded
<1>2. ASSUME NEW x \in Nat, NEW y \in Nat, <<x, y>> \notin R PROVE y <= x
    <2>1. ~(x < y)
        BY <1>2 DEF OpToRel
    <2> QED BY <2>1
<1> HIDE DEF R
<1>3. PICK x \in S : \A y \in S : ~ (<<y, x>> \in R)
    BY <1>1, WFMin, Zenon
<1>4. \A y \in S : x <= y
    BY <1>2, <1>3
<1> QED BY <1>4 DEF Min

\* With one thread that creates, queries and releases the objects, an
\* installation that returned Ok has hooked the object, whatever other modules
\* do to its tables meanwhile.
THEOREM CapturedIsHooked == OneInstaller /\ Spec => []CapturedMeansHooked
<1>1. ASSUME IInv, CapturedIsAttached PROVE CapturedMeansHooked
    <2>1. ASSUME alive, captured, NEW s \in Hooked \cap 1..Min(Lengths)
          PROVE  Reaches(Table[s]) = Hook
        <3>1. Attached
            BY <1>1, <2>1 DEF CapturedIsAttached
        <3>2. Lengths \in SUBSET Nat /\ Lengths # {}
            <4>1. Lengths \subseteq 1..SlotCount /\ SlotCount \in Nat
                BY <1>1, RecordTypes DEF IInv
            <4>2. records[FindRecord].count \in Lengths
                BY <1>1, <3>1, RecordNow, RecordTypes DEF IInv, Attached
            <4> QED BY <4>1, <4>2
        <3>3. s \in Common
            <4> DEFINE least == Min(Lengths)
            <4>1. least \in Lengths /\ \A n \in Lengths : least <= n
                BY <3>2, LeastNatural
            <4>2. s \in Hooked /\ s \in 1..least
                BY <2>1
            <4> HIDE DEF least
            <4>3. ASSUME NEW n \in Lengths PROVE s <= n
                <5>1. least \in Nat /\ n \in Nat /\ least <= n
                    BY <3>2, <4>1
                <5> QED BY <4>2, <5>1
            <4> QED BY <4>2, <4>3 DEF Common
        <3>4. ~IsNative(Table, s) /\ Table[s] \in Pointers
            BY <1>1, <3>1, <3>3, RecordTypes, ShadowAssumption DEF IInv, TablesLead, Common, Tables
        <3> QED BY <3>4, PointerShape DEF IsNative
    <2> QED BY <2>1 DEF CapturedMeansHooked
<1>2. CASE OneInstaller
    <2>1. Init => CapturedIsAttached
        BY DEF Init, CapturedIsAttached
    <2>2. IInv /\ CapturedIsAttached /\ [Next]_vars => CapturedIsAttached'
        BY <1>2, CaptureStep
    <2> QED BY <1>1, <2>1, <2>2, InitHolds, Inductive, PTL DEF Spec
<1> QED BY <1>2

-----------------------------------------------------------------------------
(* Patches that do not fall into an installation: every wrapper is called.   *)

OneLength == \A n, m \in Lengths : n = m

\* Other modules patch while no installation runs, and a table of dxgi.dll is
\* followed live only where the object has no longer interface to expand to:
\* what the run shadow_expansion shows does not happen.
Settled == ~PatchAnytime /\ (LiveRoot = FALSE \/ OneLength)

\* Where the replacement in slot s goes on for the object.
GoesOn(s) ==
    IF records[FindRecord].live /\ root[s] # <<Hook>>
    THEN root[s] ELSE records[FindRecord].originals[s]

\* A call through the table runs everybody who wrapped its slot.
Kept(table) ==
    \A s \in Slots :
        wrapped[s] \subseteq Range(table[s]) \cup
                             (IF IsNative(table, s) THEN {} ELSE Range(GoesOn(s)))

\* The originals that an expansion takes for the slots it is going to replace.
Taken(t) ==
    IF pc[t] = "originals" THEN local[t].originals ELSE records[FindRecord].originals

CloneFits(t) ==
    pc[t] = "swing" => vtable = local[t].record /\ Kept(shadows[FindRecord])

ExpansionFits(t) ==
    pc[t] \in Expanding =>
        /\ vtable = FindRecord /\ ~records[FindRecord].live
        /\ \A s \in 1..local[t].length :
            s > records[FindRecord].generation => Taken(t)[s] = shadows[FindRecord][s]

CallFits(t) ==
    /\ pc[t] \in Searching =>
        local[t].due \subseteq Range(local[t].path) \cup Range(GoesOn(local[t].slot))
    /\ pc[t] = "returned" => local[t].due \subseteq Range(local[t].path)

LiveFromRoot == \A r \in DOMAIN records : records[r].live => LiveRoot

WrapInv ==
    /\ LiveFromRoot
    /\ alive => Kept(Table)
    /\ \A t \in Threads : CloneFits(t) /\ ExpansionFits(t) /\ CallFits(t)

\* A function that leads to DXGI is not the bare replacement.
LEMMA NativeEntry ==
    ASSUME NEW table, NEW s, IsNative(table, s)
    PROVE  table[s] # <<Hook>>
    BY BarePointer, ShadowAssumption DEF IsNative

\* Steps that leave the tables alone concern the thread that takes them.
LEMMA OthersFit ==
    ASSUME WrapInv, NEW t \in Threads,
           UNCHANGED <<vtable, root, foreign, shadows, records, wrapped>>, alive' => alive,
           \A u \in Threads : u # t => pc'[u] = pc[u],
           \A u \in Threads : u # t => local'[u] = local[u],
           CloneFits(t)', ExpansionFits(t)', CallFits(t)'
    PROVE  WrapInv'
<1>1. FindRecord' = FindRecord /\ Table' = Table
    BY DEF FindRecord, Table, Foreign
<1>2. \A s \in Slots : GoesOn(s)' = GoesOn(s)
    BY <1>1 DEF GoesOn
<1>3. ASSUME NEW table, Kept(table) PROVE Kept(table)'
    BY <1>2, <1>3 DEF Kept
<1>4. alive' => Kept(Table)'
    BY <1>1, <1>2 DEF WrapInv, Kept
<1>5. ASSUME NEW u \in Threads, u # t
      PROVE  CloneFits(u)' /\ ExpansionFits(u)' /\ CallFits(u)'
    <2>1. /\ CloneFits(u) /\ ExpansionFits(u) /\ CallFits(u)
          /\ pc'[u] = pc[u] /\ local'[u] = local[u]
        BY <1>5 DEF WrapInv
    <2>2. CloneFits(u)'
        BY <1>1, <1>2, <2>1 DEF CloneFits, Kept
    <2>3. ExpansionFits(u)'
        BY <1>1, <2>1 DEF ExpansionFits, Taken
    <2>4. CallFits(u)'
        BY <1>1, <2>1 DEF CallFits, GoesOn
    <2> QED BY <2>2, <2>3, <2>4
<1>6. LiveFromRoot'
    BY DEF WrapInv, LiveFromRoot
<1> QED BY <1>4, <1>5, <1>6 DEF WrapInv

\* A thread that is nowhere in particular fits.
LEMMA IdlersFit ==
    ASSUME NEW t \in Threads, pc'[t] \in {"idle", "install", "retire", "lost"}
    PROVE  CloneFits(t)' /\ ExpansionFits(t)' /\ CallFits(t)'
    BY DEF CloneFits, ExpansionFits, CallFits, Expanding, Searching

\* Outside its own step, nobody clones, expands or searches while the object is
\* not attached and no other thread swings.
LEMMA IdlersInLine ==
    ASSUME IInv, NEW u \in Threads, ~Attached
    PROVE  pc[u] \notin Searching /\ pc[u] \notin Expanding
    BY DEF IInv, ReaderFinds, LengthsAgree, Holding, Expanding

\* A caller.
LEMMA CallerFits ==
    ASSUME IInv, WrapInv, NEW t \in Callers,
           Read(t) \/ \E s \in Slots : Call(t, s)
    PROVE  WrapInv'
<1> USE DEF IInv
<1>1. t \in Threads /\ local[t] \in Locals /\ CallFits(t)
    BY TypesNow DEF Threads, WrapInv
<1>2. ASSUME NEW s \in Slots, Call(t, s) PROVE WrapInv'
    <2>1. /\ alive /\ UNCHANGED <<alive, vtable, root, foreign, shadows, records, wrapped>>
          /\ pc' = [pc EXCEPT ![t] = IF Reaches(Table[s]) = Hook THEN "find" ELSE "returned"]
          /\ local' = [local EXCEPT ![t].slot = s, ![t].path = Table[s], ![t].due = wrapped[s]]
        BY <1>2 DEF Call, Goto
    <2>2. /\ pc'[t] = (IF Reaches(Table[s]) = Hook THEN "find" ELSE "returned")
          /\ \A u \in Threads : u # t => pc'[u] = pc[u]
        BY <1>1, <2>1 DEF TypeOK
    <2>3. /\ local'[t].slot = s /\ local'[t].path = Table[s] /\ local'[t].due = wrapped[s]
          /\ \A u \in Threads : u # t => local'[u] = local[u]
        BY <1>1, <2>1 DEF TypeOK, Locals
    <2>4. GoesOn(s)' = GoesOn(s)
        BY <2>1 DEF GoesOn, FindRecord
    <2>5. Reaches(Table[s]) \in {Hook, Native}
        BY RecordTypes, PointerShape DEF Tables
    <2>6. wrapped[s] \subseteq Range(Table[s]) \cup (IF Reaches(Table[s]) = Native THEN {} ELSE Range(GoesOn(s)))
        BY <2>1 DEF WrapInv, Kept, IsNative
    <2>7. CallFits(t)'
        <3>1. FindRecord' = FindRecord /\ root' = root /\ records' = records
            BY <2>1 DEF FindRecord
        <3>2. GoesOn(local[t].slot)' = GoesOn(s)
            BY <2>3, <3>1, Zenon DEF GoesOn
        <3> QED BY <2>2, <2>3, <2>5, <2>6, <3>2, ShadowAssumption DEF CallFits, Searching
    <2>8. CloneFits(t)' /\ ExpansionFits(t)'
        BY <2>2 DEF CloneFits, ExpansionFits, Expanding
    <2> QED BY <1>1, <2>1, <2>2, <2>3, <2>7, <2>8, OthersFit
<1>3. CASE LookUpRecord(t) \/ LoadCount(t)
    <2>1. /\ UNCHANGED <<alive, vtable, root, foreign, shadows, records, wrapped>>
          /\ pc[t] \in Searching
          /\ \E to \in {"lost", "count", "saved"} : pc' = [pc EXCEPT ![t] = to]
        BY <1>3 DEF LookUpRecord, LoadCount, Goto, Searching
    <2>2. local' = local \/ local' = [local EXCEPT ![t].record = FindRecord]
        BY <1>3 DEF LookUpRecord, LoadCount
    <2>3. /\ pc'[t] \in {"lost", "count", "saved"}
          /\ \A u \in Threads : u # t => pc'[u] = pc[u]
        BY <1>1, <2>1 DEF TypeOK
    <2>4. /\ local'[t].slot = local[t].slot /\ local'[t].path = local[t].path
          /\ local'[t].due = local[t].due
          /\ \A u \in Threads : u # t => local'[u] = local[u]
        BY <1>1, <2>2 DEF TypeOK, Locals
    <2>5. CallFits(t)'
        <3>1. GoesOn(local[t].slot)' = GoesOn(local[t].slot)
            BY <2>1, <2>4 DEF GoesOn, FindRecord
        <3> QED BY <1>1, <2>1, <2>3, <2>4, <3>1 DEF CallFits, Searching
    <2>6. CloneFits(t)' /\ ExpansionFits(t)'
        BY <2>3 DEF CloneFits, ExpansionFits, Expanding
    <2> QED BY <1>1, <2>1, <2>3, <2>4, <2>5, <2>6, OthersFit
<1>4. CASE LoadFunction(t)
    <2>1. /\ UNCHANGED <<alive, vtable, root, foreign, shadows, records, wrapped>>
          /\ pc[t] = "saved" /\ pc[t] \in Searching
          /\ local' = [local EXCEPT ![t].path = @ \o Continuation(t)]
          /\ pc' = [pc EXCEPT ![t] = IF Reaches(Continuation(t)) = Hook THEN "find" ELSE "returned"]
        BY <1>4 DEF LoadFunction, Follow, Goto, Searching
    <2>2. Continuation(t) = GoesOn(local[t].slot)
        BY <1>1, <2>1 DEF Continuation, GoesOn, Saved, ReaderFinds
    <2>3. Continuation(t) \in Pointers /\ Reaches(Continuation(t)) = Native
        BY <1>1, <2>1, ContinuationLeads
    <2>4. local[t].path \in Pointers
        BY <1>1, <2>1 DEF PathsEnterOnce
    <2>5. /\ local'[t].path = local[t].path \o Continuation(t) /\ local'[t].due = local[t].due
          /\ \A u \in Threads : u # t => local'[u] = local[u]
        BY <1>1, <2>1 DEF TypeOK, Locals
    <2>6. pc'[t] = "returned" /\ \A u \in Threads : u # t => pc'[u] = pc[u]
        BY <1>1, <2>1, <2>3, ShadowAssumption DEF TypeOK
    <2>7. Range(local'[t].path) = Range(local[t].path) \cup Range(GoesOn(local[t].slot))
        BY <2>2, <2>3, <2>4, <2>5, FollowedPath
    <2>8. CallFits(t)'
        BY <1>1, <2>1, <2>5, <2>6, <2>7 DEF CallFits, Searching
    <2>9. CloneFits(t)' /\ ExpansionFits(t)'
        BY <2>6 DEF CloneFits, ExpansionFits, Expanding
    <2> QED BY <1>1, <2>1, <2>5, <2>6, <2>8, <2>9, OthersFit
<1>5. CASE Return(t)
    <2>1. UNCHANGED <<alive, vtable, root, foreign, shadows, records, wrapped>>
        BY <1>5 DEF Return
    <2>2. pc' = [pc EXCEPT ![t] = "idle"] /\ local' = [local EXCEPT ![t] = Idle]
        BY <1>5 DEF Return, Leave, Goto
    <2>3. /\ pc'[t] = "idle"
          /\ \A u \in Threads : u # t => pc'[u] = pc[u]
          /\ \A u \in Threads : u # t => local'[u] = local[u]
        BY <1>1, <2>2 DEF TypeOK
    <2> QED BY <1>1, <2>1, <2>3, IdlersFit, OthersFit
<1> QED BY <1>2, <1>3, <1>4, <1>5 DEF Read

\* While the object is not attached, only the thread that installs or retires
\* has a claim on the tables.
LEMMA UnattachedFits ==
    ASSUME IInv, WrapInv, NEW t \in Threads, ~Attached,
           \A u \in Threads : u # t => pc[u] # "swing" /\ pc'[u] = pc[u],
           \A u \in Threads : u # t => local'[u] = local[u],
           LiveFromRoot', alive' => Kept(Table)',
           CloneFits(t)', ExpansionFits(t)', CallFits(t)'
    PROVE  WrapInv'
<1>1. ASSUME NEW u \in Threads, u # t
      PROVE  CloneFits(u)' /\ ExpansionFits(u)' /\ CallFits(u)'
    <2>1. /\ pc'[u] = pc[u] /\ local'[u] = local[u] /\ pc[u] # "swing"
          /\ pc[u] \notin Searching /\ pc[u] \notin Expanding /\ CallFits(u)
        BY <1>1, IdlersInLine DEF WrapInv
    <2> QED BY <2>1 DEF CloneFits, ExpansionFits, CallFits
<1> QED BY <1>1 DEF WrapInv

\* Steps of an installer before and after its work on the tables.
LEMMA BystanderFits ==
    ASSUME IInv, WrapInv, NEW t \in Installers,
           \/ InstallNothing(t) \/ InstallRefused(t) \/ Release(t)
           \/ \E length \in Lengths : Query(t, length)
    PROVE  WrapInv'
<1> USE DEF IInv
<1>1. t \in Threads
    BY DEF Threads
<1>2. UNCHANGED <<vtable, root, foreign, shadows, records, wrapped>> /\ (alive' => alive)
    BY DEF InstallNothing, InstallRefused, Release, Query
<1>3. \/ pc' = [pc EXCEPT ![t] = "idle"] \/ pc' = [pc EXCEPT ![t] = "retire"]
      \/ pc' = [pc EXCEPT ![t] = "install"] \/ (pc' = pc /\ pc[t] = "idle")
    BY DEF InstallNothing, InstallRefused, Release, Query, Leave, Goto
<1>4. /\ pc'[t] \in {"idle", "install", "retire"}
      /\ \A u \in Threads : u # t => pc'[u] = pc[u]
    BY <1>1, <1>3 DEF TypeOK
<1>5. \A u \in Threads : u # t => local'[u] = local[u]
    BY <1>1 DEF InstallNothing, InstallRefused, Release, Query, Leave, TypeOK
<1> QED BY <1>1, <1>2, <1>4, <1>5, IdlersFit, OthersFit

\* A new object has the table of new objects, with what is wrapped around it.
LEMMA CreateFits ==
    ASSUME IInv, WrapInv, NEW t \in Installers, NEW length \in Lengths, Create(t, length)
    PROVE  WrapInv'
<1> USE DEF IInv
<1>1. /\ t \in Threads /\ ~alive /\ pc' = [pc EXCEPT ![t] = "install"] /\ vtable' = 0
      /\ local' = [local EXCEPT ![t].length = length]
      /\ wrapped' = [s \in Slots |-> Range(root[s]) \cap Overlays]
      /\ UNCHANGED <<root, foreign, shadows, records, lockOwner>>
    BY DEF Create, Goto, Threads
<1>2. ~Attached
    BY <1>1 DEF Attached
<1>3. /\ pc'[t] = "install"
      /\ \A u \in Threads : u # t => pc[u] # "swing" /\ pc'[u] = pc[u]
      /\ \A u \in Threads : u # t => local'[u] = local[u]
    BY <1>1 DEF TypeOK, ObjectInUse
<1>4. Kept(Table)'
    <2>1. Table' = root
        BY <1>1 DEF Table
    <2>2. \A s \in Slots : wrapped'[s] \subseteq Range(root[s])
        BY <1>1
    <2> QED BY <2>1, <2>2 DEF Kept
<1>5. LiveFromRoot'
    BY <1>1 DEF WrapInv, LiveFromRoot
<1> QED BY <1>1, <1>2, <1>3, <1>4, <1>5, IdlersFit, UnattachedFits

\* An object whose address is being retired has no hooks to lose.
LEMMA RetireFits ==
    ASSUME IInv, WrapInv, NEW t \in Installers, Retire(t)
    PROVE  WrapInv'
<1> USE DEF IInv
<1>1. /\ t \in Threads /\ pc[t] = "retire" /\ pc' = [pc EXCEPT ![t] = "idle"]
      /\ local' = [local EXCEPT ![t] = Idle]
      /\ records' = [records EXCEPT ![local[t].record].active = FALSE]
      /\ UNCHANGED <<alive, vtable, root, foreign, shadows, wrapped>>
    BY DEF Retire, Leave, Goto, Threads
<1>2. Retiring /\ ~Attached
    BY <1>1 DEF Retiring, Attached
<1>3. /\ pc'[t] = "idle"
      /\ \A u \in Threads : u # t => pc[u] # "swing" /\ pc'[u] = pc[u]
      /\ \A u \in Threads : u # t => local'[u] = local[u]
    BY <1>1, <1>2 DEF TypeOK, LengthsAgree
<1>4. alive' => Kept(Table)'
    <2>1. Table' = Table
        BY <1>1 DEF Table, Foreign
    <2>2. alive => \A s \in Slots : IsNative(Table, s)
        BY <1>2 DEF TablesLead
    <2> QED BY <1>1, <2>1, <2>2 DEF WrapInv, Kept, IsNative
<1>5. LiveFromRoot'
    <2>1. DOMAIN records' = DOMAIN records
          /\ \A r \in DOMAIN records : records'[r].live = records[r].live
        BY <1>1, RecordTypes DEF Records
    <2> QED BY <2>1 DEF WrapInv, LiveFromRoot
<1> QED BY <1>1, <1>2, <1>3, <1>4, <1>5, IdlersFit, UnattachedFits

\* The clone keeps the wrappers: those of a slot it replaces are in what it saved.
LEMMA InstallCloneFits ==
    ASSUME IInv, WrapInv, NEW t \in Installers, InstallClone(t)
    PROVE  WrapInv'
<1> USE DEF IInv
<1> DEFINE length == local[t].length
<1> DEFINE first == [s \in 1..length |-> Table[s]]
<1> DEFINE n == Len(records) + 1
<1> DEFINE ours == Hooked \cap 1..length
<1> DEFINE table == Replaced(Table, ours)
<1> DEFINE record == [active |-> TRUE, count |-> length, originals |-> first,
                      generation |-> 0, live |-> LiveRoot /\ vtable = 0]
<1>1. /\ t \in Threads /\ pc[t] = "install" /\ lockOwner = NoThread /\ FindRecord = 0
      /\ alive /\ ~Attached
    BY DEF InstallClone, Goto, Threads, ObjectInUse, Installing, Attached
<1>2. /\ pc' = [pc EXCEPT ![t] = "swing"]
      /\ shadows' = Append(shadows, table) /\ records' = Append(records, record)
      /\ local' = [local EXCEPT ![t].record = vtable]
      /\ UNCHANGED <<alive, vtable, root, foreign, wrapped>>
    BY DEF InstallClone, Goto
<1>3. /\ pc'[t] = "swing" /\ local'[t].record = vtable
      /\ \A u \in Threads : u # t => pc[u] # "swing" /\ pc'[u] = pc[u]
      /\ \A u \in Threads : u # t => local'[u] = local[u]
    BY <1>1, <1>2 DEF TypeOK, Holding, Locals, LengthsAgree
<1>4. record.live = (LiveRoot /\ vtable = 0) /\ record.originals = first
    OBVIOUS
<1> HIDE DEF record
<1>5. /\ FindRecord' = n /\ records'[n] = record /\ shadows'[n] = table
      /\ DOMAIN records' = 1..n /\ Len(records) \in Nat
      /\ \A r \in DOMAIN records : records'[r] = records[r]
      /\ DOMAIN records = 1..Len(records)
    <2>0. IInv'
        BY InstallCloneKeeps
    <2>1. Len(records') = n /\ records'[n] = record /\ Len(records) \in Nat /\ DOMAIN records' = 1..n
          /\ \A r \in 1..Len(records) : records'[r] = records[r]
        BY <1>2, LenProperties DEF TypeOK
    <2>2. Len(shadows) = Len(records) /\ shadows'[n] = table
        BY <1>2, <2>1 DEF TypeOK
    <2>3. FindRecord' = Len(records')
        BY <1>1, <1>3, <2>0 DEF LengthsAgree
    <2> QED BY <2>1, <2>2, <2>3, LenProperties DEF TypeOK
<1>6. Table' = Table
    <2>1. vtable \in {0, Foreign}
        BY <1>1 DEF TablesLead
    <2> QED BY <1>2, <2>1 DEF Table, Foreign
<1>7. \A s \in Slots : wrapped[s] \subseteq Range(Table[s]) /\ IsNative(Table, s)
    BY <1>1 DEF WrapInv, Kept, TablesLead
<1>8. Kept(Table)'
    BY <1>2, <1>6, <1>7 DEF Kept
<1>9. LiveFromRoot'
    <2>1. \A r \in 1..n : r \in DOMAIN records \/ r = n
        BY <1>5
    <2> QED BY <1>4, <1>5, <2>1 DEF WrapInv, LiveFromRoot
<1>10. Kept(shadows[FindRecord])'
    <2>1. ours \subseteq Slots /\ Table \in Tables
        BY ShadowAssumption, RecordTypes
    <2>2. /\ \A s \in ours : ~IsNative(table, s)
          /\ \A s \in Slots \ ours : table[s] = Table[s]
        BY <2>1, ReplacedTable
    <2>3. ASSUME NEW s \in Slots
          PROVE  wrapped[s] \subseteq Range(table[s]) \cup
                    (IF IsNative(table, s) THEN {} ELSE Range(GoesOn(s)'))
        <3>1. CASE s \notin ours
            BY <1>7, <2>2, <2>3, <3>1
        <3>2. CASE s \in ours
            <4>1. first[s] = Table[s] /\ (vtable = 0 => Table[s] = root[s])
                BY <3>2 DEF Table
            <4>2. GoesOn(s)' = Table[s]
                BY <1>2, <1>4, <1>5, <4>1 DEF GoesOn
            <4> QED BY <1>7, <2>2, <2>3, <3>2, <4>2
        <3> QED BY <3>1, <3>2
    <2> HIDE DEF table
    <2> QED BY <1>2, <1>5, <2>3 DEF Kept, IsNative
<1>11. CloneFits(t)' /\ ExpansionFits(t)' /\ CallFits(t)'
    BY <1>2, <1>3, <1>10 DEF CloneFits, ExpansionFits, CallFits, Expanding, Searching
<1> QED BY <1>1, <1>2, <1>3, <1>8, <1>9, <1>11, UnattachedFits

\* The clone becomes the table of the object, or is given up.
LEMMA SwingFits ==
    ASSUME IInv, WrapInv, NEW t \in Installers, InstallSwing(t) \/ InstallAbandoned(t)
    PROVE  WrapInv'
<1> USE DEF IInv
<1>1. /\ t \in Threads /\ pc[t] = "swing" /\ pc[t] \in Holding
      /\ FindRecord = Len(records) /\ FindRecord # 0 /\ ~Attached /\ alive
    BY DEF InstallSwing, InstallAbandoned, Leave, Goto, Threads, Holding, LengthsAgree,
           Swinging, Attached, ObjectInUse
<1>2. /\ vtable = local[t].record /\ Kept(shadows[FindRecord])
      /\ Kept(Table) /\ LiveFromRoot
    BY <1>1 DEF WrapInv, CloneFits
<1>3. /\ UNCHANGED <<alive, root, foreign, shadows, wrapped>>
      /\ pc' = [pc EXCEPT ![t] = "generation"] \/ pc' = [pc EXCEPT ![t] = "idle"]
    BY DEF InstallSwing, InstallAbandoned, Leave, Goto
<1>4. /\ pc'[t] \in {"generation", "idle"}
      /\ \A u \in Threads : u # t => pc[u] # "swing" /\ pc'[u] = pc[u]
    BY <1>1, <1>3, LockHolder DEF TypeOK, Holding
<1>5. \A u \in Threads : u # t => local'[u] = local[u]
    BY <1>1 DEF InstallSwing, InstallAbandoned, Leave, TypeOK
<1>6. CloneFits(t)' /\ ExpansionFits(t)' /\ CallFits(t)'
    BY <1>4 DEF CloneFits, ExpansionFits, CallFits, Expanding, Searching
<1>7. CASE InstallSwing(t)
    <2>1. records' = records /\ vtable' = FindRecord /\ FindRecord' = FindRecord
        BY <1>1, <1>7 DEF InstallSwing, FindRecord
    <2>2. Table' = shadows[FindRecord]
        <3>1. FindRecord \in 1..MaxRecords /\ FindRecord # Foreign
            BY <1>1, RecordTypes, RecordNow, ShadowAssumption DEF Foreign
        <3> QED BY <1>3, <2>1, <3>1 DEF Table, Foreign
    <2>3. Kept(Table)'
        BY <1>2, <1>3, <2>1, <2>2 DEF Kept, GoesOn
    <2>4. LiveFromRoot'
        BY <1>2, <2>1 DEF LiveFromRoot
    <2> QED BY <1>1, <1>4, <1>5, <1>6, <2>3, <2>4, UnattachedFits
<1>8. CASE InstallAbandoned(t)
    <2>1. vtable' = vtable /\ records' = [records EXCEPT ![Len(records)].active = FALSE]
        BY <1>8 DEF InstallAbandoned
    <2>2. Table' = Table /\ \A s \in Slots : IsNative(Table, s)
        BY <1>1, <1>3, <2>1 DEF Table, Foreign, TablesLead
    <2>3. Kept(Table)'
        BY <1>2, <1>3, <2>2 DEF Kept, IsNative
    <2>4. LiveFromRoot'
        <3>1. /\ DOMAIN records' = DOMAIN records
              /\ \A r \in DOMAIN records : records'[r].live = records[r].live
            BY <2>1, RecordTypes DEF Records
        <3> QED BY <1>2, <3>1 DEF LiveFromRoot
    <2> QED BY <1>1, <1>4, <1>5, <1>6, <2>3, <2>4, UnattachedFits
<1> QED BY <1>7, <1>8

\* The record takes new contents that agree with the old ones in its slots.
LEMMA RecordRewritten ==
    ASSUME IInv, WrapInv, NEW t \in Threads, pc[t] \in Holding \ {"swing"},
           NEW e \in Records, e.active, e.live = records[FindRecord].live,
           \A s \in 1..records[FindRecord].count :
                e.originals[s] = records[FindRecord].originals[s],
           records' = [records EXCEPT ![FindRecord] = e],
           UNCHANGED <<alive, vtable, root, foreign, shadows, wrapped>>,
           \A u \in Threads : u # t => pc'[u] = pc[u],
           \A u \in Threads : u # t => local'[u] = local[u],
           pc'[t] \in {"idle", "entryCount", "slots"}, ExpansionFits(t)'
    PROVE  WrapInv'
<1> USE DEF IInv
<1> DEFINE r == FindRecord
<1>1. /\ Attached /\ alive /\ r \in DOMAIN records /\ r # 0
      /\ \A u \in Threads : u # t => pc[u] \notin Holding
    BY WorkingOn
<1>2. /\ DOMAIN records' = DOMAIN records /\ records'[r] = e /\ FindRecord' = r
      /\ \A q \in DOMAIN records : q # r => records'[q] = records[q]
    <2>1. DOMAIN records' = DOMAIN records /\ records'[r] = e /\ FindRecord' = r
        BY <1>1, ActiveRecordChanges
    <2>2. \A q \in DOMAIN records : q # r => records'[q] = records[q]
        BY <1>1, RecordTypes
    <2> QED BY <2>1, <2>2
<1>3. LiveFromRoot'
    BY <1>1, <1>2 DEF WrapInv, LiveFromRoot
<1>4. \A s \in 1..records[r].count : GoesOn(s)' = GoesOn(s)
    BY <1>2 DEF GoesOn
<1>5. Table' = Table /\ Table \in Tables
    BY RecordTypes DEF Table, Foreign
<1>6. \A s \in Slots : ~IsNative(Table, s) => s \in 1..records[r].count
    BY <1>1, HookedSlot, <1>5, PointerShape DEF IsNative, Tables
<1>7. Kept(Table)'
    <2>1. ASSUME NEW s \in Slots
          PROVE  wrapped[s] \subseteq Range(Table[s]) \cup
                    (IF IsNative(Table, s) THEN {} ELSE Range(GoesOn(s)'))
        BY <1>1, <1>4, <1>6, <2>1 DEF WrapInv, Kept
    <2> QED BY <1>5, <2>1 DEF Kept, IsNative
<1>8. ASSUME NEW u \in Threads, u # t
      PROVE  CloneFits(u)' /\ ExpansionFits(u)' /\ CallFits(u)'
    <2>1. pc'[u] = pc[u] /\ local'[u] = local[u] /\ pc[u] \notin Holding /\ CallFits(u)
        BY <1>1, <1>8 DEF WrapInv
    <2>2. CloneFits(u)' /\ ExpansionFits(u)'
        BY <2>1 DEF CloneFits, ExpansionFits, Expanding, Holding
    <2>3. CallFits(u)'
        <3>1. CASE pc[u] \in Searching
            <4>1. local[u].slot \in 1..records[r].count
                BY <3>1, SearchingReader
            <4>2. GoesOn(local[u].slot)' = GoesOn(local[u].slot)
                BY <1>4, <2>1, <4>1 DEF GoesOn
            <4> QED BY <2>1, <3>1, <4>2 DEF CallFits, Searching
        <3>2. CASE pc[u] \notin Searching
            BY <2>1, <3>2 DEF CallFits
        <3> QED BY <3>1, <3>2
    <2> QED BY <2>2, <2>3
<1>9. CloneFits(t)' /\ CallFits(t)'
    BY DEF CloneFits, CallFits, Searching
<1> QED BY <1>3, <1>7, <1>8, <1>9 DEF WrapInv

LEMMA PublishGenerationFits ==
    ASSUME IInv, WrapInv, NEW t \in Installers, PublishGeneration(t)
    PROVE  WrapInv'
<1> USE DEF IInv
<1> DEFINE e == [records[FindRecord] EXCEPT !.generation = local[t].length]
<1>1. t \in Threads /\ pc[t] = "generation" /\ pc[t] \in Holding \ {"swing"}
    BY DEF PublishGeneration, Leave, Goto, Threads, Holding
<1>2. /\ local[t].record = FindRecord /\ FindRecord \in DOMAIN records
      /\ records[FindRecord].active /\ local[t].length \in Lengths
    BY <1>1, WorkingOn
<1>3. /\ pc' = [pc EXCEPT ![t] = "idle"] /\ local' = [local EXCEPT ![t] = Idle]
      /\ records' = [records EXCEPT ![FindRecord] = e]
      /\ UNCHANGED <<alive, vtable, root, foreign, shadows, wrapped>>
    BY <1>2 DEF PublishGeneration, Leave, Goto
<1>4. /\ e \in Records /\ e.active /\ e.live = records[FindRecord].live
      /\ e.originals = records[FindRecord].originals
    BY <1>2, RecordTypes DEF Records
<1>5. /\ pc'[t] = "idle"
      /\ \A u \in Threads : u # t => pc'[u] = pc[u]
      /\ \A u \in Threads : u # t => local'[u] = local[u]
    BY <1>1, <1>3 DEF TypeOK
<1> HIDE DEF e
<1> QED BY <1>1, <1>3, <1>4, <1>5, IdlersFit, RecordRewritten

LEMMA ExpandOriginalsFits ==
    ASSUME IInv, WrapInv, NEW t \in Installers, ExpandOriginals(t)
    PROVE  WrapInv'
<1> USE DEF IInv
<1> DEFINE r == FindRecord
<1> DEFINE e == [records[r] EXCEPT !.originals = local[t].originals]
<1>1. t \in Threads /\ pc[t] = "originals" /\ pc[t] \in Holding \ {"swing"} /\ pc[t] \in Expanding
    BY DEF ExpandOriginals, Goto, Threads, Holding, Expanding
<1>2. local[t].record = r /\ r \in DOMAIN records /\ records[r].active
    BY <1>1, WorkingOn
<1>3. /\ pc' = [pc EXCEPT ![t] = "entryCount"] /\ records' = [records EXCEPT ![r] = e]
      /\ UNCHANGED <<alive, vtable, root, foreign, shadows, wrapped, local>>
    BY <1>2 DEF ExpandOriginals, Goto
<1>4. /\ e \in Records /\ e.active /\ e.live = records[r].live
      /\ e.originals = local[t].originals /\ e.generation = records[r].generation
    <2>1. local[t].originals \in Seq(Pointers)
        BY <1>1 DEF TypeOK, Locals
    <2>2. records[r] \in Records
        BY <1>2, RecordTypes
    <2> QED BY <1>2, <2>1, <2>2 DEF Records
<1> HIDE DEF e
<1>5. \A s \in 1..records[r].count : e.originals[s] = records[r].originals[s]
    BY <1>1, <1>4 DEF LengthsAgree
<1>6. pc'[t] = "entryCount" /\ \A u \in Threads : u # t => pc'[u] = pc[u]
    BY <1>1, <1>3 DEF TypeOK
<1>7. ExpansionFits(t)'
    <2>1. FindRecord' = r /\ records'[r] = e
        BY <1>2, <1>3, <1>4, ActiveRecordChanges
    <2>2. /\ vtable = r /\ ~records[r].live
          /\ \A s \in 1..local[t].length :
                s > records[r].generation => local[t].originals[s] = shadows[r][s]
        BY <1>1 DEF WrapInv, ExpansionFits, Taken
    <2> QED BY <1>3, <1>4, <1>6, <2>1, <2>2 DEF ExpansionFits, Taken
<1> QED BY <1>1, <1>3, <1>4, <1>5, <1>6, <1>7, RecordRewritten

LEMMA ExpandCountFits ==
    ASSUME IInv, WrapInv, NEW t \in Installers, ExpandCount(t)
    PROVE  WrapInv'
<1> USE DEF IInv
<1> DEFINE r == FindRecord
<1> DEFINE e == [records[r] EXCEPT !.count = local[t].length]
<1>1. t \in Threads /\ pc[t] = "entryCount" /\ pc[t] \in Holding \ {"swing"} /\ pc[t] \in Expanding
    BY DEF ExpandCount, Goto, Threads, Holding, Expanding
<1>2. /\ local[t].record = r /\ r \in DOMAIN records /\ records[r].active
      /\ local[t].length \in Lengths
    BY <1>1, WorkingOn
<1>3. /\ pc' = [pc EXCEPT ![t] = "slots"] /\ records' = [records EXCEPT ![r] = e]
      /\ UNCHANGED <<alive, vtable, root, foreign, shadows, wrapped, local>>
    BY <1>2 DEF ExpandCount, Goto
<1>4. /\ e \in Records /\ e.active /\ e.live = records[r].live
      /\ e.originals = records[r].originals /\ e.generation = records[r].generation
    BY <1>2, RecordTypes DEF Records
<1> HIDE DEF e
<1>5. pc'[t] = "slots" /\ \A u \in Threads : u # t => pc'[u] = pc[u]
    BY <1>1, <1>3 DEF TypeOK
<1>6. ExpansionFits(t)'
    <2>1. FindRecord' = r /\ records'[r] = e
        BY <1>2, <1>3, <1>4, ActiveRecordChanges
    <2>2. /\ vtable = r /\ ~records[r].live
          /\ \A s \in 1..local[t].length :
                s > records[r].generation => records[r].originals[s] = shadows[r][s]
        BY <1>1 DEF WrapInv, ExpansionFits, Taken
    <2> QED BY <1>3, <1>4, <1>5, <2>1, <2>2 DEF ExpansionFits, Taken
<1> QED BY <1>1, <1>3, <1>4, <1>5, <1>6, RecordRewritten

\* What an expansion takes for its new slots is what the shadow has there, and
\* that table is not one that is followed live.
LEMMA ExpandSnapshotFits ==
    ASSUME Settled, IInv, WrapInv, NEW t \in Installers, ExpandSnapshot(t)
    PROVE  WrapInv'
<1> USE DEF IInv
<1> DEFINE r == FindRecord
<1> DEFINE length == local[t].length
<1> DEFINE copy == [s \in 1..length |-> IF s <= records[r].generation
                                        THEN records[r].originals[s] ELSE shadows[r][s]]
<1>1. /\ t \in Threads /\ pc[t] = "install" /\ lockOwner = NoThread /\ r # 0
      /\ alive /\ length \in Lengths /\ ~NothingToInstall(length)
    BY DEF ExpandSnapshot, Goto, Threads, ObjectInUse, Installing
<1>2. /\ pc' = [pc EXCEPT ![t] = "originals"]
      /\ local' = [local EXCEPT ![t].record = r, ![t].originals = copy]
      /\ UNCHANGED <<alive, vtable, root, foreign, shadows, records, wrapped>>
    BY DEF ExpandSnapshot, Goto
<1>3. /\ r \in DOMAIN records /\ r # Foreign /\ length \in Nat
      /\ records[r].generation \in Nat
    BY <1>1, RecordNow, RecordTypes, ShadowAssumption DEF Foreign
<1>4. vtable = r /\ records[r].generation < length
    BY <1>1, <1>3 DEF NothingToInstall
<1>5. ~records[r].live
    <2>1. Attached
        BY <1>1, <1>3, <1>4 DEF TablesLead
    <2>2. records[r].generation = records[r].count /\ records[r].count \in Lengths
        BY <1>1, <1>3, <2>1, RecordTypes DEF LengthsAgree
    <2>3. ~OneLength
        BY <1>1, <1>3, <1>4, <2>2 DEF OneLength
    <2> QED BY <1>3, <2>3 DEF Settled, WrapInv, LiveFromRoot
<1>6. \A s \in 1..length : s > records[r].generation => copy[s] = shadows[r][s]
    BY <1>3
<1> HIDE DEF copy
<1>7. /\ pc'[t] = "originals" /\ local'[t].originals = copy /\ local'[t].length = length
      /\ \A u \in Threads : u # t => pc'[u] = pc[u]
      /\ \A u \in Threads : u # t => local'[u] = local[u]
    BY <1>1, <1>2 DEF TypeOK, Locals
<1>8. FindRecord' = r
    BY <1>2 DEF FindRecord
<1>9. ExpansionFits(t)'
    BY <1>2, <1>4, <1>5, <1>6, <1>7, <1>8 DEF ExpansionFits, Taken
<1>10. CloneFits(t)' /\ CallFits(t)'
    BY <1>7 DEF CloneFits, CallFits, Searching
<1> QED BY <1>1, <1>2, <1>7, <1>9, <1>10, OthersFit

\* A wrapper of a slot that is replaced now is in what the record saved for it.
LEMMA ExpandSlotsFits ==
    ASSUME IInv, WrapInv, NEW t \in Installers, ExpandSlots(t)
    PROVE  WrapInv'
<1> USE DEF IInv
<1> DEFINE r == FindRecord
<1> DEFINE length == local[t].length
<1> DEFINE fresh == {s \in Hooked \cap 1..length : s > records[r].generation}
<1> DEFINE table == Replaced(shadows[r], fresh)
<1>1. t \in Threads /\ pc[t] = "slots" /\ pc[t] \in Holding \ {"swing"} /\ pc[t] \in Expanding
    BY DEF ExpandSlots, Goto, Threads, Holding, Expanding
<1>2. /\ Attached /\ alive /\ local[t].record = r /\ r \in DOMAIN records /\ r # 0
      /\ \A u \in Threads : u # t => pc[u] \notin Holding
    BY <1>1, WorkingOn
<1>3. /\ pc' = [pc EXCEPT ![t] = "generation"] /\ shadows' = [shadows EXCEPT ![r] = table]
      /\ UNCHANGED <<alive, vtable, root, foreign, records, local, wrapped>>
    BY <1>2 DEF ExpandSlots, Goto
<1>4. /\ fresh \subseteq Slots /\ shadows[r] \in Tables /\ r \in DOMAIN shadows
      /\ r # Foreign
    BY <1>2, RecordTypes, ShadowAssumption DEF Foreign
<1>5. /\ vtable = r /\ ~records[r].live
      /\ \A s \in 1..length :
            s > records[r].generation => records[r].originals[s] = shadows[r][s]
    BY <1>1 DEF WrapInv, ExpansionFits, Taken
<1>6. \A s \in fresh : IsNative(shadows[r], s) /\ records[r].originals[s] = shadows[r][s]
    <2>1. /\ Len(records[r].originals) = length
          /\ \A s \in 1..length : IsNative(records[r].originals, s)
        BY <1>1, <1>2, RecordNow DEF LengthsAgree, RecordCovers
    <2> QED BY <1>5, <2>1 DEF IsNative
<1>7. /\ \A s \in fresh : ~IsNative(table, s)
      /\ \A s \in Slots \ fresh : table[s] = shadows[r][s]
    BY <1>4, ReplacedTable
<1> HIDE DEF table, fresh
<1>8. Table = shadows[r] /\ Table' = table /\ FindRecord' = r
    BY <1>2, <1>3, <1>4, <1>5 DEF Table, Foreign, FindRecord
<1>9. \A s \in Slots : GoesOn(s)' = GoesOn(s)
    BY <1>3, <1>8 DEF GoesOn
<1>10. Kept(Table)'
    <2>1. ASSUME NEW s \in Slots
          PROVE  wrapped[s] \subseteq Range(table[s]) \cup
                    (IF IsNative(table, s) THEN {} ELSE Range(GoesOn(s)))
        <3>1. wrapped[s] \subseteq Range(shadows[r][s]) \cup
                    (IF IsNative(shadows[r], s) THEN {} ELSE Range(GoesOn(s)))
            BY <1>2, <1>8 DEF WrapInv, Kept
        <3>2. CASE s \notin fresh
            BY <1>7, <2>1, <3>1, <3>2 DEF IsNative
        <3>3. CASE s \in fresh
            BY <1>5, <1>6, <1>7, <3>1, <3>3 DEF GoesOn
        <3> QED BY <3>2, <3>3
    <2> QED BY <1>3, <1>8, <1>9, <2>1 DEF Kept, IsNative
<1>11. /\ pc'[t] = "generation"
       /\ \A u \in Threads : u # t => pc'[u] = pc[u]
    BY <1>1, <1>3 DEF TypeOK
<1>12. ASSUME NEW u \in Threads PROVE CloneFits(u)' /\ ExpansionFits(u)' /\ CallFits(u)'
    <2>1. CASE u = t
        BY <1>11, <2>1 DEF CloneFits, ExpansionFits, CallFits, Expanding, Searching
    <2>2. CASE u # t
        <3>1. pc'[u] = pc[u] /\ local'[u] = local[u] /\ pc[u] \notin Holding /\ CallFits(u)
            BY <1>2, <1>3, <1>11, <2>2 DEF WrapInv
        <3>2. CloneFits(u)' /\ ExpansionFits(u)'
            BY <3>1 DEF CloneFits, ExpansionFits, Expanding, Holding
        <3>3. GoesOn(local[u].slot)' = GoesOn(local[u].slot)
            BY <1>3, <1>8 DEF GoesOn
        <3> QED BY <3>1, <3>2, <3>3 DEF CallFits, Searching
    <2> QED BY <2>1, <2>2
<1>13. LiveFromRoot'
    BY <1>3 DEF WrapInv, LiveFromRoot
<1> QED BY <1>10, <1>12, <1>13 DEF WrapInv

\* A patch outside installations: whoever is in a call still finds its wrappers.
LEMMA PatchedFits ==
    ASSUME Settled, IInv, WrapInv, MayPatch,
           UNCHANGED <<alive, records, pc, local>>, alive => Kept(Table)',
           \A s \in Slots : Attached => Range(GoesOn(s)) \subseteq Range(GoesOn(s)')
    PROVE  WrapInv'
<1> USE DEF IInv
<1>1. \A u \in Threads : pc[u] \notin Holding
    <2>1. lockOwner = NoThread
        BY DEF Settled, MayPatch
    <2> QED BY <2>1, ShadowAssumption DEF TypeOK
<1>2. ASSUME NEW u \in Threads PROVE CloneFits(u)' /\ ExpansionFits(u)' /\ CallFits(u)'
    <2>1. CloneFits(u)' /\ ExpansionFits(u)'
        BY <1>1 DEF CloneFits, ExpansionFits, Expanding, Holding
    <2>2. CASE pc[u] \in Searching
        <3>1. Attached /\ local[u].slot \in Slots
            BY <2>2, SearchingReader DEF ReaderFinds
        <3>2. local[u].due \subseteq Range(local[u].path) \cup Range(GoesOn(local[u].slot))
            BY <2>2 DEF WrapInv, CallFits
        <3>3. Range(GoesOn(local[u].slot)) \subseteq Range(GoesOn(local[u].slot)')
            <4>1. \A s \in Slots : s = local[u].slot => GoesOn(local[u].slot)' = GoesOn(s)'
                BY DEF GoesOn
            <4> QED BY <3>1, <4>1
        <3> QED BY <2>1, <2>2, <3>2, <3>3 DEF CallFits, Searching
    <2>3. CASE pc[u] \notin Searching
        BY <2>1, <2>3 DEF WrapInv, CallFits
    <2> QED BY <2>2, <2>3
<1>3. LiveFromRoot'
    BY DEF WrapInv, LiveFromRoot
<1> QED BY <1>2, <1>3 DEF WrapInv

\* The patched table of the object, whichever it is.
LEMMA PatchedTableKept ==
    ASSUME IInv, WrapInv, alive, NEW o \in Overlays, NEW s \in Slots,
           Table' = [Table EXCEPT ![s] = Wrap(o, @)],
           wrapped' = [wrapped EXCEPT ![s] = @ \cup {o}],
           \A x \in Slots : Attached => Range(GoesOn(x)) \subseteq Range(GoesOn(x)')
    PROVE  Kept(Table)'
<1> USE DEF IInv
<1>1. \A x \in Slots : Table[x] \in Pointers
    BY RecordTypes DEF Tables
<1>2. /\ \A x \in Slots : IsNative(Table', x) <=> IsNative(Table, x)
      /\ Range(Table'[s]) = {o} \cup Range(Table[s])
      /\ \A x \in Slots : x # s => Table'[x] = Table[x]
    <2>1. /\ Table'[s] = Wrap(o, Table[s])
          /\ \A x \in Slots : x # s => Table'[x] = Table[x]
        BY RecordTypes DEF Tables
    <2>2. /\ Range(Table'[s]) = {o} \cup Range(Table[s])
          /\ Reaches(Table'[s]) = Reaches(Table[s])
        BY <1>1, <2>1, WrapPointer
    <2> QED BY <2>1, <2>2 DEF IsNative
<1>3. ASSUME NEW x \in Slots
      PROVE  wrapped'[x] \subseteq Range(Table'[x]) \cup
                (IF IsNative(Table', x) THEN {} ELSE Range(GoesOn(x)'))
    <2>1. wrapped[x] \subseteq Range(Table[x]) \cup
                (IF IsNative(Table, x) THEN {} ELSE Range(GoesOn(x)))
        BY DEF WrapInv, Kept
    <2>2. wrapped'[x] \subseteq wrapped[x] \cup (IF x = s THEN {o} ELSE {})
        BY DEF TypeOK
    <2>3. ~IsNative(Table, x) => Attached
        BY DEF TablesLead
    <2>4. /\ Range(Table[x]) \subseteq Range(Table'[x])
          /\ x = s => o \in Range(Table'[x])
        BY <1>2
    <2>5. CASE IsNative(Table, x)
        BY <1>2, <2>1, <2>2, <2>4, <2>5
    <2>6. CASE ~IsNative(Table, x)
        BY <1>2, <2>1, <2>2, <2>3, <2>4, <2>6
    <2> QED BY <2>5, <2>6
<1> QED BY <1>3 DEF Kept, IsNative

LEMMA PatchInPlaceFits ==
    ASSUME Settled, IInv, WrapInv, NEW o \in Overlays, NEW s \in Slots, PatchInPlace(o, s)
    PROVE  WrapInv'
<1> USE DEF IInv
<1> DEFINE wrapping == [Table EXCEPT ![s] = Wrap(o, @)]
<1>1. /\ MayPatch /\ alive
      /\ root' = (IF vtable = 0 THEN wrapping ELSE root)
      /\ foreign' = (IF vtable = Foreign THEN wrapping ELSE foreign)
      /\ shadows' = (IF vtable \in DOMAIN shadows THEN [shadows EXCEPT ![vtable] = wrapping] ELSE shadows)
      /\ wrapped' = [wrapped EXCEPT ![s] = @ \cup {o}]
      /\ UNCHANGED <<alive, vtable, records, pc, local>>
    BY DEF PatchInPlace
<1> HIDE DEF wrapping
<1>2. /\ vtable \in {0, Foreign} \cup DOMAIN shadows
      /\ Foreign \notin DOMAIN shadows /\ 0 \notin DOMAIN shadows /\ Foreign # 0
    <2>1. Len(records) \in 0..MaxRecords /\ MaxRecords \in Nat
        BY RecordTypes, ShadowAssumption
    <2>2. DOMAIN shadows = 1..Len(records)
        BY RecordTypes
    <2>3. vtable \in {0, Foreign} \cup DOMAIN shadows
        BY DEF TypeOK
    <2> QED BY <2>1, <2>2, <2>3 DEF Foreign
<1>3. Table' = wrapping
    BY <1>1, <1>2 DEF Table, Foreign
<1>4. Attached => root' = root
    <2>1. Attached => vtable \in {FindRecord, Foreign} /\ FindRecord # 0
        BY DEF TablesLead, Attached
    <2> QED BY <1>1, <1>2, <2>1
<1>5. FindRecord' = FindRecord
    BY <1>1 DEF FindRecord
<1>6. \A x \in Slots : Attached => Range(GoesOn(x)) \subseteq Range(GoesOn(x)')
    BY <1>1, <1>4, <1>5 DEF GoesOn
<1>7. Kept(Table)'
    BY <1>1, <1>3, <1>6, PatchedTableKept DEF wrapping
<1> QED BY <1>1, <1>6, <1>7, PatchedFits

LEMMA ReplaceVtableFits ==
    ASSUME Settled, IInv, WrapInv, NEW o \in Overlays, NEW s \in Slots, ReplaceVtable(o, s)
    PROVE  WrapInv'
<1>1. /\ MayPatch /\ alive /\ vtable' = Foreign /\ foreign' = [Table EXCEPT ![s] = Wrap(o, @)]
      /\ wrapped' = [wrapped EXCEPT ![s] = @ \cup {o}]
      /\ UNCHANGED <<alive, root, records, pc, local>>
    BY DEF ReplaceVtable
<1>2. Table' = foreign'
    BY <1>1, ShadowAssumption DEF Table, Foreign
<1>3. FindRecord' = FindRecord
    BY <1>1 DEF FindRecord
<1>4. \A x \in Slots : Attached => Range(GoesOn(x)) \subseteq Range(GoesOn(x)')
    BY <1>1, <1>3 DEF GoesOn
<1>5. Kept(Table)'
    BY <1>1, <1>2, <1>4, PatchedTableKept
<1> QED BY <1>1, <1>4, <1>5, PatchedFits

\* A patch of the shared table counts where a hook follows that table, and there
\* the hook goes on to it.
LEMMA PatchRootFits ==
    ASSUME Settled, IInv, WrapInv, NEW o \in Overlays, NEW s \in Slots, PatchRoot(o, s)
    PROVE  WrapInv'
<1> USE DEF IInv
<1> DEFINE followed == /\ alive /\ Reaches(Table[s]) = Hook
                       /\ FindRecord # 0 /\ records[FindRecord].live
<1>1. /\ MayPatch /\ ~(alive /\ vtable = 0) /\ root' = [root EXCEPT ![s] = Wrap(o, @)]
      /\ wrapped' = wrapped \/ (followed /\ wrapped' = [wrapped EXCEPT ![s] = @ \cup {o}])
      /\ UNCHANGED <<alive, vtable, foreign, shadows, records, pc, local>>
    BY DEF PatchRoot
<1>2. FindRecord' = FindRecord /\ (alive => Table' = Table)
    BY <1>1 DEF FindRecord, Table, Foreign
<1>3. /\ \A x \in Slots : IsNative(root, x) /\ IsNative(root', x)
      /\ \A x \in Slots : Range(root[x]) \subseteq Range(root'[x])
      /\ Range(root'[s]) = {o} \cup Range(root[s])
    <2>1. /\ \A x \in Slots : root[x] \in Pointers /\ IsNative(root, x)
          /\ root'[s] = Wrap(o, root[s])
          /\ \A x \in Slots : x # s => root'[x] = root[x]
        BY <1>1 DEF TypeOK, TablesLead, Tables
    <2>2. /\ Range(root'[s]) = {o} \cup Range(root[s])
          /\ Reaches(root'[s]) = Reaches(root[s])
        BY <2>1, WrapPointer
    <2> QED BY <2>1, <2>2 DEF IsNative
<1>4. \A x \in Slots : root[x] # <<Hook>> /\ root'[x] # <<Hook>>
    BY <1>3, NativeEntry
<1>5. ASSUME NEW x \in Slots PROVE Range(GoesOn(x)) \subseteq Range(GoesOn(x)')
    BY <1>1, <1>2, <1>3, <1>4, <1>5 DEF GoesOn
<1>6. followed => o \in Range(GoesOn(s)') /\ ~IsNative(Table, s)
    BY <1>1, <1>2, <1>3, <1>4, ShadowAssumption DEF GoesOn, IsNative
<1>7. ASSUME alive, NEW x \in Slots
      PROVE  wrapped'[x] \subseteq Range(Table[x]) \cup
                (IF IsNative(Table, x) THEN {} ELSE Range(GoesOn(x)'))
    <2>1. wrapped[x] \subseteq Range(Table[x]) \cup
                (IF IsNative(Table, x) THEN {} ELSE Range(GoesOn(x)))
        BY <1>7 DEF WrapInv, Kept
    <2>2. wrapped'[x] \subseteq wrapped[x] \cup (IF x = s /\ followed THEN {o} ELSE {})
        BY <1>1 DEF TypeOK
    <2>3. x = s => GoesOn(x)' = GoesOn(s)'
        BY DEF GoesOn
    <2>4. Range(GoesOn(x)) \subseteq Range(GoesOn(x)')
        BY <1>5
    <2> HIDE DEF followed
    <2>5. CASE x = s /\ followed
        BY <1>6, <2>1, <2>2, <2>3, <2>4, <2>5
    <2>6. CASE ~(x = s /\ followed)
        BY <2>1, <2>2, <2>4, <2>6
    <2> QED BY <2>5, <2>6
<1>8. alive => Kept(Table)'
    BY <1>2, <1>7 DEF Kept, IsNative
<1> QED BY <1>1, <1>5, <1>8, PatchedFits

LEMMA WrapStep ==
    ASSUME Settled, IInv, WrapInv, [Next]_vars
    PROVE  WrapInv'
<1>1. ASSUME NEW t \in Installers,
             \/ Install(t) \/ Release(t) \/ Retire(t)
             \/ \E length \in Lengths : Create(t, length) \/ Query(t, length)
      PROVE  WrapInv'
    BY <1>1, BystanderFits, CreateFits, RetireFits, InstallCloneFits, SwingFits,
       PublishGenerationFits, ExpandSnapshotFits, ExpandOriginalsFits, ExpandCountFits,
       ExpandSlotsFits
    DEF Install
<1>2. ASSUME NEW t \in Callers, Read(t) \/ \E s \in Slots : Call(t, s)
      PROVE  WrapInv'
    BY <1>2, CallerFits
<1>3. ASSUME NEW o \in Overlays, NEW s \in Slots,
             PatchInPlace(o, s) \/ PatchRoot(o, s) \/ ReplaceVtable(o, s)
      PROVE  WrapInv'
    BY <1>3, PatchInPlaceFits, PatchRootFits, ReplaceVtableFits
<1>4. ASSUME UNCHANGED vars PROVE WrapInv'
    <2>1. /\ FindRecord' = FindRecord /\ Table' = Table
          /\ UNCHANGED <<alive, vtable, root, foreign, shadows, records, wrapped, pc, local>>
        BY <1>4 DEF vars, FindRecord, Table, Foreign
    <2> QED BY <2>1 DEF WrapInv, LiveFromRoot, Kept, GoesOn, CloneFits, ExpansionFits, CallFits, Taken
<1> QED BY <1>1, <1>2, <1>3, <1>4 DEF Next

\* Where other modules patch outside installations only, and a table of dxgi.dll
\* is followed live for objects of one interface length, every call through the
\* object runs everybody who had wrapped the method when it started.
THEOREM WrappersAreAllCalled == Settled /\ Spec => []WrappersAreCalled
<1>1. Init => WrapInv
    <2>1. ASSUME Init PROVE WrapInv
        <3>1. /\ ~alive /\ records = <<>> /\ \A t \in Threads : pc[t] = "idle"
            BY <2>1 DEF Init
        <3>2. LiveFromRoot
            BY <3>1 DEF LiveFromRoot
        <3> QED BY <3>1, <3>2 DEF WrapInv, CloneFits, ExpansionFits, CallFits, Expanding, Searching
    <2> QED BY <2>1
<1>2. WrapInv => WrappersAreCalled
    BY DEF WrapInv, CallFits, WrappersAreCalled
<1>3. CASE Settled
    <2>1. IInv /\ WrapInv /\ [Next]_vars => WrapInv'
        BY <1>3, WrapStep
    <2> QED BY <1>1, <1>2, <2>1, InitHolds, Inductive, PTL DEF Spec
<1> QED BY <1>3
====
