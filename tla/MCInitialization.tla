--------------------------- MODULE MCInitialization ---------------------------
(***************************************************************************)
(* Small instances of Initialization: two threads that start and wait      *)
(* (DllMain's and the initializer's), one game thread, and the executables *)
(* and configuration files that initialize may find.                       *)
(***************************************************************************)
EXTENDS Initialization

CONSTANTS loader, initializer, player

\* Sizes around one and around two blocks of four bytes with a length of two.
MCFileSizes == 0..9

-----------------------------------------------------------------------------
\* Files of up to three lines, and two that return to a section.
Lines == {Blank, Junk, SectionLine("hdr"), SectionLine("log"),
          ModeLine("observe"), ModeLine("emulate_hdr_fullscreen_state"),
          ModeLine(RetiredMode), ModeLine("hdr")}

MCFiles ==
    UNION {[1..n -> Lines] : n \in 0..2}
    \cup {<<SectionLine("hdr"), first, second>> : first \in Lines, second \in Lines}
    \cup {<<SectionLine("hdr"), first, SectionLine("log"), OtherKey, second>> :
            first \in Lines, second \in Lines}

OnlyWindowed == {<<>>}

-----------------------------------------------------------------------------
\* The game's image: text below 1000, data above. Look-alikes have lower
\* addresses than the targets, so that a scan meets them first.
MCProfile == [availability |-> 100, gate |-> 200, vtable |-> 1800,
              config |-> 300, backend |-> 400, cookie |-> 2200]

Code(at, of) == [at |-> at, section |-> "text", of |-> of]
Jump(at, to) == [at |-> at, section |-> "text", to |-> to]
Table(at, kept, locator, rtti, neighbors) ==
    [at |-> at, section |-> kept, invoke |-> 200, locator |-> locator,
     rtti |-> rtti, neighbors |-> neighbors]

Genuine ==
    [signatures |-> {Code(100, "availability"), Code(300, "config"), Code(400, "backend")},
     calls   |-> {Jump(204, 100), Jump(500, 100)},
     bodies  |-> {[at |-> 200, to |-> 100]},
     leas    |-> {Jump(600, 1800), Jump(650, 1800)},
     tables  |-> {Table(1800, "rdata", TRUE, TRUE, TRUE)},
     cookies |-> {[at |-> 2200, section |-> "rdata", of |-> 100]}]

WithSignature(s) == [Genuine EXCEPT !.signatures = @ \cup {s}]
WithCall(c) == [Genuine EXCEPT !.calls = @ \cup {c}]
WithTable(t, from) ==
    [Genuine EXCEPT !.tables = @ \cup {t}, !.leas = @ \cup {Jump(l, t.at) : l \in from}]

MCImages ==
    {Genuine}
    \cup {WithSignature(Code(40, h)) : h \in {"availability", "config", "backend"}}
    \cup {WithSignature([at |-> 1040, section |-> "rdata", of |-> "availability"]),
          WithCall(Jump(54, 100)),
          WithCall([at |-> 1054, section |-> "rdata", to |-> 100]),
          [Genuine EXCEPT !.bodies = @ \cup {[at |-> 496, to |-> 100]}],
          [Genuine EXCEPT !.bodies = @ \cup {[at |-> 496, to |-> 40]}],
          [Genuine EXCEPT !.leas = {Jump(600, 1800)}],
          [Genuine EXCEPT !.cookies = {[at |-> 2204, section |-> "rdata", of |-> 100]}],
          WithTable(Table(1600, "rdata", TRUE, TRUE, TRUE), {610, 620}),
          WithTable(Table(1600, "rdata", TRUE, TRUE, TRUE), {610}),
          WithTable(Table(1600, "rdata", TRUE, TRUE, TRUE), {}),
          WithTable(Table(1604, "rdata", TRUE, TRUE, TRUE), {610, 620}),
          WithTable(Table(160, "text", TRUE, TRUE, TRUE), {610, 620}),
          WithTable(Table(1600, "rdata", FALSE, TRUE, TRUE), {610, 620}),
          WithTable(Table(1600, "rdata", TRUE, FALSE, TRUE), {610, 620}),
          WithTable(Table(1600, "rdata", TRUE, TRUE, FALSE), {610, 620})}

OnlyGenuine == {Genuine}

-----------------------------------------------------------------------------
From(name, thunks) == [library |-> name, names |-> TRUE, thunks |-> thunks]
Factories == From("dxgi", <<"CreateDXGIFactory", Ordinal, "CreateDXGIFactory1">>)

\* Directories with the factories in one descriptor or in two, behind imports
\* by ordinal, behind the null descriptor, beside the driver library's import,
\* at the limit of three thunks and beyond it, and with names that cannot be
\* read.
MCImportTables ==
    {<<>>,
     <<From("other", <<"CreateDXGIFactory">>)>>,
     <<Factories>>,
     <<From("dxgi", <<"DXGIGetDebugInterface1", "CreateDXGIFactory">>),
       From("other", <<Unreadable>>), From("dxgi", <<Ordinal, "CreateDXGIFactory1">>)>>,
     <<NullDescriptor, Factories>>,
     <<Factories, NullDescriptor, Factories>>,
     <<[Factories EXCEPT !.names = FALSE]>>,
     <<Factories, From("dxgi", <<Unreadable>>)>>,
     <<From("ags", <<"agsInitialize", "agsSetDisplayMode">>), Factories>>,
     <<Factories, From("ags", <<"agsSetDisplayMode", Unreadable>>)>>,
     <<Factories, From(Unreadable, <<>>)>>,
     <<From("dxgi", <<Ordinal, Ordinal, "CreateDXGIFactory", "CreateDXGIFactory1">>)>>,
     <<From("dxgi", <<Ordinal, Ordinal, Ordinal, "CreateDXGIFactory1">>)>>,
     <<Factories, From("ags", <<Ordinal, Ordinal, "agsInitialize", Unreadable>>)>>}

OnlyFactories == {<<Factories>>}

=============================================================================
