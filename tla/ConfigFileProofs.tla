-------------------------- MODULE ConfigFileProofs --------------------------
(***************************************************************************)
(* Proofs about ConfigFile, for files of any length: parsing line by line  *)
(* with a current section gives what the whole file says.                  *)
(***************************************************************************)
EXTENDS ConfigFile, TLAPS

-----------------------------------------------------------------------------
(* The file as a reader sees it, up to a line.                               *)

SectionLines(n) == {m \in 1..n : file[m].kind = "section"}

ModeLinesTo(n) == {m \in ModeLines : m <= n}

ConfigTo(n) ==
    [mode |-> IF ModeLinesTo(n) = {} THEN DefaultMode ELSE ModeOf(file[Last(ModeLinesTo(n))]),
     retired |-> \E m \in ModeLinesTo(n) : file[m].text = RetiredMode]

AcceptedTo(n) ==
    /\ \A m \in 1..n : file[m].kind # "junk"
    /\ \A m \in ModeLinesTo(n) : file[m].text \in AllModes \cup {RetiredMode}

FileTypes ==
    /\ file \in Seq(LineType)
    /\ lineNumber \in 0..Len(file)

\* The parser has accepted, and knows, what the file says up to its line.
ConfigInv ==
    /\ FileTypes
    /\ section = OpenSection(lineNumber)
    /\ AcceptedTo(lineNumber)
    /\ config = ConfigTo(lineNumber)

-----------------------------------------------------------------------------
LEMMA LastIs ==
    ASSUME NEW lines \in SUBSET Nat, NEW n \in lines, \A m \in lines : m <= n
    PROVE  Last(lines) = n
<1>1. Last(lines) \in lines /\ \A m \in lines : m <= Last(lines)
    BY DEF Last
<1>2. n <= Last(lines) /\ Last(lines) <= n
    BY <1>1
<1>3. Last(lines) \in Nat /\ n \in Nat
    BY <1>1
<1> HIDE DEF Last
<1> QED BY <1>2, <1>3

LEMMA SectionAt ==
    ASSUME NEW n \in Nat
    PROVE  OpenSection(n) = IF SectionLines(n) = {} THEN NoSection ELSE file[Last(SectionLines(n))].text
BY DEF OpenSection, SectionLines

\* A section line opens its section; any other leaves the open one open.
LEMMA SectionStep ==
    ASSUME NEW n \in Nat
    PROVE  OpenSection(n + 1) = IF file[n + 1].kind = "section" THEN file[n + 1].text
                                                                ELSE OpenSection(n)
<1>1. CASE file[n + 1].kind = "section"
    <2>1. n + 1 \in SectionLines(n + 1) /\ SectionLines(n + 1) \in SUBSET Nat
          /\ \A m \in SectionLines(n + 1) : m <= n + 1
        BY <1>1 DEF SectionLines
    <2>2. Last(SectionLines(n + 1)) = n + 1
        BY <2>1, LastIs
    <2> QED BY <1>1, <2>1, <2>2, SectionAt
<1>2. CASE file[n + 1].kind # "section"
    <2>1. SectionLines(n + 1) = SectionLines(n)
        <3>1. 1..n + 1 = 1..n \cup {n + 1}
            OBVIOUS
        <3> QED BY <1>2, <3>1 DEF SectionLines
    <2>2. OpenSection(n + 1) = OpenSection(n)
        BY <2>1, SectionAt
    <2> QED BY <1>2, <2>2
<1> QED BY <1>1, <1>2

\* The next line is a mode line if it holds the key and its section is open.
LEMMA ModeLinesStep ==
    ASSUME FileTypes, lineNumber < Len(file), section = OpenSection(lineNumber)
    PROVE  ModeLinesTo(lineNumber + 1) =
                ModeLinesTo(lineNumber) \cup (IF IsMode(Line) THEN {lineNumber + 1} ELSE {})
<1> DEFINE next == lineNumber + 1
<1>1. next \in DOMAIN file /\ lineNumber \in Nat /\ DOMAIN file \subseteq Nat
    BY DEF FileTypes
<1>2. next \in ModeLines <=> IsMode(Line)
    <2>1. file[next].kind = "mode" => OpenSection(next) = OpenSection(lineNumber)
        BY <1>1, SectionStep
    <2> QED BY <1>1, <2>1 DEF ModeLines, IsMode, Line
<1>3. ModeLines \subseteq Nat
    BY <1>1 DEF ModeLines
<1>4. \A m \in Nat : m <= next <=> m <= lineNumber \/ m = next
    BY <1>1
<1> HIDE DEF next
<1>5. ModeLinesTo(next) = ModeLinesTo(lineNumber) \cup (IF IsMode(Line) THEN {next} ELSE {})
    BY <1>2, <1>3, <1>4 DEF ModeLinesTo
<1> QED BY <1>5 DEF next

-----------------------------------------------------------------------------
\* Before the first line nothing is known.
LEMMA NothingRead ==
    ASSUME file \in Seq(LineType)
    PROVE  ModeLinesTo(0) = {} /\ OpenSection(0) = NoSection /\ AcceptedTo(0)
           /\ ConfigTo(0) = DefaultConfig
<1>1. SectionLines(0) = {}
    BY DEF SectionLines
<1>2. \A m \in DOMAIN file : m \in Nat /\ m >= 1
    OBVIOUS
<1>3. ModeLinesTo(0) = {}
    BY <1>2 DEF ModeLinesTo, ModeLines
<1>4. OpenSection(0) = NoSection
    BY <1>1, SectionAt
<1>5. AcceptedTo(0)
    BY <1>3 DEF AcceptedTo
<1>6. (\E m \in ModeLinesTo(0) : file[m].text = RetiredMode) = FALSE
    BY <1>3
<1> QED BY <1>3, <1>4, <1>5, <1>6 DEF ConfigTo, DefaultConfig

Fresh ==
    /\ file \in Seq(LineType)
    /\ lineNumber = 0 /\ section = NoSection /\ config = DefaultConfig

LEMMA FreshParser == Fresh => ConfigInv
<1> SUFFICES ASSUME Fresh PROVE ConfigInv
    OBVIOUS
<1>1. FileTypes
    <2>1. Len(file) \in Nat
        BY DEF Fresh
    <2> QED BY <2>1 DEF Fresh, FileTypes
<1> QED BY <1>1, NothingRead DEF Fresh, ConfigInv

LEMMA ParseLineStep ==
    ASSUME ConfigInv, ParseLine
    PROVE  ConfigInv'
<1> DEFINE next == lineNumber + 1
<1>1. /\ lineNumber' = next /\ file' = file /\ lineNumber < Len(file)
      /\ lineNumber \in Nat /\ next \in 1..Len(file) /\ ~Rejected(Line)
      /\ Line = file[next]
    BY DEF ConfigInv, FileTypes, ParseLine, Line
<1>2. FileTypes'
    BY <1>1 DEF ConfigInv, FileTypes
<1>3. /\ \A n : OpenSection(n)' = (OpenSection(n)) /\ ModeLinesTo(n)' = ModeLinesTo(n)
    BY <1>1 DEF OpenSection, ModeLinesTo, ModeLines
<1>4. section' = OpenSection(next)
    BY <1>1, SectionStep DEF ConfigInv, ParseLine
<1>5. ModeLinesTo(next) =
            ModeLinesTo(lineNumber) \cup (IF IsMode(Line) THEN {next} ELSE {})
    BY <1>1, ModeLinesStep DEF ConfigInv
<1>6. AcceptedTo(next)
    <2>1. 1..next = 1..lineNumber \cup {next}
        BY <1>1
    <2> QED BY <1>1, <1>5, <2>1 DEF ConfigInv, AcceptedTo, Rejected
<1>7. config' = ConfigTo(next)
    <2>1. CASE ~IsMode(Line)
        BY <1>5, <2>1 DEF ConfigInv, ConfigTo, ParseLine
    <2>2. CASE IsMode(Line)
        <3>1. Last(ModeLinesTo(next)) = next
            <4>1. ModeLinesTo(next) \in SUBSET Nat
                BY <1>1 DEF ModeLinesTo, ModeLines
            <4>2. \A m \in ModeLinesTo(next) : m <= next
                BY DEF ModeLinesTo
            <4> QED BY <1>5, <2>2, <4>1, <4>2, LastIs
        <3>2. ConfigTo(next).mode = ModeOf(Line)
            BY <1>1, <1>5, <2>2, <3>1 DEF ConfigTo
        <3>3. ConfigTo(next).retired = (config.retired \/ Line.text = RetiredMode)
            BY <1>1, <1>5, <2>2 DEF ConfigInv, ConfigTo
        <3> QED BY <2>2, <3>2, <3>3 DEF ConfigInv, ConfigTo, ParseLine, ModeOf
    <2> QED BY <2>1, <2>2
<1> HIDE DEF next
<1>8. section' = OpenSection(lineNumber)' 
    BY <1>1, <1>3, <1>4
<1>9. AcceptedTo(lineNumber)'
    BY <1>1, <1>3, <1>6 DEF AcceptedTo
<1>10. config' = ConfigTo(lineNumber)'
    BY <1>1, <1>3, <1>7 DEF ConfigTo
<1> QED BY <1>2, <1>8, <1>9, <1>10 DEF ConfigInv

LEMMA ConfigStep ==
    ASSUME ConfigInv, [ConfigNext]_configFileVars
    PROVE  ConfigInv' \/ Fresh'
<1>1. CASE OpenConfig
    BY <1>1, LineAssumption DEF OpenConfig, Fresh
<1>2. CASE ParseLine
    BY <1>2, ParseLineStep
<1>3. CASE CloseConfig
    BY <1>3 DEF CloseConfig, Fresh
<1>4. CASE UNCHANGED configFileVars
    <2>1. file' = file /\ lineNumber' = lineNumber /\ section' = section /\ config' = config
        BY <1>4 DEF configFileVars
    <2>2. /\ OpenSection(lineNumber)' = OpenSection(lineNumber)
          /\ ModeLinesTo(lineNumber)' = ModeLinesTo(lineNumber)
        BY <2>1 DEF OpenSection, ModeLinesTo, ModeLines
    <2>3. AcceptedTo(lineNumber)' = AcceptedTo(lineNumber)
        BY <2>1, <2>2 DEF AcceptedTo
    <2>4. ConfigTo(lineNumber)' = ConfigTo(lineNumber)
        BY <2>1, <2>2 DEF ConfigTo
    <2> QED BY <2>1, <2>2, <2>3, <2>4 DEF ConfigInv, FileTypes
<1> QED BY <1>1, <1>2, <1>3, <1>4 DEF ConfigNext

LEMMA ConfigStarts == InitConfig => Fresh
BY DEF InitConfig, Fresh

\* Whatever the file holds, the mode is that of the last line of the section
\* [hdr] that sets it, the retired mode is reported wherever it stands, and a
\* line that should be refused was.
THEOREM ParserFollowsTheFile == ConfigSpec => []ParsedAsWritten
<1>1. ConfigInv => ParsedAsWritten
    <2> SUFFICES ASSUME ConfigInv, Parsed PROVE WellFormed /\ config = ReferenceConfig
        BY DEF ParsedAsWritten
    <2>1. lineNumber = Len(file) /\ DOMAIN file = 1..Len(file) /\ Len(file) \in Nat
        BY DEF Parsed, ConfigInv, FileTypes
    <2>2. ModeLinesTo(lineNumber) = ModeLines
        BY <2>1 DEF ModeLinesTo, ModeLines
    <2> QED BY <2>1, <2>2
            DEF ConfigInv, AcceptedTo, ConfigTo, WellFormed, ReferenceConfig
<1> QED BY <1>1, ConfigStarts, FreshParser, ConfigStep, PTL DEF ConfigSpec

=============================================================================
