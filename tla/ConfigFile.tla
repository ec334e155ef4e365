----------------------------- MODULE ConfigFile -----------------------------
(***************************************************************************)
(* The configuration file (src/src/config.rs): a default one is created    *)
(* when there is none; otherwise its lines are parsed one after the other. *)
(* A line is abstracted to what trimming, comments and splitting leave of  *)
(* it: nothing, a section, a key and its value, or neither.                *)
(***************************************************************************)
EXTENDS Integers, Sequences

CONSTANT Files      \* contents a file may have, <<>> standing for none too

\* A file is a finite sequence of lines.
LineType == [kind : STRING, text : STRING]

ASSUME LineAssumption == \A text \in Files : text \in Seq(LineType)

\* The modes of this version, and the name of one that was retired.
AllModes == {"observe", "unlock_hdr_menu", "emulate_hdr_fullscreen_state",
             "emulate_hdr_and_set_pq", "windowed_hdr"}
RetiredMode == "force_pq_if_hdr10"

DefaultMode == "windowed_hdr"

NoSection == ""     \* above the first section line

Blank == [kind |-> "blank", text |-> ""]
Junk == [kind |-> "junk", text |-> ""]
SectionLine(name) == [kind |-> "section", text |-> name]
ModeLine(value) == [kind |-> "mode", text |-> value]
OtherKey == [kind |-> "key", text |-> ""]

VARIABLES
    file,           \* lines of the file
    lineNumber,     \* lines parsed
    section,        \* section the next line is in
    config          \* Config: mode and retired_force_pq_requested

configFileVars == <<file, lineNumber, section, config>>

DefaultConfig == [mode |-> DefaultMode, retired |-> FALSE]

InitConfig ==
    /\ file = <<>>
    /\ lineNumber = 0
    /\ section = NoSection
    /\ config = DefaultConfig

\* Config::load_or_create begins; a missing file becomes an empty text, which
\* parses to the default that is written.
OpenConfig ==
    /\ file' \in Files
    /\ lineNumber' = 0
    /\ section' = NoSection
    /\ config' = DefaultConfig

\* The text and the parser's locals are gone.
CloseConfig ==
    /\ file' = <<>>
    /\ lineNumber' = 0
    /\ section' = NoSection
    /\ config' = DefaultConfig

Line == file[lineNumber + 1]

\* Mutant: the key is taken from any section.
IsModeAnywhere(line) == line.kind = "mode"

IsMode(line) == section = "hdr" /\ line.kind = "mode"

Rejected(line) ==
    \/ line.kind = "junk"
    \/ IsMode(line) /\ line.text \notin AllModes \cup {RetiredMode}

\* Config::parse, one line.
ParseLine ==
    /\ lineNumber < Len(file)
    /\ ~Rejected(Line)
    /\ lineNumber' = lineNumber + 1
    /\ section' = IF Line.kind = "section" THEN Line.text ELSE section
    /\ config' =
        IF ~IsMode(Line) THEN config
        ELSE IF Line.text = RetiredMode THEN [mode |-> "observe", retired |-> TRUE]
        ELSE [config EXCEPT !.mode = Line.text]
    /\ UNCHANGED file

\* The file cannot be written or read, or the line is not understood.
ParseFails ==
    \/ lineNumber = 0
    \/ lineNumber < Len(file) /\ Rejected(Line)

Parsed == lineNumber = Len(file)

\* load_or_create on its own.
ConfigNext == OpenConfig \/ ParseLine \/ CloseConfig

ConfigSpec == InitConfig /\ [][ConfigNext]_configFileVars

-----------------------------------------------------------------------------
Last(lines) == CHOOSE n \in lines : \A m \in lines : m <= n

\* The lines that set the mode: those in the section [hdr] that is the last
\* one opened above them.
OpenSection(n) ==
    LET above == {m \in 1..n : file[m].kind = "section"}
    IN  IF above = {} THEN NoSection ELSE file[Last(above)].text

ModeLines == {n \in DOMAIN file : file[n].kind = "mode" /\ OpenSection(n) = "hdr"}

ModeOf(line) == IF line.text = RetiredMode THEN "observe" ELSE line.text

\* What a reader of the file expects: the last such line decides, there is
\* none that is not a mode, and the warning about the retired mode is given
\* if any of them asks for it.
ReferenceConfig ==
    [mode |-> IF ModeLines = {} THEN DefaultMode ELSE ModeOf(file[Last(ModeLines)]),
     retired |-> \E n \in ModeLines : file[n].text = RetiredMode]

WellFormed ==
    /\ \A n \in DOMAIN file : file[n].kind # "junk"
    /\ \A n \in ModeLines : file[n].text \in AllModes \cup {RetiredMode}

\* The mode that initialize acts on is the one the file asks for, wherever its
\* sections and repeated keys stand, and a file that was accepted has no line
\* that should have been refused.
ParsedAsWritten == Parsed => WellFormed /\ config = ReferenceConfig

=============================================================================
