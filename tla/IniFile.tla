------------------------------ MODULE IniFile ------------------------------
(***************************************************************************)
(* The reader of configuration texts (gr_ini.c): what a text becomes, and  *)
(* what a lookup finds in it.  A text is a sequence of lines, a line a     *)
(* record saying how gr_ini_open2 sees it:                                 *)
(*                                                                         *)
(*   blank   nothing, or '#' or ';' first                                  *)
(*   stub    '[' and at most one character                                 *)
(*   head    '[', name, and end: "]", "" or "] " (a blank after the        *)
(*           bracket)                                                      *)
(*   item    key '=' val                                                   *)
(*   single  one other character                                           *)
(*   text    no '='                                                        *)
(*                                                                         *)
(* Names, keys and words are compared without case (stricmp), so they      *)
(* stand here for all their spellings; key and val are what str_trim       *)
(* leaves, "" when that is nothing.  A val has the length of its text, len,*)
(* and says what it reads as:                                              *)
(*                                                                         *)
(*   [is |-> "num", n]       what atoi makes of a text beginning with a    *)
(*                           digit or '-'                                  *)
(*   [is |-> "word", w]      any other text; w = "" for the empty one      *)
(*   [is |-> "addr", ...]    an address to listen on, see Config           *)
(***************************************************************************)
EXTENDS Sequences, SequencesExt, Integers

CONSTANTS
  MaxSections,  \* INI_SECTION_COUNT
  MaxItems      \* INI_ITEM_COUNT

ASSUME IniAssumption == MaxSections \in Nat /\ MaxItems \in Nat

\* What a text is made of.
IsValue(v) ==
  /\ v.len \in Nat
  /\ \/ v.is = "num" /\ v.n \in Int
     \/ v.is = "word"
     \/ /\ v.is = "addr" /\ v.n \in Int
        /\ v.proto \in {"tcp", "udp", "other"} /\ v.fault \in {"none", "colon", "ip", "digit"}

IsLine(line) ==
  \/ line.kind \in {"blank", "stub", "head", "single", "text"}
  \/ line.kind = "item" /\ IsValue(line.val)

IsText(lines) ==
  /\ Len(lines) \in Nat /\ DOMAIN lines = 1 .. Len(lines)
  /\ \A i \in DOMAIN lines : IsLine(lines[i])

Absent == [is |-> "absent"]

NoText == [sections |-> <<>>, bad |-> FALSE]

\* Only the very last character is taken for the closing bracket.
SectionName(line) == IF line.end = "] " THEN line.name \o "] " ELSE line.name

-----------------------------------------------------------------------------
(* gr_ini_open2 *)

ParseHead(ini, line) ==
  IF Len(ini.sections) >= MaxSections
  THEN [ini EXCEPT !.bad = TRUE]
  ELSE [ini EXCEPT !.sections = Append(@, [name |-> SectionName(line), items |-> <<>>])]

\* An item belongs to the last section that was opened.
ParseItem(ini, line) ==
  LET last == Len(ini.sections) IN
  IF last = 0 THEN [ini EXCEPT !.bad = TRUE]
  ELSE IF line.key = "" THEN ini
  ELSE IF Len(ini.sections[last].items) >= MaxItems THEN [ini EXCEPT !.bad = TRUE]
  ELSE [ini EXCEPT !.sections[last].items = Append(@, [key |-> line.key, val |-> line.val])]

\* A line that cannot be read marks the text as bad; the lines after it are read all the same.
ParseLine(ini, line) ==
  CASE line.kind \in {"blank", "stub"} -> ini
    [] line.kind = "head"              -> ParseHead(ini, line)
    [] line.kind \in {"single", "text"} -> [ini EXCEPT !.bad = TRUE]
    [] line.kind = "item"              -> ParseItem(ini, line)

Parse(lines) == FoldLeft(ParseLine, NoText, lines)

-----------------------------------------------------------------------------
(* Lookups *)

\* The position of the first section of that name, 0 if there is none.
FindSection(ini, name) == SelectInSeq(ini.sections, LAMBDA s : s.name = name)

\* The value of the first item of that key in the section found.
Find(ini, name, key) ==
  LET s == FindSection(ini, name)
      i == IF s = 0 THEN 0 ELSE SelectInSeq(ini.sections[s].items, LAMBDA e : e.key = key)
  IN  IF i = 0 THEN Absent ELSE ini.sections[s].items[i].val

GetInt(ini, name, key, def) ==
  LET v == Find(ini, name, key) IN IF v.is = "num" THEN v.n ELSE def

GetString(ini, name, key, def) ==
  LET v == Find(ini, name, key) IN IF v = Absent THEN def ELSE v
=============================================================================
