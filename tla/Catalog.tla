-------------------------------- MODULE Catalog --------------------------------
(***************************************************************************)
(* The effect catalogue (catalog.c): the lines "name: MP1/SamGunFx/path"   *)
(* of a file are copied into two blocks of fixed slots, one for the names  *)
(* and one for the paths, and the names become the labels of the dropdown. *)
(*                                                                         *)
(* A line is its shape: whether it has a colon, the characters before it,  *)
(* those from it on, and whether its name begins with a semicolon.  The    *)
(* j-th character of the k-th line's name or path is <<k, j>>.             *)
(***************************************************************************)
EXTENDS Integers, SequencesExt, FiniteSetsExt

CONSTANTS
  Lines,       \* the shapes a line of the file can have
  MaxLines,    \* bound: the lines of the file
  MAX_COUNT, NAME_SIZE, PATH_SIZE,
  SKIP,        \* what SplitOnce skips from the colon on, "MP1/SamGunFx/" too
  TEXT_SIZE,   \* RAYGUI_TEXTSPLIT_MAX_TEXT_SIZE
  MAX_ITEMS    \* RAYGUI_TEXTSPLIT_MAX_ITEMS

ASSUME SlotAssumption ==
  /\ MAX_COUNT \in Nat /\ SKIP \in Nat
  /\ NAME_SIZE \in Nat \ {0} /\ PATH_SIZE \in Nat \ {0}
  /\ Lines \subseteq [colon : BOOLEAN, semicolon : BOOLEAN, name : Nat, rest : Nat]

(* A label for each slot: both are 128. *)
ASSUME TextSplitAssumption ==
  TEXT_SIZE \in Nat /\ MAX_ITEMS \in Nat /\ MAX_COUNT <= MAX_ITEMS

VARIABLES
  status,    \* "parsing", "parsed", "deleted", or "undefined"
  lines,     \* the lines parsed, c->size of them
  names,     \* _nameblock
  paths      \* _pathblock

vars == <<status, lines, names, paths>>

(* The terminator, '|', ';' and a byte nobody has written. *)
NUL == <<0, 0>>
BAR == <<0, 1>>
SEMICOLON == <<0, 2>>
JUNK == <<0, 3>>

(* Fault, for the mutation runs: a block is one slot short. *)
FaultOneSlotShort(slots, size) == [i \in 0..((slots - 1) * size - 1) |-> JUNK]

Block(slots, size) == [i \in 0..(slots * size - 1) |-> JUNK]

Init ==
  /\ status = "parsing"
  /\ lines = <<>>
  /\ names = Block(MAX_COUNT, NAME_SIZE)
  /\ paths = Block(MAX_COUNT, PATH_SIZE)

(* The two fields of the k-th line. *)
Name(line, k) ==
  [j \in 1..line.name |->
     IF j = 1 /\ line.semicolon = TRUE THEN SEMICOLON ELSE <<k, j>>]

Path(line, k) == [j \in 1..(line.rest - SKIP) |-> <<k, j>>]

(* strstr finds the colon, and the size of the path does not wrap around. *)
SplitOnce(line) == line.colon = TRUE /\ line.rest >= SKIP

(* Fault: the bar stands one byte early. *)
FaultBarEarly(block, at, text, size) ==
  [i \in DOMAIN block |->
     CASE i = at + size - 2                -> BAR
       [] i = at + Len(text)               -> NUL
       [] i \in at..(at + Len(text) - 1)   -> text[i - at + 1]
       [] OTHER                            -> block[i]]

(* The bytes of a field copied to a slot, the terminator, and the bar that *)
(* is written last.                                                        *)
Stored(block, at, text, size) ==
  [i \in DOMAIN block |->
     IF i = at + size - 1 THEN BAR
     ELSE IF i = at + Len(text) THEN NUL
     ELSE IF i \in at..(at + Len(text) - 1) THEN text[i - at + 1]
     ELSE block[i]]

InBlock(block, at, text, size) ==
  at + Len(text) \in DOMAIN block /\ at + size - 1 \in DOMAIN block

(* One round of ParseCatalog's loop, for the next token. *)
ParseLine(line) ==
  LET k    == Len(lines) + 1
      name == Name(line, k)
      path == Path(line, k)
      NAME_AT == (k - 1) * NAME_SIZE
      PATH_AT == (k - 1) * PATH_SIZE
  IN  /\ status = "parsing"
      /\ \/ /\ SplitOnce(line)
            /\ InBlock(names, NAME_AT, name, NAME_SIZE)
            /\ InBlock(paths, PATH_AT, path, PATH_SIZE)
            /\ names' = Stored(names, NAME_AT, name, NAME_SIZE)
            /\ paths' = Stored(paths, PATH_AT, path, PATH_SIZE)
            /\ lines' = Append(lines, line)
            /\ UNCHANGED status
         \/ /\ \/ ~SplitOnce(line)
               \/ ~InBlock(names, NAME_AT, name, NAME_SIZE)
               \/ ~InBlock(paths, PATH_AT, path, PATH_SIZE)
            /\ status' = "undefined"
            /\ lines' = Append(lines, line)
            /\ UNCHANGED <<names, paths>>

(* LoadFileText returns NULL: strtok_s takes its text from a wild pointer. *)
NoFile ==
  /\ status = "parsing"
  /\ lines = <<>>
  /\ status' = "undefined"
  /\ UNCHANGED <<lines, names, paths>>

(* strtok_s returns NULL. *)
ParseCatalog ==
  /\ status = "parsing"
  /\ status' = "parsed"
  /\ UNCHANGED <<lines, names, paths>>

DeleteCatalog ==
  /\ status = "parsed"
  /\ status' = "deleted"
  /\ names' = Block(0, NAME_SIZE)
  /\ paths' = Block(0, PATH_SIZE)
  /\ UNCHANGED lines

Next ==
  \/ \E line \in Lines : Len(lines) < MaxLines /\ ParseLine(line)
  \/ NoFile
  \/ ParseCatalog
  \/ DeleteCatalog

Spec == Init /\ [][Next]_vars

-------------------------------------------------------------------------------
(* The labels of the dropdown: TextJoin in InitParticleViewer and the      *)
(* GuiTextSplit of every frame.                                            *)

(* The characters strictly between two places. *)
Between(text, from, to) == [j \in 1..(to - from - 1) |-> text[from + j]]

(* The characters from a place up to the first terminator. *)
CString(block, at) ==
  LET ends == {i \in DOMAIN block : i >= at /\ block[i] = NUL}
  IN  Between(block, at - 1,
              IF ends = {} THEN Cardinality(DOMAIN block) ELSE Min(ends))

(* External (raylib): the names with a semicolon between each two. *)
TextJoin(texts) ==
  FoldLeft(LAMBDA text, next : text \o <<SEMICOLON>> \o next,
           Head(texts), Tail(texts))

options ==
  TextJoin([k \in 1..Len(lines) |-> CString(names, (k - 1) * NAME_SIZE)])

(* The text is read up to TEXT_SIZE and cut at each semicolon. *)
Cuts(text) ==
  LET cuts == {i \in DOMAIN text : i <= TEXT_SIZE /\ text[i] = SEMICOLON}
  IN  [c \in 1..Cardinality(cuts) |->
         CHOOSE i \in cuts : Cardinality({j \in cuts : j <= i}) = c]

(* Fault: the last label is not counted. *)
FaultDropsLast(text) ==
  LET cut == <<0>> \o Cuts(text)
  IN  [c \in 1..(Len(cut) - 1) |-> Between(text, cut[c], cut[c + 1])]

GuiTextSplit(text) ==
  LET end == IF Len(text) < TEXT_SIZE THEN Len(text) ELSE TEXT_SIZE
      cut == <<0>> \o Cuts(text) \o <<end + 1>>
  IN  [c \in 1..(Len(cut) - 1) |-> Between(text, cut[c], cut[c + 1])]

-------------------------------------------------------------------------------
(* Properties. *)

(* The block holds the text at a place, terminated. *)
Holds(block, at, text) ==
  /\ \A j \in 1..Len(text) :
       at + j - 1 \in DOMAIN block /\ block[at + j - 1] = text[j]
  /\ at + Len(text) \in DOMAIN block /\ block[at + Len(text)] = NUL

Live == status \in {"parsing", "parsed"}

(* The bar takes a byte of the slot, and the terminator another. *)
NameFits(k) == lines[k].name <= NAME_SIZE - 2
PathFits(k) == lines[k].rest - SKIP <= PATH_SIZE - 2

(* A field that leaves room for its terminator and the bar reads back as   *)
(* it stands in the file, whatever fields too long for their slots come    *)
(* before and after it: these spill forward only, over slots not written   *)
(* yet (ParseCatalog, memcpy_s with the size of the source).               *)
FittingEntriesIntact ==
  Live =>
    \A k \in 1..Len(lines) :
      /\ NameFits(k) => Holds(names, (k - 1) * NAME_SIZE, Name(lines[k], k))
      /\ PathFits(k) => Holds(paths, (k - 1) * PATH_SIZE, Path(lines[k], k))

(* What the user picks is what is loaded: if every name fits, none has a   *)
(* semicolon, and the joined names fit raygui's buffers, the labels are    *)
(* the names of the entries, in the order of the paths; and a label per    *)
(* entry fits raygui's table.                                              *)
LabelsNameEntries ==
  (/\ Live /\ lines # <<>>
   /\ \A k \in 1..Len(lines) : NameFits(k) /\ lines[k].semicolon = FALSE
   /\ Len(options) < TEXT_SIZE)
  =>
    LET labels == GuiTextSplit(options)
    IN  /\ Len(labels) = Len(lines)
        /\ Len(labels) <= MAX_ITEMS
        /\ \A k \in 1..Len(lines) : labels[k] = Name(lines[k], k)

WellFormed(line) ==
  SplitOnce(line) /\ line.name < NAME_SIZE /\ line.rest - SKIP < PATH_SIZE

(* A file of at most MAX_COUNT lines, each with its prefix and with fields *)
(* shorter than their slots, parses without leaving the blocks, although   *)
(* nothing of this is checked while it does (SplitOnce, ParseCatalog).     *)
DefinedWithinLimits ==
  (/\ lines # <<>> /\ Len(lines) <= MAX_COUNT
   /\ \A k \in 1..Len(lines) : WellFormed(lines[k]))
  => status # "undefined"
===============================================================================
