----------------------------- MODULE CatalogProofs -----------------------------
(***************************************************************************)
(* The catalogue for every file and every size of its slots: an entry that *)
(* fits is never damaged by the entries around it.                         *)
(***************************************************************************)
EXTENDS Catalog, FiniteSetTheorems, WellFoundedInduction, TLAPS

(* What Catalog keeps of a block: it is one, and the fields that fit stand *)
(* in their slots.                                                         *)
NamesIntact ==
  \A k \in 1..Len(lines) :
    NameFits(k) => Holds(names, (k - 1) * NAME_SIZE, Name(lines[k], k))

PathsIntact ==
  \A k \in 1..Len(lines) :
    PathFits(k) => Holds(paths, (k - 1) * PATH_SIZE, Path(lines[k], k))

(* The inductive invariant. *)
CatalogInv ==
  /\ lines \in Seq(Lines)
  /\ Live =>
       /\ DOMAIN names = 0..(MAX_COUNT * NAME_SIZE - 1)
       /\ DOMAIN paths = 0..(MAX_COUNT * PATH_SIZE - 1)
       /\ \A k \in 1..Len(lines) : SplitOnce(lines[k])
       /\ NamesIntact /\ PathsIntact

-------------------------------------------------------------------------------
(* A slot ends where the next begins. *)
LEMMA SlotsFollow ==
  ASSUME NEW size \in Nat, NEW k \in Nat, NEW n \in Nat, k < n
  PROVE  /\ k * size \in Nat /\ n * size \in Nat
         /\ k * size + size <= n * size
<1> DEFINE d == n - k - 1
<1>1. d \in Nat /\ n = k + 1 + d
  OBVIOUS
<1>2. d * size \in Nat /\ k * size \in Nat
  BY <1>1
<1>3. (k + 1 + d) * size = k * size + size + d * size
  BY <1>1
<1> QED BY <1>1, <1>2, <1>3

(* A write to a slot leaves what ends before it. *)
LEMMA StoredKeeps ==
  ASSUME NEW block, NEW at \in Int, NEW text, NEW size \in Nat \ {0},
         Len(text) \in Nat,
         NEW a \in Int, NEW old, Len(old) \in Nat,
         Holds(block, a, old), a + Len(old) < at
  PROVE  Holds(Stored(block, at, text, size), a, old)
<1> DEFINE new == Stored(block, at, text, size)
<1>1. \A i \in DOMAIN block : i \in Int /\ i < at => i \in DOMAIN new /\ new[i] = block[i]
  BY DEF Stored
<1>2. \A j \in 1..Len(old) : a + j - 1 \in DOMAIN block /\ block[a + j - 1] = old[j]
  BY DEF Holds
<1>3. a + Len(old) \in DOMAIN block /\ block[a + Len(old)] = NUL
  BY DEF Holds
<1> HIDE DEF new
<1>4. \A j \in 1..Len(old) : a + j - 1 \in DOMAIN new /\ new[a + j - 1] = old[j]
  BY <1>1, <1>2
<1>5. a + Len(old) \in DOMAIN new /\ new[a + Len(old)] = NUL
  BY <1>1, <1>3
<1> QED BY <1>4, <1>5 DEF Holds, new

(* A text that leaves two bytes of its slot is held by it. *)
LEMMA StoredHolds ==
  ASSUME NEW block, NEW at \in Int, NEW text, NEW size \in Nat \ {0},
         Len(text) \in Nat, Len(text) <= size - 2,
         \A i \in at..(at + size - 1) : i \in DOMAIN block
  PROVE  Holds(Stored(block, at, text, size), at, text)
<1> DEFINE new == Stored(block, at, text, size)
<1>1. ASSUME NEW j \in 1..Len(text)
      PROVE  at + j - 1 \in DOMAIN block /\ new[at + j - 1] = text[j]
  <2> DEFINE i == at + j - 1
  <2>1. /\ i \in at..(at + size - 1) /\ i \in at..(at + Len(text) - 1)
        /\ i # at + size - 1 /\ i # at + Len(text) /\ i - at + 1 = j
    OBVIOUS
  <2>2. i \in DOMAIN block
    BY <2>1
  <2> HIDE DEF i
  <2>3. new[i] = text[i - at + 1]
    BY <2>1, <2>2 DEF Stored
  <2> QED BY <2>1, <2>2, <2>3 DEF i
<1>2. at + Len(text) \in DOMAIN block /\ new[at + Len(text)] = NUL
  BY DEF Stored
<1>3. DOMAIN new = DOMAIN block
  BY DEF Stored
<1> HIDE DEF new
<1> QED BY <1>1, <1>2, <1>3 DEF Holds, new

-------------------------------------------------------------------------------
(* The fields of a line have the lengths of its shape. *)
LEMMA FieldLengths ==
  ASSUME NEW line \in Lines, NEW k
  PROVE  /\ Len(Name(line, k)) = line.name /\ line.name \in Nat
         /\ line.rest \in Nat
         /\ line.rest >= SKIP => Len(Path(line, k)) = line.rest - SKIP
<1>1. line.name \in Nat /\ line.rest \in Nat /\ SKIP \in Nat
  BY SlotAssumption
<1>2. Len(Name(line, k)) = line.name
  BY <1>1 DEF Name
<1>3. ASSUME line.rest >= SKIP PROVE Len(Path(line, k)) = line.rest - SKIP
  <2> DEFINE n == line.rest - SKIP
  <2>1. n \in Nat
    BY <1>1, <1>3
  <2> HIDE DEF n
  <2>2. Len([j \in 1..n |-> <<k, j>>]) = n
    BY <2>1
  <2> QED BY <2>2 DEF Path, n
<1> QED BY <1>1, <1>2, <1>3

(* A write to the next slot keeps a field that fits an earlier one. *)
LEMMA SlotKept ==
  ASSUME NEW block, NEW size \in Nat \ {0}, NEW n \in Nat, NEW text, Len(text) \in Nat,
         NEW k \in 1..n, NEW old, Len(old) \in Nat, Len(old) <= size - 2,
         Holds(block, (k - 1) * size, old)
  PROVE  Holds(Stored(block, n * size, text, size), (k - 1) * size, old)
<1> DEFINE a  == (k - 1) * size
           at == n * size
<1>1. a \in Nat /\ at \in Nat /\ a + size <= at
  <2>1. k - 1 \in Nat /\ k - 1 < n
    OBVIOUS
  <2> QED BY <2>1, SlotsFollow
<1>2. Holds(block, a, old)
  OBVIOUS
<1> HIDE DEF a, at
<1>3. a + Len(old) < at
  BY <1>1
<1>4. Holds(Stored(block, at, text, size), a, old)
  BY <1>1, <1>2, <1>3, StoredKeeps
<1> QED BY <1>4 DEF a, at

(* The slot just written holds a field that fits. *)
LEMMA SlotWritten ==
  ASSUME NEW block, NEW size \in Nat \ {0}, NEW n \in Nat, NEW text, NEW top \in Int,
         Len(text) \in Nat, Len(text) <= size - 2,
         DOMAIN block = 0..top, InBlock(block, n * size, text, size)
  PROVE  Holds(Stored(block, n * size, text, size), n * size, text)
<1> DEFINE at == n * size
<1>1. at \in Nat
  OBVIOUS
<1>2. at + size - 1 \in 0..top
  BY DEF InBlock
<1> HIDE DEF at
<1>3. \A i \in at..(at + size - 1) : i \in DOMAIN block
  BY <1>1, <1>2
<1>4. Holds(Stored(block, at, text, size), at, text)
  BY <1>1, <1>3, StoredHolds
<1> QED BY <1>4 DEF at

(* One more line keeps every field that fits, and adds its own. *)
LEMMA ParseLineKeepsInv ==
  ASSUME CatalogInv, NEW line \in Lines, ParseLine(line)
  PROVE  CatalogInv'
<1> DEFINE n == Len(lines)
           name == Name(line, n + 1)
           path == Path(line, n + 1)
<1>1. n \in Nat /\ NAME_SIZE \in Nat \ {0} /\ PATH_SIZE \in Nat \ {0} /\ SKIP \in Nat
  BY SlotAssumption DEF CatalogInv
<1>2. lines' = Append(lines, line) /\ lines' \in Seq(Lines)
  BY DEF ParseLine, CatalogInv
<1>3. CASE status' = "undefined"
  BY <1>2, <1>3 DEF CatalogInv, Live
<1>4. CASE status' # "undefined"
  <2>1. /\ status = "parsing"
        /\ names' = Stored(names, n * NAME_SIZE, name, NAME_SIZE)
        /\ paths' = Stored(paths, n * PATH_SIZE, path, PATH_SIZE)
        /\ SplitOnce(line)
        /\ InBlock(names, n * NAME_SIZE, name, NAME_SIZE)
        /\ InBlock(paths, n * PATH_SIZE, path, PATH_SIZE)
    <3>1. n + 1 - 1 = n
      BY <1>1
    <3> QED BY <1>4, <3>1 DEF ParseLine
  <2>2. /\ DOMAIN names = 0..(MAX_COUNT * NAME_SIZE - 1)
        /\ DOMAIN paths = 0..(MAX_COUNT * PATH_SIZE - 1)
        /\ NamesIntact /\ PathsIntact
        /\ \A k \in 1..n : SplitOnce(lines[k])
        /\ MAX_COUNT * NAME_SIZE - 1 \in Int /\ MAX_COUNT * PATH_SIZE - 1 \in Int
    <3>1. MAX_COUNT * NAME_SIZE - 1 \in Int /\ MAX_COUNT * PATH_SIZE - 1 \in Int
      BY <1>1, SlotAssumption
    <3>2. Live
      BY <2>1 DEF Live
    <3> QED BY <3>1, <3>2 DEF CatalogInv
  <2>3. DOMAIN names' = DOMAIN names /\ DOMAIN paths' = DOMAIN paths
    BY <2>1 DEF Stored
  <2>4. /\ Len(name) = line.name /\ Len(name) \in Nat
        /\ Len(path) = line.rest - SKIP /\ Len(path) \in Nat
    <3>1. line.rest >= SKIP /\ line.rest \in Nat
      BY <2>1, FieldLengths DEF SplitOnce
    <3> QED BY <1>1, <3>1, FieldLengths
  <2>5. /\ Len(lines') = n + 1 /\ lines'[n + 1] = line
        /\ \A k \in 1..n : lines'[k] = lines[k] /\ lines[k] \in Lines
    BY <1>2 DEF CatalogInv
  <2>6. ASSUME NEW k \in 1..(n + 1), NameFits(k)'
        PROVE  Holds(names', (k - 1) * NAME_SIZE, Name(lines'[k], k))
    <3>1. CASE k = n + 1
      <4>1. Len(name) <= NAME_SIZE - 2
        BY <2>4, <2>5, <2>6, <3>1 DEF NameFits
      <4>2. Holds(names', n * NAME_SIZE, name)
        BY <1>1, <2>1, <2>2, <2>4, <4>1, SlotWritten
      <4> QED BY <1>1, <2>5, <3>1, <4>2
    <3>2. CASE k # n + 1
      <4>1. k \in 1..n /\ lines'[k] = lines[k]
        BY <1>1, <2>5, <3>2
      <4>2. /\ Len(Name(lines[k], k)) \in Nat
            /\ Len(Name(lines[k], k)) <= NAME_SIZE - 2
        BY <2>5, <2>6, <4>1, FieldLengths DEF NameFits
      <4>3. Holds(names, (k - 1) * NAME_SIZE, Name(lines[k], k))
        BY <2>2, <2>6, <4>1 DEF NamesIntact, NameFits
      <4> QED BY <1>1, <2>1, <2>4, <4>1, <4>2, <4>3, SlotKept
    <3> QED BY <3>1, <3>2
  <2>7. ASSUME NEW k \in 1..(n + 1), PathFits(k)'
        PROVE  Holds(paths', (k - 1) * PATH_SIZE, Path(lines'[k], k))
    <3>1. CASE k = n + 1
      <4>1. Len(path) <= PATH_SIZE - 2
        BY <2>4, <2>5, <2>7, <3>1 DEF PathFits
      <4>2. Holds(paths', n * PATH_SIZE, path)
        BY <1>1, <2>1, <2>2, <2>4, <4>1, SlotWritten
      <4> QED BY <1>1, <2>5, <3>1, <4>2
    <3>2. CASE k # n + 1
      <4>1. k \in 1..n /\ lines'[k] = lines[k]
        BY <1>1, <2>5, <3>2
      <4>2. /\ Len(Path(lines[k], k)) \in Nat
            /\ Len(Path(lines[k], k)) <= PATH_SIZE - 2
        <5>1. lines[k].rest \in Nat /\ lines[k].rest >= SKIP
          BY <2>2, <2>5, <4>1, FieldLengths DEF SplitOnce
        <5>2. Len(Path(lines[k], k)) = lines[k].rest - SKIP
          BY <2>5, <4>1, <5>1, FieldLengths
        <5> QED BY <1>1, <2>7, <4>1, <5>1, <5>2 DEF PathFits
      <4>3. Holds(paths, (k - 1) * PATH_SIZE, Path(lines[k], k))
        BY <2>2, <2>7, <4>1 DEF PathsIntact, PathFits
      <4> QED BY <1>1, <2>1, <2>4, <4>1, <4>2, <4>3, SlotKept
    <3> QED BY <3>1, <3>2
  <2>9. \A k \in 1..(n + 1) : SplitOnce(lines'[k])
    BY <1>1, <2>1, <2>2, <2>5
  <2> HIDE DEF n, name, path
  <2>8. NamesIntact' /\ PathsIntact'
    BY <2>5, <2>6, <2>7 DEF NamesIntact, PathsIntact
  <2> QED BY <1>2, <2>2, <2>3, <2>5, <2>8, <2>9 DEF CatalogInv
<1> QED BY <1>3, <1>4

LEMMA CatalogInit == Init => CatalogInv
<1> SUFFICES ASSUME Init PROVE CatalogInv
  OBVIOUS
<1>1. lines = <<>> /\ lines \in Seq(Lines)
  BY DEF Init
<1>2. /\ DOMAIN names = 0..(MAX_COUNT * NAME_SIZE - 1)
      /\ DOMAIN paths = 0..(MAX_COUNT * PATH_SIZE - 1)
  BY DEF Init, Block
<1> QED BY <1>1, <1>2 DEF CatalogInv, NamesIntact, PathsIntact

LEMMA CatalogStep == CatalogInv /\ [Next]_vars => CatalogInv'
<1> SUFFICES ASSUME CatalogInv, [Next]_vars PROVE CatalogInv'
  OBVIOUS
<1>1. CASE \E line \in Lines : Len(lines) < MaxLines /\ ParseLine(line)
  BY <1>1, ParseLineKeepsInv
<1>2. CASE NoFile \/ DeleteCatalog
  BY <1>2 DEF NoFile, DeleteCatalog, CatalogInv, Live
<1>3. CASE ParseCatalog \/ UNCHANGED vars
  <2>1. /\ names' = names /\ paths' = paths /\ lines' = lines
        /\ Live' => Live
    BY <1>3 DEF ParseCatalog, vars, Live
  <2>2. NamesIntact => NamesIntact'
    BY <2>1 DEF NamesIntact, NameFits
  <2>3. PathsIntact => PathsIntact'
    BY <2>1 DEF PathsIntact, PathFits
  <2> QED BY <2>1, <2>2, <2>3 DEF CatalogInv
<1> QED BY <1>1, <1>2, <1>3 DEF Next

(* A field that fits its slot reads back as it stands in the file, for     *)
(* every file and every size of the slots (ParseCatalog).                  *)
THEOREM FittingEntriesAlwaysIntact == Spec => []FittingEntriesIntact
<1>1. CatalogInv => FittingEntriesIntact
  BY DEF CatalogInv, FittingEntriesIntact, Live, NamesIntact, PathsIntact
<1> QED BY <1>1, CatalogInit, CatalogStep, PTL DEF Spec

-------------------------------------------------------------------------------
(* A text that a block holds, and that has no terminator in it, is what is *)
(* read from there up to the first one.                                    *)
LEMMA ReadBack ==
  ASSUME NEW block, NEW at \in Nat, NEW top \in Int, DOMAIN block = 0..top,
         NEW text, Len(text) \in Nat, text = [j \in 1..Len(text) |-> text[j]],
         Holds(block, at, text), \A j \in 1..Len(text) : text[j] # NUL
  PROVE  CString(block, at) = text
<1> DEFINE len == Len(text)
           end == at + len
           ends == {i \in DOMAIN block : i >= at /\ block[i] = NUL}
<1>1. len \in Nat /\ end \in Nat
  OBVIOUS
<1>2. end \in ends
  BY DEF Holds
<1>3. ASSUME NEW i \in ends PROVE i \in Int /\ end <= i
  <2>1. i \in Int /\ i >= at /\ block[i] = NUL
    BY <1>3
  <2>2. ASSUME i < end PROVE FALSE
    <3>1. PICK j \in 1..len : j = i - at + 1
      BY <1>1, <2>1, <2>2
    <3>2. block[at + j - 1] = text[j] /\ at + j - 1 = i
      BY <2>1, <3>1 DEF Holds
    <3> QED BY <2>1, <3>1, <3>2
  <2> QED BY <1>1, <2>1, <2>2
<1> HIDE DEF ends
<1>4. Min(ends) = end
  <2>1. \A i \in ends : end <= i
    BY <1>3
  <2>2. Min(ends) \in ends /\ \A i \in ends : Min(ends) <= i
    BY <1>2, <2>1 DEF Min
  <2>3. Min(ends) \in Int /\ Min(ends) <= end /\ end <= Min(ends)
    BY <1>2, <1>3, <2>2
  <2> QED BY <1>1, <2>3
<1>5. CString(block, at) = Between(block, at - 1, end)
  BY <1>2, <1>4 DEF CString, ends
<1>6. end - (at - 1) - 1 = len
  BY <1>1
<1>7. Between(block, at - 1, end) = [j \in 1..len |-> block[at - 1 + j]]
  BY <1>6 DEF Between
<1>8. \A j \in 1..len : block[at - 1 + j] = text[j]
  <2> SUFFICES ASSUME NEW j \in 1..len PROVE block[at - 1 + j] = text[j]
    OBVIOUS
  <2>1. at - 1 + j = at + j - 1
    BY <1>1
  <2> QED BY <2>1 DEF Holds
<1> HIDE DEF len
<1>9. text = [j \in 1..len |-> text[j]]
  BY DEF len
<1> QED BY <1>5, <1>7, <1>8, <1>9

(* The texts of the dropdown, before raygui joins and splits them: every   *)
(* name that fits is read back as it stands in the file, and only it, up   *)
(* to the terminator of its slot (InitParticleViewer).                     *)
NamesReadBack ==
  Live =>
    \A k \in 1..Len(lines) :
      NameFits(k) => CString(names, (k - 1) * NAME_SIZE) = Name(lines[k], k)

LEMMA InvReadsBack == CatalogInv => NamesReadBack
<1> SUFFICES ASSUME CatalogInv, Live, NEW k \in 1..Len(lines), NameFits(k)
             PROVE  CString(names, (k - 1) * NAME_SIZE) = Name(lines[k], k)
  BY DEF NamesReadBack
<1>1. /\ lines[k] \in Lines /\ DOMAIN names = 0..(MAX_COUNT * NAME_SIZE - 1)
      /\ Holds(names, (k - 1) * NAME_SIZE, Name(lines[k], k)) /\ k \in Nat /\ k > 0
  BY DEF CatalogInv, NamesIntact
<1>2. (k - 1) * NAME_SIZE \in Nat /\ MAX_COUNT * NAME_SIZE - 1 \in Int
  <2>1. k - 1 \in Nat /\ NAME_SIZE \in Nat /\ MAX_COUNT \in Nat
    BY <1>1, SlotAssumption
  <2> QED BY <2>1
<1>3. Len(Name(lines[k], k)) = lines[k].name /\ lines[k].name \in Nat
  BY <1>1, FieldLengths
<1> DEFINE name == Name(lines[k], k)
           at == (k - 1) * NAME_SIZE
<1>4. \A j \in 1..lines[k].name : name[j] # NUL
  <2>1. SEMICOLON # NUL
    BY DEF SEMICOLON, NUL
  <2>2. \A j : <<k, j>> # NUL
    BY <1>1 DEF NUL
  <2> QED BY <2>1, <2>2 DEF Name
<1>5. name = [j \in 1..lines[k].name |-> name[j]]
  BY DEF Name
<1>6. Holds(names, at, name) /\ at \in Nat /\ Len(name) = lines[k].name
  BY <1>1, <1>2, <1>3
<1> HIDE DEF name, at
<1>7. CString(names, at) = name
  BY <1>1, <1>2, <1>3, <1>4, <1>5, <1>6, ReadBack
<1> QED BY <1>7 DEF name, at

(* It is so for every file and every size of the slots.                    *)
THEOREM NamesAlwaysReadBack == Spec => []NamesReadBack
<1> QED BY InvReadsBack, CatalogInit, CatalogStep, PTL DEF Spec

-------------------------------------------------------------------------------
(* A field shorter than its slot, and the slot's bar, lie in the block. *)
LEMMA ShortFieldInBlock ==
  ASSUME NEW block, NEW size \in Nat \ {0}, NEW count \in Nat, NEW n \in Nat,
         n < count, NEW text, Len(text) \in Nat, Len(text) < size,
         DOMAIN block = 0..(count * size - 1)
  PROVE  InBlock(block, n * size, text, size)
<1> DEFINE at == n * size
           end == count * size
<1>1. at \in Nat /\ end \in Nat /\ at + size <= end
  BY SlotsFollow
<1> HIDE DEF at, end
<1>2. at + Len(text) \in 0..(end - 1) /\ at + size - 1 \in 0..(end - 1)
  BY <1>1
<1> QED BY <1>2 DEF InBlock, at, end

(* A well-formed line within MAX_COUNT is parsed. *)
LEMMA WellFormedParses ==
  ASSUME CatalogInv, NEW line \in Lines, ParseLine(line),
         WellFormed(line), Len(lines) < MAX_COUNT
  PROVE  status' # "undefined"
<1> DEFINE n == Len(lines)
<1>1. /\ n \in Nat /\ n + 1 - 1 = n /\ NAME_SIZE \in Nat \ {0}
      /\ PATH_SIZE \in Nat \ {0} /\ SKIP \in Nat /\ MAX_COUNT \in Nat
  BY SlotAssumption DEF CatalogInv
<1>2. /\ DOMAIN names = 0..(MAX_COUNT * NAME_SIZE - 1)
      /\ DOMAIN paths = 0..(MAX_COUNT * PATH_SIZE - 1)
  BY DEF ParseLine, CatalogInv, Live
<1>3. /\ Len(Name(line, n + 1)) \in Nat /\ Len(Name(line, n + 1)) < NAME_SIZE
      /\ Len(Path(line, n + 1)) \in Nat /\ Len(Path(line, n + 1)) < PATH_SIZE
  <2>1. line.rest \in Nat /\ line.rest >= SKIP
    BY FieldLengths DEF WellFormed, SplitOnce
  <2>2. /\ Len(Name(line, n + 1)) = line.name /\ line.name \in Nat
        /\ Len(Path(line, n + 1)) = line.rest - SKIP
    BY <2>1, FieldLengths
  <2> QED BY <1>1, <2>1, <2>2 DEF WellFormed
<1>4. /\ InBlock(names, n * NAME_SIZE, Name(line, n + 1), NAME_SIZE)
      /\ InBlock(paths, n * PATH_SIZE, Path(line, n + 1), PATH_SIZE)
  BY <1>1, <1>2, <1>3, ShortFieldInBlock
<1> QED BY <1>1, <1>4 DEF ParseLine, WellFormed

(* A catalogue within its limits parses without leaving the blocks, for    *)
(* every file and every size of the slots (SplitOnce, ParseCatalog).       *)
THEOREM AlwaysDefinedWithinLimits == Spec => []DefinedWithinLimits
<1> DEFINE I == CatalogInv /\ DefinedWithinLimits
<1>1. Init => I
  BY CatalogInit DEF Init, DefinedWithinLimits
<1>2. I /\ [Next]_vars => I'
  <2> SUFFICES ASSUME I, [Next]_vars PROVE DefinedWithinLimits'
    BY CatalogStep
  <2>1. CASE \E line \in Lines : Len(lines) < MaxLines /\ ParseLine(line)
    <3>1. PICK line \in Lines : ParseLine(line)
      BY <2>1
    <3>2. /\ lines \in Seq(Lines) /\ lines' = Append(lines, line)
          /\ Len(lines') = Len(lines) + 1 /\ lines'[Len(lines) + 1] = line
          /\ Len(lines) \in Nat
      BY <3>1 DEF ParseLine, CatalogInv
    <3>3. SUFFICES ASSUME Len(lines') <= MAX_COUNT,
                          \A k \in 1..Len(lines') : WellFormed(lines'[k])
                   PROVE  status' # "undefined"
      BY DEF DefinedWithinLimits, WellFormed, SplitOnce
    <3>4. WellFormed(line) /\ Len(lines) < MAX_COUNT
      BY <3>2, <3>3, SlotAssumption
    <3> QED BY <3>1, <3>4, WellFormedParses
  <2>2. CASE NoFile \/ DeleteCatalog
    BY <2>2 DEF NoFile, DeleteCatalog, DefinedWithinLimits
  <2>3. CASE ParseCatalog
    BY <2>3 DEF ParseCatalog, DefinedWithinLimits
  <2>4. CASE UNCHANGED vars
    BY <2>4 DEF vars, DefinedWithinLimits, WellFormed, SplitOnce
  <2> QED BY <2>1, <2>2, <2>3, <2>4 DEF Next
<1>3. I => DefinedWithinLimits
  OBVIOUS
<1> QED BY <1>1, <1>2, <1>3, PTL DEF Spec

(* A set of naturals has a least element. *)
LEMMA LeastNat ==
  ASSUME NEW S, S \subseteq Nat, S # {}
  PROVE  \E x \in S : \A y \in S : x <= y
<1>1. PICK x \in S : \A y \in S : <<y, x>> \notin OpToRel(<, Nat)
  BY NatLessThanWellFounded, WFMin
<1>2. \A y \in S : ~(y < x)
  BY <1>1 DEF OpToRel
<1> QED BY <1>2

LEMMA MaxIn ==
  ASSUME NEW n \in Nat, NEW s \in SUBSET (1..n), s # {}
  PROVE  Max(s) \in s /\ \A y \in s : y <= Max(s)
<1> DEFINE Bounds == {u \in Nat : \A y \in s : y <= u}
<1>1. n \in Bounds
  OBVIOUS
<1>2. PICK u \in Bounds : \A v \in Bounds : u <= v
  <2> HIDE DEF Bounds
  <2>1. Bounds \subseteq Nat
    BY DEF Bounds
  <2> QED BY <1>1, <2>1, LeastNat
<1>3. u \in s
  <2>1. PICK x \in s : TRUE
    OBVIOUS
  <2>2. u \in Nat /\ x \in Nat /\ x > 0 /\ x <= u
    BY <1>2, <2>1
  <2>3. ASSUME u \notin s PROVE FALSE
    <3>1. \A y \in s : y \in Nat /\ y <= u /\ y # u
      BY <1>2, <2>3
    <3>2. u - 1 \in Bounds
      BY <2>2, <3>1
    <3> QED BY <1>2, <2>2, <3>2
  <2> QED BY <2>3
<1>4. \A y \in s : u >= y
  BY <1>2, <1>3
<1>5. Max(s) \in s /\ \A y \in s : Max(s) >= y
  BY <1>3, <1>4 DEF Max
<1> QED BY <1>5

LEMMA MaxIs ==
  ASSUME NEW n \in Nat, NEW s \in SUBSET (1..n), NEW m \in s, \A y \in s : y <= m
  PROVE  Max(s) = m
<1> DEFINE u == Max(s)
<1>1. u \in s /\ m <= u
  BY MaxIn
<1>2. u \in 1..n /\ m \in 1..n /\ u <= m
  BY <1>1
<1> HIDE DEF u
<1>3. u = m
  BY <1>1, <1>2
<1> QED BY <1>3 DEF u

(* The fold of TextJoin over sets of places. *)
JoinsSets(g, first, rest, n) ==
  g = [s \in SUBSET (1..n) |->
         IF s = {} THEN first
         ELSE (g[s \ {Max(s)}] \o <<SEMICOLON>>) \o rest[Max(s)]]

LEMMA JoinExists ==
  ASSUME NEW first, NEW rest, NEW n \in Nat
  PROVE  \E g : JoinsSets(g, first, rest, n)
<1> DEFINE Bad == {m \in Nat : ~ \E g : JoinsSets(g, first, rest, m)}
<1>1. SUFFICES ASSUME Bad # {} PROVE FALSE
  OBVIOUS
<1>2. PICK m \in Bad : \A k \in Bad : m <= k
  <2> HIDE DEF Bad
  <2>1. Bad \subseteq Nat
    BY DEF Bad
  <2> QED BY <1>1, <2>1, LeastNat
<1>3. m \in Nat /\ ~ \E g : JoinsSets(g, first, rest, m)
  OBVIOUS
<1>4. CASE m = 0
  <2> DEFINE g == [s \in SUBSET (1..0) |-> first]
  <2>1. 1..0 = {}
    OBVIOUS
  <2>2. \A s \in SUBSET (1..0) : s = {}
    BY <2>1
  <2>3. JoinsSets(g, first, rest, 0)
    BY <2>2 DEF JoinsSets
  <2> QED BY <1>3, <1>4, <2>3
<1>5. CASE m # 0
  <2> DEFINE p == m - 1
  <2>1. p \in Nat /\ p < m /\ p + 1 = m
    BY <1>3, <1>5
  <2> HIDE DEF p
  <2>2. \E g : JoinsSets(g, first, rest, p)
    <3>1. ~(m <= p)
      BY <1>3, <2>1
    <3> QED BY <1>2, <2>1, <3>1
  <2>3. PICK g : JoinsSets(g, first, rest, p)
    BY <2>2
  <2> DEFINE h == [s \in SUBSET (1..m) |->
                     IF m \in s THEN (g[s \ {m}] \o <<SEMICOLON>>) \o rest[m]
                     ELSE g[s]]
  <2>4. ASSUME NEW s \in SUBSET (1..m)
        PROVE  h[s] = IF s = {} THEN first
                      ELSE (h[s \ {Max(s)}] \o <<SEMICOLON>>) \o rest[Max(s)]
    <3>1. CASE m \in s
      <4>1. Max(s) = m
        <5>1. \A y \in s : y <= m
          OBVIOUS
        <5> QED BY <1>3, <3>1, <5>1, MaxIs
      <4>2. s \ {m} \in SUBSET (1..m) /\ m \notin s \ {m}
        OBVIOUS
      <4>3. h[s \ {m}] = g[s \ {m}]
        BY <4>2
      <4>4. h[s] = (g[s \ {m}] \o <<SEMICOLON>>) \o rest[m]
        BY <3>1
      <4> HIDE DEF h
      <4> QED BY <3>1, <4>1, <4>3, <4>4
    <3>2. CASE m \notin s
      <4>1. s \in SUBSET (1..p)
        BY <1>3, <2>1, <3>2
      <4>2. h[s] = g[s]
        BY <3>2
      <4>3. g[s] = IF s = {} THEN first
                   ELSE (g[s \ {Max(s)}] \o <<SEMICOLON>>) \o rest[Max(s)]
        BY <2>3, <4>1 DEF JoinsSets
      <4>4. s \ {Max(s)} \in SUBSET (1..m) /\ m \notin s \ {Max(s)}
        BY <3>2
      <4>5. h[s \ {Max(s)}] = g[s \ {Max(s)}]
        BY <4>4
      <4> HIDE DEF h
      <4> QED BY <4>2, <4>3, <4>5
    <3> QED BY <3>1, <3>2
  <2>5. h = [s \in SUBSET (1..m) |-> h[s]]
    OBVIOUS
  <2> HIDE DEF h
  <2>6. h = [s \in SUBSET (1..m) |->
                IF s = {} THEN first
                ELSE (h[s \ {Max(s)}] \o <<SEMICOLON>>) \o rest[Max(s)]]
    BY <2>4, <2>5, Zenon
  <2>7. JoinsSets(h, first, rest, m)
    BY <2>6 DEF JoinsSets
  <2> QED BY <1>3, <2>7
<1> QED BY <1>4, <1>5

(* The joined text of the first k texts, for every k. *)
Joins(join, texts) ==
  /\ join[1] = texts[1]
  /\ \A k \in 2..Len(texts) :
       join[k] = (join[k - 1] \o <<SEMICOLON>>) \o texts[k]
  /\ TextJoin(texts) = join[Len(texts)]

LEMMA JoinSteps ==
  ASSUME NEW T, NEW texts \in Seq(T), texts # <<>>
  PROVE  \E join : Joins(join, texts)
<1> DEFINE n == Len(texts) - 1
           rest == Tail(texts)
           first == Head(texts)
           Fold(g) == [s \in SUBSET (1..n) |->
                        IF s = {} THEN first
                        ELSE (g[s \ {Max(s)}] \o <<SEMICOLON>>) \o rest[Max(s)]]
           iter == CHOOSE g : g = Fold(g)
           join == [k \in 1..Len(texts) |-> iter[1..(k - 1)]]
<1>1. n \in Nat /\ Len(texts) = n + 1 /\ DOMAIN rest = 1..n /\ first = texts[1]
  OBVIOUS
<1>2. \A k \in 1..n : rest[k] = texts[k + 1]
  OBVIOUS
<1>3. TextJoin(texts) = iter[1..n]
  <2>1. TextJoin(texts) = (CHOOSE g : g = [s \in SUBSET (DOMAIN Tail(texts)) |->
           IF s = {} THEN Head(texts)
           ELSE (g[s \ {Max(s)}] \o <<SEMICOLON>>) \o Tail(texts)[Max(s)]])[DOMAIN Tail(texts)]
    BY Zenon DEF TextJoin, FoldLeft, MapThenFoldSet
  <2>2. DOMAIN Tail(texts) = 1..n
    BY <1>1
  <2> HIDE DEF n
  <2> QED BY <2>1, <2>2, Zenon
<1>4. iter = Fold(iter)
  <2>1. PICK g : JoinsSets(g, first, rest, n)
    <3> HIDE DEF n, first, rest
    <3> QED BY <1>1, JoinExists
  <2>2. g = Fold(g)
    BY <2>1, Zenon DEF JoinsSets
  <2> HIDE DEF Fold
  <2> QED BY <2>2, Zenon
<1> HIDE DEF iter, n, rest, first
<1>5. iter[1..0] = first
  <2>1. 1..0 = {} /\ {} \in SUBSET (1..n)
    OBVIOUS
  <2>2. iter[{}] = Fold(iter)[{}]
    BY <1>4
  <2>3. Fold(iter)[{}] = first
    BY <2>1
  <2> QED BY <2>1, <2>2, <2>3
<1>6. ASSUME NEW k \in 1..n
      PROVE  iter[1..k] = (iter[1..(k - 1)] \o <<SEMICOLON>>) \o rest[k]
  <2> DEFINE s == 1..k
  <2>1. s \in SUBSET (1..n) /\ k \in s /\ \A y \in s : y <= k
    <3>1. k \in s /\ \A y \in s : y <= k
      OBVIOUS
    <3>2. \A y \in s : y \in 1..n
      BY <1>1
    <3> QED BY <3>1, <3>2
  <2>2. s \ {k} = 1..(k - 1)
    OBVIOUS
  <2> HIDE DEF s
  <2>3. Max(s) = k
    BY <1>1, <2>1, MaxIs
  <2>4. iter[s] = Fold(iter)[s]
    BY <1>4
  <2>5. Fold(iter)[s] = (iter[s \ {Max(s)}] \o <<SEMICOLON>>) \o rest[Max(s)]
    BY <2>1
  <2>6. iter[s] = (iter[1..(k - 1)] \o <<SEMICOLON>>) \o rest[k]
    BY <2>2, <2>3, <2>4, <2>5
  <2> QED BY <2>6 DEF s
<1> HIDE DEF Fold
<1>7. join[1] = texts[1]
  <2>1. join[1] = iter[1..0]
    BY <1>1
  <2> QED BY <1>1, <1>5, <2>1
<1>8. ASSUME NEW k \in 2..Len(texts)
      PROVE  join[k] = (join[k - 1] \o <<SEMICOLON>>) \o texts[k]
  <2>1. k - 1 \in 1..n /\ k - 1 \in 1..Len(texts) /\ k - 1 + 1 = k /\ k \in 1..Len(texts)
    BY <1>1
  <2>2. join[k] = iter[1..(k - 1)] /\ join[k - 1] = iter[1..(k - 1 - 1)]
    BY <2>1
  <2>3. rest[k - 1] = texts[k]
    BY <1>2, <2>1
  <2> HIDE DEF join
  <2> QED BY <1>6, <2>1, <2>2, <2>3
<1>9. TextJoin(texts) = join[Len(texts)]
  <2>1. Len(texts) - 1 = n /\ Len(texts) \in 1..Len(texts)
    BY <1>1
  <2> QED BY <1>3, <2>1
<1> QED BY <1>7, <1>8, <1>9 DEF Joins

-------------------------------------------------------------------------------
(* Two texts with a semicolon between them. *)
Glued(a, b) == (a \o <<SEMICOLON>>) \o b

(* What a text is made of. *)
Chars == Nat \X Nat

LEMMA GluedTexts ==
  ASSUME NEW a \in Seq(Chars), NEW b \in Seq(Chars)
  PROVE  /\ Len(a) \in Nat /\ Len(b) \in Nat
         /\ Glued(a, b) \in Seq(Chars)
         /\ Len(Glued(a, b)) = Len(a) + 1 + Len(b)
         /\ \A i \in 1..Len(a) : Glued(a, b)[i] = a[i]
         /\ Glued(a, b)[Len(a) + 1] = SEMICOLON
         /\ \A j \in 1..Len(b) : Glued(a, b)[Len(a) + 1 + j] = b[j]
<1> DEFINE d == a \o <<SEMICOLON>>
           e == d \o b
<1>12. SEMICOLON \in Chars
  BY DEF SEMICOLON, Chars
<1>1. d \in Seq(Chars) /\ Len(d) = Len(a) + 1 /\ d[Len(a) + 1] = SEMICOLON
  BY <1>12
<1>2. \A i \in 1..Len(a) : d[i] = a[i]
  OBVIOUS
<1> HIDE DEF d
<1>3. e \in Seq(Chars) /\ Len(e) = Len(d) + Len(b)
  BY <1>1
<1>4. \A i \in 1..Len(d) : e[i] = d[i]
  BY <1>1
<1>5. \A j \in 1..Len(b) : e[Len(d) + j] = b[j]
  BY <1>1
<1>6. Len(a) \in Nat /\ Len(b) \in Nat
  OBVIOUS
<1> HIDE DEF e
<1>7. \A i \in 1..(Len(a) + 1) : i \in 1..Len(d)
  BY <1>1
<1>8. \A i \in 1..Len(a) : e[i] = a[i]
  BY <1>2, <1>4, <1>6, <1>7
<1>9. e[Len(a) + 1] = SEMICOLON
  BY <1>1, <1>4, <1>6, <1>7
<1>10. e \in Seq(Chars) /\ Len(e) = Len(a) + 1 + Len(b)
  BY <1>1, <1>3
<1>11. \A j \in 1..Len(b) : e[Len(a) + 1 + j] = b[j]
  BY <1>1, <1>5
<1> QED BY <1>6, <1>8, <1>9, <1>10, <1>11 DEF e, d, Glued

(* The first k texts stand in the text between k cuts, a semicolon at each *)
(* but the last, and no other semicolon is there.                          *)
Stands(text, len, cut, texts, k) ==
  /\ cut[k] = len + 1
  /\ \A m \in 1..k :
       /\ cut[m - 1] \in Nat /\ cut[m] = cut[m - 1] + Len(texts[m]) + 1
       /\ cut[m] <= len + 1
       /\ \A j \in 1..Len(texts[m]) : text[cut[m - 1] + j] = texts[m][j]
  /\ \A i \in 1..len :
       text[i] = SEMICOLON <=> \E m \in 1..(k - 1) : i = cut[m]

LEMMA StandsGlued ==
  ASSUME NEW a \in Seq(Chars), NEW b \in Seq(Chars), NEW k \in Nat \ {0},
         NEW q, q = k + 1, NEW cut, NEW texts, texts[q] = b,
         \A m \in 1..k : Len(texts[m]) \in Nat,
         \A j \in 1..Len(b) : b[j] # SEMICOLON,
         Stands(a, Len(a), cut, texts, k), cut[q] = Len(Glued(a, b)) + 1
  PROVE  /\ Glued(a, b) \in Seq(Chars)
         /\ Stands(Glued(a, b), Len(Glued(a, b)), cut, texts, q)
<1> DEFINE new == Glued(a, b)
           l == Len(a)
           t == Len(b)
           len == Len(new)
<1>1. /\ l \in Nat /\ t \in Nat /\ new \in Seq(Chars) /\ len = l + 1 + t
      /\ \A i \in 1..l : new[i] = a[i]
      /\ new[l + 1] = SEMICOLON
      /\ \A j \in 1..t : new[l + 1 + j] = b[j]
  BY GluedTexts, ZenonT(40)
<1>2. Stands(a, l, cut, texts, k) /\ cut[q] = len + 1 /\ Len(texts[q]) = t
  OBVIOUS
<1>3. \A j \in 1..t : texts[q][j] # SEMICOLON /\ new[l + 1 + j] = texts[q][j]
  BY <1>1
<1> HIDE DEF new, l, t, len
<1>4. len \in Nat
  BY <1>1
<1>5. /\ cut[k] = l + 1
      /\ \A m \in 1..k :
           /\ cut[m - 1] \in Nat /\ cut[m] = cut[m - 1] + Len(texts[m]) + 1
           /\ cut[m] <= l + 1
           /\ \A j \in 1..Len(texts[m]) : a[cut[m - 1] + j] = texts[m][j]
      /\ \A i \in 1..l :
           a[i] = SEMICOLON <=> \E m \in 1..(k - 1) : i = cut[m]
  BY <1>2 DEF Stands
<1>6. ASSUME NEW m \in 1..q
      PROVE  /\ cut[m - 1] \in Nat /\ cut[m] = cut[m - 1] + Len(texts[m]) + 1
             /\ cut[m] <= len + 1
             /\ \A j \in 1..Len(texts[m]) : new[cut[m - 1] + j] = texts[m][j]
  <2>1. CASE m = q
    <3>1. m - 1 = k /\ cut[m - 1] = l + 1 /\ cut[m] = len + 1 /\ Len(texts[m]) = t
      BY <1>2, <1>5, <2>1
    <3>2. cut[m - 1] \in Nat /\ cut[m] = cut[m - 1] + Len(texts[m]) + 1 /\ cut[m] <= len + 1
      BY <1>1, <1>4, <3>1
    <3>3. \A j \in 1..Len(texts[m]) : new[cut[m - 1] + j] = texts[m][j]
      BY <1>3, <2>1, <3>1
    <3> QED BY <3>2, <3>3
  <2>2. CASE m # q
    <3>1. m \in 1..k /\ Len(texts[m]) \in Nat
      BY <2>2
    <3>2. /\ cut[m - 1] \in Nat /\ cut[m] = cut[m - 1] + Len(texts[m]) + 1
          /\ cut[m] <= l + 1
          /\ \A j \in 1..Len(texts[m]) : a[cut[m - 1] + j] = texts[m][j]
      BY <1>5, <3>1
    <3>3. cut[m] <= len + 1
      BY <1>1, <1>4, <3>1, <3>2
    <3>4. \A j \in 1..Len(texts[m]) : cut[m - 1] + j \in 1..l
      <4>1. cut[m - 1] \in Nat /\ cut[m - 1] + Len(texts[m]) <= l /\ l \in Nat
        BY <1>1, <3>1, <3>2
      <4> QED BY <3>1, <4>1, SMTT(40)
    <3>5. \A j \in 1..Len(texts[m]) : new[cut[m - 1] + j] = texts[m][j]
      BY <1>1, <3>2, <3>4
    <3> QED BY <3>2, <3>3, <3>5
  <2> QED BY <2>1, <2>2
<1>7. ASSUME NEW i \in 1..len
      PROVE  new[i] = SEMICOLON <=> \E m \in 1..k : i = cut[m]
  <2>1. CASE i <= l
    <3>1. i \in 1..l /\ new[i] = a[i]
      BY <1>1, <2>1
    <3>2. a[i] = SEMICOLON <=> \E m \in 1..(k - 1) : i = cut[m]
      BY <1>5, <3>1
    <3>3. i # cut[k]
      BY <1>1, <1>5, <3>1
    <3>4. (\E m \in 1..(k - 1) : i = cut[m]) <=> (\E m \in 1..k : i = cut[m])
      <4>1. \A m \in 1..k : m # k => m \in 1..(k - 1)
        OBVIOUS
      <4>2. \A m \in 1..(k - 1) : m \in 1..k
        OBVIOUS
      <4> QED BY <3>3, <4>1, <4>2, Zenon
    <3> QED BY <3>1, <3>2, <3>4
  <2>2. CASE i = l + 1
    <3>1. k \in 1..k /\ i = cut[k]
      BY <1>5, <2>2
    <3>2. new[i] = SEMICOLON
      BY <1>1, <2>2
    <3> QED BY <3>1, <3>2
  <2>3. CASE i > l + 1
    <3>1. PICK j \in 1..t : i = l + 1 + j
      <4>1. i - (l + 1) \in 1..t
        BY <1>1, <2>3
      <4> QED BY <1>1, <4>1
    <3>2. new[i] # SEMICOLON
      BY <1>3, <3>1
    <3>3. \A m \in 1..k : i # cut[m]
      BY <1>1, <1>5, <2>3
    <3> QED BY <3>2, <3>3
  <2> QED BY <1>1, <2>1, <2>2, <2>3
<1>8. \A i \in 1..len : new[i] = SEMICOLON <=> \E m \in 1..(q - 1) : i = cut[m]
  <2>1. q - 1 = k
    OBVIOUS
  <2> QED BY <1>7, <2>1
<1>9. \A m \in 1..q :
        /\ cut[m - 1] \in Nat /\ cut[m] = cut[m - 1] + Len(texts[m]) + 1
        /\ cut[m] <= len + 1
        /\ \A j \in 1..Len(texts[m]) : new[cut[m - 1] + j] = texts[m][j]
  BY <1>6
<1>10. Stands(new, len, cut, texts, q)
  BY <1>2, <1>8, <1>9, Zenon DEF Stands
<1> QED BY <1>1, <1>10 DEF new, len

LEMMA StandsFirst ==
  ASSUME NEW texts, Len(texts[1]) \in Nat, NEW cut, cut[0] = 0,
         cut[1] = Len(texts[1]) + 1,
         \A j \in 1..Len(texts[1]) : texts[1][j] # SEMICOLON
  PROVE  Stands(texts[1], Len(texts[1]), cut, texts, 1)
BY DEF Stands

(* The joined text, its cuts, and the texts between them. *)
CutAt(cut, text, texts) ==
  /\ text \in Seq(Chars)
  /\ cut[0] = 0 /\ \A k \in 0..Len(texts) : cut[k] \in Nat
  /\ Stands(text, Len(text), cut, texts, Len(texts))

LEMMA JoinedCuts ==
  ASSUME NEW texts \in Seq(Seq(Chars)), texts # <<>>,
         \A k \in 1..Len(texts) : \A j \in 1..Len(texts[k]) : texts[k][j] # SEMICOLON
  PROVE  \E cut : CutAt(cut, TextJoin(texts), texts)
<1> DEFINE n == Len(texts)
<1>1. n \in Nat /\ n > 0
  OBVIOUS
<1>2. \A k \in 1..n : texts[k] \in Seq(Chars) /\ Len(texts[k]) \in Nat
  OBVIOUS
<1>3. PICK join : Joins(join, texts)
  <2>1. \E join : Joins(join, texts)
    BY JoinSteps
  <2> QED BY <2>1
<1>4. /\ join[1] = texts[1]
      /\ \A k \in 2..n : join[k] = Glued(join[k - 1], texts[k])
      /\ TextJoin(texts) = join[n]
  BY <1>3 DEF Joins, Glued
<1> HIDE DEF n
<1> DEFINE cut == [k \in 0..n |-> IF k = 0 THEN 0 ELSE Len(join[k]) + 1]
           Good(k) == join[k] \in Seq(Chars) /\ Stands(join[k], Len(join[k]), cut, texts, k)
           Bad == {k \in 1..n : ~Good(k)}
<1>5. cut[0] = 0 /\ \A k \in 1..n : cut[k] = Len(join[k]) + 1
  BY <1>1
<1> HIDE DEF cut
<1>6. Bad = {}
  <2>1. SUFFICES ASSUME Bad # {} PROVE FALSE
    OBVIOUS
  <2>2. PICK k \in Bad : \A m \in Bad : k <= m
    <3>1. Bad \subseteq Nat
      BY <1>1
    <3> HIDE DEF Bad
    <3> QED BY <2>1, <3>1, LeastNat
  <2>3. k \in 1..n /\ ~Good(k)
    OBVIOUS
  <2>4. CASE k = 1
    <3>1. Stands(texts[1], Len(texts[1]), cut, texts, 1)
      <4>1. 1 \in 1..n
        BY <1>1
      <4>2. /\ cut[1] = Len(texts[1]) + 1 /\ Len(texts[1]) \in Nat
            /\ \A j \in 1..Len(texts[1]) : texts[1][j] # SEMICOLON
        BY <1>2, <1>4, <1>5, <4>1 DEF n
      <4> QED BY <1>5, <4>2, StandsFirst
    <3>2. join[1] \in Seq(Chars)
      BY <1>1, <1>2, <1>4
    <3> QED BY <1>4, <2>3, <2>4, <3>1, <3>2
  <2>5. CASE k # 1
    <3> DEFINE p == k - 1
    <3>1. p \in Nat \ {0} /\ p \in 1..n /\ p + 1 = k /\ k \in 2..n /\ p < k
      BY <1>1, <2>3, <2>5
    <3>2. p \notin Bad
      BY <2>2, <2>3, <3>1
    <3>3. Good(p)
      BY <3>1, <3>2
    <3> HIDE DEF Bad, p
    <3>4. join[k] = Glued(join[p], texts[k])
      BY <1>4, <3>1
    <3>5. /\ join[p] \in Seq(Chars) /\ texts[k] \in Seq(Chars)
          /\ Stands(join[p], Len(join[p]), cut, texts, p)
      BY <1>2, <2>3, <3>3
    <3>6. /\ \A m \in 1..p : Len(texts[m]) \in Nat
          /\ \A j \in 1..Len(texts[k]) : texts[k][j] # SEMICOLON
      <4>1. \A m \in 1..p : m \in 1..n
        BY <1>1, <3>1
      <4>2. \A j \in 1..Len(texts[k]) : texts[k][j] # SEMICOLON
        BY <2>3 DEF n
      <4> QED BY <1>2, <4>1, <4>2
    <3>7. cut[k] = Len(Glued(join[p], texts[k])) + 1
      BY <1>5, <2>3, <3>4
    <3>8. k = p + 1
      BY <3>1
    <3> HIDE DEF Good
    <3>9. /\ Glued(join[p], texts[k]) \in Seq(Chars)
          /\ Stands(Glued(join[p], texts[k]), Len(Glued(join[p], texts[k])), cut, texts, k)
      BY <3>1, <3>5, <3>6, <3>7, <3>8, StandsGlued
    <3> QED BY <2>3, <3>4, <3>9, Zenon DEF Good
  <2> QED BY <2>4, <2>5
<1>7. join[n] \in Seq(Chars) /\ Stands(join[n], Len(join[n]), cut, texts, n)
  <2> HIDE DEF Good
  <2>1. Good(n)
    BY <1>1, <1>6
  <2> QED BY <2>1 DEF Good
<1>8. \A k \in 0..n : cut[k] \in Nat
  <2>1. \A m \in 1..n : cut[m - 1] \in Nat
    BY <1>7 DEF Stands
  <2>2. Len(join[n]) \in Nat
    BY <1>7
  <2>3. cut[n] \in Nat
    BY <1>1, <1>5, <2>2
  <2>4. ASSUME NEW k \in 0..n PROVE cut[k] \in Nat
    <3>1. CASE k = n
      BY <2>3, <3>1
    <3>2. CASE k # n
      <4>1. k + 1 \in 1..n /\ k + 1 - 1 = k
        BY <1>1, <3>2
      <4> QED BY <2>1, <4>1
    <3> QED BY <3>1, <3>2
  <2> QED BY <2>4
<1> QED BY <1>4, <1>5, <1>7, <1>8 DEF CutAt, n

-------------------------------------------------------------------------------
(* Places that grow by step grow. *)
LEMMA Growing ==
  ASSUME NEW n \in Nat, NEW f, \A k \in 0..n : f[k] \in Nat,
         \A k \in 1..n : f[k - 1] < f[k],
         NEW a \in 0..n, NEW b \in 0..n, a < b
  PROVE  f[a] < f[b]
<1> DEFINE Bad == {c \in 0..n : a < c /\ ~(f[a] < f[c])}
<1>1. SUFFICES ASSUME Bad # {} PROVE FALSE
  OBVIOUS
<1>2. PICK c \in Bad : \A d \in Bad : c <= d
  <2>1. Bad \subseteq Nat
    OBVIOUS
  <2> HIDE DEF Bad
  <2> QED BY <1>1, <2>1, LeastNat
<1>3. c \in 1..n /\ c - 1 \in 0..n /\ a <= c - 1 /\ ~(f[a] < f[c]) /\ ~(c <= c - 1)
  OBVIOUS
<1>4. c - 1 \notin Bad
  BY <1>2, <1>3
<1>5. f[c - 1] < f[c] /\ f[a] \in Nat /\ f[c - 1] \in Nat /\ f[c] \in Nat
  BY <1>3
<1>6. a = c - 1 \/ f[a] < f[c - 1]
  BY <1>3, <1>4
<1> QED BY <1>3, <1>5, <1>6

(* As many places as steps. *)
LEMMA PlacesCounted ==
  ASSUME NEW S, NEW c \in Nat, NEW f, S = {f[m] : m \in 1..c},
         \A a, b \in 1..c : f[a] = f[b] => a = b
  PROVE  Cardinality(S) = c
<1> DEFINE g == [m \in 1..c |-> f[m]]
<1>1. g \in [1..c -> S] /\ \A a, b \in 1..c : g[a] = g[b] => a = b
  OBVIOUS
<1>2. \A y \in S : \E m \in 1..c : g[m] = y
  OBVIOUS
<1> HIDE DEF g
<1>3. g \in Injection(1..c, S) /\ g \in Surjection(1..c, S)
  BY <1>1, <1>2 DEF Injection, IsInjective, Surjection
<1>4. ExistsBijection(1..c, S)
  BY <1>3 DEF ExistsBijection, Bijection
<1> QED BY <1>4, FS_CountingElements

LEMMA CutsOfJoined ==
  ASSUME NEW cut, NEW text, NEW texts, CutAt(cut, text, texts),
         TextSplitAssumption, Len(text) < TEXT_SIZE,
         Len(texts) \in Nat \ {0}, \A m \in 1..Len(texts) : Len(texts[m]) \in Nat
  PROVE  Cuts(text) = [c \in 1..(Len(texts) - 1) |-> cut[c]]
<1> DEFINE n == Len(texts)
           l == Len(text)
           cuts == {i \in DOMAIN text : i <= TEXT_SIZE /\ text[i] = SEMICOLON}
<1>1. /\ \A k \in 0..n : cut[k] \in Nat
      /\ cut[0] = 0 /\ cut[n] = l + 1
      /\ \A i \in 1..l : text[i] = SEMICOLON <=> \E m \in 1..(n - 1) : i = cut[m]
  BY DEF CutAt, Stands
<1>2. \A m \in 1..n : cut[m - 1] < cut[m]
  <2> SUFFICES ASSUME NEW m \in 1..n PROVE cut[m - 1] < cut[m]
    OBVIOUS
  <2>1. cut[m - 1] \in Nat /\ cut[m] = cut[m - 1] + Len(texts[m]) + 1
    BY DEF CutAt, Stands
  <2> QED BY <2>1
<1>3. DOMAIN text = 1..l /\ l \in Nat /\ TEXT_SIZE \in Nat /\ l < TEXT_SIZE
  <2>1. text \in Seq(Chars)
    BY DEF CutAt
  <2> QED BY <2>1 DEF TextSplitAssumption
<1>13. n \in Nat /\ n > 0
  OBVIOUS
<1> HIDE DEF l, n
<1>4. \A a, b \in 0..n : a < b => cut[a] < cut[b]
  BY <1>13, <1>1, <1>2, Growing
<1>5. \A a, b \in 0..n : cut[a] <= cut[b] => a <= b
  <2> SUFFICES ASSUME NEW a \in 0..n, NEW b \in 0..n, cut[a] <= cut[b], ~(a <= b)
               PROVE  FALSE
    BY <1>13
  <2>1. cut[b] < cut[a] /\ cut[a] \in Nat /\ cut[b] \in Nat
    BY <1>13, <1>1, <1>4
  <2> QED BY <1>13, <2>1
<1>6. \A m \in 1..(n - 1) : cut[m] \in 1..l
  <2> SUFFICES ASSUME NEW m \in 1..(n - 1) PROVE cut[m] \in 1..l
    BY <1>13
  <2>1. 0 \in 0..n /\ m \in 0..n /\ n \in 0..n /\ 0 < m /\ m < n
    BY <1>13
  <2>2. cut[0] < cut[m] /\ cut[m] < cut[n] /\ cut[m] \in Nat
    BY <1>13, <1>1, <1>4, <2>1
  <2> QED BY <1>13, <1>1, <1>3, <2>2
<1>7. cuts = {cut[m] : m \in 1..(n - 1)}
  <2>1. ASSUME NEW i \in cuts PROVE i \in {cut[m] : m \in 1..(n - 1)}
    BY <1>13, <1>1, <1>3
  <2>2. ASSUME NEW m \in 1..(n - 1) PROVE cut[m] \in cuts
    <3>1. cut[m] \in 1..l
      BY <1>13, <1>6
    <3>2. text[cut[m]] = SEMICOLON
      BY <1>13, <1>1, <3>1
    <3> QED BY <1>13, <1>3, <3>1, <3>2
  <2> HIDE DEF cuts
  <2> QED BY <1>13, <2>1, <2>2
<1>8. Cuts(text) = [c \in 1..Cardinality(cuts) |->
                     CHOOSE i \in cuts : Cardinality({j \in cuts : j <= i}) = c]
  BY DEF Cuts
<1> HIDE DEF cuts
<1>9. ASSUME NEW c \in 0..(n - 1)
      PROVE  Cardinality({cut[m] : m \in 1..c}) = c
  <2>1. c \in Nat /\ \A a \in 1..c : a \in 0..n
    BY <1>13
  <2>2. ASSUME NEW a \in 1..c, NEW b \in 1..c, cut[a] = cut[b] PROVE a = b
    <3>1. a \in 0..n /\ b \in 0..n /\ cut[a] \in Nat /\ cut[b] \in Nat
      BY <1>13, <1>1, <2>1
    <3>2. cut[a] <= cut[b] /\ cut[b] <= cut[a]
      BY <1>13, <2>2, <3>1
    <3>3. a <= b /\ b <= a
      BY <1>13, <1>5, <3>1, <3>2
    <3> QED BY <1>13, <3>1, <3>3
  <2>3. \A a, b \in 1..c : cut[a] = cut[b] => a = b
    BY <2>2
  <2> DEFINE S == {cut[m] : m \in 1..c}
  <2>4. S = {cut[m] : m \in 1..c}
    OBVIOUS
  <2> HIDE DEF S
  <2>5. c \in Nat
    BY <2>1
  <2>6. Cardinality(S) = c
    BY ONLY <2>3, <2>4, <2>5, PlacesCounted
  <2> QED BY <2>6 DEF S
<1>10. Cardinality(cuts) = n - 1
  BY <1>13, <1>7, <1>9
<1>11. ASSUME NEW c \in 1..(n - 1)
       PROVE  /\ cut[c] \in cuts
              /\ Cardinality({j \in cuts : j <= cut[c]}) = c
  <2>1. {j \in cuts : j <= cut[c]} = {cut[m] : m \in 1..c}
    <3>1. ASSUME NEW j \in cuts, j <= cut[c] PROVE j \in {cut[m] : m \in 1..c}
      <4>1. PICK m \in 1..(n - 1) : j = cut[m]
        BY <1>13, <1>7, <3>1
      <4>2. m <= c
        BY <1>13, <1>5, <3>1, <4>1
      <4> QED BY <1>13, <4>1, <4>2
    <3>2. ASSUME NEW m \in 1..c PROVE cut[m] \in cuts /\ cut[m] <= cut[c]
      <4>1. m \in 1..(n - 1) /\ m \in 0..n /\ c \in 0..n /\ (m = c \/ m < c)
        BY <1>13
      <4>2. cut[m] \in Nat /\ cut[c] \in Nat
        BY <1>13, <1>1, <4>1
      <4>3. cut[m] <= cut[c]
        BY <1>13, <1>4, <4>1, <4>2
      <4> QED BY <1>13, <1>7, <4>1, <4>3
    <3> QED BY <1>13, <3>1, <3>2
  <2>2. Cardinality({cut[m] : m \in 1..c}) = c
    BY <1>13, <1>9
  <2> QED BY <1>13, <1>7, <2>1, <2>2
<1>12. ASSUME NEW c \in 1..(n - 1)
       PROVE  (CHOOSE i \in cuts : Cardinality({j \in cuts : j <= i}) = c) = cut[c]
  <2> DEFINE x == CHOOSE i \in cuts : Cardinality({j \in cuts : j <= i}) = c
  <2>1. x \in cuts /\ Cardinality({j \in cuts : j <= x}) = c
    BY <1>13, <1>11
  <2> HIDE DEF x
  <2>2. PICK d \in 1..(n - 1) : x = cut[d]
    BY <1>13, <1>7, <2>1
  <2>3. Cardinality({j \in cuts : j <= cut[d]}) = d
    BY <1>13, <1>11
  <2>4. c = d
    BY <1>13, <2>1, <2>2, <2>3
  <2>5. x = cut[c]
    BY <1>13, <2>2, <2>4
  <2> QED BY <1>13, <2>5 DEF x
<1>14. Cuts(text) = [c \in 1..(n - 1) |->
                      CHOOSE i \in cuts : Cardinality({j \in cuts : j <= i}) = c]
  BY <1>8, <1>10, Zenon
<1>15. Cuts(text) = [c \in 1..(n - 1) |-> cut[c]]
  BY <1>12, <1>14, Zenon
<1> QED BY <1>15 DEF n

(* raygui cuts the joined texts apart again. *)
LEMMA SplitOfJoined ==
  ASSUME TextSplitAssumption, NEW texts \in Seq(Seq(Chars)), texts # <<>>,
         \A k \in 1..Len(texts) : \A j \in 1..Len(texts[k]) : texts[k][j] # SEMICOLON,
         Len(TextJoin(texts)) < TEXT_SIZE
  PROVE  GuiTextSplit(TextJoin(texts)) = texts
<1> DEFINE text == TextJoin(texts)
           n == Len(texts)
           places == <<0>> \o Cuts(text) \o <<Len(text) + 1>>
<1>1. PICK cut : CutAt(cut, text, texts)
  BY JoinedCuts
<1>2. n \in Nat /\ n > 0 /\ \A m \in 1..n : texts[m] \in Seq(Chars) /\ Len(texts[m]) \in Nat
  OBVIOUS
<1>3. text \in Seq(Chars)
  BY <1>1 DEF CutAt
<1>4. Len(text) < TEXT_SIZE
  OBVIOUS
<1> HIDE DEF text
<1>5. Cuts(text) = [c \in 1..(n - 1) |-> cut[c]]
  <2>1. Len(texts) \in Nat \ {0} /\ \A m \in 1..Len(texts) : Len(texts[m]) \in Nat
    BY <1>2
  <2> QED BY <1>1, <1>4, <2>1, CutsOfJoined, Zenon
<1>6. /\ \A k \in 0..n : cut[k] \in Nat
      /\ cut[0] = 0 /\ cut[n] = Len(text) + 1
      /\ \A m \in 1..n :
           /\ cut[m] = cut[m - 1] + Len(texts[m]) + 1
           /\ \A j \in 1..Len(texts[m]) : text[cut[m - 1] + j] = texts[m][j]
  BY <1>1 DEF CutAt, Stands
<1>7. Len(text) \in Nat
  BY <1>3
<1>8. texts = [c \in 1..n |-> texts[c]]
  OBVIOUS
<1> HIDE DEF n
<1>9. Len(places) = n + 1 /\ \A c \in 1..(n + 1) : places[c] = cut[c - 1]
  <2> DEFINE a == Cuts(text)
             b == <<0>> \o a
             e == Len(text) + 1
  <2>1. a \in Seq(Nat) /\ Len(a) = n - 1 /\ \A c \in 1..(n - 1) : a[c] = cut[c]
    BY <1>2, <1>5, <1>6
  <2> HIDE DEF a
  <2>2. b \in Seq(Nat) /\ Len(b) = n /\ b[1] = 0
    BY <1>2, <2>1
  <2>3. ASSUME NEW c \in 2..n PROVE b[c] = cut[c - 1]
    <3>1. b[c] = a[c - 1] /\ c - 1 \in 1..(n - 1)
      BY <1>2, <2>1
    <3> QED BY <2>1, <3>1
  <2>4. e \in Nat /\ e = cut[n]
    BY <1>6, <1>7
  <2> HIDE DEF b, e
  <2>5. Len(b \o <<e>>) = n + 1 /\ (b \o <<e>>)[n + 1] = e
    BY <1>2, <2>2, <2>4
  <2>6. \A c \in 1..n : (b \o <<e>>)[c] = b[c]
    BY <1>2, <2>2, <2>4
  <2>7. \A c \in 1..(n + 1) : (b \o <<e>>)[c] = cut[c - 1]
    <3> SUFFICES ASSUME NEW c \in 1..(n + 1) PROVE (b \o <<e>>)[c] = cut[c - 1]
      OBVIOUS
    <3>1. CASE c = n + 1
      <4>1. c - 1 = n
        BY <1>2, <3>1
      <4> QED BY <2>4, <2>5, <3>1, <4>1
    <3>2. CASE c = 1
      <4>1. c - 1 = 0 /\ c \in 1..n
        BY <1>2, <3>2
      <4> QED BY <1>6, <2>2, <2>6, <3>2, <4>1
    <3>3. CASE c # 1 /\ c # n + 1
      <4>1. c \in 2..n /\ c \in 1..n
        BY <1>2, <3>3
      <4> QED BY <2>3, <2>6, <4>1
    <3> QED BY <3>1, <3>2, <3>3
  <2>8. places = b \o <<e>>
    BY DEF b, a, e
  <2> QED BY <2>5, <2>7, <2>8
<1>10. ASSUME NEW c \in 1..n
       PROVE  Between(text, places[c], places[c + 1]) = texts[c]
  <2>1. places[c] = cut[c - 1] /\ places[c + 1] = cut[c]
    <3>1. c \in 1..(n + 1) /\ c + 1 \in 1..(n + 1) /\ c + 1 - 1 = c
      BY <1>2
    <3> HIDE DEF places
    <3> QED BY <1>9, <3>1
  <2>2. cut[c] - cut[c - 1] - 1 = Len(texts[c])
    <3>1. c - 1 \in 0..n /\ c \in 1..n
      BY <1>2
    <3>2. cut[c - 1] \in Nat /\ Len(texts[c]) \in Nat /\ cut[c] = cut[c - 1] + Len(texts[c]) + 1
      BY <1>2, <1>6, <3>1
    <3> QED BY <3>2
  <2>3. Between(text, cut[c - 1], cut[c]) = [j \in 1..Len(texts[c]) |-> text[cut[c - 1] + j]]
    BY <2>2 DEF Between
  <2>4. texts[c] \in Seq(Chars)
    BY <1>2
  <2>5. texts[c] = [j \in 1..Len(texts[c]) |-> texts[c][j]]
    BY <2>4
  <2>6. \A j \in 1..Len(texts[c]) : text[cut[c - 1] + j] = texts[c][j]
    BY <1>6
  <2>7. [j \in 1..Len(texts[c]) |-> text[cut[c - 1] + j]] = [j \in 1..Len(texts[c]) |-> texts[c][j]]
    BY <2>6, Zenon
  <2> HIDE DEF places
  <2>8. Between(text, cut[c - 1], cut[c]) = texts[c]
    BY <2>3, <2>5, <2>7, Zenon
  <2> QED BY <2>1, <2>8, Zenon
<1>11. GuiTextSplit(text) = [c \in 1..(Len(places) - 1) |-> Between(text, places[c], places[c + 1])]
  BY <1>4 DEF GuiTextSplit
<1> HIDE DEF places
<1>12. Len(places) - 1 = n
  BY <1>2, <1>9
<1>13. GuiTextSplit(text) = [c \in 1..n |-> Between(text, places[c], places[c + 1])]
  BY <1>11, <1>12
<1>14. GuiTextSplit(text) = [c \in 1..n |-> texts[c]]
  BY <1>10, <1>13, Zenon
<1> QED BY <1>8, <1>14 DEF text

(* The labels of a sound catalogue whose names fit. *)
LEMMA LabelsOfInv ==
  ASSUME CatalogInv, NamesReadBack, Live, lines # <<>>,
         \A k \in 1..Len(lines) : NameFits(k) /\ lines[k].semicolon = FALSE,
         Len(options) < TEXT_SIZE
  PROVE  /\ Len(lines) <= MAX_COUNT
         /\ GuiTextSplit(options) = [k \in 1..Len(lines) |-> Name(lines[k], k)]
<1> DEFINE n == Len(lines)
           texts == [k \in 1..n |-> Name(lines[k], k)]
<1>1. n \in Nat /\ n > 0 /\ \A k \in 1..n : lines[k] \in Lines
  BY DEF CatalogInv
<1>2. \A k \in 1..n : CString(names, (k - 1) * NAME_SIZE) = Name(lines[k], k)
  BY DEF NamesReadBack
<1>3. options = TextJoin(texts)
  <2> DEFINE read == [k \in 1..n |-> CString(names, (k - 1) * NAME_SIZE)]
  <2>1. read = texts
    BY <1>2, Zenon
  <2>2. options = TextJoin(read)
    BY DEF options
  <2> HIDE DEF read, texts
  <2> QED BY <2>1, <2>2
<1>4. ASSUME NEW k \in 1..n
      PROVE  /\ Name(lines[k], k) \in Seq(Chars)
             /\ \A j \in 1..Len(Name(lines[k], k)) : Name(lines[k], k)[j] # SEMICOLON
  <2>1. /\ Len(Name(lines[k], k)) = lines[k].name /\ lines[k].name \in Nat
        /\ lines[k].semicolon = FALSE
    BY <1>1, FieldLengths
  <2>2. Name(lines[k], k) = [j \in 1..lines[k].name |-> <<k, j>>]
    BY <2>1 DEF Name
  <2>3. \A j \in 1..lines[k].name : <<k, j>> \in Chars /\ <<k, j>> # SEMICOLON
    BY DEF Chars, SEMICOLON
  <2> DEFINE l == lines[k].name
  <2> HIDE DEF l
  <2>4. [j \in 1..l |-> <<k, j>>] \in Seq(Chars)
    BY <2>1, <2>3 DEF l
  <2> QED BY <2>1, <2>2, <2>3, <2>4 DEF l
<1>5. texts \in Seq(Seq(Chars)) /\ Len(texts) = n /\ texts # <<>>
  <2>1. texts \in [1..n -> Seq(Chars)]
    BY <1>4
  <2> HIDE DEF texts
  <2>2. texts \in Seq(Seq(Chars)) /\ Len(texts) = n
    BY <1>1, <2>1
  <2> QED BY <1>1, <2>2
<1>6. \A k \in 1..Len(texts) : \A j \in 1..Len(texts[k]) : texts[k][j] # SEMICOLON
  <2>1. \A k \in 1..n : texts[k] = Name(lines[k], k)
    OBVIOUS
  <2> HIDE DEF texts
  <2> QED BY <1>4, <1>5, <2>1
<1>7. n <= MAX_COUNT
  <2> DEFINE at == (n - 1) * NAME_SIZE
             end == MAX_COUNT * NAME_SIZE
  <2>1. n \in 1..n /\ n - 1 \in Nat /\ NAME_SIZE \in Nat \ {0} /\ MAX_COUNT \in Nat
    BY <1>1, SlotAssumption
  <2>2. Holds(names, at, Name(lines[n], n)) /\ DOMAIN names = 0..(end - 1)
    BY <2>1 DEF CatalogInv, NamesIntact
  <2>3. Len(Name(lines[n], n)) \in Nat
    BY <1>1, <2>1, FieldLengths
  <2>4. at + Len(Name(lines[n], n)) \in 0..(end - 1)
    BY <2>2 DEF Holds
  <2>5. at \in Nat /\ end \in Nat
    BY <2>1
  <2>6. ASSUME MAX_COUNT <= n - 1 PROVE end <= at
    <3>1. CASE MAX_COUNT = n - 1
      BY <2>5, <3>1
    <3>2. CASE MAX_COUNT < n - 1
      <4>1. end + NAME_SIZE <= at
        BY <2>1, <3>2, SlotsFollow
      <4> HIDE DEF at, end
      <4> QED BY <2>1, <2>5, <4>1
    <3> QED BY <2>1, <2>6, <3>1, <3>2
  <2> HIDE DEF at, end
  <2>7. at < end
    BY <2>3, <2>4, <2>5
  <2>8. ~(MAX_COUNT <= n - 1)
    BY <2>5, <2>6, <2>7
  <2> QED BY <1>1, <2>1, <2>8
<1>8. GuiTextSplit(options) = texts
  <2> HIDE DEF texts
  <2> QED BY <1>3, <1>5, <1>6, SplitOfJoined, TextSplitAssumption
<1> QED BY <1>7, <1>8

(* The labels of the dropdown are the names of the file, in the order of   *)
(* the paths and no more than raygui's table holds, for every file, every  *)
(* size of the slots and every size of raygui's text buffer                *)
(* (InitParticleViewer, GuiTextSplit).                                     *)
THEOREM LabelsAlwaysNameEntries == Spec => []LabelsNameEntries
<1>1. CatalogInv => NamesReadBack
  BY InvReadsBack
<1>2. CatalogInv => LabelsNameEntries
  <2> SUFFICES ASSUME CatalogInv, Live, lines # <<>>,
                      \A k \in 1..Len(lines) : NameFits(k) /\ lines[k].semicolon = FALSE,
                      Len(options) < TEXT_SIZE
               PROVE  LET labels == GuiTextSplit(options)
                      IN  /\ Len(labels) = Len(lines)
                          /\ Len(labels) <= MAX_ITEMS
                          /\ \A k \in 1..Len(lines) : labels[k] = Name(lines[k], k)
    BY DEF LabelsNameEntries
  <2> DEFINE labels == GuiTextSplit(options)
             n == Len(lines)
  <2>1. n <= MAX_COUNT /\ labels = [k \in 1..n |-> Name(lines[k], k)]
    BY <1>1, LabelsOfInv
  <2>2. n \in Nat
    BY DEF CatalogInv
  <2> HIDE DEF labels, n
  <2>3. Len(labels) = n /\ \A k \in 1..n : labels[k] = Name(lines[k], k)
    BY <2>1, <2>2
  <2>4. n <= MAX_ITEMS
    BY <2>1, <2>2, SlotAssumption, TextSplitAssumption
  <2> QED BY <2>3, <2>4 DEF labels, n
<1> QED BY <1>2, CatalogInit, CatalogStep, PTL DEF Spec
====
