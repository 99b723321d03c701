--------------------------- MODULE PartViewerProofs ---------------------------
(***************************************************************************)
(* The particle viewer for every catalogue: what one frame shows belongs   *)
(* together, and no frame traps if every file has an animation.            *)
(***************************************************************************)
EXTENDS PartViewer, TLAPS

(* e's position is one of its frames, and its time the fraction. *)
InPosition(e) ==
  e.num_frames > 0 => e.p < e.num_frames /\ e.t[1] * e.num_frames = e.p * e.t[2]

(* f parses and has frames to play. *)
Animated(f) ==
  File[f].parse = "whole" /\ File[f].endFrame \notin {0, NoEndFrame}

(* What is known of the effect in fx while the viewer runs. *)
EffectOf(e, file, tex) ==
  /\ e \in Effects
  /\ InPosition(e)
  /\ e.root \in {NULL, file}
  /\ e.num_frames > 0 => File[file].texture \in {NoTexture, tex}

(* What is held is of the selected entry. *)
Running ==
  /\ data = Catalog[pickidx]
  /\ used = File[Catalog[pickidx]].cost
  /\ EffectOf(fx, Catalog[pickidx], texture)
  /\ picking => fx.num_frames > 0

(* What the last frame presented is of one file. *)
ShownSound ==
  shown.effect # NULL =>
    shown.effect = shown.name /\ File[shown.effect].texture \in {NoTexture, shown.texture}

(* The inductive invariant: before the first load nothing is held, and     *)
(* while the viewer runs everything held is of the selected entry.  The    *)
(* dropdown is open only after a frame, and so with frames to play.        *)
ViewerInv ==
  /\ TypeOK
  /\ PositionInEffect
  /\ ShownSound
  /\ status = "start" => data = NULL /\ fx = ZeroFx /\ used = 0 /\ ~picking
  /\ status = "running" => Running

-------------------------------------------------------------------------------
(* A load starts from the zeroed effect, whether it is the first or not. *)
LEMMA FreshStart ==
  ASSUME CatalogAssumption, data # NULL \/ (fx = ZeroFx /\ used = 0)
  PROVE  BaseFx = ZeroFx /\ BaseUsed = 0
BY DEF BaseFx, BaseUsed

LEMMA ZeroFxSound == ZeroFx \in Effects /\ ZeroFx.root = NULL /\ ZeroFx.num_frames = 0
BY DEF ZeroFx, Effects

(* The conversion to size_t yields a size, and zero for zero only. *)
LEMMA UnsignedSound ==
  ASSUME CatalogAssumption, NEW int \in (1 - SIZE_LIMIT)..(SIZE_LIMIT - 1)
  PROVE  Unsigned(int) \in Nat /\ (Unsigned(int) = 0 => int = 0)
<1>1. SIZE_LIMIT \in Nat /\ SIZE_LIMIT > 0
  BY DEF CatalogAssumption
<1>2. CASE int >= 0
  BY <1>1, <1>2 DEF Unsigned
<1>3. CASE int < 0
  BY <1>1, <1>3 DEF Unsigned
<1> QED BY <1>2, <1>3

(* What a load leaves in fx. *)
LEMMA LoadSound ==
  ASSUME CatalogAssumption, NEW file \in Files, BaseFx = ZeroFx
  PROVE  /\ EffectOf(LoadedFx(file), file, LoadedTexture(file))
         /\ Animated(file) => LoadedFx(file).num_frames > 0
<1> USE DEF CatalogAssumption
<1>1. /\ ParsedFx(file) \in Effects
      /\ ParsedFx(file).root \in {NULL, file}
      /\ ParsedFx(file).num_frames = 0
  BY ZeroFxSound DEF ParsedFx, Effects
<1>2. CASE File[file].parse = "whole" /\ File[file].endFrame # NoEndFrame
  <2> DEFINE n == Unsigned(File[file].endFrame)
             e == [ParsedFx(file) EXCEPT !.num_frames = n, !.p = 0, !.t = <<0, 1>>]
  <2>0. n \in Nat /\ (Animated(file) => n > 0)
    <3>1. File[file].endFrame \in (1 - SIZE_LIMIT)..(SIZE_LIMIT - 1)
      BY <1>2
    <3>2. n \in Nat /\ (n = 0 => File[file].endFrame = 0)
      BY <3>1, UnsignedSound
    <3> HIDE DEF n
    <3> QED BY <3>2 DEF Animated
  <2>1. LoadedFx(file) = e
    BY <1>2 DEF LoadedFx
  <2>2. /\ e \in Effects /\ e.root \in {NULL, file}
        /\ e.num_frames = n
        /\ e.p = 0 /\ e.t[1] = 0 /\ e.t[2] = 1
    <3> HIDE DEF n
    <3> QED BY <1>1, <2>0 DEF Effects
  <2>3. InPosition(e)
    <3> HIDE DEF e, n
    <3> QED BY <2>0, <2>2 DEF InPosition
  <2>4. File[file].texture \in {NoTexture, LoadedTexture(file)}
    BY <1>2 DEF LoadedTexture
  <2> HIDE DEF e, n
  <2> QED BY <2>0, <2>1, <2>2, <2>3, <2>4 DEF EffectOf
<1>3. CASE ~(File[file].parse = "whole" /\ File[file].endFrame # NoEndFrame)
  <2>1. LoadedFx(file) = ParsedFx(file)
    BY <1>3 DEF LoadedFx
  <2>2. ~Animated(file) \/ File[file].endFrame = NoEndFrame
    BY <1>3 DEF Animated
  <2> QED BY <1>1, <2>1, <2>2 DEF EffectOf, InPosition, Animated
<1> QED BY <1>2, <1>3

-------------------------------------------------------------------------------
(* The counter's step keeps the effect and stays inside it. *)
LEMMA AdvanceSound ==
  ASSUME NEW e \in Effects, NEW file, NEW tex,
         EffectOf(e, file, tex), e.num_frames # 0
  PROVE  /\ EffectOf(Advanced(e), file, tex)
         /\ Advanced(e).root = e.root
         /\ Advanced(e).num_frames = e.num_frames
<1> DEFINE n == e.num_frames
           p == (e.p + 1) % n
           a == [e EXCEPT !.p = p, !.t = <<p, n>>]
<1>1. n \in Nat /\ n > 0 /\ e.p \in Nat
  BY DEF Effects
<1>2. p \in Nat /\ p < n
  BY <1>1
<1>3. Advanced(e) = a
  BY DEF Advanced
<1> HIDE DEF p
<1>4. /\ a \in Effects /\ a.root = e.root /\ a.num_frames = n
      /\ a.p = p /\ a.t[1] = p /\ a.t[2] = n
  BY <1>1, <1>2 DEF Effects
<1>5. InPosition(a)
  BY <1>1, <1>2, <1>4 DEF InPosition
<1> QED BY <1>3, <1>4, <1>5 DEF EffectOf

(* Rows follow one another without overlap, and lie below the header. *)
LEMMA LaterRowsLower ==
  ASSUME NEW i \in Nat, NEW j \in Nat, i < j
  PROVE  i * Pitch + Height <= j * Pitch
<1>1. Pitch \in Nat /\ Height \in Nat /\ Height <= Pitch
  BY DropdownAssumption DEF Pitch
<1> DEFINE k == j - i - 1
<1>2. k \in Nat /\ j = i + 1 + k
  OBVIOUS
<1>3. k * Pitch \in Nat
  BY <1>1, <1>2
<1>4. (i + 1 + k) * Pitch = i * Pitch + Pitch + k * Pitch
  BY <1>1, <1>2
<1> QED BY <1>1, <1>2, <1>3, <1>4

(* The mouse is over one row at most. *)
LEMMA OneRowFocused ==
  ASSUME NEW m \in Mouse(Depths), NEW n \in Nat,
         NEW i \in Focused(m, n), NEW j \in Focused(m, n)
  PROVE  i = j
<1>1. m.y \in Int
  BY CatalogAssumption DEF Mouse
<1>2. /\ i \in Nat /\ j \in Nat
      /\ i * Pitch <= m.y /\ m.y < i * Pitch + Height
      /\ j * Pitch <= m.y /\ m.y < j * Pitch + Height
  BY DEF Focused, OnRow, CheckCollisionPointRec
<1>3. Pitch \in Int /\ Height \in Int /\ i * Pitch \in Int /\ j * Pitch \in Int
  BY <1>2, DropdownAssumption DEF Pitch
<1>4. CASE i < j
  BY <1>1, <1>2, <1>3, <1>4, LaterRowsLower
<1>5. CASE j < i
  BY <1>1, <1>2, <1>3, <1>5, LaterRowsLower
<1> QED BY <1>2, <1>4, <1>5

(* The item a release chooses is the one the mouse is over. *)
LEMMA FirstFocused ==
  ASSUME NEW m \in Mouse(Depths), NEW n \in Nat, Focused(m, n) # {}
  PROVE  First(Focused(m, n)) \in Focused(m, n)
<1>1. PICK i \in Focused(m, n) : \A j \in Focused(m, n) : i = j
  BY OneRowFocused
<1>2. i \in 1..n /\ \A j \in Focused(m, n) : i <= j
  BY <1>1 DEF Focused
<1> QED BY <1>2 DEF First

(* On the header no row is, and the header is inside the open list. *)
LEMMA HeaderApart ==
  ASSUME NEW m \in Mouse(Depths), NEW n \in Nat, OnHeader(m)
  PROVE  Focused(m, n) = {} /\ InBoundsOpen(m, n)
<1>1. m.y \in Int /\ m.inColumn = TRUE /\ 0 <= m.y /\ m.y < Height
  <2>1. m.y \in Int /\ m.inColumn \in BOOLEAN
    BY CatalogAssumption DEF Mouse
  <2>2. m.inColumn /\ 0 <= m.y /\ m.y < 0 + Height
    BY Zenon DEF OnHeader, CheckCollisionPointRec
  <2>3. Height \in Nat
    BY DropdownAssumption
  <2> QED BY <2>1, <2>2, <2>3
<1>2. Height \in Nat /\ Pitch \in Nat
  BY DropdownAssumption DEF Pitch
<1>3. \A i \in Nat \ {0} : Height <= i * Pitch /\ i * Pitch \in Int
  <2> TAKE i \in Nat \ {0}
  <2>1. 0 * Pitch + Height <= i * Pitch
    BY LaterRowsLower
  <2> QED BY <1>2, <2>1
<1>4. Focused(m, n) = {}
  BY <1>1, <1>2, <1>3 DEF Focused, OnRow, CheckCollisionPointRec
<1>5. InBoundsOpen(m, n)
  <2>1. Height <= (n + 1) * Pitch /\ (n + 1) * Pitch \in Int
    BY <1>3
  <2>2. m.y < 0 + (n + 1) * Pitch
    BY <1>1, <1>2, <2>1
  <2> QED BY <1>1, <2>2, Zenon DEF InBoundsOpen, CheckCollisionPointRec
<1> QED BY <1>4, <1>5

(* The dropdown selects entries of the catalogue, others only by a reload. *)
LEMMA DropdownSound ==
  ASSUME CatalogAssumption, NEW m \in Mouse(Depths), pickidx \in DOMAIN Catalog
  PROVE  LET box == GuiDropdownBox(m, Len(Catalog), pickidx, picking)
         IN  /\ box.active \in DOMAIN Catalog
             /\ box.result \in BOOLEAN
             /\ ~(box.result /\ picking) => box.active = pickidx
<1> DEFINE n     == Len(Catalog)
           picks == n > 1 /\ picking /\ Chosen(m, n)
           box   == GuiDropdownBox(m, n, pickidx, picking)
<1>1. n \in Nat /\ DOMAIN Catalog = 1..n
  BY DEF CatalogAssumption
<1>2. box.active = IF picks THEN First(Focused(m, n)) ELSE pickidx
  BY DEF GuiDropdownBox
<1>3. picks => First(Focused(m, n)) \in 1..n
  BY <1>1, FirstFocused DEF Chosen, Focused
<1>4. box.result \in BOOLEAN /\ (picks => box.result)
  BY DEF GuiDropdownBox
<1> HIDE DEF box
<1>5. box.active \in DOMAIN Catalog
  BY <1>1, <1>2, <1>3
<1>6. ~(box.result /\ picking) => box.active = pickidx
  BY <1>2, <1>4
<1> QED BY <1>4, <1>5, <1>6 DEF box

-------------------------------------------------------------------------------
(* The invariant holds at the start, and every step preserves it. *)
LEMMA ViewerInit ==
  ASSUME CatalogAssumption, Init
  PROVE  ViewerInv
<1>1. fx = ZeroFx /\ shown = Nothing /\ status = "start" /\ pickidx = FirstPick
  BY DEF Init
<1>2. TypeOK
  BY <1>1, ZeroFxSound DEF Init, TypeOK, CatalogAssumption
<1>3. PositionInEffect
  BY <1>1, ZeroFxSound DEF PositionInEffect
<1>4. ShownSound
  BY <1>1 DEF ShownSound, Nothing
<1> QED BY <1>1, <1>2, <1>3, <1>4 DEF Init, ViewerInv

(* A step that ends the process leaves what is held and shown. *)
LEMMA CrashKeepsInv ==
  ASSUME ViewerInv, Crash, mouse' \in Mouse(Depths), result' \in BOOLEAN
  PROVE  ViewerInv'
BY DEF ViewerInv, Crash, TypeOK, PositionInEffect, ShownSound, Effects, Files

LEMMA InitParticleViewerKeepsInv ==
  ASSUME CatalogAssumption, ViewerInv, InitParticleViewer
  PROVE  ViewerInv'
<1> DEFINE file == Catalog[pickidx]
<1>1. CASE LoadCrashes(file)
  <2>1. Crash /\ mouse' = mouse /\ result' = result
    BY <1>1 DEF InitParticleViewer, inputs
  <2> QED BY <2>1, CrashKeepsInv DEF ViewerInv, TypeOK
<1>2. CASE ~LoadCrashes(file)
  <2>1. /\ status = "start" /\ status' = "running"
        /\ data' = file /\ fx' = LoadedFx(file)
        /\ used' = LoadedUsed(file) /\ texture' = LoadedTexture(file)
        /\ pickidx' = pickidx /\ picking' = picking /\ shown' = shown
        /\ mouse' = mouse /\ result' = result
    BY <1>2 DEF InitParticleViewer, inputs
  <2>2. BaseFx = ZeroFx /\ BaseUsed = 0 /\ ~picking
    BY <2>1, FreshStart DEF ViewerInv
  <2>3. file \in Files /\ pickidx \in DOMAIN Catalog
    BY DEF ViewerInv, TypeOK, Files
  <2>4. EffectOf(fx', file, texture')
    BY <2>1, <2>2, <2>3, LoadSound
  <2>5. used' = File[file].cost /\ used' \in Nat
    BY <2>1, <2>2, <2>3 DEF LoadedUsed, CatalogAssumption
  <2>6. Running'
    BY <2>1, <2>2, <2>4, <2>5 DEF Running
  <2>7. TypeOK'
    BY <2>1, <2>3, <2>4, <2>5 DEF ViewerInv, TypeOK, EffectOf
  <2>8. PositionInEffect' /\ ShownSound'
    BY <2>1, <2>4 DEF ViewerInv, EffectOf, InPosition, PositionInEffect, ShownSound
  <2> QED BY <2>1, <2>6, <2>7, <2>8 DEF ViewerInv
<1> QED BY <1>1, <1>2

LEMMA DrawKeepsInv ==
  ASSUME CatalogAssumption, ViewerInv, NEW m \in Mouse(Depths), DrawParticleViewer(m)
  PROVE  ViewerInv'
<1> DEFINE box    == GuiDropdownBox(m, Len(Catalog), pickidx, picking)
           file   == Catalog[box.active]
           reload == Reloads(box)
           next   == IF reload THEN LoadedFx(file) ELSE fx
           tex    == IF reload THEN LoadedTexture(file) ELSE texture
<1>1. CASE (reload /\ LoadCrashes(file)) \/ next.num_frames = 0
  <2>1. Crash /\ mouse' = m /\ result' = box.result
    BY <1>1 DEF DrawParticleViewer
  <2>2. box.result \in BOOLEAN
    BY DropdownSound DEF ViewerInv, TypeOK
  <2> QED BY <2>1, <2>2, CrashKeepsInv
<1>2. CASE ~((reload /\ LoadCrashes(file)) \/ next.num_frames = 0)
  <2>1. /\ status = "running" /\ status' = "running"
        /\ shown' = [name |-> Catalog[pickidx], effect |-> fx.root,
                     p |-> fx.p, texture |-> texture]
        /\ pickidx' = box.active
        /\ picking' = (picking # box.result)
        /\ data' = IF reload THEN file ELSE data
        /\ used' = IF reload THEN LoadedUsed(file) ELSE used
        /\ texture' = tex
        /\ fx' = Advanced(next)
        /\ mouse' = m /\ result' = box.result
    BY <1>2 DEF DrawParticleViewer
  <2>2. TypeOK /\ Running /\ ShownSound
    BY <2>1 DEF ViewerInv
  <2>3. /\ box.active \in DOMAIN Catalog
        /\ box.result \in BOOLEAN
        /\ ~reload => box.active = pickidx
    BY <2>2, DropdownSound DEF TypeOK, Reloads
  <2>4. file \in Files /\ Catalog[pickidx] \in Files
    BY <2>2, <2>3 DEF TypeOK, Files
  <2>5. data # NULL
    BY <2>2, <2>4 DEF Running, CatalogAssumption
  <2>6. BaseFx = ZeroFx /\ BaseUsed = 0
    BY <2>5, FreshStart
  <2>7. EffectOf(next, file, tex)
    BY <2>2, <2>3, <2>4, <2>6, LoadSound DEF Running
  <2>8. EffectOf(fx', file, texture') /\ fx'.num_frames > 0
    <3>1. next \in Effects
      BY <2>7 DEF EffectOf
    <3>2. next.num_frames \in Nat /\ next.num_frames > 0
      BY <1>2, <3>1 DEF Effects
    <3> HIDE DEF next, tex, file
    <3> QED BY <2>1, <2>7, <3>1, <3>2, AdvanceSound
  <2>9. used' = File[file].cost /\ used' \in Nat /\ data' = file
    <3>1. CASE reload
      BY <2>1, <2>4, <2>6, <3>1 DEF LoadedUsed, CatalogAssumption
    <3>2. CASE ~reload
      BY <2>1, <2>2, <2>3, <2>4, <3>2 DEF Running, CatalogAssumption, TypeOK
    <3> QED BY <3>1, <3>2
  <2>10. fx.num_frames > 0 /\ EffectOf(fx, Catalog[pickidx], texture)
    <3>1. CASE reload
      BY <2>2, <3>1 DEF Running, Reloads
    <3>2. CASE ~reload
      BY <1>2, <2>2, <3>2 DEF Running, TypeOK, Effects
    <3> QED BY <3>1, <3>2, <2>2 DEF Running
  <2>11. ShownSound'
    BY <2>1, <2>4, <2>10 DEF ShownSound, EffectOf, CatalogAssumption
  <2>12. Running'
    BY <2>1, <2>8, <2>9 DEF Running
  <2>13. TypeOK'
    BY <2>1, <2>2, <2>3, <2>4, <2>8, <2>9 DEF TypeOK, EffectOf
  <2>14. PositionInEffect'
    BY <2>8 DEF EffectOf, InPosition, PositionInEffect
  <2> QED BY <2>1, <2>11, <2>12, <2>13, <2>14 DEF ViewerInv
<1> QED BY <1>1, <1>2

LEMMA DropKeepsInv ==
  ASSUME ViewerInv, DropParticleViewer
  PROVE  ViewerInv'
BY ZeroFxSound DEF ViewerInv, DropParticleViewer, TypeOK, PositionInEffect, ShownSound,
                   Files, ZeroFx, Effects, inputs

LEMMA ViewerStep ==
  ASSUME CatalogAssumption, ViewerInv, [Next]_vars
  PROVE  ViewerInv'
<1>1. CASE InitParticleViewer
  BY <1>1, InitParticleViewerKeepsInv
<1>2. CASE Draw
  BY <1>2, DrawKeepsInv DEF Draw
<1>3. CASE DropParticleViewer
  BY <1>3, DropKeepsInv
<1>4. CASE UNCHANGED vars
  BY <1>4 DEF vars, ViewerInv, TypeOK, PositionInEffect, ShownSound, Running, EffectOf,
              Effects, Files, InPosition
<1> QED BY <1>1, <1>2, <1>3, <1>4 DEF Next

(* What the viewer relies on holds in every reachable state. *)
THEOREM ViewerInvariant == Spec => []ViewerInv
BY ViewerInit, ViewerStep, CatalogAssumption, PTL DEF Spec

-------------------------------------------------------------------------------
(* The state has its type (all variables of partviewer.c). *)
THEOREM ViewerTypeCorrect == Spec => []TypeOK
<1>1. ViewerInv => TypeOK
  BY DEF ViewerInv
<1> QED BY <1>1, ViewerInvariant, PTL

(* A frame shows the name and the effect of one file, and the text and the *)
(* tree held are those of the selected entry (LoadParticleEffect,          *)
(* DrawParticleViewer), for every catalogue.                               *)
THEOREM OneFileAlwaysShown == Spec => []OneFileShown
<1>1. ViewerInv => OneFileShown
  BY DEF ViewerInv, ShownSound, Running, EffectOf, OneFileShown
<1> QED BY <1>1, ViewerInvariant, PTL

(* The texture on the billboard is that of the effect shown with it,       *)
(* wherever the effect names one (LoadParticleEffect), for every catalogue.*)
THEOREM TextureAlwaysOfEffect == Spec => []TextureOfEffect
<1>1. ViewerInv => TextureOfEffect
  BY DEF ViewerInv, ShownSound, TextureOfEffect
<1> QED BY <1>1, ViewerInvariant, PTL

(* fx.p is always a frame of the effect loaded, and fx.t its fraction. *)
THEOREM PositionAlwaysInEffect == Spec => []PositionInEffect
<1>1. ViewerInv => PositionInEffect
  BY DEF ViewerInv
<1> QED BY <1>1, ViewerInvariant, PTL

(* However many effects are picked, the arena holds one (partfx_reset). *)
THEOREM ArenaAlwaysHoldsOneEffect == Spec => []ArenaHoldsOneEffect
<1>1. ViewerInv => ArenaHoldsOneEffect
  BY DEF ViewerInv, Running, ArenaHoldsOneEffect
<1> QED BY <1>1, ViewerInvariant, PTL

-------------------------------------------------------------------------------
(* A press that has opened the list was on the header. *)
PressInv ==
  /\ ViewerInv
  /\ status = "running" /\ mouse.button = "pressed" /\ result /\ picking
       => OnHeader(mouse)

(* A release at the place of a press on the header of an open list does    *)
(* nothing, and a release never opens a closed one.                        *)
LEMMA ReleaseDoesNothing ==
  ASSUME CatalogAssumption, NEW m \in Mouse(Depths), m.button = "released",
         ~picking \/ OnHeader(m)
  PROVE  ~GuiDropdownBox(m, Len(Catalog), pickidx, picking).result
<1>1. Len(Catalog) \in Nat
  BY DEF CatalogAssumption
<1>2. CASE OnHeader(m)
  BY <1>1, <1>2, HeaderApart DEF GuiDropdownBox, Chosen
<1>3. CASE ~picking
  BY <1>3 DEF GuiDropdownBox
<1> QED BY <1>2, <1>3

LEMMA PressStep ==
  ASSUME CatalogAssumption, PressInv, [Next]_vars
  PROVE  PressInv'
<1>1. ViewerInv'
  BY ViewerStep DEF PressInv
<1>2. CASE Draw
  <2> PICK m \in Mouse(Depths) : DrawParticleViewer(m)
    BY <1>2 DEF Draw
  <2> DEFINE box == GuiDropdownBox(m, Len(Catalog), pickidx, picking)
  <2>1. mouse' = m /\ result' = box.result
    BY DEF DrawParticleViewer
  <2>2. status' = "running" => picking' = (picking # box.result)
    BY DEF DrawParticleViewer, Crash
  <2>3. box.result /\ ~picking => OnHeader(m)
    BY DEF GuiDropdownBox
  <2>4. picking \in BOOLEAN /\ box.result \in BOOLEAN
    BY DropdownSound DEF PressInv, ViewerInv, TypeOK
  <2> HIDE DEF box
  <2>5. status' = "running" /\ result' /\ picking' => OnHeader(m)
    BY <2>1, <2>2, <2>3, <2>4
  <2> QED BY <1>1, <2>1, <2>5 DEF PressInv, OnHeader, CheckCollisionPointRec
<1>3. CASE InitParticleViewer
  <2>1. picking' = picking /\ mouse' = mouse /\ result' = result
    BY <1>3 DEF InitParticleViewer, Crash, inputs
  <2>2. ~picking
    BY <1>3 DEF InitParticleViewer, PressInv, ViewerInv
  <2> QED BY <1>1, <2>1, <2>2 DEF PressInv
<1>4. CASE DropParticleViewer
  BY <1>1, <1>4 DEF PressInv, DropParticleViewer
<1>5. CASE UNCHANGED vars
  BY <1>1, <1>5 DEF PressInv, vars, OnHeader, CheckCollisionPointRec
<1> QED BY <1>2, <1>3, <1>4, <1>5 DEF Next

(* A click, pressed and released at one place in two frames, acts once,    *)
(* whatever the sizes of the rows and the number of entries.               *)
THEOREM OneClickAlwaysActsOnce == Spec => OneClickActsOnce
<1>1. Init => PressInv
  BY ViewerInit, CatalogAssumption DEF Init, PressInv
<1>2. PressInv /\ [Next]_vars =>
        PressInv' /\ (mouse.button = "pressed" /\ mouse' = [mouse EXCEPT !.button = "released"]
                        => ~(result /\ result'))
  <2> SUFFICES ASSUME PressInv, [Next]_vars, mouse.button = "pressed",
                      mouse' = [mouse EXCEPT !.button = "released"], result, result'
               PROVE  FALSE
    BY PressStep, CatalogAssumption
  <2>1. mouse \in Mouse(Depths)
    BY DEF PressInv, ViewerInv, TypeOK
  <2>2. mouse'.button = "released"
    BY <2>1 DEF Mouse
  <2>3. PICK m \in Mouse(Depths) : DrawParticleViewer(m)
    <3>1. mouse' # mouse
      BY <2>2
    <3> QED BY <3>1 DEF Next, Draw, vars, InitParticleViewer, DropParticleViewer, inputs
  <2>4. /\ mouse' = m /\ status = "running"
        /\ result' = GuiDropdownBox(m, Len(Catalog), pickidx, picking).result
    BY <2>3 DEF DrawParticleViewer
  <2>5. picking => OnHeader(m)
    <3>1. m.y = mouse.y /\ m.inColumn = mouse.inColumn
      BY <2>1, <2>4 DEF Mouse
    <3> QED BY <2>4, <3>1 DEF PressInv, OnHeader, CheckCollisionPointRec
  <2> QED BY <2>2, <2>4, <2>5, ReleaseDoesNothing, CatalogAssumption
<1> QED BY <1>1, <1>2, PTL DEF Spec, OneClickActsOnce

-------------------------------------------------------------------------------
(* With the dropdown closed, too, there are frames to play. *)
FramesToPlay == status = "running" => fx.num_frames > 0

(* Loading a playable file succeeds and leaves frames to play. *)
LEMMA LoadPlays ==
  ASSUME CatalogAssumption, NEW file \in Files, Playable(file), BaseFx = ZeroFx, BaseUsed = 0
  PROVE  ~LoadCrashes(file) /\ LoadedFx(file).num_frames > 0
<1>1. LoadedFx(file).num_frames > 0
  BY LoadSound DEF Playable, Animated
<1>2. ~(LoadedUsed(file) > ARENA_SIZE)
  BY DEF LoadedUsed, CatalogAssumption
<1>3. File[file].readable = TRUE
  BY DEF Playable
<1> QED BY <1>1, <1>2, <1>3, Zenon DEF LoadCrashes

(* A frame that ends has frames to play next. *)
LEMMA DrawCounts ==
  ASSUME CatalogAssumption, ViewerInv, NEW m \in Mouse(Depths), DrawParticleViewer(m)
  PROVE  fx'.num_frames # 0 \/ status' = "crashed"
<1> DEFINE box    == GuiDropdownBox(m, Len(Catalog), pickidx, picking)
           file   == Catalog[box.active]
           reload == Reloads(box)
           next   == IF reload THEN LoadedFx(file) ELSE fx
<1>1. status = "running" /\ TypeOK /\ Running
  BY DEF DrawParticleViewer, ViewerInv
<1>2. box.active \in DOMAIN Catalog /\ file \in Files
  BY <1>1, DropdownSound DEF TypeOK, Files
<1>3. BaseFx = ZeroFx
  BY <1>1, FreshStart DEF Running, TypeOK, CatalogAssumption, Files
<1>4. next \in Effects
  BY <1>1, <1>2, <1>3, LoadSound DEF EffectOf, Running
<1>5. Advanced(next).num_frames = next.num_frames
  <2> HIDE DEF next
  <2> QED BY <1>4 DEF Advanced, Effects
<1>6. (fx' = Advanced(next) /\ next.num_frames # 0) \/ status' = "crashed"
  BY DEF DrawParticleViewer, Crash
<1> QED BY <1>5, <1>6

(* A frame that loads a playable file, or nothing, does not trap. *)
LEMMA DrawPlays ==
  ASSUME CatalogAssumption, ViewerInv, FramesToPlay,
         NEW m \in Mouse(Depths), DrawParticleViewer(m),
         LET box == GuiDropdownBox(m, Len(Catalog), pickidx, picking)
         IN  Reloads(box) => Playable(Catalog[box.active])
  PROVE  status' = "running" /\ fx'.num_frames > 0
<1> DEFINE box    == GuiDropdownBox(m, Len(Catalog), pickidx, picking)
           file   == Catalog[box.active]
           reload == Reloads(box)
           next   == IF reload THEN LoadedFx(file) ELSE fx
           tex    == IF reload THEN LoadedTexture(file) ELSE texture
<1>1. status = "running" /\ TypeOK /\ Running /\ fx.num_frames > 0
  BY DEF DrawParticleViewer, ViewerInv, FramesToPlay
<1>2. box.active \in DOMAIN Catalog /\ file \in Files
  BY <1>1, DropdownSound DEF TypeOK, Files
<1>3. BaseFx = ZeroFx /\ BaseUsed = 0
  BY <1>1, FreshStart DEF Running, TypeOK, CatalogAssumption, Files
<1>4. reload => ~LoadCrashes(file) /\ LoadedFx(file).num_frames > 0
  BY <1>2, <1>3, LoadPlays
<1>5. next.num_frames > 0 /\ ~(reload /\ LoadCrashes(file))
  BY <1>1, <1>4
<1>6. next \in Effects
  BY <1>1, <1>2, <1>3, LoadSound DEF EffectOf, Running
<1>7. Advanced(next).num_frames = next.num_frames
  <2> HIDE DEF next
  <2> QED BY <1>6 DEF Advanced, Effects
<1>8. next.num_frames # 0
  BY <1>5
<1>9. status' = status /\ fx' = Advanced(next)
  BY <1>5, <1>8 DEF DrawParticleViewer
<1> QED BY <1>1, <1>5, <1>7, <1>9

(* With playable files only, no load and no frame ends the process: the    *)
(* remainder of DrawParticleViewer never has a zero divisor, and strlen    *)
(* never a NULL.                                                           *)
THEOREM PlayableNeverCrashes ==
  ASSUME \A f \in Files : Playable(f)
  PROVE  Spec => []NeverCrashes
<1> DEFINE I == ViewerInv /\ FramesToPlay /\ NeverCrashes
<1>1. Init => I
  BY CatalogAssumption, ViewerInit DEF Init, FramesToPlay, NeverCrashes
<1>2. I /\ [Next]_vars => I'
  <2> SUFFICES ASSUME I, [Next]_vars PROVE I'
    OBVIOUS
  <2>1. ViewerInv'
    BY ViewerStep, CatalogAssumption
  <2>2. CASE InitParticleViewer
    <3>1. Catalog[pickidx] \in Files /\ BaseFx = ZeroFx /\ BaseUsed = 0
      BY <2>2, FreshStart, CatalogAssumption DEF InitParticleViewer, ViewerInv, TypeOK, Files
    <3>2. ~LoadCrashes(Catalog[pickidx]) /\ LoadedFx(Catalog[pickidx]).num_frames > 0
      BY <3>1, LoadPlays, CatalogAssumption
    <3> QED BY <2>1, <2>2, <3>2 DEF InitParticleViewer, FramesToPlay, NeverCrashes
  <2>3. CASE Draw
    <3> PICK m \in Mouse(Depths) : DrawParticleViewer(m)
      BY <2>3 DEF Draw
    <3>1. GuiDropdownBox(m, Len(Catalog), pickidx, picking).active \in DOMAIN Catalog
      <4>1. pickidx \in DOMAIN Catalog
        BY DEF ViewerInv, TypeOK
      <4> QED BY <4>1, DropdownSound, CatalogAssumption
    <3>2. Playable(Catalog[GuiDropdownBox(m, Len(Catalog), pickidx, picking).active])
      BY <3>1 DEF Files
    <3>3. status' = "running" /\ fx'.num_frames > 0
      BY <3>2, DrawPlays, CatalogAssumption
    <3> QED BY <2>1, <3>3 DEF FramesToPlay, NeverCrashes
  <2>4. CASE DropParticleViewer
    BY <2>1, <2>4 DEF DropParticleViewer, FramesToPlay, NeverCrashes
  <2>5. CASE UNCHANGED vars
    BY <2>1, <2>5 DEF vars, FramesToPlay, NeverCrashes
  <2> QED BY <2>2, <2>3, <2>4, <2>5 DEF Next
<1>3. I => NeverCrashes
  OBVIOUS
<1> QED BY <1>1, <1>2, <1>3, PTL DEF Spec

(* If the effect the viewer starts with can be played, then whatever else  *)
(* is in the catalogue, the frame that ends the process is one that loads  *)
(* a file that cannot be played: a frame that only draws never traps, and  *)
(* neither does the load of a good file after any number of others         *)
(* (LoadParticleEffect and the remainder in DrawParticleViewer).           *)
THEOREM OnlyALoadEverCrashes ==
  ASSUME Playable(Catalog[FirstPick])
  PROVE  Spec => OnlyALoadCrashes
<1> DEFINE Loads(m) ==
             LET box == GuiDropdownBox(m, Len(Catalog), pickidx, picking)
             IN  picking /\ box.result /\ ~Playable(Catalog[box.active])
           I == ViewerInv /\ FramesToPlay /\ (status = "start" => pickidx = FirstPick)
<1>1. Init => I
  BY CatalogAssumption, ViewerInit DEF Init, FramesToPlay
<1>2. I /\ [Next]_vars =>
        I' /\ (status = "running" /\ status' = "crashed" => Loads(mouse'))
  <2> SUFFICES ASSUME I, [Next]_vars
               PROVE  I' /\ (status = "running" /\ status' = "crashed" => Loads(mouse'))
    OBVIOUS
  <2>1. ViewerInv'
    BY ViewerStep, CatalogAssumption
  <2>2. CASE InitParticleViewer
    <3>1. Catalog[pickidx] \in Files /\ BaseFx = ZeroFx /\ BaseUsed = 0
      BY <2>2, FreshStart, CatalogAssumption DEF InitParticleViewer, ViewerInv, TypeOK, Files
    <3>2. ~LoadCrashes(Catalog[pickidx]) /\ LoadedFx(Catalog[pickidx]).num_frames > 0
      BY <2>2, <3>1, LoadPlays, CatalogAssumption DEF InitParticleViewer
    <3> QED BY <2>1, <2>2, <3>2 DEF InitParticleViewer, FramesToPlay
  <2>3. CASE Draw
    <3> PICK m \in Mouse(Depths) : DrawParticleViewer(m)
      BY <2>3 DEF Draw
    <3>1. /\ status = "running" /\ status' \in {"running", "crashed"}
          /\ mouse' = m
      BY DEF DrawParticleViewer, Crash
    <3>2. CASE ~Loads(m)
      <4>1. status' = "running" /\ fx'.num_frames > 0
        BY <3>2, DrawPlays, CatalogAssumption DEF Reloads
      <4> QED BY <2>1, <3>1, <4>1 DEF FramesToPlay
    <3>3. CASE Loads(m)
      <4>1. fx'.num_frames # 0 \/ status' = "crashed"
        BY DrawCounts, CatalogAssumption
      <4>2. FramesToPlay'
        BY <2>1, <3>1, <4>1 DEF FramesToPlay, ViewerInv, TypeOK, Effects
      <4> QED BY <2>1, <3>1, <3>3, <4>2
    <3> QED BY <3>2, <3>3
  <2>4. CASE DropParticleViewer
    BY <2>1, <2>4 DEF DropParticleViewer, FramesToPlay
  <2>5. CASE UNCHANGED vars
    BY <2>1, <2>5 DEF vars, FramesToPlay
  <2> QED BY <2>2, <2>3, <2>4, <2>5 DEF Next
<1>3. I /\ [Next]_vars => I'
  BY <1>2
<1>4. I /\ [Next]_vars =>
        [status = "running" /\ status' = "crashed" =>
           LET box == GuiDropdownBox(mouse', Len(Catalog), pickidx, picking)
           IN  picking /\ box.result /\ ~Playable(Catalog[box.active])]_vars
  BY <1>2
<1> QED BY <1>1, <1>3, <1>4, PTL DEF Spec, OnlyALoadCrashes
===============================================================================
