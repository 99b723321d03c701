------------------------------ MODULE PartViewer ------------------------------
(***************************************************************************)
(* The particle viewer (partviewer.c) under main's loop: one effect of the *)
(* catalogue is loaded at start, and every frame draws it, lets the user   *)
(* pick another one from the dropdown, and advances the animation.         *)
(*                                                                         *)
(* A file stands for what the viewer tells apart in it: whether it can be  *)
(* read and parses, the texture under TEXR/CNST/tex, KSSM/endFrame, and    *)
(* the arena bytes its tree takes.                                         *)
(***************************************************************************)
EXTENDS Sequences, Dropdown

CONSTANTS
  Catalog,      \* cat.paths: the files, in the order of the dropdown
  File,         \* what is in each of them
  FirstPick,    \* the initial pickidx, counted from 1
  ARENA_SIZE,
  SIZE_LIMIT,   \* size_t holds 0..(SIZE_LIMIT - 1)
  Depths,       \* heights the mouse can be at, from the top of the dropdown
  NULL,         \* no file, no effect
  NoTexture,    \* no texture, or texture id 0
  NoEndFrame    \* no KSSM or no endFrame in it

Files == {Catalog[i] : i \in DOMAIN Catalog}

ASSUME CatalogAssumption ==
  /\ ARENA_SIZE \in Nat
  /\ SIZE_LIMIT \in Nat \ {0}
  /\ Depths \subseteq Int
  /\ Len(Catalog) \in Nat /\ DOMAIN Catalog = 1..Len(Catalog)
  /\ FirstPick \in DOMAIN Catalog
  /\ NULL \notin Files
  /\ \A f \in Files :
       /\ File[f].readable \in BOOLEAN
       /\ File[f].parse \in {"whole", "broken", "blank"}
       /\ \/ File[f].endFrame \in (1 - SIZE_LIMIT)..(SIZE_LIMIT - 1)
          \/ File[f].endFrame = NoEndFrame
       /\ File[f].cost \in 0..ARENA_SIZE

VARIABLES
  status,    \* "start", "running", "closed" or "crashed"
  pickidx,   \* entry selected in the dropdown
  picking,   \* whether the dropdown is open
  data,      \* the file whose text is held, or NULL
  fx,        \* the effect: root, num_frames, p, and t as a fraction
  used,      \* arena bytes in use
  texture,   \* what the billboard shows
  shown,     \* what the last frame presented
  mouse,     \* the mouse as the last frame saw it
  result     \* what GuiDropdownBox returned in the last frame

inputs == <<mouse, result>>
vars == <<status, pickidx, picking, data, fx, used, texture, shown, mouse, result>>

Effects ==
  [root : Files \union {NULL}, num_frames : Nat, p : Nat, t : Nat \X Nat]

ZeroFx == [root |-> NULL, num_frames |-> 0, p |-> 0, t |-> <<0, 1>>]

Nothing == [name |-> NULL, effect |-> NULL, p |-> 0, texture |-> NoTexture]

Init ==
  /\ status = "start"
  /\ pickidx = FirstPick
  /\ picking = FALSE
  /\ data = NULL
  /\ fx = ZeroFx
  /\ used = 0
  /\ texture = NoTexture
  /\ shown = Nothing
  /\ mouse \in Mouse(Depths) /\ mouse.button = "up"
  /\ result = FALSE

-------------------------------------------------------------------------------
(* LoadParticleEffect, from the effect and the arena bytes it starts with. *)

(* Fault, for the mutation runs: partfx_reset forgets the arena. *)
FaultKeepsArena == used

(* partfx_reset when a text is held. *)
BaseFx == IF data # NULL THEN ZeroFx ELSE fx
BaseUsed == IF data # NULL THEN 0 ELSE used

(* partfx_parse sets the root at the first mapping: a broken file keeps one. *)
ParsedFx(file) ==
  IF File[file].parse = "blank" THEN BaseFx ELSE [BaseFx EXCEPT !.root = file]

(* endFrame is read as an int whatever its node holds; num_frames is a size_t. *)
Unsigned(int) == int % SIZE_LIMIT

LoadedFx(file) ==
  IF File[file].parse = "whole" /\ File[file].endFrame # NoEndFrame
  THEN [ParsedFx(file) EXCEPT !.num_frames = Unsigned(File[file].endFrame),
                              !.p = 0, !.t = <<0, 1>>]
  ELSE ParsedFx(file)

(* Fault: only the first texture found is ever loaded. *)
FaultFirstTexture(file) ==
  IF texture = NoTexture THEN File[file].texture ELSE texture

LoadedTexture(file) ==
  IF File[file].parse = "whole" /\ File[file].texture # NoTexture
  THEN File[file].texture
  ELSE texture

LoadedUsed(file) == BaseUsed + File[file].cost

(* strlen(NULL) of a file that cannot be read, and the arena's assertion. *)
LoadCrashes(file) == ~File[file].readable \/ LoadedUsed(file) > ARENA_SIZE

Crash ==
  /\ status' = "crashed"
  /\ UNCHANGED <<pickidx, picking, data, fx, used, texture, shown>>

InitParticleViewer ==
  LET file == Catalog[pickidx]
  IN  /\ status = "start"
      /\ UNCHANGED inputs
      /\ IF LoadCrashes(file)
         THEN Crash
         ELSE /\ status' = "running"
              /\ data' = file
              /\ fx' = LoadedFx(file)
              /\ used' = LoadedUsed(file)
              /\ texture' = LoadedTexture(file)
              /\ UNCHANGED <<pickidx, picking, shown>>

-------------------------------------------------------------------------------
(* DrawParticleViewer. *)

(* Faults: t from the frame before, and a counter that wraps a frame early. *)
FaultLateFraction(e) ==
  [e EXCEPT !.p = (e.p + 1) % e.num_frames, !.t = <<e.p, e.num_frames>>]
FaultEarlyWrap(e) ==
  LET p == (e.p + 1) % (e.num_frames - 1)
  IN  [e EXCEPT !.p = p, !.t = <<p, e.num_frames>>]

Advanced(e) ==
  LET p == (e.p + 1) % e.num_frames
  IN  [e EXCEPT !.p = p, !.t = <<p, e.num_frames>>]

(* Fault: picking is toggled before it is tested. *)
FaultTogglesFirst(box) == box.result /\ ~picking

(* The dropdown that reports a click was open, so its entry is loaded. *)
Reloads(box) == box.result /\ picking

(* The frame: labels and billboard as they stand, then the dropdown and    *)
(* perhaps a load, then the frame counter.  A remainder by zero traps.     *)
DrawParticleViewer(m) ==
  LET box    == GuiDropdownBox(m, Len(Catalog), pickidx, picking)
      file   == Catalog[box.active]
      reload == Reloads(box)
      next   == IF reload THEN LoadedFx(file) ELSE fx
  IN  /\ status = "running"
      /\ m.button \in NextButton[mouse.button]
      /\ mouse' = m
      /\ result' = box.result
      /\ IF (reload /\ LoadCrashes(file)) \/ next.num_frames = 0
         THEN Crash
         ELSE /\ shown' = [name |-> Catalog[pickidx], effect |-> fx.root,
                           p |-> fx.p, texture |-> texture]
              /\ pickidx' = box.active
              /\ picking' = (picking # box.result)
              /\ data' = IF reload THEN file ELSE data
              /\ used' = IF reload THEN LoadedUsed(file) ELSE used
              /\ texture' = IF reload THEN LoadedTexture(file) ELSE texture
              /\ fx' = Advanced(next)
              /\ UNCHANGED status

(* WindowShouldClose, then DropParticleViewer. *)
DropParticleViewer ==
  /\ status = "running"
  /\ status' = "closed"
  /\ data' = NULL
  /\ fx' = ZeroFx
  /\ used' = 0
  /\ UNCHANGED <<pickidx, picking, texture, shown, inputs>>

Draw == \E m \in Mouse(Depths) : DrawParticleViewer(m)

Next == InitParticleViewer \/ Draw \/ DropParticleViewer

(* main loops over frames for as long as the window stays open. *)
Fairness == WF_vars(InitParticleViewer) /\ WF_vars(Draw)

Spec == Init /\ [][Next]_vars

FairSpec == Spec /\ Fairness

-------------------------------------------------------------------------------
(* Properties. *)

TypeOK ==
  /\ status \in {"start", "running", "closed", "crashed"}
  /\ pickidx \in DOMAIN Catalog
  /\ picking \in BOOLEAN
  /\ data \in Files \union {NULL}
  /\ fx \in Effects
  /\ used \in Nat
  /\ mouse \in Mouse(Depths)
  /\ result \in BOOLEAN

(* Every frame presents one file: the name in the status bar, the effect   *)
(* in the panel and the held text are those of the selected entry, however *)
(* picks and reloads fall.  Of the texture TextureOfEffect speaks.         *)
OneFileShown ==
  /\ shown.effect # NULL => shown.effect = shown.name
  /\ status = "running" =>
       data = Catalog[pickidx] /\ fx.root \in {NULL, Catalog[pickidx]}

(* The animation position is a frame of the effect that is loaded now, and *)
(* t is that position as a fraction below one.                             *)
PositionInEffect ==
  fx.num_frames > 0 =>
    /\ fx.p < fx.num_frames
    /\ fx.t[1] * fx.num_frames = fx.p * fx.t[2]

(* A frame shows the texture of its effect: one of an earlier effect, or   *)
(* none, only where the effect has none of its own.                        *)
TextureOfEffect ==
  shown.effect # NULL =>
    File[shown.effect].texture \in {NoTexture, shown.texture}

(* Loading any number of effects takes the arena of the last one only. *)
ArenaHoldsOneEffect ==
  status = "running" => used = File[Catalog[pickidx]].cost

(* No load and no frame ends the process. *)
NeverCrashes == status # "crashed"

(* A file to go on with: it can be read, parses, and has frames to play. *)
Playable(f) ==
  /\ File[f].readable /\ File[f].parse = "whole"
  /\ File[f].endFrame \notin {0, NoEndFrame}

(* Only loading a file that cannot be played ends the process: the frame   *)
(* that traps has picked such a file.  One that loads nothing, or a file   *)
(* to go on with, goes on, however many files were loaded and failed to    *)
(* set a texture or a root before (LoadParticleEffect, DrawParticleViewer).*)
OnlyALoadCrashes ==
  [][status = "running" /\ status' = "crashed" =>
       LET box == GuiDropdownBox(mouse', Len(Catalog), pickidx, picking)
       IN  picking /\ box.result /\ ~Playable(Catalog[box.active])]_vars

(* One click acts once: pressed and released at one place, in two frames,  *)
(* it opens the dropdown, picks or closes it, but never two of these, so a *)
(* click cannot pick what lies under the header it opens                   *)
(* (GuiDropdownBox and the toggle of picking).                             *)
OneClickActsOnce ==
  [][mouse.button = "pressed" /\ mouse' = [mouse EXCEPT !.button = "released"]
       => ~(result /\ result')]_vars

Frames ==
  UNION {0..(Unsigned(File[f].endFrame) - 1) : f \in {g \in Files : File[g].endFrame # NoEndFrame}}

(* Once the user leaves the dropdown closed, the window staying open, every *)
(* frame of the effect is presented again and again.                        *)
EveryFrameShown ==
  <>[](status = "running" /\ ~picking) =>
    \A k \in Frames : []<>(fx.num_frames <= k \/ shown.p = k)
===============================================================================
