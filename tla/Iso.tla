---------------------------------- MODULE Iso ----------------------------------
(***************************************************************************)
(* The isometric demo (iso.c): a map of diamond tiles, a character the     *)
(* keys move and a camera that follows it, a tile hovered by the mouse and *)
(* a target tile the character looks at.  main calls TickIsoApp and        *)
(* DrawIsoApp once a frame, in this order.                                 *)
(*                                                                         *)
(* Positions are integers: a step of the character is one of the eight     *)
(* directions, and the lengths that the code scales it to are left out.    *)
(***************************************************************************)
EXTENDS Demo, FiniteSets

CONSTANTS
  MAP_DIMS,
  HalfWidth, HalfHeight,    \* half of floors.width and floors.height
  ShadowDrop,               \* how far below the character its shadow lies
  SPRITE_DELAY, Stride,     \* frames per sprite, and sprites per animation
  ScreenCentre,             \* half the window, the camera's offset
  World,                    \* bound: where the character can get
  Mice                      \* positions of the mouse on the screen

Points == [x : Int, y : Int]

ASSUME IsoAssumption ==
  /\ MAP_DIMS \in Nat \ {0}
  /\ HalfWidth \in Nat \ {0} /\ HalfHeight \in Nat \ {0}
  /\ SPRITE_DELAY \in Nat \ {0} /\ Stride \in Nat \ {0}
  /\ ScreenCentre \in Points /\ World \subseteq Points /\ Mice \subseteq Points

VARIABLES
  charpos,
  camera,     \* camera.target
  mouse,      \* GetMousePosition of the last tick
  hover,
  target,
  dmode,
  animidx,
  findex,     \* as far as the sprites repeat
  view        \* what the last frame drew

isoData == <<charpos, camera, mouse, hover, target, dmode, animidx, findex, view>>
isoVars == <<phase, isoData>>

At(x, y) == [x |-> x, y |-> y]
Plus(p, q) == At(p.x + q.x, p.y + q.y)
Minus(p, q) == At(p.x - q.x, p.y - q.y)
Abs(i) == IF i < 0 THEN -i ELSE i

NoTile == At(-1, -1)
Tiles == [x : 0..(MAP_DIMS - 1), y : 0..(MAP_DIMS - 1)]

get_tile_pos(tile) ==
  IF tile.x <= -1 /\ tile.y <= -1
  THEN At(-1, -1)
  ELSE At((tile.x - tile.y) * HalfWidth, (tile.x + tile.y) * HalfHeight)

(* Fault, for the mutation runs: the point is not lowered. *)
FaultNotLowered(pos) ==
  LET area == HalfWidth * HalfHeight
      down == pos.y * HalfWidth
      right == pos.x * HalfHeight
  IN  At(Truncated(down + right, 2 * area), Truncated(down - right, 2 * area))

(* The tile under the character, one half tile below its position. *)
get_center_tile(pos) ==
  LET area == HalfWidth * HalfHeight
      down == pos.y * HalfWidth + 2 * area
      right == pos.x * HalfHeight
  IN  At(Truncated(down + right, 2 * area), Truncated(down - right, 2 * area))

is_in_tile(tilepos, point) ==
  Abs(point.x - tilepos.x) * HalfHeight + Abs(point.y - tilepos.y) * HalfWidth
    <= HalfWidth * HalfHeight

(* The tiles that hold a point; borders belong to both sides. *)
Under(point) == {tile \in Tiles : is_in_tile(get_tile_pos(tile), point)}

(* The loop takes the first, row by row. *)
get_hover_tile(point) ==
  IF Under(point) = {} THEN NoTile
  ELSE CHOOSE tile \in Under(point) :
         \A other \in Under(point) :
           \/ tile.y < other.y
           \/ tile.y = other.y /\ tile.x <= other.x

(* find_sprite_index: the direction of the ray in sixteenths of a turn.    *)
(* The sectors meet at odd multiples of pi/16, whose tangents, here to     *)
(* four digits, no ray between near points hits.                           *)
Tangents == {1989, 6682, 14966, 50273}

(* Fault: atan2 gets the ray the other way round. *)
FaultSwapped(ray) ==
  LET flat  == {t \in Tangents : Abs(ray.y) * 10000 > t * Abs(ray.x)}
      angle == IF ray.x < 0 THEN 8 - Cardinality(flat) ELSE Cardinality(flat)
  IN  IF ray.y < 0 THEN -angle ELSE angle

Sixteenths(ray) ==
  LET steep  == {t \in Tangents : Abs(ray.x) * 10000 > t * Abs(ray.y)}
      turned == IF ray = At(0, 0) THEN 0 ELSE Cardinality(steep)
      angle  == IF ray.y < 0 THEN 8 - turned ELSE turned
  IN  IF ray.x < 0 THEN -angle ELSE angle

find_sprite_index(cpos, tpos) ==
  IF tpos.x < 0 /\ tpos.y < 0 THEN 0
  ELSE (8 - Sixteenths(Minus(cpos, tpos))) % 16

(* External (raylib): GetScreenToWorld2D at zoom one. *)
ToWorld(point, centre) == Plus(Minus(point, ScreenCentre), centre)

-------------------------------------------------------------------------------
AN_IDLE == 0
AN_RUN == 2

Blank == [camera |-> ScreenCentre, sheet |-> AN_IDLE, column |-> 0]

(* The globals as they start. *)
IsoInit ==
  /\ phase = "init"
  /\ charpos = At(0, 0)
  /\ camera = At(0, 0)
  /\ mouse = At(0, 0)
  /\ hover = At(0, 0)
  /\ target = NoTile
  /\ dmode = 0
  /\ animidx = AN_IDLE
  /\ findex = 0
  /\ view = Blank

InitIsoApp ==
  /\ phase = "init"
  /\ phase' = "tick"
  /\ charpos' = At(0, 0)
  /\ camera' = ScreenCentre
  /\ UNCHANGED <<mouse, hover, target, dmode, animidx, findex, view>>

Keys == {"W", "S", "A", "D"}

(* One when the first key is held and not the second, minus one the other *)
(* way round: opposite keys cancel.                                       *)
Axis(held, plus, minus) ==
  CASE plus \in held /\ minus \notin held -> 1
    [] minus \in held /\ plus \notin held -> -1
    [] OTHER                              -> 0

Movement(held) == At(Axis(held, "D", "A"), Axis(held, "S", "W"))

(* Fault: the animation goes on where the other one stood. *)
FaultKeepsFrame(movement) ==
  /\ animidx' = IF movement # At(0, 0) THEN AN_RUN ELSE AN_IDLE
  /\ findex' = findex

Animate(movement) ==
  LET moves == movement # At(0, 0)
  IN  /\ animidx' = CASE moves /\ animidx = 0  -> AN_RUN
                      [] ~moves /\ animidx # 0 -> AN_IDLE
                      [] OTHER                 -> animidx
      /\ findex' = IF moves = (animidx = 0) THEN 0 ELSE findex

(* Fault: the mouse is seen through the camera of this frame. *)
FaultNewCamera(m, movement) == ToWorld(m, Plus(charpos, movement))

(* Fault: the position on the screen is taken for one in the world. *)
FaultScreen(m, movement) == m

(* The mouse in the world as the frame before showed it. *)
Seen(m, movement) == ToWorld(m, camera)

TickIsoApp(m, held, click, toggle) ==
  LET movement == Movement(held)
  IN  /\ phase = "tick"
      /\ Plus(charpos, movement) \in World
      /\ phase' = "draw"
      /\ dmode' = IF toggle THEN 1 - dmode ELSE dmode
      /\ mouse' = m
      /\ hover' = get_hover_tile(Seen(m, movement))
      /\ target' = IF click THEN hover' ELSE target
      /\ Animate(movement)
      /\ charpos' = Plus(charpos, movement)
      /\ camera' = charpos'
      /\ UNCHANGED view

(* What DrawIsoApp marks: the tile under the character in debug mode, the   *)
(* row of the sprite.                                                      *)
Centre == IF dmode = 1 THEN get_center_tile(charpos) ELSE NoTile
Row == find_sprite_index(charpos, get_tile_pos(target))

DrawIsoApp ==
  /\ phase = "draw"
  /\ phase' = "tick"
  /\ view' = [camera |-> camera,
              sheet  |-> animidx,
              column |-> (findex \div SPRITE_DELAY) % Stride]
  /\ findex' = (findex + 1) % (SPRITE_DELAY * Stride)
  /\ UNCHANGED <<charpos, camera, mouse, hover, target, dmode, animidx>>

DropIsoApp ==
  /\ phase = "tick"
  /\ phase' = "dropped"
  /\ UNCHANGED isoData

TickIso ==
  \E m \in Mice, held \in SUBSET Keys, click, toggle \in BOOLEAN :
    TickIsoApp(m, held, click, toggle)

-------------------------------------------------------------------------------
(* Properties. *)

Inside(tile, point) ==
  LET pos == get_tile_pos(tile)
  IN  Abs(point.x - pos.x) * HalfHeight + Abs(point.y - pos.y) * HalfWidth
        < HalfWidth * HalfHeight

(* A click picks what the user sees: the tile hovered in a tick is the one *)
(* under the mouse in the picture drawn last, none only where that shows   *)
(* none, and inside a tile it is that tile whatever the order of the       *)
(* search (TickIsoApp, before it moves the camera).                        *)
AimsAtWhatIsSeen ==
  [][app = "ISO" /\ phase = "tick" /\ phase' = "draw" =>
       LET point == ToWorld(mouse', view.camera)
       IN  /\ \/ hover' \in Under(point)
              \/ hover' = NoTile /\ Under(point) = {}
           /\ \A tile \in Tiles : Inside(tile, point) => hover' = tile]_isoVars

(* The highlight of a frame lies under the mouse in that frame, too, as    *)
(* long as the camera stands still; after a step it lags behind.           *)
HighlightUnderMouse ==
  [][app = "ISO" /\ phase = "draw" /\ phase' = "tick" /\ view'.camera = view.camera =>
       hover = get_hover_tile(ToWorld(mouse, camera))]_isoVars

(* The tile marked as the character's holds its shadow, wherever that is   *)
(* on the map (get_center_tile, the shadow of DrawIsoApp).                 *)
CentreHoldsShadow ==
  LET shadow == Plus(charpos, At(0, ShadowDrop))
  IN  dmode = 1 /\ Under(shadow) # {} =>
        is_in_tile(get_tile_pos(Centre), shadow)

(* No tile is taken for the invalid target, and a click beside the map for *)
(* nothing else (get_tile_pos, find_sprite_index).                         *)
TargetTold ==
  LET pos == get_tile_pos(target)
  IN  target = NoTile <=> pos.x < 0 /\ pos.y < 0

(* The character never looks away from its target: a row turned to a side  *)
(* is drawn only with the target on that side (find_sprite_index).         *)
NeverLooksAway ==
  LET ray == Minus(charpos, get_tile_pos(target))
  IN  /\ Row \in 0..15
      /\ target # NoTile =>
           /\ Row \in 1..7 => ray.x > 0
           /\ Row \in 9..15 => ray.x < 0
           /\ Row \in {0, 1, 2, 3, 13, 14, 15} => ray.y < 0
           /\ Row \in 5..11 => ray.y > 0 \/ ray = At(0, 0)

(* A frame shows the run exactly if the character has moved since the one  *)
(* before, and a new animation from its first sprite on.                   *)
AnimationFollowsMotion ==
  [][app = "ISO" /\ phase = "draw" /\ phase' = "tick" /\ view # Blank =>
       /\ view'.sheet = AN_RUN <=> view'.camera # view.camera
       /\ view'.sheet # view.sheet => view'.column = 0]_isoVars
===============================================================================
