------------------------------ MODULE MainProofs ------------------------------
(***************************************************************************)
(* main with any of its demos, for every size of raygui's table, of the    *)
(* map, of the tiles and of the sprite sheets: frames are drawn with what  *)
(* they need, the mouse picks what the screen shows, the character looks   *)
(* at its target, and the animation follows the keys.  Of any number of    *)
(* boids: a stray turns back at the bounds.                                *)
(*                                                                         *)
(* The inductive invariant is IsoInv: StageInv says where main is and what *)
(* is held and awaited there, ViewInv how the demo's state stands to what  *)
(* the last frame drew.  That of the boids is FlockInv: from the first     *)
(* frame on, none is faster than the cap.  Within a frame, AllReached says *)
(* how far the loop over them has come.                                    *)
(***************************************************************************)
EXTENDS Main, FiniteSetTheorems, WellFoundedInduction, TLAPS

LEMMA TilesArePoints ==
  /\ NoTile \in Points
  /\ \A tile \in Tiles : tile.x \in Nat /\ tile.y \in Nat /\ tile \in Points
BY IsoAssumption DEF NoTile, At, Points, Tiles

(* A tile of the map keeps clear of the corner where both coordinates are  *)
(* negative, which stands for no tile.                                     *)
LEMMA TileTold ==
  ASSUME NEW tile \in Tiles \union {NoTile}
  PROVE  LET pos == get_tile_pos(tile)
         IN  tile = NoTile <=> pos.x < 0 /\ pos.y < 0
<1>1. CASE tile = NoTile
  BY <1>1 DEF get_tile_pos, NoTile, At
<1>2. CASE tile \in Tiles
  <2>1. tile.x \in Nat /\ tile.y \in Nat
    BY <1>2, TilesArePoints
  <2>2. tile # NoTile
    BY <2>1 DEF NoTile, At
  <2>3. get_tile_pos(tile) = At((tile.x - tile.y) * HalfWidth, (tile.x + tile.y) * HalfHeight)
    BY <2>1 DEF get_tile_pos
  <2>4. (tile.x + tile.y) * HalfHeight \in Nat
    BY <2>1, IsoAssumption
  <2> QED BY <2>2, <2>3, <2>4 DEF At
<1> QED BY <1>1, <1>2

-------------------------------------------------------------------------------
(* Diamonds as squares: with u and v along the sides of the tiles, a point *)
(* is in tile <<x, y>> if u and v are within A of 2 * x * A and 2 * y * A. *)
Area == HalfWidth * HalfHeight
U(point) == point.x * HalfHeight + point.y * HalfWidth
V(point) == point.y * HalfWidth - point.x * HalfHeight

LEMMA AbsSum ==
  ASSUME NEW a \in Int, NEW b \in Int, NEW h \in Nat, NEW w \in Nat
  PROVE  LET s == Abs(a) * h + Abs(b) * w
         IN  /\ s \in Int
             /\ a * h + b * w <= s /\ -(a * h + b * w) <= s
             /\ b * w - a * h <= s /\ a * h - b * w <= s
<1>1. CASE a >= 0 /\ b >= 0
  <2>1. a * h \in Nat /\ b * w \in Nat /\ Abs(a) = a /\ Abs(b) = b
    BY <1>1 DEF Abs
  <2> QED BY <2>1
<1>2. CASE a < 0 /\ b >= 0
  <2>1. (-a) * h \in Nat /\ b * w \in Nat /\ Abs(a) = -a /\ Abs(b) = b /\ a * h = -((-a) * h)
    BY <1>2 DEF Abs
  <2> QED BY <2>1
<1>3. CASE a >= 0 /\ b < 0
  <2>1. a * h \in Nat /\ (-b) * w \in Nat /\ Abs(a) = a /\ Abs(b) = -b /\ b * w = -((-b) * w)
    BY <1>3 DEF Abs
  <2> QED BY <2>1
<1>4. CASE a < 0 /\ b < 0
  <2>1. /\ (-a) * h \in Nat /\ (-b) * w \in Nat /\ Abs(a) = -a /\ Abs(b) = -b
        /\ a * h = -((-a) * h) /\ b * w = -((-b) * w)
    BY <1>4 DEF Abs
  <2> QED BY <2>1
<1> QED BY <1>1, <1>2, <1>3, <1>4

(* The distance of a point from a tile's centre bounds those along u and v. *)
LEMMA AlongSides ==
  ASSUME NEW tile \in Tiles, NEW point \in Points
  PROVE  LET pos == get_tile_pos(tile)
             s == Abs(point.x - pos.x) * HalfHeight + Abs(point.y - pos.y) * HalfWidth
         IN  /\ s \in Int /\ Area \in Nat /\ tile.x * Area \in Nat /\ tile.y * Area \in Nat
             /\ U(point) \in Int /\ V(point) \in Int
             /\ U(point) - 2 * (tile.x * Area) <= s
             /\ 2 * (tile.x * Area) - U(point) <= s
             /\ V(point) - 2 * (tile.y * Area) <= s
             /\ 2 * (tile.y * Area) - V(point) <= s
<1> DEFINE h == HalfHeight
           w == HalfWidth
           x == tile.x
           y == tile.y
           pos == get_tile_pos(tile)
           a == point.x - pos.x
           b == point.y - pos.y
<1>1. h \in Nat /\ w \in Nat /\ x \in Nat /\ y \in Nat /\ point.x \in Int /\ point.y \in Int
  BY IsoAssumption, TilesArePoints DEF Points
<1>2. pos.x = (x - y) * w /\ pos.y = (x + y) * h
  BY <1>1 DEF get_tile_pos, At
<1>3. a \in Int /\ b \in Int
  BY <1>1, <1>2
<1>4. Area \in Nat /\ x * Area \in Nat /\ y * Area \in Nat /\ Area = w * h
  BY <1>1 DEF Area
<1>5. a * h = point.x * h - (x - y) * Area
  BY <1>1, <1>2, <1>4
<1>6. b * w = point.y * w - (x + y) * Area
  BY <1>1, <1>2, <1>4
<1>7. (x - y) * Area = x * Area - y * Area /\ (x + y) * Area = x * Area + y * Area
  BY <1>1, <1>4
<1>8. point.x * h \in Int /\ point.y * w \in Int
  BY <1>1
<1>9. /\ a * h + b * w = U(point) - 2 * (x * Area)
      /\ b * w - a * h = V(point) - 2 * (y * Area)
      /\ U(point) \in Int /\ V(point) \in Int
  <2> HIDE DEF a, b, x, y
  <2> QED BY <1>4, <1>5, <1>6, <1>7, <1>8 DEF U, V
<1> QED
  <2> DEFINE s == Abs(a) * h + Abs(b) * w
  <2>1. /\ s \in Int
        /\ a * h + b * w <= s /\ -(a * h + b * w) <= s
        /\ b * w - a * h <= s /\ a * h - b * w <= s
    BY <1>1, <1>3, AbsSum
  <2> HIDE DEF a, b, s
  <2>2. a * h \in Int /\ b * w \in Int
    BY <1>1, <1>3
  <2>3. /\ U(point) - 2 * (x * Area) <= s /\ 2 * (x * Area) - U(point) <= s
        /\ V(point) - 2 * (y * Area) <= s /\ 2 * (y * Area) - V(point) <= s
    <3> HIDE DEF x, y
    <3> QED BY <1>4, <1>9, <2>1, <2>2
  <2> QED BY <1>4, <1>9, <2>1, <2>3 DEF s, a, b

(* Products of an area keep the order of the factors, a whole area apart. *)
LEMMA AreasApart ==
  ASSUME NEW a \in Nat, NEW i \in Nat, NEW j \in Nat, i < j
  PROVE  i * a \in Nat /\ j * a \in Nat /\ i * a + a <= j * a
<1> DEFINE d == j - i - 1
<1>1. d \in Nat /\ j = i + 1 + d
  OBVIOUS
<1>2. d * a \in Nat /\ i * a \in Nat
  BY <1>1
<1>3. (i + 1 + d) * a = i * a + a + d * a
  BY <1>1
<1> QED BY <1>1, <1>2, <1>3

(* What is nearer than A to one place and within A of another. *)
LEMMA NotApart ==
  ASSUME NEW A \in Nat, NEW p \in Nat, NEW q \in Nat, NEW u \in Int,
         NEW s \in Int, NEW r \in Int, s + r < 2 * A,
         u - 2 * p <= s, 2 * q - u <= r
  PROVE  ~(p + A <= q)
OBVIOUS

(* A point inside a tile is in no other tile. *)
LEMMA OneTileInside ==
  ASSUME NEW point \in Points, NEW t \in Tiles, Inside(t, point),
         NEW other \in Tiles, is_in_tile(get_tile_pos(other), point)
  PROVE  other = t
<1> DEFINE A == Area
           s(tile) == Abs(point.x - get_tile_pos(tile).x) * HalfHeight
                        + Abs(point.y - get_tile_pos(tile).y) * HalfWidth
<1>1. /\ t.x \in Nat /\ t.y \in Nat /\ other.x \in Nat /\ other.y \in Nat
      /\ t = other <=> t.x = other.x /\ t.y = other.y
  BY TilesArePoints DEF Tiles
<1>2. A \in Nat /\ s(t) < A /\ s(other) <= A
  BY AlongSides DEF Inside, is_in_tile, Area
<1>3. /\ s(t) \in Int /\ t.x * A \in Nat /\ t.y * A \in Nat
      /\ U(point) \in Int /\ V(point) \in Int
      /\ U(point) - 2 * (t.x * A) <= s(t) /\ 2 * (t.x * A) - U(point) <= s(t)
      /\ V(point) - 2 * (t.y * A) <= s(t) /\ 2 * (t.y * A) - V(point) <= s(t)
  BY AlongSides
<1>4. /\ s(other) \in Int /\ other.x * A \in Nat /\ other.y * A \in Nat
      /\ U(point) - 2 * (other.x * A) <= s(other)
      /\ 2 * (other.x * A) - U(point) <= s(other)
      /\ V(point) - 2 * (other.y * A) <= s(other)
      /\ 2 * (other.y * A) - V(point) <= s(other)
  BY AlongSides
<1> HIDE DEF A, s
<1>5. s(t) + s(other) < 2 * A /\ s(other) + s(t) < 2 * A
  BY <1>2, <1>3, <1>4
<1>6. ~(t.x < other.x) /\ ~(t.y < other.y)
  <2>1. ~(t.x * A + A <= other.x * A) /\ ~(t.y * A + A <= other.y * A)
    BY <1>2, <1>3, <1>4, <1>5, NotApart
  <2> QED BY <1>1, <1>2, <2>1, AreasApart
<1>7. ~(other.x < t.x) /\ ~(other.y < t.y)
  <2>1. ~(other.x * A + A <= t.x * A) /\ ~(other.y * A + A <= t.y * A)
    BY <1>2, <1>3, <1>4, <1>5, NotApart
  <2> QED BY <1>1, <1>2, <2>1, AreasApart
<1> QED BY <1>1, <1>6, <1>7

-------------------------------------------------------------------------------
(* A set of naturals that is not empty has a least element. *)
LEMMA Least ==
  ASSUME NEW S \in SUBSET Nat, S # {}
  PROVE  \E i \in S : \A j \in S : i <= j
<1>1. PICK i \in S : \A j \in S : ~(<<j, i>> \in OpToRel(<, Nat))
  BY NatLessThanWellFounded, WFMin
<1>2. \A j \in S : ~(j < i)
  BY <1>1 DEF OpToRel
<1> QED BY <1>2

(* The search finds a tile that holds the point, if there is one. *)
LEMMA HoverFound ==
  ASSUME NEW point \in Points
  PROVE  \/ get_hover_tile(point) \in Under(point)
         \/ get_hover_tile(point) = NoTile /\ Under(point) = {}
<1>1. SUFFICES ASSUME Under(point) # {}
               PROVE  get_hover_tile(point) \in Under(point)
  BY DEF get_hover_tile
<1> DEFINE Found == Under(point)
           Rows == {tile.y : tile \in Found}
<1>2. \A tile \in Found : tile.x \in Nat /\ tile.y \in Nat
  BY TilesArePoints DEF Under
<1>3. PICK y \in Rows : \A j \in Rows : y <= j
  <2>1. Rows \in SUBSET Nat /\ Rows # {}
    BY <1>1, <1>2
  <2> QED BY <2>1, Least
<1> DEFINE Columns == {tile.x : tile \in {other \in Found : other.y = y}}
<1>4. PICK x \in Columns : \A j \in Columns : x <= j
  <2>1. Columns \in SUBSET Nat /\ Columns # {}
    BY <1>2, <1>3
  <2> QED BY <2>1, Least
<1>5. PICK first \in Found : first.y = y /\ first.x = x
  BY <1>4
<1>6. \A other \in Found : first.y < other.y \/ (first.y = other.y /\ first.x <= other.x)
  <2> TAKE other \in Found
  <2>1. y <= other.y /\ y \in Nat /\ other.y \in Nat
    BY <1>2, <1>3, <1>5
  <2>2. CASE other.y = y
    BY <1>4, <1>5, <2>2
  <2>3. CASE other.y # y
    BY <1>5, <2>1, <2>3
  <2> QED BY <2>2, <2>3
<1> HIDE DEF Found
<1>7. \E tile \in Found : \A other \in Found :
        tile.y < other.y \/ (tile.y = other.y /\ tile.x <= other.x)
  BY <1>5, <1>6
<1> QED BY <1>1, <1>7 DEF Found, get_hover_tile

-------------------------------------------------------------------------------
(* Where main is tells what is left to call, what the window is, what the  *)
(* demo holds and which call it waits for.                                 *)
Here(place, rest, win, resources, awaited) ==
  stage = place /\ calls = rest /\ window = win /\ held = resources /\ phase = awaited

Ready == IF app \in SetUp THEN Acquired[app] ELSE {}
Remains == IF app \in SetUp THEN Acquired[app] \ Released[app] ELSE {}
Waiting == IF app \in Ticking THEN "tick" ELSE "init"
Gone == IF app \in Ticking THEN "dropped" ELSE "init"

Starting == app = "INVALID" /\ Here("start", <<>>, "closed", {}, "init")

SettingUp ==
  \/ app \in SetUp /\ Here("setup", <<"InitWindow", "Init">>, "closed", {}, "init")
  \/ app \in SetUp /\ Here("setup", <<"Init">>, "open", {}, "init")
  \/ app \notin SetUp /\ Here("setup", <<"InitWindow">>, "closed", {}, "init")

Between == Here("setup", <<>>, "open", Ready, Waiting) \/ Here("loop", <<>>, "open", Ready, Waiting)

InFrame ==
  \/ /\ app \in Ticking
     /\ Here("loop", <<"BeginDrawing", "Tick", "Draw", "EndDrawing">>, "open", Ready, "tick")
  \/ /\ app \in {"ICONS", "MP"}
     /\ Here("loop", <<"BeginDrawing", "Draw", "EndDrawing">>, "open", Ready, "init")
  \/ /\ app = "INVALID"
     /\ Here("loop", <<"BeginDrawing", "EndDrawing">>, "open", Ready, "init")
  \/ app \in Ticking /\ Here("loop", <<"Tick", "Draw", "EndDrawing">>, "drawing", Ready, "tick")
  \/ app \in Ticking /\ Here("loop", <<"Draw", "EndDrawing">>, "drawing", Ready, "draw")
  \/ app \in {"ICONS", "MP"} /\ Here("loop", <<"Draw", "EndDrawing">>, "drawing", Ready, "init")
  \/ Here("loop", <<"EndDrawing">>, "drawing", Ready, Waiting)

TearingDown ==
  \/ app \in SetUp /\ Here("teardown", <<"Drop", "CloseWindow">>, "open", Ready, Waiting)
  \/ Here("teardown", <<"CloseWindow">>, "open", Remains, Gone)
  \/ Here("teardown", <<>>, "closed", Remains, Gone)

HasEnded == Here("ended", <<>>, "closed", Remains, Gone)

StageInv ==
  /\ app \in Apps /\ page \in {0, 1}
  /\ Starting \/ SettingUp \/ Between \/ InFrame \/ TearingDown \/ HasEnded

(* What a call leaves to be called. *)
LEMMA Called ==
  ASSUME NEW name, Call(name)
  PROVE  /\ app' = app /\ stage' = stage /\ calls # <<>>
         /\ calls = <<"InitWindow", "Init">> => name = "InitWindow" /\ calls' = <<"Init">>
         /\ calls = <<"Init">> => name = "Init" /\ calls' = <<>>
         /\ calls = <<"InitWindow">> => name = "InitWindow" /\ calls' = <<>>
         /\ calls = <<"BeginDrawing", "Tick", "Draw", "EndDrawing">> =>
              name = "BeginDrawing" /\ calls' = <<"Tick", "Draw", "EndDrawing">>
         /\ calls = <<"BeginDrawing", "Draw", "EndDrawing">> =>
              name = "BeginDrawing" /\ calls' = <<"Draw", "EndDrawing">>
         /\ calls = <<"BeginDrawing", "EndDrawing">> =>
              name = "BeginDrawing" /\ calls' = <<"EndDrawing">>
         /\ calls = <<"Tick", "Draw", "EndDrawing">> =>
              name = "Tick" /\ calls' = <<"Draw", "EndDrawing">>
         /\ calls = <<"Draw", "EndDrawing">> => name = "Draw" /\ calls' = <<"EndDrawing">>
         /\ calls = <<"EndDrawing">> => name = "EndDrawing" /\ calls' = <<>>
         /\ calls = <<"Drop", "CloseWindow">> => name = "Drop" /\ calls' = <<"CloseWindow">>
         /\ calls = <<"CloseWindow">> => name = "CloseWindow" /\ calls' = <<>>
<1>1. calls # <<>> /\ name = Head(calls) /\ calls' = Tail(calls) /\ app' = app /\ stage' = stage
  BY DEF Call
<1>2. /\ Head(<<"InitWindow", "Init">>) = "InitWindow" /\ Tail(<<"InitWindow", "Init">>) = <<"Init">>
      /\ Head(<<"Init">>) = "Init" /\ Tail(<<"Init">>) = <<>>
      /\ Head(<<"InitWindow">>) = "InitWindow" /\ Tail(<<"InitWindow">>) = <<>>
  OBVIOUS
<1>3. /\ Head(<<"BeginDrawing", "Tick", "Draw", "EndDrawing">>) = "BeginDrawing"
      /\ Tail(<<"BeginDrawing", "Tick", "Draw", "EndDrawing">>) = <<"Tick", "Draw", "EndDrawing">>
      /\ Head(<<"BeginDrawing", "Draw", "EndDrawing">>) = "BeginDrawing"
      /\ Tail(<<"BeginDrawing", "Draw", "EndDrawing">>) = <<"Draw", "EndDrawing">>
      /\ Head(<<"BeginDrawing", "EndDrawing">>) = "BeginDrawing"
      /\ Tail(<<"BeginDrawing", "EndDrawing">>) = <<"EndDrawing">>
  OBVIOUS
<1>4. /\ Head(<<"Tick", "Draw", "EndDrawing">>) = "Tick"
      /\ Tail(<<"Tick", "Draw", "EndDrawing">>) = <<"Draw", "EndDrawing">>
      /\ Head(<<"Draw", "EndDrawing">>) = "Draw"
      /\ Tail(<<"Draw", "EndDrawing">>) = <<"EndDrawing">>
      /\ Head(<<"EndDrawing">>) = "EndDrawing" /\ Tail(<<"EndDrawing">>) = <<>>
  OBVIOUS
<1>5. /\ Head(<<"Drop", "CloseWindow">>) = "Drop"
      /\ Tail(<<"Drop", "CloseWindow">>) = <<"CloseWindow">>
      /\ Head(<<"CloseWindow">>) = "CloseWindow" /\ Tail(<<"CloseWindow">>) = <<>>
  OBVIOUS
<1> QED  BY <1>1, <1>2, <1>3, <1>4, <1>5, Zenon

LEMMA AppsAre ==
  /\ Apps = {"INVALID", "ICONS", "MP", "BOIDS", "ISO"}
  /\ SetUp = {"MP", "BOIDS", "ISO"} /\ Ticking = {"BOIDS", "ISO"}
BY DEF Apps, SetUp, Ticking

LEMMA StageInit == Init => StageInv
BY DEF Init, IsoInit, InitIcons, StageInv, Apps, Starting, Here

(* The calls that are made of a demo come at their time. *)
LEMMA CallsInTime ==
  ASSUME StageInv
  PROVE  /\ InitDemo => calls = <<"Init">> /\ app \in SetUp /\ SettingUp
         /\ TickDemo => calls = <<"Tick", "Draw", "EndDrawing">> /\ app \in Ticking /\ InFrame
         /\ DrawDemo => calls = <<"Draw", "EndDrawing">> /\ app \in Ticking \union {"ICONS", "MP"}
                          /\ InFrame
         /\ DropDemo => calls = <<"Drop", "CloseWindow">> /\ app \in SetUp /\ TearingDown
<1> USE Called DEF StageInv, Starting, SettingUp, Between, InFrame, TearingDown, HasEnded, Here
<1>1. InitDemo => calls = <<"Init">> /\ app \in SetUp /\ SettingUp
  BY DEF InitDemo
<1>2. TickDemo => calls = <<"Tick", "Draw", "EndDrawing">> /\ app \in Ticking /\ InFrame
  BY DEF TickDemo
<1>3. DrawDemo => calls = <<"Draw", "EndDrawing">> /\ app \in Ticking \union {"ICONS", "MP"} /\ InFrame
  BY DEF DrawDemo
<1>4. DropDemo => calls = <<"Drop", "CloseWindow">> /\ app \in SetUp /\ TearingDown
  BY DEF DropDemo
<1> QED  BY <1>1, <1>2, <1>3, <1>4

(* What the calls of the demos do to what main relies on. *)
LEMMA DemoCalls ==
  ASSUME StageInv
  PROVE  /\ InitDemo => /\ UNCHANGED <<app, stage, window, page>> /\ calls' = <<>> /\ held' = Ready
                        /\ phase = "init" => phase' = Waiting
         /\ TickDemo => /\ UNCHANGED <<app, stage, window, held, page>> /\ phase' = "draw"
                        /\ calls' = <<"Draw", "EndDrawing">>
         /\ DrawDemo => /\ UNCHANGED <<app, stage, window, held>> /\ calls' = <<"EndDrawing">>
                        /\ phase' = Waiting /\ page' \in {0, 1}
         /\ DropDemo => /\ UNCHANGED <<app, stage, window, page>> /\ calls' = <<"CloseWindow">>
                        /\ held' = held \ Released[app] /\ phase' = Gone
<1>1. ASSUME InitDemo
      PROVE  /\ UNCHANGED <<app, stage, window, page>> /\ calls' = <<>> /\ held' = Ready
             /\ phase = "init" => phase' = Waiting
  <2>1. app \in SetUp /\ calls = <<"Init">> /\ Call("Init")
    BY <1>1, CallsInTime DEF InitDemo
  <2>2. UNCHANGED <<app, stage, window>> /\ calls' = <<>> /\ held' = Ready
    BY <1>1, <2>1, Called DEF InitDemo, Ready
  <2>3. CASE app = "ISO"
    BY <1>1, <2>2, <2>3, AppsAre DEF InitDemo, InitIsoApp, Waiting
  <2>4. CASE app = "BOIDS"
    BY <1>1, <2>2, <2>4, AppsAre DEF InitDemo, InitBoidsApp, Waiting
  <2>5. CASE app = "MP"
    BY <1>1, <2>2, <2>5, AppsAre DEF InitDemo, demos, Waiting
  <2> QED  BY <2>1, <2>2, <2>3, <2>4, <2>5, AppsAre
<1>2. ASSUME TickDemo
      PROVE  /\ UNCHANGED <<app, stage, window, held, page>> /\ phase' = "draw"
             /\ calls' = <<"Draw", "EndDrawing">>
  <2>1. app \in Ticking /\ calls = <<"Tick", "Draw", "EndDrawing">> /\ Call("Tick")
    BY <1>2, CallsInTime DEF TickDemo
  <2>2. UNCHANGED <<app, stage, window, held>> /\ calls' = <<"Draw", "EndDrawing">>
    BY <1>2, <2>1, Called DEF TickDemo
  <2>3. CASE app = "ISO"
    BY <1>2, <2>2, <2>3 DEF TickDemo, TickIso, TickIsoApp
  <2>4. CASE app = "BOIDS"
    BY <1>2, <2>2, <2>4 DEF TickDemo, TickBoidsApp
  <2> QED  BY <2>1, <2>3, <2>4, AppsAre
<1>3. ASSUME DrawDemo
      PROVE  /\ UNCHANGED <<app, stage, window, held>> /\ calls' = <<"EndDrawing">>
             /\ phase' = Waiting /\ page' \in {0, 1}
  <2>1. /\ app \in Ticking \union {"ICONS", "MP"} /\ calls = <<"Draw", "EndDrawing">> /\ Call("Draw")
        /\ InFrame /\ page \in {0, 1}
    BY <1>3, CallsInTime DEF DrawDemo, StageInv
  <2>2. UNCHANGED <<app, stage, window, held>> /\ calls' = <<"EndDrawing">>
    BY <1>3, <2>1, Called DEF DrawDemo
  <2>3. CASE app = "ISO"
    BY <1>3, <2>1, <2>2, <2>3, AppsAre DEF DrawDemo, DrawIsoApp, Waiting
  <2>4. CASE app = "BOIDS"
    BY <1>3, <2>1, <2>2, <2>4, AppsAre DEF DrawDemo, DrawBoidsApp, Waiting
  <2>5. ASSUME app \in {"ICONS", "MP"} PROVE phase = Waiting
    <3>1. app \notin Ticking
      BY <2>5, AppsAre
    <3>2. phase = "init" \/ phase = Waiting
      BY <2>1, <3>1 DEF InFrame, Here
    <3> QED  BY <3>1, <3>2 DEF Waiting
  <2>6. CASE app = "ICONS"
    BY <1>3, <2>1, <2>2, <2>5, <2>6 DEF DrawDemo, DrawIconSwatch, Waiting
  <2>7. CASE app = "MP"
    BY <1>3, <2>1, <2>2, <2>5, <2>7 DEF DrawDemo, demos, Waiting
  <2> QED  BY <2>1, <2>3, <2>4, <2>6, <2>7, AppsAre
<1>4. ASSUME DropDemo
      PROVE  /\ UNCHANGED <<app, stage, window, page>> /\ calls' = <<"CloseWindow">>
             /\ held' = held \ Released[app] /\ phase' = Gone
  <2>1. /\ app \in SetUp /\ calls = <<"Drop", "CloseWindow">> /\ Call("Drop") /\ TearingDown
    BY <1>4, CallsInTime DEF DropDemo
  <2>2. UNCHANGED <<app, stage, window>> /\ calls' = <<"CloseWindow">> /\ held' = held \ Released[app]
    BY <1>4, <2>1, Called DEF DropDemo
  <2>3. CASE app = "ISO"
    BY <1>4, <2>2, <2>3, AppsAre DEF DropDemo, DropIsoApp, Gone
  <2>4. CASE app = "BOIDS"
    BY <1>4, <2>2, <2>4, AppsAre DEF DropDemo, DropBoidsApp, Gone
  <2>5. CASE app = "MP"
    <3>1. app \notin Ticking
      BY <2>5, AppsAre
    <3>2. phase = Waiting \/ phase = Gone
      BY <2>1 DEF TearingDown, Here
    <3>3. phase = "init"
      BY <3>1, <3>2 DEF Waiting, Gone
    <3> QED  BY <1>4, <2>2, <2>5, <3>1, <3>3 DEF DropDemo, demos, Gone
  <2> QED  BY <2>1, <2>2, <2>3, <2>4, <2>5, AppsAre
<1> QED  BY <1>1, <1>2, <1>3, <1>4

LEMMA StageStep == StageInv /\ [Next]_vars => StageInv'
<1> SUFFICES ASSUME StageInv, [Next]_vars PROVE StageInv'
  OBVIOUS
<1>1. app \in Apps /\ page \in {0, 1}
  BY DEF StageInv
<1>2. ASSUME app' = app
      PROVE  Ready' = Ready /\ Remains' = Remains /\ Waiting' = Waiting /\ Gone' = Gone
  BY <1>2 DEF Ready, Remains, Waiting, Gone
<1> USE DEF Here
<1>3. CASE RunTest
  <2>1. Starting /\ UNCHANGED <<app, calls, window, held, page, phase>> /\ stage' = "ended"
    BY <1>3 DEF RunTest, StageInv, Starting, SettingUp, Between, InFrame, TearingDown, HasEnded, demos
  <2>2. HasEnded'
    BY <1>2, <2>1, AppsAre DEF Starting, HasEnded, Remains, Gone
  <2> QED  BY <1>1, <2>1, <2>2 DEF StageInv
<1>4. ASSUME NEW a \in Apps, Start(a) PROVE StageInv'
  <2>1. Starting
    BY <1>4 DEF Start, StageInv, Starting, SettingUp, Between, InFrame, TearingDown, HasEnded
  <2>2. /\ app' = a /\ calls' = Setup(a) /\ stage' = "setup" /\ window' = "closed" /\ held' = {}
        /\ phase' = "init" /\ page' = page
    BY <1>4, <2>1 DEF Start, Starting, demos
  <2>3. SettingUp'
    BY <2>2 DEF Setup, SettingUp
  <2> QED  BY <1>1, <1>4, <2>2, <2>3 DEF StageInv
<1>5. CASE NextFrame
  <2>1. Between
    BY <1>5 DEF NextFrame, StageInv, Starting, SettingUp, Between, InFrame, TearingDown, HasEnded
  <2>2. /\ app' = app /\ stage' = "loop" /\ calls' = Frame(app) /\ window' = "open" /\ held' = Ready
        /\ phase' = Waiting /\ page' = page
    BY <1>5, <2>1 DEF NextFrame, Between, demos
  <2>3. /\ app \in Ticking => Frame(app) = <<"BeginDrawing", "Tick", "Draw", "EndDrawing">>
        /\ app \in {"ICONS", "MP"} => Frame(app) = <<"BeginDrawing", "Draw", "EndDrawing">>
        /\ app = "INVALID" => Frame(app) = <<"BeginDrawing", "EndDrawing">>
    BY AppsAre DEF Frame
  <2>4. InFrame'
    BY <1>1, <1>2, <2>2, <2>3, AppsAre DEF InFrame, Waiting
  <2> QED  BY <1>1, <2>2, <2>4 DEF StageInv
<1>6. CASE LeaveLoop
  <2>1. Between
    BY <1>6 DEF LeaveLoop, StageInv, Starting, SettingUp, Between, InFrame, TearingDown, HasEnded
  <2>2. /\ app' = app /\ stage' = "teardown" /\ calls' = Teardown(app) /\ window' = "open"
        /\ held' = Ready /\ phase' = Waiting /\ page' = page
    BY <1>6, <2>1 DEF LeaveLoop, Between, demos
  <2>3. TearingDown'
    <3>1. CASE app \in SetUp
      BY <1>2, <2>2, <3>1 DEF TearingDown, Teardown
    <3>2. CASE app \notin SetUp
      <4>1. app \notin Ticking
        BY <3>2, AppsAre
      <4> QED  BY <1>2, <2>2, <3>2, <4>1 DEF TearingDown, Teardown, Ready, Remains, Waiting, Gone
    <3> QED  BY <3>1, <3>2
  <2> QED  BY <1>1, <2>2, <2>3 DEF StageInv
<1>7. CASE Return
  <2>1. Here("teardown", <<>>, "closed", Remains, Gone)
    BY <1>7 DEF Return, StageInv, Starting, SettingUp, Between, InFrame, TearingDown, HasEnded
  <2>2. UNCHANGED <<app, calls, window, held, page, phase>> /\ stage' = "ended"
    BY <1>7 DEF Return, demos
  <2>3. HasEnded'
    BY <1>2, <2>1, <2>2 DEF HasEnded
  <2> QED  BY <1>1, <2>2, <2>3 DEF StageInv
<1>8. CASE CallWindow
  <2>1. PICK name \in DOMAIN Windows : Call(name) /\ window' = Windows[name] /\ UNCHANGED <<held, demos>>
    BY <1>8 DEF CallWindow
  <2>2. /\ name \in {"InitWindow", "BeginDrawing", "EndDrawing", "CloseWindow"}
        /\ name = "InitWindow" => window' = "open"
        /\ name = "BeginDrawing" => window' = "drawing"
        /\ name = "EndDrawing" => window' = "open"
        /\ name = "CloseWindow" => window' = "closed"
    BY <2>1 DEF Windows
  <2>3. UNCHANGED <<app, stage, held, phase, page>> /\ calls # <<>>
    BY <2>1, Called DEF demos
  <2>4. CASE SettingUp
    <3>1. CASE app \in SetUp
      <4>1. calls = <<"InitWindow", "Init">> /\ window' = "open" /\ calls' = <<"Init">>
        BY <2>1, <2>2, <2>4, <3>1, Called DEF SettingUp
      <4>2. SettingUp'
        BY <2>3, <2>4, <3>1, <4>1 DEF SettingUp
      <4> QED  BY <1>1, <2>3, <4>2 DEF StageInv
    <3>2. CASE app \notin SetUp
      <4>1. calls = <<"InitWindow">> /\ window' = "open" /\ calls' = <<>>
        BY <2>1, <2>2, <2>4, <3>2, Called DEF SettingUp
      <4>2. Between'
        BY <1>2, <2>3, <2>4, <3>2, <4>1, AppsAre DEF SettingUp, Between, Ready, Waiting
      <4> QED  BY <1>1, <2>3, <4>2 DEF StageInv
    <3> QED  BY <3>1, <3>2
  <2>5. CASE InFrame
    <3>1. InFrame' \/ Between'
      <4>1. stage = "loop" /\ held = Ready
        BY <2>5 DEF InFrame
      <4>2. \/ /\ app \in Ticking /\ phase = "tick" /\ name = "BeginDrawing"
               /\ calls' = <<"Tick", "Draw", "EndDrawing">>
            \/ /\ app \in {"ICONS", "MP"} /\ phase = "init" /\ name = "BeginDrawing"
               /\ calls' = <<"Draw", "EndDrawing">>
            \/ /\ app = "INVALID" /\ phase = "init" /\ name = "BeginDrawing"
               /\ calls' = <<"EndDrawing">>
            \/ phase = Waiting /\ name = "EndDrawing" /\ calls' = <<>>
        BY <2>1, <2>2, <2>5, Called, Zenon DEF InFrame
      <4>3. phase = "init" /\ app \notin Ticking => phase = Waiting
        BY DEF Waiting
      <4>4. CASE name = "BeginDrawing"
        <5>1. window' = "drawing" /\ stage' = "loop" /\ held' = Ready' /\ phase' = phase /\ app' = app
          BY <1>2, <2>2, <2>3, <4>1, <4>4
        <5>2. CASE app \in Ticking /\ phase = "tick" /\ calls' = <<"Tick", "Draw", "EndDrawing">>
          BY <5>1, <5>2 DEF InFrame
        <5>3. CASE app \in {"ICONS", "MP"} /\ phase = "init" /\ calls' = <<"Draw", "EndDrawing">>
          BY <5>1, <5>3 DEF InFrame
        <5>4. CASE app = "INVALID" /\ phase = "init" /\ calls' = <<"EndDrawing">>
          <6>1. Waiting' = "init"
            BY <1>2, <2>3, <5>4, AppsAre DEF Waiting
          <6> QED  BY <5>1, <5>4, <6>1 DEF InFrame
        <5> QED  BY <4>2, <4>4, <5>2, <5>3, <5>4
      <4>5. CASE name = "EndDrawing"
        BY <1>2, <2>2, <2>3, <4>1, <4>2, <4>5 DEF Between
      <4> QED  BY <4>2, <4>4, <4>5
    <3> QED  BY <1>1, <2>3, <3>1 DEF StageInv
  <2>6. CASE TearingDown
    <3>1. calls = <<"CloseWindow">> /\ calls' = <<>> /\ window' = "closed"
      BY <2>1, <2>2, <2>6, Called DEF TearingDown
    <3>2. TearingDown'
      BY <1>2, <2>3, <2>6, <3>1 DEF TearingDown
    <3> QED  BY <1>1, <2>3, <3>2 DEF StageInv
  <2> QED  BY <2>3, <2>4, <2>5, <2>6 DEF StageInv, Starting, Between, HasEnded
<1>9. CASE InitDemo
  <2>1. Here("setup", <<"Init">>, "open", {}, "init")
    BY <1>9, CallsInTime DEF SettingUp
  <2>2. Between'
    BY <1>2, <1>9, <2>1, DemoCalls DEF Between
  <2> QED  BY <1>1, <1>9, <2>2, DemoCalls DEF StageInv
<1>10. CASE TickDemo
  <2>1. app \in Ticking /\ Here("loop", <<"Tick", "Draw", "EndDrawing">>, "drawing", Ready, "tick")
    BY <1>10, CallsInTime, AppsAre DEF InFrame
  <2>2. InFrame'
    BY <1>2, <1>10, <2>1, DemoCalls DEF InFrame
  <2> QED  BY <1>1, <1>10, <2>2, DemoCalls DEF StageInv
<1>11. CASE DrawDemo
  <2>1. stage = "loop" /\ window = "drawing" /\ held = Ready
    BY <1>11, CallsInTime DEF InFrame
  <2>2. InFrame'
    BY <1>2, <1>11, <2>1, DemoCalls DEF InFrame
  <2> QED  BY <1>1, <1>11, <2>2, DemoCalls DEF StageInv
<1>12. CASE DropDemo
  <2>1. app \in SetUp /\ stage = "teardown" /\ window = "open" /\ held = Ready
    BY <1>12, CallsInTime DEF TearingDown
  <2>2. held' = Remains
    BY <1>12, <2>1, DemoCalls DEF Ready, Remains
  <2>3. TearingDown'
    BY <1>2, <1>12, <2>1, <2>2, DemoCalls DEF TearingDown
  <2> QED  BY <1>1, <1>12, <2>3, DemoCalls DEF StageInv
<1>13. CASE Ended \/ UNCHANGED vars
  <2>1. UNCHANGED <<app, calls, stage, window, held, page, phase>>
    BY <1>13 DEF Ended, vars, demos
  <2> QED
    BY <1>2, <2>1 DEF StageInv, Starting, SettingUp, Between, InFrame, TearingDown, HasEnded
<1> QED
  BY <1>3, <1>4, <1>5, <1>6, <1>7, <1>8, <1>9, <1>10, <1>11, <1>12, <1>13 DEF Next

LEMMA Resources ==
  ASSUME NEW a \in SetUp
  PROVE  Needed[a] \subseteq Acquired[a] /\ (Acquired[a] \ Released[a]) \intersect Released[a] = {}
<1>1. /\ Needed["ISO"] \subseteq Acquired["ISO"] /\ Needed["MP"] \subseteq Acquired["MP"]
      /\ Needed["BOIDS"] \subseteq Acquired["BOIDS"]
  BY DEF Needed, Acquired
<1> QED  BY <1>1, AppsAre

(* Whatever demo runs, for every size of raygui's table and of the pages:  *)
(* a demo draws inside a frame of the window with what it acquired, and    *)
(* leaves nothing it releases to a time without a window (main).           *)
THEOREM FramesAlwaysHave == Spec => []FramesHaveWhatTheyDraw
<1>1. Spec => []StageInv
  BY StageInit, StageStep, PTL DEF Spec
<1>2. StageInv => FramesHaveWhatTheyDraw
  <2> SUFFICES ASSUME StageInv PROVE FramesHaveWhatTheyDraw
    OBVIOUS
  <2>1. Icons(page) \subseteq 0..(RAYGUI_ICON_MAX_ICONS - 1)
    <3>1. page \in {0, 1} /\ PAGE_SIZE \in Nat /\ RAYGUI_ICON_MAX_ICONS \in Nat
          /\ 2 * PAGE_SIZE <= RAYGUI_ICON_MAX_ICONS
      BY SwatchAssumption DEF StageInv
    <3>2. PAGE_SIZE * 0 = 0 /\ PAGE_SIZE * 1 = PAGE_SIZE
      BY <3>1
    <3> QED  BY <3>1, <3>2 DEF Icons
  <2>2. ASSUME calls # <<>>, Head(calls) = "Draw" PROVE window = "drawing" /\ held = Ready
    <3>1. ~Starting /\ ~Between /\ ~HasEnded
      BY <2>2 DEF Starting, Between, HasEnded, Here
    <3>2. ~SettingUp
      BY <2>2 DEF SettingUp, Here
    <3>3. ~TearingDown
      BY <2>2 DEF TearingDown, Here
    <3>4. InFrame
      BY <3>1, <3>2, <3>3 DEF StageInv
    <3> QED  BY <2>2, <3>4 DEF InFrame, Here
  <2>3. ASSUME app \in SetUp, calls # <<>>, Head(calls) = "Draw" PROVE Needed[app] \subseteq held
    BY <2>2, <2>3, Resources DEF Ready
  <2>4. ASSUME app \in SetUp, window = "closed" PROVE held \intersect Released[app] = {}
    <3>1. held = {} \/ held = Remains
      BY <2>4 DEF StageInv, Starting, SettingUp, Between, InFrame, TearingDown, HasEnded, Here
    <3> QED  BY <2>4, <3>1, Resources DEF Remains
  <2> QED  BY <2>1, <2>2, <2>3, <2>4 DEF FramesHaveWhatTheyDraw
<1> QED  BY <1>1, <1>2, PTL

-------------------------------------------------------------------------------
(* What a step of the program is for the isometric demo: one of its calls, *)
(* while it is the demo that runs, a step of another demo, or none at all. *)
LEMMA IsoSteps ==
  ASSUME StageInv, [Next]_vars
  PROVE  \/ /\ app = "ISO" /\ app' = "ISO"
            /\ InitIsoApp \/ TickIso \/ DrawIsoApp \/ DropIsoApp
         \/ app # "ISO" /\ app' = app /\ phase' # "init" /\ UNCHANGED isoData
         \/ (app' = app \/ phase = "init") /\ UNCHANGED <<phase, isoData>>
<1>1. CASE InitDemo
  <2>1. app \in SetUp /\ app' = app
    BY <1>1, CallsInTime DEF InitDemo, Call
  <2>2. CASE app = "ISO"
    BY <1>1, <2>1, <2>2 DEF InitDemo
  <2>3. CASE app = "BOIDS"
    BY <1>1, <2>1, <2>3 DEF InitDemo, InitBoidsApp
  <2>4. CASE app = "MP"
    BY <1>1, <2>1, <2>4 DEF InitDemo, demos
  <2> QED  BY <2>1, <2>2, <2>3, <2>4, AppsAre
<1>2. CASE TickDemo
  <2>1. app \in Ticking /\ app' = app
    BY <1>2, CallsInTime DEF TickDemo, Call
  <2>2. CASE app = "ISO"
    BY <1>2, <2>1, <2>2 DEF TickDemo
  <2>3. CASE app = "BOIDS"
    BY <1>2, <2>1, <2>3 DEF TickDemo, TickBoidsApp
  <2> QED  BY <2>1, <2>2, <2>3, AppsAre
<1>3. CASE DrawDemo
  <2>1. app \in Ticking \union {"ICONS", "MP"} /\ app' = app
    BY <1>3, CallsInTime DEF DrawDemo, Call
  <2>2. CASE app = "ISO"
    BY <1>3, <2>1, <2>2 DEF DrawDemo
  <2>3. CASE app = "BOIDS"
    BY <1>3, <2>1, <2>3 DEF DrawDemo, DrawBoidsApp
  <2>4. CASE app = "ICONS"
    BY <1>3, <2>1, <2>4 DEF DrawDemo
  <2>5. CASE app = "MP"
    BY <1>3, <2>1, <2>5 DEF DrawDemo, demos
  <2> QED  BY <2>1, <2>2, <2>3, <2>4, <2>5, AppsAre
<1>4. CASE DropDemo
  <2>1. app \in SetUp /\ app' = app
    BY <1>4, CallsInTime DEF DropDemo, Call
  <2>2. CASE app = "ISO"
    BY <1>4, <2>1, <2>2 DEF DropDemo
  <2>3. CASE app = "BOIDS"
    BY <1>4, <2>1, <2>3 DEF DropDemo, DropBoidsApp
  <2>4. CASE app = "MP"
    BY <1>4, <2>1, <2>4 DEF DropDemo, demos
  <2> QED  BY <2>1, <2>2, <2>3, <2>4, AppsAre
<1>5. ASSUME NEW a \in Apps, Start(a) PROVE phase = "init" /\ UNCHANGED <<phase, isoData>>
  <2>1. Starting
    BY <1>5 DEF Start, StageInv, Starting, SettingUp, Between, InFrame, TearingDown, HasEnded, Here
  <2> QED  BY <1>5, <2>1 DEF Start, Starting, Here, demos
<1>6. CASE CallWindow
  BY <1>6 DEF CallWindow, Call, demos
<1>7. CASE RunTest \/ NextFrame \/ LeaveLoop \/ Return \/ Ended \/ UNCHANGED vars
  BY <1>7 DEF RunTest, NextFrame, LeaveLoop, Return, Ended, vars, demos
<1> QED  BY <1>1, <1>2, <1>3, <1>4, <1>5, <1>6, <1>7 DEF Next

(* Until the demo has drawn, the view is blank; then, between two frames,  *)
(* it shows what the camera and the animation still stand at, and within   *)
(* a frame what they stood at before the tick.                             *)
IsoTypes ==
  /\ {charpos, camera, mouse} \subseteq Points
  /\ {hover, target} \subseteq Tiles \union {NoTile}
  /\ dmode \in {0, 1}
  /\ animidx \in {AN_IDLE, AN_RUN}

ViewInv ==
  /\ phase = "init" => view = Blank /\ animidx = AN_IDLE
  /\ app = "ISO" /\ phase = "tick" =>
       /\ view.camera = camera /\ view.sheet = animidx
       /\ view # Blank => camera = charpos
  /\ app = "ISO" /\ phase = "draw" =>
       /\ camera = charpos
       /\ hover = get_hover_tile(ToWorld(mouse, view.camera))
       /\ view # Blank => (animidx = AN_RUN <=> camera # view.camera)
       /\ animidx # view.sheet => findex = 0

IsoInv == StageInv /\ IsoTypes /\ ViewInv

LEMMA SeenInWorld ==
  ASSUME NEW m \in Points, NEW c \in Points
  PROVE  ToWorld(m, c) \in Points
BY IsoAssumption DEF ToWorld, Plus, Minus, At, Points

LEMMA HoverTyped ==
  ASSUME NEW point \in Points
  PROVE  get_hover_tile(point) \in Tiles \union {NoTile}
BY HoverFound DEF Under

LEMMA IsoInvInit == Init => IsoInv
<1> SUFFICES ASSUME Init PROVE IsoTypes /\ ViewInv
  BY StageInit DEF IsoInv
<1>1. IsoInit
  BY DEF Init
<1>2. At(0, 0) \in Points /\ At(0, 0) \in Tiles
  BY IsoAssumption DEF At, Points, Tiles
<1> QED  BY <1>1, <1>2 DEF IsoInit, IsoTypes, ViewInv

(* A tick: where it looks, where it goes, and what it animates. *)
TickedTo(m, movement) ==
  /\ phase = "tick" /\ phase' = "draw" /\ view' = view
  /\ dmode' \in {dmode, 1 - dmode}
  /\ mouse' = m /\ hover' = get_hover_tile(ToWorld(m, camera))
  /\ target' \in {hover', target}
  /\ charpos' = Plus(charpos, movement) /\ charpos' \in World /\ camera' = charpos'
  /\ animidx' = IF movement # At(0, 0) THEN AN_RUN ELSE AN_IDLE
  /\ animidx' # animidx => findex' = 0

LEMMA TickGoes ==
  ASSUME IsoTypes, TickIso
  PROVE  \E m \in Mice, step \in Points : TickedTo(m, step)
<1>1. PICK m \in Mice, keys \in SUBSET Keys, click \in BOOLEAN, toggle \in BOOLEAN :
        TickIsoApp(m, keys, click, toggle)
  BY DEF TickIso
<1> DEFINE movement == Movement(keys)
<1>2. movement \in Points
  BY DEF Movement, At, Points, Axis
<1>3. Animate(movement)
  BY <1>1 DEF TickIsoApp
<1> HIDE DEF movement
<1>4. animidx' = IF movement # At(0, 0) THEN AN_RUN ELSE AN_IDLE
  BY <1>3 DEF Animate, IsoTypes, AN_RUN, AN_IDLE
<1>5. animidx' # animidx => findex' = 0
  BY <1>3 DEF Animate, IsoTypes, AN_RUN, AN_IDLE
<1>6. /\ phase = "tick" /\ phase' = "draw" /\ view' = view
      /\ dmode' \in {dmode, 1 - dmode}
      /\ mouse' = m /\ hover' = get_hover_tile(ToWorld(m, camera))
      /\ target' \in {hover', target}
      /\ charpos' = Plus(charpos, movement) /\ charpos' \in World /\ camera' = charpos'
  BY <1>1 DEF TickIsoApp, Seen, movement
<1>7. TickedTo(m, movement)
  BY <1>4, <1>5, <1>6 DEF TickedTo
<1> QED  BY <1>2, <1>7, Zenon

LEMMA PlusMoves ==
  ASSUME NEW p \in Points, NEW q \in Points
  PROVE  Plus(p, q) # p <=> q # At(0, 0)
<1>1. /\ p.x \in Int /\ p.y \in Int /\ q.x \in Int /\ q.y \in Int
      /\ p = At(p.x, p.y) /\ q = At(q.x, q.y)
  BY DEF At, Points
<1>2. Plus(p, q) = At(p.x + q.x, p.y + q.y)
  BY DEF Plus
<1>3. \A a, b, c, d : At(a, b) = At(c, d) <=> a = c /\ b = d
  BY DEF At
<1>4. Plus(p, q) = p <=> p.x + q.x = p.x /\ p.y + q.y = p.y
  <2>1. At(p.x + q.x, p.y + q.y) = At(p.x, p.y) <=> p.x + q.x = p.x /\ p.y + q.y = p.y
    BY <1>3
  <2> QED  BY <1>1, <1>2, <2>1
<1>5. q = At(0, 0) <=> q.x = 0 /\ q.y = 0
  <2>1. At(q.x, q.y) = At(0, 0) <=> q.x = 0 /\ q.y = 0
    BY <1>3
  <2> QED  BY <1>1, <2>1
<1>6. p.x + q.x = p.x /\ p.y + q.y = p.y <=> q.x = 0 /\ q.y = 0
  BY <1>1
<1> QED  BY <1>4, <1>5, <1>6, Zenon

LEMMA IsoInvStep == IsoInv /\ [Next]_vars => IsoInv'
<1> SUFFICES ASSUME IsoInv, [Next]_vars PROVE (IsoTypes /\ ViewInv)'
  BY StageStep DEF IsoInv
<1>1. StageInv /\ IsoTypes /\ ViewInv
  BY DEF IsoInv
<1>2. CASE app = "ISO" /\ app' = "ISO" /\ TickIso
  <2>0. PICK m \in Mice, step \in Points : TickedTo(m, step)
    BY <1>1, <1>2, TickGoes, Zenon
  <2>1. /\ phase = "tick" /\ phase' = "draw" /\ view' = view
        /\ dmode' \in {dmode, 1 - dmode}
        /\ mouse' = m /\ hover' = get_hover_tile(ToWorld(m, camera))
        /\ target' \in {hover', target}
        /\ charpos' = Plus(charpos, step) /\ charpos' \in World /\ camera' = charpos'
        /\ animidx' = IF step # At(0, 0) THEN AN_RUN ELSE AN_IDLE
        /\ animidx' # animidx => findex' = 0
    BY <2>0 DEF TickedTo
  <2>2. m \in Points /\ {charpos, camera} \subseteq Points /\ charpos' \in Points
    BY <1>1, <2>1, IsoAssumption DEF IsoTypes
  <2>3. hover' \in Tiles \union {NoTile}
    BY <2>1, <2>2, SeenInWorld, HoverTyped
  <2>4. IsoTypes'
    BY <1>1, <2>1, <2>2, <2>3 DEF IsoTypes
  <2>5. view.camera = camera /\ view.sheet = animidx /\ (view # Blank => camera = charpos)
    BY <1>1, <1>2, <2>1 DEF ViewInv
  <2>6. charpos' # charpos <=> step # At(0, 0)
    <3>1. charpos \in Points /\ step \in Points /\ charpos' = Plus(charpos, step)
      BY <2>1, <2>2
    <3>2. Plus(charpos, step) # charpos <=> step # At(0, 0)
      BY <3>1, PlusMoves
    <3> QED  BY <3>1, <3>2, Zenon
  <2>7. view # Blank => (animidx' = AN_RUN <=> camera' # view.camera)
    BY <2>1, <2>5, <2>6 DEF AN_RUN, AN_IDLE
  <2>8. hover' = get_hover_tile(ToWorld(mouse', view.camera)) /\ (animidx' # view.sheet => findex' = 0)
    BY <2>1, <2>5
  <2>9. ViewInv'
    BY <2>1, <2>7, <2>8 DEF ViewInv
  <2> QED  BY <2>4, <2>9
<1>3. CASE app = "ISO" /\ app' = "ISO" /\ DrawIsoApp
  <2>1. IsoTypes'
    BY <1>1, <1>3 DEF DrawIsoApp, IsoTypes
  <2>2. /\ phase = "draw" /\ phase' = "tick" /\ UNCHANGED <<charpos, camera, animidx>>
        /\ view'.camera = camera /\ view'.sheet = animidx
    BY <1>3 DEF DrawIsoApp
  <2>3. camera = charpos
    BY <1>1, <1>3, <2>2 DEF ViewInv
  <2>4. ViewInv'
    BY <2>2, <2>3 DEF ViewInv
  <2> QED  BY <2>1, <2>4
<1>4. CASE app = "ISO" /\ app' = "ISO" /\ InitIsoApp
  <2>1. /\ phase = "init" /\ phase' = "tick" /\ charpos' = At(0, 0) /\ camera' = ScreenCentre
        /\ UNCHANGED <<mouse, hover, target, dmode, animidx, view>>
    BY <1>4 DEF InitIsoApp
  <2>2. view = Blank /\ animidx = AN_IDLE
    BY <1>1, <2>1 DEF ViewInv
  <2>3. IsoTypes'
    BY <1>1, <2>1, IsoAssumption DEF IsoTypes, At, Points
  <2>4. ViewInv'
    BY <2>1, <2>2 DEF ViewInv, Blank
  <2> QED  BY <2>3, <2>4
<1>5. CASE app = "ISO" /\ app' = "ISO" /\ DropIsoApp
  BY <1>1, <1>5 DEF DropIsoApp, isoData, IsoTypes, ViewInv
<1>6. CASE app # "ISO" /\ app' = app /\ phase' # "init" /\ UNCHANGED isoData
  BY <1>1, <1>6 DEF isoData, IsoTypes, ViewInv
<1>7. CASE (app' = app \/ phase = "init") /\ UNCHANGED <<phase, isoData>>
  BY <1>1, <1>7 DEF isoData, IsoTypes, ViewInv
<1> QED  BY <1>1, <1>2, <1>3, <1>4, <1>5, <1>6, <1>7, IsoSteps

LEMMA AlwaysIsoInv == Spec => []IsoInv
BY IsoInvInit, IsoInvStep, PTL DEF Spec

(* A click picks the tile that the last picture shows under the mouse, for *)
(* every map, every tile size and every mouse position (TickIsoApp).       *)
THEOREM AlwaysAimsAtWhatIsSeen == Spec => AimsAtWhatIsSeen
<1>1. IsoInv /\ [Next]_vars =>
        (app = "ISO" /\ phase = "tick" /\ phase' = "draw" =>
           LET point == ToWorld(mouse', view.camera)
           IN  /\ \/ hover' \in Under(point)
                  \/ hover' = NoTile /\ Under(point) = {}
               /\ \A tile \in Tiles : Inside(tile, point) => hover' = tile)
  <2> SUFFICES ASSUME IsoInv, [Next]_vars, app = "ISO", phase = "tick", phase' = "draw"
               PROVE  LET point == ToWorld(mouse', view.camera)
                      IN  /\ \/ hover' \in Under(point)
                             \/ hover' = NoTile /\ Under(point) = {}
                          /\ \A tile \in Tiles : Inside(tile, point) => hover' = tile
    OBVIOUS
  <2> DEFINE point == ToWorld(mouse', view.camera)
  <2>1. StageInv /\ IsoTypes /\ ViewInv
    BY DEF IsoInv
  <2>2. TickIso
    BY <2>1, IsoSteps DEF InitIsoApp, DrawIsoApp, DropIsoApp
  <2>3. PICK m \in Mice, step \in Points : TickedTo(m, step)
    BY <2>1, <2>2, TickGoes, Zenon
  <2>4. camera \in Points /\ m \in Points /\ view.camera = camera
    BY <2>1, IsoAssumption DEF IsoTypes, ViewInv
  <2>5. hover' = get_hover_tile(point) /\ point \in Points
    BY <2>3, <2>4, SeenInWorld DEF TickedTo
  <2> HIDE DEF point
  <2>6. hover' \in Under(point) \/ (hover' = NoTile /\ Under(point) = {})
    BY <2>5, HoverFound, Zenon
  <2>7. ASSUME NEW tile \in Tiles, Inside(tile, point) PROVE hover' = tile
    <3>1. is_in_tile(get_tile_pos(tile), point)
      BY <2>5, <2>7, AlongSides DEF Inside, is_in_tile, Area
    <3>2. tile \in Under(point)
      BY <3>1 DEF Under
    <3>3. hover' \in Tiles /\ is_in_tile(get_tile_pos(hover'), point)
      BY <2>6, <3>2 DEF Under
    <3> QED BY <2>5, <2>7, <3>3, OneTileInside
  <2> QED BY <2>6, <2>7 DEF point
<1>2. IsoInv /\ [Next]_vars =>
        [app = "ISO" /\ phase = "tick" /\ phase' = "draw" =>
           LET point == ToWorld(mouse', view.camera)
           IN  /\ \/ hover' \in Under(point)
                  \/ hover' = NoTile /\ Under(point) = {}
               /\ \A tile \in Tiles : Inside(tile, point) => hover' = tile]_isoVars
  BY <1>1
<1> QED BY <1>2, AlwaysIsoInv, PTL DEF Spec, AimsAtWhatIsSeen

(* The highlight of a frame lies under the mouse in that frame as long as  *)
(* the camera stands still (DrawIsoApp).                                   *)
THEOREM HighlightAlwaysUnderMouse == Spec => HighlightUnderMouse
<1>1. IsoInv /\ [Next]_vars =>
        [app = "ISO" /\ phase = "draw" /\ phase' = "tick" /\ view'.camera = view.camera =>
           hover = get_hover_tile(ToWorld(mouse, camera))]_isoVars
  <2> SUFFICES ASSUME IsoInv, [Next]_vars, app = "ISO", phase = "draw", phase' = "tick",
                      view'.camera = view.camera
               PROVE  hover = get_hover_tile(ToWorld(mouse, camera))
    OBVIOUS
  <2>1. StageInv /\ ViewInv
    BY DEF IsoInv
  <2>2. DrawIsoApp
    BY <2>1, IsoSteps DEF InitIsoApp, TickIso, TickIsoApp, DropIsoApp
  <2>3. view'.camera = camera
    BY <2>2 DEF DrawIsoApp
  <2> QED  BY <2>1, <2>3 DEF ViewInv
<1> QED  BY <1>1, AlwaysIsoInv, PTL DEF Spec, HighlightUnderMouse

(* A frame shows the run exactly if the character has moved since the one  *)
(* before, and a new animation from its first sprite on, for sheets of     *)
(* every size (TickIsoApp, DrawIsoApp).                                    *)
THEOREM AnimationAlwaysFollows == Spec => AnimationFollowsMotion
<1>1. IsoInv /\ [Next]_vars =>
        [app = "ISO" /\ phase = "draw" /\ phase' = "tick" /\ view # Blank =>
           /\ view'.sheet = AN_RUN <=> view'.camera # view.camera
           /\ view'.sheet # view.sheet => view'.column = 0]_isoVars
  <2> SUFFICES ASSUME IsoInv, [Next]_vars, app = "ISO", phase = "draw", phase' = "tick",
                      view # Blank
               PROVE  /\ view'.sheet = AN_RUN <=> view'.camera # view.camera
                      /\ view'.sheet # view.sheet => view'.column = 0
    OBVIOUS
  <2>1. StageInv /\ ViewInv
    BY DEF IsoInv
  <2>2. DrawIsoApp
    BY <2>1, IsoSteps DEF InitIsoApp, TickIso, TickIsoApp, DropIsoApp
  <2>3. /\ view'.camera = camera /\ view'.sheet = animidx
        /\ view'.column = (findex \div SPRITE_DELAY) % Stride
    BY <2>2 DEF DrawIsoApp
  <2>4. animidx = AN_RUN <=> camera # view.camera
    BY <2>1 DEF ViewInv
  <2>5. ASSUME animidx # view.sheet PROVE view'.column = 0
    <3>1. findex = 0
      BY <2>1, <2>5 DEF ViewInv
    <3> QED  BY <2>3, <3>1, IsoAssumption
  <2> QED  BY <2>3, <2>4, <2>5, Zenon
<1> QED  BY <1>1, AlwaysIsoInv, PTL DEF Spec, AnimationFollowsMotion

(* The invalid target is told from every tile, for every map               *)
(* (get_tile_pos, find_sprite_index).                                      *)
THEOREM TargetAlwaysTold == Spec => []TargetTold
<1>1. IsoInv => TargetTold
  BY TileTold DEF IsoInv, IsoTypes, TargetTold
<1> QED BY <1>1, AlwaysIsoInv, PTL

-------------------------------------------------------------------------------
(* A quotient and what it leaves. *)
LEMMA Quotient ==
  ASSUME NEW n \in Nat, NEW d \in Nat \ {0}
  PROVE  /\ Truncated(n, d) \in Nat
         /\ d * Truncated(n, d) <= n /\ n < d * Truncated(n, d) + d
<1>1. n \div d \in Nat /\ d * (n \div d) <= n /\ n < d * (n \div d) + d
  OBVIOUS
<1> QED  BY <1>1 DEF Truncated

(* How many of the tangents there are in a set of them. *)
LEMMA TangentsCounted ==
  ASSUME NEW S \in SUBSET Tangents
  PROVE  /\ Cardinality(S) \in 0..4
         /\ S = {} => Cardinality(S) = 0
         /\ S = Tangents => Cardinality(S) = 4
<1>1. IsFiniteSet({}) /\ Cardinality({}) = 0
  BY FS_EmptySet
<1>2. IsFiniteSet({1989}) /\ Cardinality({1989}) = 1
  <2>1. {1989} = {} \union {1989} /\ 1989 \notin {}
    OBVIOUS
  <2> QED  BY <1>1, <2>1, FS_AddElement
<1>3. IsFiniteSet({1989, 6682}) /\ Cardinality({1989, 6682}) = 2
  <2>1. {1989, 6682} = {1989} \union {6682} /\ 6682 \notin {1989}
    OBVIOUS
  <2> QED  BY <1>2, <2>1, FS_AddElement
<1>4. IsFiniteSet({1989, 6682, 14966}) /\ Cardinality({1989, 6682, 14966}) = 3
  <2>1. {1989, 6682, 14966} = {1989, 6682} \union {14966} /\ 14966 \notin {1989, 6682}
    OBVIOUS
  <2> QED  BY <1>3, <2>1, FS_AddElement
<1>5. IsFiniteSet(Tangents) /\ Cardinality(Tangents) = 4
  <2>1. Tangents = {1989, 6682, 14966} \union {50273} /\ 50273 \notin {1989, 6682, 14966}
    BY DEF Tangents
  <2> QED  BY <1>4, <2>1, FS_AddElement
<1>6. IsFiniteSet(S) /\ Cardinality(S) <= 4 /\ Cardinality(S) \in Nat
  BY <1>5, FS_Subset, FS_CardinalityType
<1> QED  BY <1>1, <1>5, <1>6

(* A direction in sixteenths leans to the side its ray leans to. *)
LEMMA Leans ==
  ASSUME NEW ray \in Points
  PROVE  LET row == (8 - Sixteenths(ray)) % 16
         IN  /\ row \in 0..15
             /\ row \in 1..7 => ray.x > 0
             /\ row \in 9..15 => ray.x < 0
             /\ row \in {0, 1, 2, 3, 13, 14, 15} => ray.y < 0
             /\ row \in 5..11 => ray.y > 0 \/ ray = At(0, 0)
<1> DEFINE steep  == {t \in Tangents : Abs(ray.x) * 10000 > t * Abs(ray.y)}
           turned == IF ray = At(0, 0) THEN 0 ELSE Cardinality(steep)
           angle  == IF ray.y < 0 THEN 8 - turned ELSE turned
           row    == (8 - Sixteenths(ray)) % 16
<1>1. ray.x \in Int /\ ray.y \in Int /\ (ray = At(0, 0) <=> ray.x = 0 /\ ray.y = 0)
  BY DEF Points, At
<1>2. Abs(ray.x) \in Nat /\ Abs(ray.y) \in Nat
      /\ (Abs(ray.x) = 0 <=> ray.x = 0) /\ (Abs(ray.y) = 0 <=> ray.y = 0)
  BY <1>1 DEF Abs
<1>3. steep \in SUBSET Tangents /\ \A t \in Tangents : t \in Nat
  BY DEF Tangents
<1>4. ray.x = 0 => steep = {}
  <2>1. ASSUME NEW t \in Nat, ray.x = 0 PROVE ~(Abs(ray.x) * 10000 > t * Abs(ray.y))
    <3>1. t * Abs(ray.y) \in Nat /\ Abs(ray.x) * 10000 = 0
      BY <1>2, <2>1
    <3> QED  BY <3>1
  <2> QED  BY <1>3, <2>1
<1>5. ray.y = 0 /\ ray.x # 0 => steep = Tangents
  <2>1. ASSUME NEW t \in Nat, ray.y = 0, ray.x # 0 PROVE Abs(ray.x) * 10000 > t * Abs(ray.y)
    <3>1. t * Abs(ray.y) = 0 /\ Abs(ray.x) * 10000 > 0
      BY <1>2, <2>1
    <3> QED  BY <3>1
  <2> QED  BY <1>3, <2>1
<1>6. /\ turned \in 0..4
      /\ ray.x = 0 => turned = 0
      /\ ray.y = 0 /\ ray.x # 0 => turned = 4
  <2> HIDE DEF steep
  <2>1. Cardinality(steep) \in 0..4
    BY <1>3, TangentsCounted
  <2>2. ray.x = 0 => Cardinality(steep) = 0
    BY <1>3, <1>4, TangentsCounted
  <2>3. ray.y = 0 /\ ray.x # 0 => Cardinality(steep) = 4
    BY <1>3, <1>5, TangentsCounted
  <2> QED  BY <1>1, <2>1, <2>2, <2>3
<1>7. Sixteenths(ray) = IF ray.x < 0 THEN -angle ELSE angle
  BY DEF Sixteenths
<1> HIDE DEF turned, steep
<1>8. angle \in 0..8 /\ angle \in Int
  BY <1>1, <1>6
<1>9. row = IF ray.x < 0 THEN (IF angle = 8 THEN 0 ELSE 8 + angle) ELSE 8 - angle
  <2> HIDE DEF angle
  <2> QED  BY <1>1, <1>7, <1>8
<1>10. /\ row \in 0..15
       /\ row \in 1..7 => ray.x > 0
       /\ row \in 9..15 => ray.x < 0
       /\ row \in {0, 1, 2, 3, 13, 14, 15} => ray.y < 0
       /\ row \in 5..11 => ray.y > 0 \/ (ray.x = 0 /\ ray.y = 0)
  <2> HIDE DEF row
  <2> QED  BY <1>1, <1>6, <1>9
<1> QED  BY <1>1, <1>10

(* The character never looks away from its target, for maps and tiles of   *)
(* every size (find_sprite_index).                                         *)
THEOREM NeverAway == Spec => []NeverLooksAway
<1>1. IsoInv => NeverLooksAway
  <2> SUFFICES ASSUME IsoInv PROVE NeverLooksAway
    OBVIOUS
  <2> DEFINE pos == get_tile_pos(target)
             ray == Minus(charpos, pos)
  <2>1. charpos \in Points /\ target \in Tiles \union {NoTile}
    BY DEF IsoInv, IsoTypes
  <2>2. pos \in Points
    <3>1. target.x \in Int /\ target.y \in Int
      BY <2>1, TilesArePoints DEF Points
    <3>2. (target.x - target.y) * HalfWidth \in Int /\ (target.x + target.y) * HalfHeight \in Int
      BY <3>1, IsoAssumption
    <3> QED  BY <3>2 DEF get_tile_pos, At, Points
  <2>3. ray \in Points
    BY <2>1, <2>2 DEF Minus, At, Points
  <2>4. target = NoTile <=> pos.x < 0 /\ pos.y < 0
    BY <2>1, TileTold
  <2> HIDE DEF pos, ray
  <2>5. CASE target = NoTile
    <3>1. Row = 0
      BY <2>4, <2>5 DEF Row, find_sprite_index, pos
    <3> QED  BY <2>5, <3>1 DEF NeverLooksAway
  <2>6. CASE target # NoTile
    <3>1. Row = (8 - Sixteenths(ray)) % 16
      BY <2>4, <2>6 DEF Row, find_sprite_index, pos, ray
    <3>2. /\ Row \in 0..15
          /\ Row \in 1..7 => ray.x > 0
          /\ Row \in 9..15 => ray.x < 0
          /\ Row \in {0, 1, 2, 3, 13, 14, 15} => ray.y < 0
          /\ Row \in 5..11 => ray.y > 0 \/ ray = At(0, 0)
      BY <2>3, <3>1, Leans
    <3> QED  BY <3>2 DEF NeverLooksAway, ray, pos
  <2> QED  BY <2>5, <2>6
<1> QED  BY <1>1, AlwaysIsoInv, PTL

(* A sum of distances is bounded by what bounds it along both diagonals. *)
LEMMA Diamond ==
  ASSUME NEW a \in Int, NEW b \in Int, NEW h \in Nat, NEW w \in Nat, NEW r \in Nat,
         a * h + b * w <= r, -(a * h + b * w) <= r, b * w - a * h <= r, a * h - b * w <= r
  PROVE  Abs(a) * h + Abs(b) * w <= r
<1>1. CASE a >= 0 /\ b >= 0
  BY <1>1 DEF Abs
<1>2. CASE a < 0 /\ b >= 0
  <2>1. (-a) * h = -(a * h) /\ a * h \in Int /\ b * w \in Int
    OBVIOUS
  <2> QED  BY <1>2, <2>1 DEF Abs
<1>3. CASE a >= 0 /\ b < 0
  <2>1. (-b) * w = -(b * w) /\ a * h \in Int /\ b * w \in Int
    OBVIOUS
  <2> QED  BY <1>3, <2>1 DEF Abs
<1>4. CASE a < 0 /\ b < 0
  <2>1. (-a) * h = -(a * h) /\ (-b) * w = -(b * w) /\ a * h \in Int /\ b * w \in Int
    OBVIOUS
  <2> QED  BY <1>4, <2>1 DEF Abs
<1> QED  BY <1>1, <1>2, <1>3, <1>4

(* What lies within A of an even multiple of A, the first or a later one,  *)
(* lies within A of the one that the division finds.                       *)
LEMMA Nearest ==
  ASSUME NEW A \in Nat \ {0}, NEW u \in Int, NEW p \in Nat, 2 * p - u <= A
  PROVE  LET q == Truncated(u + A, 2 * A)
         IN  /\ q \in Nat /\ q * A \in Nat
             /\ u - 2 * (q * A) <= A /\ 2 * (q * A) - u <= A
<1> DEFINE n == u + A
           d == 2 * A
           q == Truncated(n, d)
<1>1. n \in Nat /\ d \in Nat \ {0}
  OBVIOUS
<1>2. q \in Nat /\ d * q <= n /\ n < d * q + d
  <2> HIDE DEF n, d
  <2> QED  BY <1>1, Quotient
<1> HIDE DEF q
<1>3. d * q = 2 * (q * A) /\ q * A \in Nat
  BY <1>2
<1>4. 2 * (q * A) <= u + A /\ u + A < 2 * (q * A) + 2 * A
  BY <1>2, <1>3
<1>5. u - 2 * (q * A) <= A /\ 2 * (q * A) - u <= A
  BY <1>3, <1>4
<1> QED  BY <1>2, <1>3, <1>5 DEF q, n, d

(* The tile marked as the character's holds its shadow, for maps and tiles *)
(* of every size, as the shadow lies half a tile below the character: 40   *)
(* of the 80 of floors.height (get_center_tile, DrawIsoApp).               *)
THEOREM CentreAlwaysHolds ==
  ASSUME ShadowDrop = HalfHeight
  PROVE  Spec => []CentreHoldsShadow
<1>1. IsoInv => CentreHoldsShadow
  <2> DEFINE shadow == Plus(charpos, At(0, ShadowDrop))
  <2> SUFFICES ASSUME IsoInv, dmode = 1, Under(shadow) # {}
               PROVE  is_in_tile(get_tile_pos(Centre), shadow)
    BY DEF CentreHoldsShadow
  <2>1. HalfWidth \in Nat \ {0} /\ HalfHeight \in Nat \ {0} /\ Area \in Nat \ {0}
        /\ Area = HalfWidth * HalfHeight
    BY IsoAssumption DEF Area
  <2>2. charpos \in Points /\ charpos.x \in Int /\ charpos.y \in Int
    BY DEF IsoInv, IsoTypes, Points
  <2>3. /\ shadow.x = charpos.x /\ shadow.y = charpos.y + HalfHeight
        /\ shadow \in Points
    BY <2>1, <2>2 DEF Plus, At, Points
  <2>4. PICK tile \in Tiles : is_in_tile(get_tile_pos(tile), shadow)
    BY DEF Under
  <2> HIDE DEF shadow
  <2>5. /\ U(shadow) \in Int /\ V(shadow) \in Int
        /\ tile.x * Area \in Nat /\ 2 * (tile.x * Area) - U(shadow) <= Area
        /\ tile.y * Area \in Nat /\ 2 * (tile.y * Area) - V(shadow) <= Area
    BY <2>1, <2>3, <2>4, AlongSides DEF is_in_tile
  <2> DEFINE i == Truncated(U(shadow) + Area, 2 * Area)
             j == Truncated(V(shadow) + Area, 2 * Area)
  <2>6. /\ i \in Nat /\ i * Area \in Nat
        /\ U(shadow) - 2 * (i * Area) <= Area /\ 2 * (i * Area) - U(shadow) <= Area
    BY <2>1, <2>5, Nearest
  <2>7. /\ j \in Nat /\ j * Area \in Nat
        /\ V(shadow) - 2 * (j * Area) <= Area /\ 2 * (j * Area) - V(shadow) <= Area
    BY <2>1, <2>5, Nearest
  <2>8. Centre = At(i, j)
    <3>1. charpos.y * HalfWidth \in Int /\ charpos.x * HalfHeight \in Int
      BY <2>1, <2>2
    <3>2. shadow.y * HalfWidth = charpos.y * HalfWidth + Area
      BY <2>1, <2>2, <2>3
    <3>3. /\ U(shadow) + Area = (charpos.y * HalfWidth + 2 * Area) + charpos.x * HalfHeight
          /\ V(shadow) + Area = (charpos.y * HalfWidth + 2 * Area) - charpos.x * HalfHeight
      BY <2>1, <2>3, <3>1, <3>2 DEF U, V
    <3>4. Centre = At(Truncated((charpos.y * HalfWidth + 2 * Area) + charpos.x * HalfHeight, 2 * Area),
                      Truncated((charpos.y * HalfWidth + 2 * Area) - charpos.x * HalfHeight, 2 * Area))
      <4>1. Centre = get_center_tile(charpos)
        BY DEF Centre
      <4> QED  BY <4>1, Zenon DEF get_center_tile, Area
    <3> QED  BY <3>3, <3>4
  <2> HIDE DEF i, j
  <2>9. /\ get_tile_pos(Centre).x = (i - j) * HalfWidth
        /\ get_tile_pos(Centre).y = (i + j) * HalfHeight
    BY <2>6, <2>7, <2>8 DEF get_tile_pos, At
  <2> DEFINE a == shadow.x - get_tile_pos(Centre).x
             b == shadow.y - get_tile_pos(Centre).y
  <2>10. a \in Int /\ b \in Int
    BY <2>1, <2>2, <2>3, <2>6, <2>7, <2>9
  <2>11. /\ a * HalfHeight = shadow.x * HalfHeight - (i - j) * Area
         /\ b * HalfWidth = shadow.y * HalfWidth - (i + j) * Area
    BY <2>1, <2>2, <2>3, <2>6, <2>7, <2>9
  <2>12. (i - j) * Area = i * Area - j * Area /\ (i + j) * Area = i * Area + j * Area
    BY <2>1, <2>6, <2>7
  <2>13. shadow.x * HalfHeight \in Int /\ shadow.y * HalfWidth \in Int
    BY <2>1, <2>2, <2>3
  <2> HIDE DEF a, b
  <2>14. /\ a * HalfHeight + b * HalfWidth = U(shadow) - 2 * (i * Area)
         /\ b * HalfWidth - a * HalfHeight = V(shadow) - 2 * (j * Area)
         /\ a * HalfHeight \in Int /\ b * HalfWidth \in Int
    BY <2>6, <2>7, <2>11, <2>12, <2>13 DEF U, V
  <2>15. /\ a * HalfHeight + b * HalfWidth <= Area /\ -(a * HalfHeight + b * HalfWidth) <= Area
         /\ b * HalfWidth - a * HalfHeight <= Area /\ a * HalfHeight - b * HalfWidth <= Area
    BY <2>1, <2>5, <2>6, <2>7, <2>14
  <2>16. Abs(a) * HalfHeight + Abs(b) * HalfWidth <= Area
    BY <2>1, <2>10, <2>15, Diamond
  <2> QED  BY <2>1, <2>16 DEF is_in_tile, a, b
<1> QED  BY <1>1, AlwaysIsoInv, PTL

-------------------------------------------------------------------------------
(* Recursion over the boids: the sums of the rules and the loop of a tick. *)

(* Up to n, s is what g makes of b step by step. *)
Follows(s, S, b, g, n) ==
  /\ s \in [0..n -> S] /\ s[0] = b
  /\ \A k \in 1..n : s[k] = g[<<s[k - 1], k>>]

(* What a step from one value to the next defines, up to any number. *)
LEMMA Recursion ==
  ASSUME NEW N \in Nat, NEW S, NEW b \in S, NEW g \in [S \X (1..N) -> S]
  PROVE  \E s : Follows(s, S, b, g, N)
<1> USE DEF Follows
<1> DEFINE Up(s, k) == Follows(s, S, b, g, k)
           Bad == {k \in Nat : k <= N /\ ~\E s : Up(s, k)}
<1>1. SUFFICES ASSUME N \in Bad PROVE FALSE
  OBVIOUS
<1>2. PICK k \in Bad : \A j \in Bad : k <= j
  <2>1. Bad \subseteq Nat
    OBVIOUS
  <2> HIDE DEF Bad
  <2> QED BY <1>1, <2>1, Least
<1>3. k \in Nat /\ k <= N /\ ~\E s : Up(s, k)
  OBVIOUS
<1>4. CASE k = 0
  <2>1. Up([n \in 0..0 |-> b], 0)
    OBVIOUS
  <2> HIDE DEF Up
  <2> QED BY <1>3, <1>4, <2>1
<1>5. CASE k > 0
  <2>1. k - 1 \in Nat /\ k - 1 <= N /\ k - 1 \notin Bad
    BY <1>2, <1>3, <1>5
  <2>2. PICK s : Up(s, k - 1)
    BY <2>1
  <2> DEFINE t == [n \in 0..k |-> IF n = k THEN g[<<s[k - 1], k>>] ELSE s[n]]
  <2>3. s[k - 1] \in S /\ k \in 1..N
    BY <1>3, <1>5, <2>1, <2>2
  <2>4. g[<<s[k - 1], k>>] \in S
    BY <2>3
  <2>5. t \in [0..k -> S] /\ t[0] = b
    <3>1. \A n \in 0..k : n # k => n \in 0..(k - 1)
      BY <1>3, <1>5
    <3> QED BY <1>3, <1>5, <2>2, <2>4, <3>1
  <2>6. ASSUME NEW n \in 1..k PROVE t[n] = g[<<t[n - 1], n>>]
    <3>1. n - 1 \in 0..k /\ n - 1 # k /\ n \in 0..k
      BY <1>3, <1>5
    <3>2. t[n - 1] = s[n - 1]
      BY <3>1
    <3>3. CASE n = k
      BY <3>1, <3>2, <3>3
    <3>4. CASE n # k
      <4>1. n \in 1..(k - 1)
        BY <1>3, <1>5, <3>4
      <4>2. t[n] = s[n] /\ s[n] = g[<<s[n - 1], n>>]
        BY <2>2, <3>1, <3>4, <4>1
      <4> QED BY <3>2, <4>2
    <3> QED BY <3>3, <3>4
  <2>7. Up(t, k)
    BY <2>5, <2>6
  <2> HIDE DEF Up
  <2> QED BY <1>3, <2>7
<1> QED BY <1>3, <1>4, <1>5

LEMMA IdsAre ==
  NUM_BOIDS \in Nat /\ NUM_BOIDS > 1 /\ Ids = 1..NUM_BOIDS
BY FlockAssumption DEF FlockAssumption, Ids

(* The partial sums on an axis. *)
SumsUp(sum, vector, ids, a) ==
  /\ sum \in [0..NUM_BOIDS -> Int] /\ sum[0] = 0
  /\ \A n \in Ids :
       sum[n] = sum[n - 1] + (IF n \in ids THEN vector[n][a] ELSE 0)

LEMMA SumsAre ==
  ASSUME NEW vector \in [Ids -> Vectors], NEW ids, NEW a \in Axes
  PROVE  SumsUp(Sums(vector, ids, a), vector, ids, a)
<1> DEFINE N == NUM_BOIDS
           term(n) == IF n \in ids THEN vector[n][a] ELSE 0
           g == [q \in Int \X (1..N) |-> q[1] + term(q[2])]
           Is(s) == s = [n \in 0..N |-> IF n = 0 THEN 0
                         ELSE s[n - 1] + (IF n \in ids THEN vector[n][a] ELSE 0)]
<1>1. N \in Nat /\ Ids = 1..N
  BY IdsAre
<1>2. \A n \in 1..N : term(n) \in Int
  BY <1>1 DEF Vectors
<1>3. g \in [Int \X (1..N) -> Int]
  BY <1>2
<1>4. PICK s \in [0..N -> Int] : s[0] = 0 /\ \A n \in 1..N : s[n] = g[<<s[n - 1], n>>]
  <2>1. N \in Nat /\ 0 \in Int
    BY <1>1
  <2> HIDE DEF g, N
  <2>2. \E s : Follows(s, Int, 0, g, N)
    BY <1>3, <2>1, Recursion
  <2> QED BY <2>2 DEF Follows
<1>5. ASSUME NEW n \in 1..N PROVE s[n] = s[n - 1] + term(n)
  <2>1. n - 1 \in 0..N
    BY <1>1
  <2>2. s[n - 1] \in Int
    BY <2>1
  <2>3. <<s[n - 1], n>> \in Int \X (1..N)
    BY <2>2
  <2>4. g[<<s[n - 1], n>>] = s[n - 1] + term(n)
    <3> DEFINE e == <<s[n - 1], n>>
    <3>1. e[1] = s[n - 1] /\ e[2] = n
      OBVIOUS
    <3>2. e \in Int \X (1..N)
      BY <2>3
    <3> HIDE DEF term, e
    <3>3. g[e] = e[1] + term(e[2])
      BY <3>2, Zenon
    <3> QED BY <3>1, <3>3 DEF e
  <2> QED BY <1>4, <2>4
<1>6. Is(s)
  <2>1. \A n \in 0..N : n # 0 => n \in 1..N
    BY <1>1
  <2>2. \A n \in 0..N : s[n] = IF n = 0 THEN 0 ELSE s[n - 1] + term(n)
    BY <1>4, <1>5, <2>1
  <2> QED BY <2>2
<1>7. Sums(vector, ids, a) = CHOOSE sum : Is(sum)
  BY Zenon DEF Sums
<1> DEFINE sum == Sums(vector, ids, a)
<1>8. Is(sum)
  <2> HIDE DEF Is
  <2> QED BY <1>6, <1>7, Zenon
<1>9. \A n \in 0..N : sum[n] = s[n]
  <2> DEFINE Bad == {n \in 0..N : sum[n] # s[n]}
  <2> SUFFICES ASSUME Bad # {} PROVE FALSE
    OBVIOUS
  <2>1. PICK k \in Bad : \A j \in Bad : k <= j
    <3>1. Bad \subseteq Nat
      BY <1>1
    <3> HIDE DEF Bad
    <3> QED BY <3>1, Least
  <2>2. k \in 0..N /\ sum[k] # s[k] /\ \A j \in Bad : k <= j
    BY <2>1
  <2>3. k # 0
    <3>1. 0 \in 0..N /\ sum[0] = 0
      BY <1>1, <1>8
    <3> QED BY <1>4, <2>2, <3>1
  <2>4. k \in 1..N /\ k - 1 \in 0..N /\ ~(k <= k - 1)
    BY <1>1, <2>2, <2>3
  <2>5. sum[k - 1] = s[k - 1]
    BY <2>2, <2>4
  <2>6. sum[k] = sum[k - 1] + term(k)
    BY <1>8, <2>2, <2>3
  <2> QED BY <1>5, <2>2, <2>4, <2>5, <2>6
<1>10. DOMAIN sum = 0..N
  BY <1>8
<1>11. sum = s
  <2>1. sum = [n \in DOMAIN sum |-> sum[n]]
    BY <1>8
  <2> HIDE DEF sum, Is
  <2> QED BY <1>9, <1>10, <2>1
<1> HIDE DEF sum
<1>12. SumsUp(sum, vector, ids, a)
  BY <1>1, <1>4, <1>5, <1>11 DEF SumsUp
<1> QED BY <1>12 DEF sum

(* A sum of zeros is zero. *)
LEMMA TotalZero ==
  ASSUME NEW vector \in [Ids -> Vectors], NEW ids, NEW a \in Axes,
         \A n \in Ids : n \in ids => vector[n][a] = 0
  PROVE  Total(vector, ids)[a] = 0
<1> DEFINE s == Sums(vector, ids, a)
           Bad == {n \in 0..NUM_BOIDS : s[n] # 0}
<1>1. s[0] = 0 /\ \A n \in Ids : s[n] = s[n - 1] + 0
  <2>1. SumsUp(s, vector, ids, a)
    BY SumsAre
  <2> HIDE DEF s
  <2> QED BY <2>1 DEF SumsUp
<1>2. s \in [0..NUM_BOIDS -> Int]
  <2>1. SumsUp(s, vector, ids, a)
    BY SumsAre
  <2> QED BY <2>1 DEF SumsUp
<1>3. Total(vector, ids)[a] = s[NUM_BOIDS]
  BY DEF Total
<1> HIDE DEF s
<1>4. NUM_BOIDS \in Nat /\ Ids = 1..NUM_BOIDS /\ NUM_BOIDS \in 0..NUM_BOIDS
  BY IdsAre
<1>5. SUFFICES ASSUME Bad # {} PROVE FALSE
  BY <1>3, <1>4
<1>6. PICK k \in Bad : \A j \in Bad : k <= j
  <2>1. Bad \subseteq Nat
    BY <1>4
  <2> HIDE DEF Bad
  <2> QED BY <1>5, <2>1, Least
<1>7. k \in 1..NUM_BOIDS /\ k - 1 \in 0..NUM_BOIDS /\ ~(k <= k - 1)
  BY <1>1, <1>4
<1>8. s[k - 1] = 0
  BY <1>6, <1>7
<1> QED BY <1>1, <1>2, <1>4, <1>7, <1>8

(* Where no other boid has more on an axis than B above what it has in     *)
(* another vector, the sums differ by at most B for each of the others.    *)
LEMMA TotalsApart ==
  ASSUME NEW u \in [Ids -> Vectors], NEW v \in [Ids -> Vectors], NEW i \in Ids,
         NEW a \in Axes, NEW B \in Int, NEW s \in {1, -1},
         \A j \in Others(i) : s * u[j][a] <= s * v[j][a] + B
  PROVE  /\ Total(u, Others(i))[a] \in Int /\ Total(v, Others(i))[a] \in Int
         /\ s * Total(u, Others(i))[a] <= s * Total(v, Others(i))[a] + (NUM_BOIDS - 1) * B
<1> DEFINE N == NUM_BOIDS
           f == Sums(u, Others(i), a)
           g == Sums(v, Others(i), a)
           count(n) == IF n < i THEN n ELSE n - 1
           Bad == {n \in 0..N : ~(s * f[n] <= s * g[n] + count(n) * B)}
<1>1. N \in Nat /\ N > 1 /\ Ids = 1..N /\ i \in 1..N
  BY IdsAre
<1>2. /\ f \in [0..N -> Int] /\ f[0] = 0
      /\ \A n \in 1..N : f[n] = f[n - 1] + (IF n \in Others(i) THEN u[n][a] ELSE 0)
  <2>1. SumsUp(f, u, Others(i), a)
    BY SumsAre
  <2> HIDE DEF f
  <2> QED BY <1>1, <2>1 DEF SumsUp
<1>3. /\ g \in [0..N -> Int] /\ g[0] = 0
      /\ \A n \in 1..N : g[n] = g[n - 1] + (IF n \in Others(i) THEN v[n][a] ELSE 0)
  <2>1. SumsUp(g, v, Others(i), a)
    BY SumsAre
  <2> HIDE DEF g
  <2> QED BY <1>1, <2>1 DEF SumsUp
<1>4. /\ Total(u, Others(i))[a] = f[N] /\ Total(v, Others(i))[a] = g[N]
  BY DEF Total
<1> HIDE DEF f, g
<1>5. N \notin Bad
  <2> SUFFICES ASSUME Bad # {} PROVE FALSE
    OBVIOUS
  <2>1. PICK k \in Bad : \A j \in Bad : k <= j
    <3>1. Bad \subseteq Nat
      BY <1>1
    <3> HIDE DEF Bad
    <3> QED BY <3>1, Least
  <2>2. k \in 0..N /\ ~(s * f[k] <= s * g[k] + count(k) * B) /\ \A j \in Bad : k <= j
    BY <2>1
  <2>3. k # 0
    <3>1. s * f[0] = 0 /\ s * g[0] = 0 /\ count(0) * B = 0
      BY <1>1, <1>2, <1>3
    <3> HIDE DEF count
    <3> QED BY <2>2, <3>1
  <2>4. k \in 1..N /\ k - 1 \in 0..N /\ ~(k <= k - 1)
    BY <1>1, <2>2, <2>3
  <2>5. s * f[k - 1] <= s * g[k - 1] + count(k - 1) * B
    BY <2>2, <2>4
  <2>6. f[k] \in Int /\ f[k - 1] \in Int /\ g[k] \in Int /\ g[k - 1] \in Int
    BY <1>2, <1>3, <2>4
  <2>7. count(k) \in Int /\ count(k - 1) \in Int
    BY <1>1, <2>4
  <2>8. CASE k = i
    <3>1. k \notin Others(i) /\ count(k) = count(k - 1)
      BY <1>1, <2>4, <2>8 DEF Others
    <3>2. f[k] = f[k - 1] /\ g[k] = g[k - 1]
      BY <1>2, <1>3, <2>4, <2>6, <3>1
    <3> HIDE DEF count
    <3> QED BY <2>2, <2>5, <3>1, <3>2
  <2>9. CASE k # i
    <3>1. k \in Others(i) /\ count(k) = count(k - 1) + 1
      BY <1>1, <2>4, <2>9 DEF Others
    <3>2. u[k] \in Vectors /\ v[k] \in Vectors
      BY <1>1, <2>4
    <3>3. u[k][a] \in Int /\ v[k][a] \in Int /\ s * u[k][a] <= s * v[k][a] + B
      BY <3>1, <3>2 DEF Vectors
    <3>4. f[k] = f[k - 1] + u[k][a] /\ g[k] = g[k - 1] + v[k][a]
      BY <1>2, <1>3, <2>4, <3>1
    <3>5. count(k) * B = count(k - 1) * B + B
      <4> HIDE DEF count
      <4> QED BY <2>7, <3>1
    <3>6. count(k - 1) * B \in Int
      BY <2>7
    <3> HIDE DEF count
    <3>7. s * f[k] <= s * g[k] + count(k) * B
      <4>1. CASE s = 1
        BY <2>5, <2>6, <3>3, <3>4, <3>5, <3>6, <4>1
      <4>2. CASE s = -1
        BY <2>5, <2>6, <3>3, <3>4, <3>5, <3>6, <4>2
      <4> QED BY <4>1, <4>2
    <3> QED BY <2>2, <3>7
  <2> QED BY <2>8, <2>9
<1>6. s * f[N] <= s * g[N] + (N - 1) * B
  <2>1. N \in 0..N /\ count(N) = N - 1
    BY <1>1
  <2> QED BY <1>5, <2>1
<1> QED BY <1>1, <1>2, <1>3, <1>4, <1>6

-------------------------------------------------------------------------------
(* C's quotients. *)

LEMMA Quotients ==
  ASSUME NEW n \in Nat, NEW d \in Nat \ {0}
  PROVE  /\ n \div d \in Nat
         /\ d * (n \div d) <= n
         /\ n < d * (n \div d) + d
<1>1. n \div d \in Int /\ n % d \in 0..(d - 1) /\ n = d * (n \div d) + (n % d)
  OBVIOUS
<1>2. n \div d \in Nat
  OBVIOUS
<1> QED BY <1>1, <1>2

LEMMA TruncatedInt ==
  ASSUME NEW x \in Int, NEW d \in Nat \ {0}
  PROVE  Truncated(x, d) \in Int
BY DEF Truncated

LEMMA TruncatedZero ==
  ASSUME NEW d \in Nat \ {0}
  PROVE  Truncated(0, d) = 0
BY DEF Truncated

(* Truncation is the same on both sides of zero. *)
LEMMA TruncatedMirror ==
  ASSUME NEW x \in Int, NEW d \in Nat \ {0}
  PROVE  Truncated(-x, d) = -Truncated(x, d)
<1>1. CASE x = 0
  BY <1>1, TruncatedZero
<1>2. CASE x > 0
  BY <1>2 DEF Truncated
<1>3. CASE x < 0
  BY <1>3 DEF Truncated
<1> QED BY <1>1, <1>2, <1>3

LEMMA TruncatedNat ==
  ASSUME NEW x \in Nat, NEW d \in Nat \ {0}
  PROVE  /\ Truncated(x, d) \in Nat
         /\ Truncated(x, d) = x \div d
<1>1. Truncated(x, d) = x \div d
  BY DEF Truncated
<1> QED BY <1>1, Quotients

LEMMA TruncatedUp ==
  ASSUME NEW d \in Nat \ {0}, NEW n \in Nat, NEW x \in Int, x <= n
  PROVE  Truncated(x, d) <= n \div d /\ n \div d \in Nat
<1> DEFINE q == n \div d
<1>1. q \in Nat /\ d * q <= n /\ n < d * q + d
  BY Quotients
<1>2. CASE x >= 0
  <2> DEFINE r == x \div d
  <2>1. r \in Nat /\ d * r <= x /\ Truncated(x, d) = r
    <3>1. x \in Nat
      BY <1>2
    <3> QED BY <3>1, Quotients, TruncatedNat
  <2> HIDE DEF q, r
  <2>2. r <= q
    <3> SUFFICES ASSUME r >= q + 1 PROVE FALSE
      BY <1>1, <2>1
    <3>1. r - (q + 1) \in Nat
      BY <1>1, <2>1
    <3>2. d * (r - (q + 1)) >= 0
      BY <3>1
    <3>3. d * r - (d * q + d) >= 0
      BY <1>1, <2>1, <3>2
    <3>4. d * r \in Int /\ d * q + d \in Int
      BY <1>1, <2>1
    <3> QED BY <1>1, <2>1, <3>3, <3>4
  <2> QED BY <1>1, <2>1, <2>2
<1>3. CASE x < 0
  <2>1. -x \in Nat
    BY <1>3
  <2>2. (-x) \div d \in Nat
    BY <2>1, Quotients
  <2>3. Truncated(x, d) = -((-x) \div d)
    BY <1>3 DEF Truncated
  <2> HIDE DEF q
  <2> QED BY <1>1, <2>2, <2>3
<1> QED BY <1>2, <1>3

(* A part of the way to t brings nobody farther than where he stands, or   *)
(* by a part of the cap.                                                   *)
LEMMA PartOfTheWay ==
  ASSUME NEW d \in Nat \ {0}, NEW m \in Nat, NEW t \in Int, t <= m,
         NEW u \in Int, NEW b \in Nat, u <= b
  PROVE  u + Truncated(t - u, d) <= b + m \div d
<1> DEFINE q == m \div d
<1>1. q \in Nat /\ m < d * q + d
  BY Quotients
<1>2. CASE u >= 0
  <2>1. t - u \in Int /\ t - u <= m
    BY <1>2
  <2>2. Truncated(t - u, d) <= q
    BY <2>1, TruncatedUp
  <2>3. Truncated(t - u, d) \in Int
    BY <2>1, TruncatedInt
  <2> HIDE DEF q
  <2>4. u + Truncated(t - u, d) <= b + q
    BY <1>1, <2>2, <2>3
  <2> QED BY <2>4 DEF q
<1>3. CASE u < 0
  <2> DEFINE n == -u
             r == (m + n) \div d
  <2>1. n \in Nat /\ m + n \in Nat /\ t - u \in Int /\ t - u <= m + n
    BY <1>3
  <2>2. r \in Nat /\ d * r <= m + n /\ Truncated(t - u, d) <= r /\ Truncated(t - u, d) \in Int
    BY <2>1, Quotients, TruncatedUp, TruncatedInt
  <2> HIDE DEF q, r
  <2>3. r <= q + n
    <3> SUFFICES ASSUME r >= q + n + 1 PROVE FALSE
      BY <1>1, <2>1, <2>2
    <3>1. r - (q + n + 1) \in Nat
      BY <1>1, <2>1, <2>2
    <3>2. d * (r - (q + n + 1)) >= 0
      BY <3>1
    <3>3. d * r - (d * q + d * n + d) >= 0
      BY <1>1, <2>1, <2>2, <3>2
    <3>4. (d - 1) * n >= 0
      BY <2>1
    <3>5. d * n - n >= 0
      BY <2>1, <3>4
    <3>6. d * r \in Int /\ d * q \in Int /\ d * n \in Int
      BY <1>1, <2>1, <2>2
    <3> QED BY <1>1, <2>1, <2>2, <3>3, <3>5, <3>6
  <2>4. u = -n
    OBVIOUS
  <2> HIDE DEF n
  <2>5. u + Truncated(t - u, d) <= b + q
    BY <1>1, <2>1, <2>2, <2>3, <2>4
  <2> QED BY <2>5 DEF q
<1> QED BY <1>2, <1>3
-------------------------------------------------------------------------------
(* The flock, its vectors and the cap on their length. *)

Flocks == [pos : [Ids -> Vectors], vel : [Ids -> Vectors]]

(* No faster than the cap on any axis. *)
Slow(v) == \A a \in Axes : v[a] <= MAX_SPEED /\ -v[a] <= MAX_SPEED

LEMMA FlockFields ==
  ASSUME NEW f \in Flocks
  PROVE  /\ f = [pos |-> f.pos, vel |-> f.vel]
         /\ f.pos \in [Ids -> Vectors] /\ f.vel \in [Ids -> Vectors]
BY DEF Flocks

LEMMA SteeredIs ==
  ASSUME NEW f \in Flocks, NEW idx \in Ids, NEW v \in Vectors
  PROVE  /\ Steered(f, idx, v) \in Flocks
         /\ Steered(f, idx, v) = [pos |-> f.pos, vel |-> [f.vel EXCEPT ![idx] = v]]
<1>1. f = [pos |-> f.pos, vel |-> f.vel] /\ f.pos \in [Ids -> Vectors] /\ f.vel \in [Ids -> Vectors]
  BY FlockFields
<1>2. Steered(f, idx, v) = [pos |-> f.pos, vel |-> [f.vel EXCEPT ![idx] = v]]
  BY <1>1 DEF Steered
<1> QED BY <1>1, <1>2 DEF Flocks

(* The vector arithmetic stays within the vectors. *)
LEMMA VectorsAdd ==
  ASSUME NEW u \in Vectors, NEW v \in Vectors
  PROVE  /\ Vector3Add(u, v) \in Vectors
         /\ Vector3Subtract(u, v) \in Vectors
BY DEF Vector3Add, Vector3Subtract, Vectors

LEMMA VectorsDivided ==
  ASSUME NEW v \in Vectors, NEW n \in Nat \ {0}
  PROVE  DividedBy(v, n) \in Vectors
<1>1. \A a \in Axes : Truncated(v[a], n) \in Int
  BY TruncatedInt DEF Vectors
<1> QED BY <1>1 DEF DividedBy, Vectors

LEMMA SquareNat ==
  ASSUME NEW v \in Vectors
  PROVE  Square(v) \in Nat
<1>1. v["x"] \in Int /\ v["y"] \in Int /\ v["z"] \in Int
  BY DEF Vectors, Axes
<1>2. ASSUME NEW i \in Int PROVE i * i \in Nat
  OBVIOUS
<1>3. /\ v["x"] * v["x"] \in Nat /\ v["y"] * v["y"] \in Nat /\ v["z"] * v["z"] \in Nat
  BY <1>1, <1>2
<1> QED BY <1>3 DEF Square

LEMMA LengthIs ==
  ASSUME FlockAssumption, NEW v \in Vectors, Square(v) > MAX_SPEED * MAX_SPEED
  PROVE  /\ Vector3Length(v) \in Nat \ {0} /\ MAX_SPEED <= Vector3Length(v)
         /\ Square(v) <= Vector3Length(v) * Vector3Length(v)
<1> DEFINE square == Square(v)
           M == MAX_SPEED
           S == {n \in Nat : n * n >= square}
           Is(n) == n * n >= square /\ (n - 1) * (n - 1) < square
<1>1. square \in Nat /\ M \in Nat \ {0} /\ square > M * M
  BY SquareNat DEF FlockAssumption
<1> HIDE DEF square, M
<1>2. square \in S
  <2>1. square >= 1
    <3>1. M * M >= 0
      BY <1>1
    <3> QED BY <1>1, <3>1
  <2>2. (square - 1) * square >= 0
    BY <1>1, <2>1
  <2> QED BY <1>1, <2>2
<1>3. PICK n \in S : \A m \in S : n <= m
  BY <1>2, Least
<1>4. n \in Nat /\ n * n >= square /\ n <= square
  BY <1>2, <1>3
<1>5. n > M
  <2> SUFFICES ASSUME n <= M PROVE FALSE
    BY <1>1, <1>4
  <2>1. M - n \in Nat /\ (M - n) * (M + n) >= 0
    BY <1>1, <1>4
  <2>2. M * M - n * n >= 0
    BY <1>1, <1>4, <2>1
  <2>3. n * n \in Int /\ M * M \in Int
    BY <1>1, <1>4
  <2> QED BY <1>1, <1>4, <2>2, <2>3
<1>6. (n - 1) * (n - 1) < square
  <2> SUFFICES ASSUME (n - 1) * (n - 1) >= square PROVE FALSE
    BY <1>1, <1>4
  <2>1. n - 1 \in Nat
    BY <1>1, <1>4, <1>5
  <2>2. n - 1 \in S
    BY <2>1
  <2>3. n <= n - 1
    BY <1>3, <2>2
  <2> QED BY <1>4, <2>3
<1>7. n \in M..square /\ Is(n)
  BY <1>1, <1>4, <1>5, <1>6
<1>8. Vector3Length(v) = CHOOSE k \in M..square : Is(k)
  BY DEF Vector3Length, square, M
<1> HIDE DEF Is
<1>9. Vector3Length(v) \in M..square /\ Is(Vector3Length(v))
  BY <1>7, <1>8
<1>10. Vector3Length(v) \in Nat \ {0} /\ M <= Vector3Length(v)
  BY <1>1, <1>9
<1>11. square <= Vector3Length(v) * Vector3Length(v)
  BY <1>1, <1>9, <1>10 DEF Is
<1> QED BY <1>10, <1>11 DEF square, M

LEMMA SpeedRule ==
  ASSUME FlockAssumption, NEW v \in Vectors
  PROVE  /\ applySpeedRule(v) \in Vectors
         /\ Square(v) <= MAX_SPEED * MAX_SPEED => applySpeedRule(v) = v
<1>1. Square(v) \in Nat /\ MAX_SPEED \in Nat /\ MAX_SPEED * MAX_SPEED \in Nat
  BY SquareNat DEF FlockAssumption
<1>2. CASE Square(v) > MAX_SPEED * MAX_SPEED
  <2> DEFINE u == [a \in Axes |-> v[a] * MAX_SPEED]
  <2>1. \A a \in Axes : v[a] \in Int
    BY DEF Vectors
  <2>2. u \in Vectors
    BY <1>1, <2>1 DEF Vectors
  <2>3. applySpeedRule(v) = DividedBy(u, Vector3Length(v))
    BY <1>2 DEF applySpeedRule
  <2>4. Vector3Length(v) \in Nat \ {0}
    BY <1>2, LengthIs
  <2> HIDE DEF u
  <2>5. applySpeedRule(v) \in Vectors
    BY <2>2, <2>3, <2>4, VectorsDivided
  <2> QED BY <1>1, <1>2, <2>5
<1>3. CASE ~(Square(v) > MAX_SPEED * MAX_SPEED)
  BY <1>3 DEF applySpeedRule
<1> QED BY <1>2, <1>3

LEMMA SquareBounds ==
  ASSUME NEW i \in Int, NEW n \in Nat, i * i <= n * n
  PROVE  i <= n /\ -i <= n
<1>1. ASSUME NEW j \in Int, j * j <= n * n PROVE j <= n
  <2> SUFFICES ASSUME j > n PROVE FALSE
    OBVIOUS
  <2>1. j - n > 0 /\ j + n > 0
    OBVIOUS
  <2>2. (j - n) * (j + n) > 0
    BY <2>1
  <2>3. j * j - n * n > 0
    BY <2>2
  <2> QED BY <1>1, <2>3
<1>2. (-i) * (-i) = i * i /\ -i \in Int
  OBVIOUS
<1> QED BY <1>1, <1>2

LEMMA AxisOfSquare ==
  ASSUME NEW v \in Vectors, NEW a \in Axes
  PROVE  v[a] \in Int /\ v[a] * v[a] <= Square(v)
<1>1. v["x"] \in Int /\ v["y"] \in Int /\ v["z"] \in Int
  BY DEF Vectors, Axes
<1>2. ASSUME NEW i \in Int PROVE i * i \in Nat
  OBVIOUS
<1>3. v["x"] * v["x"] \in Nat /\ v["y"] * v["y"] \in Nat /\ v["z"] * v["z"] \in Nat
  BY <1>1, <1>2
<1>4. Square(v) = v["x"] * v["x"] + v["y"] * v["y"] + v["z"] * v["z"]
  BY DEF Square
<1>5. a = "x" \/ a = "y" \/ a = "z"
  BY DEF Axes
<1>6. v[a] * v[a] <= Square(v)
  <2>1. CASE a = "x"
    BY <1>3, <1>4, <2>1
  <2>2. CASE a = "y"
    BY <1>3, <1>4, <2>2
  <2>3. CASE a = "z"
    BY <1>3, <1>4, <2>3
  <2> QED BY <1>5, <2>1, <2>2, <2>3
<1> QED BY <1>1, <1>5, <1>6

(* The cap shortens a vector and turns no component round. *)
LEMMA CapShortens ==
  ASSUME FlockAssumption, NEW v \in Vectors, NEW a \in Axes
  PROVE  LET s == applySpeedRule(v)[a]
         IN  /\ s \in Int /\ s <= MAX_SPEED /\ -s <= MAX_SPEED
             /\ v[a] <= 0 => s <= 0
             /\ v[a] >= 0 => 0 <= s /\ s <= v[a]
             /\ v[a] <= 0 => v[a] <= s
<1> DEFINE M == MAX_SPEED
           x == v[a]
           s == applySpeedRule(v)[a]
<1>1. M \in Nat \ {0} /\ M * M \in Nat
  BY DEF FlockAssumption
<1>2. x \in Int /\ x * x <= Square(v) /\ Square(v) \in Nat /\ x * x \in Int
  BY AxisOfSquare, SquareNat
<1>3. CASE Square(v) <= M * M
  <2>1. s = x
    BY <1>3, SpeedRule
  <2>2. x * x <= M * M
    BY <1>1, <1>2, <1>3
  <2> HIDE DEF s, x, M
  <2>3. x <= M /\ -x <= M
    BY <1>1, <1>2, <2>2, SquareBounds
  <2>4. /\ s \in Int /\ s <= M /\ -s <= M
        /\ x <= 0 => s <= 0
        /\ x >= 0 => 0 <= s /\ s <= x
        /\ x <= 0 => x <= s
    BY <1>2, <2>1, <2>3
  <2> QED BY <2>4 DEF s, x, M
<1>4. CASE ~(Square(v) <= M * M)
  <2> DEFINE n == Vector3Length(v)
             p == x * M
  <2>0. Square(v) > M * M
    BY <1>1, <1>2, <1>4
  <2>1. n \in Nat \ {0} /\ M <= n /\ Square(v) <= n * n
    BY <2>0, LengthIs
  <2>2. s = Truncated(p, n)
    BY <2>0 DEF applySpeedRule, DividedBy
  <2> HIDE DEF s, x, M, n
  <2>3. x <= n /\ -x <= n
    <3>1. x * x <= n * n
      BY <1>2, <2>1
    <3> QED BY <1>2, <2>1, <3>1, SquareBounds
  <2>4. ASSUME NEW y \in Nat, y <= n
        PROVE  /\ Truncated(y * M, n) \in Nat /\ Truncated(y * M, n) <= M
               /\ Truncated(y * M, n) <= y
    <3> DEFINE q == (y * M) \div n
    <3>1. y * M \in Nat
      BY <1>1
    <3>2. Truncated(y * M, n) = q /\ q \in Nat /\ n * q <= y * M
      BY <2>1, <3>1, TruncatedNat, Quotients
    <3> HIDE DEF q
    <3>3. q <= M
      <4> SUFFICES ASSUME q > M PROVE FALSE
        BY <1>1, <3>2
      <4>1. (n - y) * M >= 0
        BY <1>1, <2>1, <2>4
      <4>2. n * (q - M) > 0
        BY <1>1, <2>1, <3>2
      <4>3. n * q - n * M > 0 /\ n * M - y * M >= 0
        BY <1>1, <2>1, <3>2, <4>1, <4>2
      <4>4. n * q \in Int /\ n * M \in Int /\ y * M \in Int
        BY <1>1, <2>1, <3>2
      <4> QED BY <3>2, <4>3, <4>4
    <3>4. q <= y
      <4> SUFFICES ASSUME q > y PROVE FALSE
        BY <3>2
      <4>1. (n - M) * y >= 0
        BY <1>1, <2>1
      <4>2. n * (q - y) > 0
        BY <2>1, <3>2
      <4>3. n * q - n * y > 0 /\ n * y - y * M >= 0
        BY <1>1, <2>1, <3>2, <4>1, <4>2
      <4>4. n * q \in Int /\ n * y \in Int /\ y * M \in Int
        BY <1>1, <2>1, <3>2
      <4> QED BY <3>2, <4>3, <4>4
    <3> QED BY <3>2, <3>3, <3>4
  <2>5. /\ s \in Int /\ s <= M /\ -s <= M
        /\ x <= 0 => s <= 0
        /\ x >= 0 => 0 <= s /\ s <= x
        /\ x <= 0 => x <= s
    <3>1. CASE x >= 0
      <4>1. s \in Nat /\ s <= M /\ s <= x
        BY <1>2, <2>2, <2>3, <2>4, <3>1
      <4>2. x = 0 => s <= 0
        BY <4>1
      <4> QED BY <1>1, <1>2, <3>1, <4>1, <4>2
    <3>2. CASE x < 0
      <4> DEFINE y == -x
                 r == Truncated(y * M, n)
      <4>1. y \in Nat /\ y <= n
        BY <1>2, <2>3, <3>2
      <4>2. r \in Nat /\ r <= M /\ r <= y
        BY <2>4, <4>1
      <4>3. p \in Int /\ -p = y * M
        BY <1>1, <1>2
      <4>4. Truncated(-p, n) = -s
        BY <2>1, <2>2, <4>3, TruncatedMirror
      <4>5. s \in Int
        BY <2>1, <2>2, <4>3, TruncatedInt
      <4>6. s = -r
        BY <4>3, <4>4, <4>5
      <4> HIDE DEF r
      <4>7. y = -x
        OBVIOUS
      <4> HIDE DEF y
      <4> QED BY <1>1, <1>2, <3>2, <4>2, <4>5, <4>6, <4>7
    <3> QED BY <1>2, <3>1, <3>2
  <2> QED BY <2>5 DEF s, x, M
<1> QED BY <1>3, <1>4
-------------------------------------------------------------------------------
(* The rules, one boid and one axis at a time. *)

LEMMA SizesAre ==
  /\ NUM_BOIDS - 1 \in Nat \ {0} /\ CENTER \in Nat \ {0} /\ AVOID \in Nat \ {0}
  /\ MATCH \in Nat \ {0} /\ AVOID_RADIUS \in Nat \ {0} /\ TURN_FACTOR \in Nat \ {0}
  /\ MAX_SPEED \in Nat \ {0}
  /\ HalfSize["x"] \in Nat /\ HalfSize["y"] \in Nat /\ HalfSize["z"] \in Nat
  /\ FlockAssumption
<1>1. FlockAssumption
  BY FlockAssumption
<1>2. "x" \in Axes /\ "y" \in Axes /\ "z" \in Axes
  BY DEF Axes
<1> QED BY <1>1, <1>2 DEF FlockAssumption

LEMMA TruncatedWithin ==
  ASSUME NEW x \in Int, NEW d \in Nat \ {0}, NEW h \in Nat
  PROVE  Truncated(x, d) <= h <=> x < d * h + d
<1> DEFINE t == Truncated(x, d)
<1>1. d * h \in Nat
  OBVIOUS
<1>2. CASE x < 0
  <2>1. t <= 0 \div d /\ 0 \div d = 0 /\ t \in Int
    BY <1>2, TruncatedUp, TruncatedInt
  <2> HIDE DEF t
  <2>2. t <= h /\ x < d * h + d
    BY <1>1, <1>2, <2>1
  <2> QED BY <2>2 DEF t
<1>3. CASE x >= 0
  <2>1. t \in Nat /\ d * t <= x /\ x < d * t + d
    <3>1. x \in Nat
      BY <1>3
    <3> QED BY <3>1, TruncatedNat, Quotients
  <2> HIDE DEF t
  <2>2. t <= h => x < d * h + d
    <3> SUFFICES ASSUME h - t \in Nat PROVE x < d * h + d
      BY <2>1
    <3>1. d * (h - t) >= 0
      OBVIOUS
    <3>2. d * h - d * t >= 0 /\ d * t \in Int
      BY <2>1, <3>1
    <3> QED BY <1>1, <2>1, <3>2
  <2>3. x < d * h + d => t <= h
    <3> SUFFICES ASSUME x < d * h + d, t >= h + 1 PROVE FALSE
      BY <2>1
    <3>1. t - (h + 1) \in Nat
      BY <2>1
    <3>2. d * (t - (h + 1)) >= 0
      BY <3>1
    <3>3. d * t - (d * h + d) >= 0 /\ d * t \in Int
      BY <2>1, <3>2
    <3> QED BY <1>1, <2>1, <3>3
  <2> QED BY <2>2, <2>3 DEF t
<1> QED BY <1>2, <1>3

LEMMA TruncatedSide ==
  ASSUME NEW x \in Int, NEW d \in Nat \ {0}, NEW s \in {1, -1}
  PROVE  s * Truncated(x, d) = Truncated(s * x, d)
<1>1. Truncated(x, d) \in Int
  BY TruncatedInt
<1>2. CASE s = 1
  BY <1>1, <1>2
<1>3. CASE s = -1
  <2>1. s * x = -x /\ s * Truncated(x, d) = -Truncated(x, d)
    BY <1>1, <1>3
  <2> QED BY <2>1, TruncatedMirror
<1> QED BY <1>2, <1>3

LEMMA TotalTyped ==
  ASSUME NEW vector \in [Ids -> Vectors], NEW ids
  PROVE  Total(vector, ids) \in Vectors
<1>1. ASSUME NEW a \in Axes PROVE Sums(vector, ids, a)[NUM_BOIDS] \in Int
  <2>1. SumsUp(Sums(vector, ids, a), vector, ids, a)
    BY SumsAre
  <2>2. NUM_BOIDS \in 0..NUM_BOIDS
    BY IdsAre
  <2> QED BY <2>1, <2>2 DEF SumsUp
<1> QED BY <1>1 DEF Total, Vectors

LEMMA AverageTyped ==
  ASSUME NEW vector \in [Ids -> Vectors], NEW ids
  PROVE  Average(vector, ids) \in Vectors
BY TotalTyped, VectorsDivided, SizesAre DEF Average

(* Averages are no farther apart than what they are averages of. *)
LEMMA AveragesApart ==
  ASSUME NEW u \in [Ids -> Vectors], NEW v \in [Ids -> Vectors], NEW i \in Ids,
         NEW a \in Axes, NEW B \in Nat, NEW h \in Nat, NEW s \in {1, -1},
         \A j \in Others(i) : s * u[j][a] <= s * v[j][a] + B,
         s * Average(v, Others(i))[a] <= h
  PROVE  s * Average(u, Others(i))[a] <= h + B
<1> DEFINE d == NUM_BOIDS - 1
           t == Total(u, Others(i))[a]
           r == Total(v, Others(i))[a]
<1>1. d \in Nat \ {0}
  BY SizesAre
<1>2. t \in Int /\ r \in Int /\ s * t <= s * r + d * B
  BY TotalsApart
<1>3. Average(u, Others(i))[a] = Truncated(t, d) /\ Average(v, Others(i))[a] = Truncated(r, d)
  BY DEF Average, DividedBy
<1> HIDE DEF t, r, d
<1>4. s * t \in Int /\ s * r \in Int
  BY <1>2
<1>5. Truncated(s * r, d) <= h
  BY <1>1, <1>2, <1>3, TruncatedSide
<1>6. s * r < d * h + d
  BY <1>1, <1>4, <1>5, TruncatedWithin
<1>7. d * (h + B) = d * h + d * B /\ d * h \in Nat /\ d * B \in Nat
  BY <1>1
<1>8. s * t < d * (h + B) + d
  BY <1>1, <1>2, <1>4, <1>6, <1>7
<1>9. Truncated(s * t, d) <= h + B
  BY <1>1, <1>4, <1>8, TruncatedWithin
<1> QED BY <1>1, <1>2, <1>3, <1>9, TruncatedSide

(* No boid is faster than the cap: nor are the others on average. *)
LEMMA AverageSlow ==
  ASSUME NEW u \in [Ids -> Vectors], NEW i \in Ids, NEW a \in Axes, NEW s \in {1, -1},
         \A j \in Others(i) : Slow(u[j])
  PROVE  s * Average(u, Others(i))[a] <= MAX_SPEED
<1> DEFINE still == [j \in Ids |-> Zero]
<1>1. still \in [Ids -> Vectors] /\ \A j \in Ids : still[j][a] = 0
  BY DEF Zero, Vectors
<1> HIDE DEF still
<1>2. Total(still, Others(i))[a] = 0
  BY <1>1, TotalZero
<1>3. Average(still, Others(i))[a] = 0
  BY <1>2, SizesAre, TruncatedZero DEF Average, DividedBy
<1>4. s * Average(still, Others(i))[a] <= 0
  BY <1>3
<1>5. ASSUME NEW j \in Others(i) PROVE s * u[j][a] <= s * still[j][a] + MAX_SPEED
  <2>1. j \in Ids
    BY DEF Others
  <2>2. u[j] \in Vectors /\ still[j][a] = 0 /\ MAX_SPEED \in Nat
    BY <1>1, <2>1, SizesAre
  <2>3. u[j][a] \in Int /\ u[j][a] <= MAX_SPEED /\ -u[j][a] <= MAX_SPEED
    BY <2>2 DEF Slow, Vectors
  <2>4. CASE s = 1
    BY <2>2, <2>3, <2>4
  <2>5. CASE s = -1
    BY <2>2, <2>3, <2>5
  <2> QED BY <2>4, <2>5
<1>6. MAX_SPEED \in Nat /\ 0 \in Nat
  BY SizesAre
<1>7. s * Average(u, Others(i))[a] <= 0 + MAX_SPEED
  BY <1>1, <1>4, <1>5, <1>6, AveragesApart
<1> QED BY <1>6, <1>7

(* Boids too far away on some axis do not push. *)
LEMMA NobodyNear ==
  ASSUME NEW f \in Flocks, NEW i \in Ids, NEW a \in Axes,
         \A j \in Others(i) : \E b \in Axes :
           \/ f.pos[i][b] - f.pos[j][b] >= AVOID_RADIUS
           \/ -(f.pos[i][b] - f.pos[j][b]) >= AVOID_RADIUS
  PROVE  calcDistRule(f, i)[a] = 0
<1> DEFINE diff == [j \in Ids |-> Vector3Subtract(f.pos[i], f.pos[j])]
           near == {j \in Others(i) : Square(diff[j]) < AVOID_RADIUS * AVOID_RADIUS}
<1>1. f.pos \in [Ids -> Vectors]
  BY FlockFields
<1>2. \A j \in Ids : Vector3Subtract(f.pos[i], f.pos[j]) \in Vectors
  BY <1>1, VectorsAdd
<1>3. diff \in [Ids -> Vectors]
  BY <1>2
<1>4. ASSUME NEW j \in Others(i) PROVE ~(Square(diff[j]) < AVOID_RADIUS * AVOID_RADIUS)
  <2>1. j \in Ids /\ diff[j] = Vector3Subtract(f.pos[i], f.pos[j]) /\ diff[j] \in Vectors
    BY <1>3 DEF Others
  <2>2. PICK b \in Axes :
          \/ f.pos[i][b] - f.pos[j][b] >= AVOID_RADIUS
          \/ -(f.pos[i][b] - f.pos[j][b]) >= AVOID_RADIUS
    OBVIOUS
  <2> DEFINE x == diff[j][b]
             r == AVOID_RADIUS
  <2>3. x >= r \/ -x >= r
    BY <2>1, <2>2 DEF Vector3Subtract
  <2>4. x \in Int /\ x * x <= Square(diff[j]) /\ Square(diff[j]) \in Nat
    BY <2>1, AxisOfSquare, SquareNat
  <2>5. r \in Nat
    BY SizesAre
  <2> HIDE DEF x, r
  <2>6. ASSUME NEW y \in Int, y >= r PROVE y * y >= r * r
    <3>1. (y - r) * (y + r) >= 0
      <4>1. y - r \in Nat /\ y + r \in Nat
        BY <2>5, <2>6
      <4> QED BY <4>1
    <3>2. y * y - r * r >= 0 /\ y * y \in Int /\ r * r \in Int
      BY <2>5, <3>1
    <3> QED BY <3>2
  <2>7. x * x >= r * r
    <3>1. (-x) * (-x) = x * x /\ -x \in Int
      BY <2>4
    <3> QED BY <2>3, <2>4, <2>6, <3>1
  <2>8. x * x \in Int /\ r * r \in Int
    BY <2>4, <2>5
  <2>9. ~(Square(diff[j]) < r * r)
    BY <2>4, <2>7, <2>8
  <2> QED BY <2>9 DEF r
<1>5. near = {}
  <2> HIDE DEF diff
  <2> QED BY <1>4
<1>6. calcDistRule(f, i) = DividedBy(Total(diff, near), AVOID)
  BY DEF calcDistRule
<1> HIDE DEF diff, near
<1>7. Total(diff, near)[a] = 0
  BY <1>3, <1>5, TotalZero
<1> QED BY <1>6, <1>7, SizesAre, TruncatedZero DEF DividedBy

LEMMA RulesTyped ==
  ASSUME NEW f \in Flocks, NEW i \in Ids
  PROVE  /\ calcCenterRule(f, i) \in Vectors
         /\ calcDistRule(f, i) \in Vectors
         /\ calcMatchRule(f, i) \in Vectors
<1>1. f.pos \in [Ids -> Vectors] /\ f.vel \in [Ids -> Vectors] /\ f.pos[i] \in Vectors /\ f.vel[i] \in Vectors
  BY FlockFields
<1>2. ASSUME NEW u \in [Ids -> Vectors]
      PROVE  Vector3Subtract(Average(u, Others(i)), u[i]) \in Vectors
  <2>1. Average(u, Others(i)) \in Vectors /\ u[i] \in Vectors
    BY AverageTyped
  <2> QED BY <2>1, VectorsAdd
<1>3. calcCenterRule(f, i) \in Vectors
  BY <1>1, <1>2, VectorsDivided, SizesAre DEF calcCenterRule
<1>4. calcMatchRule(f, i) \in Vectors
  BY <1>1, <1>2, VectorsDivided, SizesAre DEF calcMatchRule
<1> DEFINE diff == [j \in Ids |-> Vector3Subtract(f.pos[i], f.pos[j])]
           near == {j \in Others(i) : Square(diff[j]) < AVOID_RADIUS * AVOID_RADIUS}
<1>5. calcDistRule(f, i) = DividedBy(Total(diff, near), AVOID)
  BY DEF calcDistRule
<1>6. \A j \in Ids : Vector3Subtract(f.pos[i], f.pos[j]) \in Vectors
  BY <1>1, VectorsAdd
<1>7. diff \in [Ids -> Vectors]
  BY <1>6
<1> HIDE DEF diff, near
<1>8. calcDistRule(f, i) \in Vectors
  BY <1>5, <1>7, TotalTyped, VectorsDivided, SizesAre
<1> QED BY <1>3, <1>4, <1>8

(* The three rules on one axis. *)
LEMMA FlockedIs ==
  ASSUME NEW f \in Flocks, NEW i \in Ids
  PROVE  /\ Flocked(f, i) \in Vectors
         /\ \E u \in [Ids -> Vectors] :
              /\ \A j \in Others(i) : u[j] = f.vel[j]
              /\ \A a \in Axes :
                   LET w == f.vel[i][a] + calcCenterRule(f, i)[a] + calcDistRule(f, i)[a]
                   IN  Flocked(f, i)[a] =
                         w + Truncated(Average(u, Others(i))[a] - w, MATCH)
<1> DEFINE c == calcCenterRule(f, i)
           e == calcDistRule(f, i)
           v1 == Vector3Add(f.vel[i], c)
           centred == Steered(f, i, v1)
           v2 == Vector3Add(centred.vel[i], e)
           other == Steered(f, i, v2)
<1>0. Flocked(f, i) = Vector3Add(other.vel[i], calcMatchRule(other, i))
  BY DEF Flocked
<1>1. f.vel \in [Ids -> Vectors] /\ f.vel[i] \in Vectors /\ c \in Vectors /\ e \in Vectors
  BY FlockFields, RulesTyped
<1>2. v1 \in Vectors
  BY <1>1, VectorsAdd
<1>3. /\ centred \in Flocks /\ centred.pos = f.pos
      /\ centred.vel = [f.vel EXCEPT ![i] = v1] /\ centred.vel[i] = v1
  <2> HIDE DEF v1
  <2>1. /\ centred \in Flocks
        /\ centred = [pos |-> f.pos, vel |-> [f.vel EXCEPT ![i] = v1]]
    BY <1>2, SteeredIs
  <2> HIDE DEF centred
  <2> QED BY <1>1, <2>1
<1>4. v2 = Vector3Add(v1, e)
  BY <1>3
<1>5. v2 \in Vectors
  BY <1>1, <1>2, <1>4, VectorsAdd
<1> HIDE DEF centred, v1, v2
<1>6. /\ other \in Flocks /\ other.vel = [f.vel EXCEPT ![i] = v2] /\ other.vel[i] = v2
  <2>1. /\ other \in Flocks
        /\ other = [pos |-> f.pos, vel |-> [f.vel EXCEPT ![i] = v2]]
    BY <1>5, SteeredIs
  <2> HIDE DEF other
  <2> QED BY <1>1, <2>1
<1>7. Flocked(f, i) = Vector3Add(v2, calcMatchRule(other, i))
  BY <1>0, <1>6
<1> HIDE DEF other
<1>8. Flocked(f, i) \in Vectors
  BY <1>5, <1>6, <1>7, RulesTyped, VectorsAdd
<1>9. other.vel \in [Ids -> Vectors]
  BY <1>6, FlockFields
<1>10. ASSUME NEW j \in Others(i) PROVE other.vel[j] = f.vel[j]
  <2>1. j \in Ids /\ j # i
    BY DEF Others
  <2> QED BY <1>1, <1>6, <2>1
<1>11. ASSUME NEW a \in Axes
       PROVE  LET w == f.vel[i][a] + c[a] + e[a]
              IN  Flocked(f, i)[a] =
                    w + Truncated(Average(other.vel, Others(i))[a] - w, MATCH)
  <2> HIDE DEF c, e
  <2>1. v2[a] = f.vel[i][a] + c[a] + e[a]
    BY <1>4 DEF v1, Vector3Add
  <2>2. Flocked(f, i)[a] = v2[a] + calcMatchRule(other, i)[a]
    BY <1>7 DEF Vector3Add
  <2>3. calcMatchRule(other, i)[a] =
          Truncated(Average(other.vel, Others(i))[a] - other.vel[i][a], MATCH)
    BY DEF calcMatchRule, DividedBy, Vector3Subtract
  <2> QED BY <1>6, <2>1, <2>2, <2>3
<1> QED BY <1>8, <1>9, <1>10, <1>11

-------------------------------------------------------------------------------
(* A stray in its round of the loop. *)

(* A boid keeps its place until its round, and one that is not faster than *)
(* the cap gets no farther than the cap in it.                             *)
NearBy(f, g, i) ==
  /\ g.pos[i] = f.pos[i] /\ g.vel[i] = f.vel[i]
  /\ \A j \in Ids : /\ Slow(g.vel[j])
                    /\ Slow(Vector3Subtract(g.pos[j], f.pos[j]))

(* The shifts of the others in the frame are no more than a cap each. *)
LEMMA ShiftIs ==
  ASSUME NEW f \in Flocks, NEW g \in Flocks, NEW i \in Ids, NearBy(f, g, i),
         NEW j \in Ids, NEW a \in Axes
  PROVE  /\ f.pos[j][a] \in Int /\ g.pos[j][a] \in Int /\ f.vel[j][a] \in Int
         /\ g.pos[j][a] - f.pos[j][a] <= MAX_SPEED
         /\ f.pos[j][a] - g.pos[j][a] <= MAX_SPEED
<1>1. f.pos[j] \in Vectors /\ g.pos[j] \in Vectors /\ f.vel[j] \in Vectors
  BY FlockFields
<1>2. f.pos[j][a] \in Int /\ g.pos[j][a] \in Int /\ f.vel[j][a] \in Int
  BY <1>1 DEF Vectors
<1>3. Slow(Vector3Subtract(g.pos[j], f.pos[j]))
  BY DEF NearBy
<1>4. /\ g.pos[j][a] - f.pos[j][a] <= MAX_SPEED
      /\ -(g.pos[j][a] - f.pos[j][a]) <= MAX_SPEED
  BY <1>3 DEF Slow, Vector3Subtract
<1> QED BY <1>2, <1>4, SizesAre

(* What the rules leave a stray of its way out. *)
LEMMA StrayIsFlocked ==
  ASSUME NEW f \in Flocks, NEW g \in Flocks, NEW i \in Ids, NearBy(f, g, i),
         NEW a \in Axes, NEW s \in {1, -1}, Strays(f, i, a, s),
         NEW b \in Nat, s * f.vel[i][a] <= b
  PROVE  /\ Flocked(g, i)[a] \in Int
         /\ s * Flocked(g, i)[a] <= b + MAX_SPEED \div CENTER + MAX_SPEED \div MATCH
<1> DEFINE M == MAX_SPEED
           h == HalfSize[a]
           p == f.pos[i][a]
           v == f.vel[i][a]
           avg == Average(g.pos, Others(i))[a]
           c == calcCenterRule(g, i)[a]
           e == calcDistRule(g, i)[a]
           w == v + c
           C == M \div CENTER
           H == M \div MATCH
<1>1. /\ M \in Nat \ {0} /\ CENTER \in Nat \ {0} /\ MATCH \in Nat \ {0} /\ AVOID_RADIUS \in Nat
      /\ h \in Nat /\ p \in Int /\ v \in Int /\ s * p > h
  <2>1. h \in Nat
    BY SizesAre DEF FlockAssumption
  <2>2. p \in Int /\ v \in Int
    BY ShiftIs
  <2> QED BY <2>1, <2>2, SizesAre DEF Strays, Beyond
<1>2. C \in Nat /\ H \in Nat
  BY <1>1, Quotients
<1>3. g.pos[i][a] = p /\ g.vel[i][a] = v
  BY DEF NearBy
<1>4. avg \in Int /\ s * avg <= h + M
  <2>1. g.pos \in [Ids -> Vectors] /\ f.pos \in [Ids -> Vectors]
    BY FlockFields
  <2>2. ASSUME NEW j \in Others(i) PROVE s * g.pos[j][a] <= s * f.pos[j][a] + M
    <3> DEFINE x == f.pos[j][a]
               y == g.pos[j][a]
    <3>1. x \in Int /\ y \in Int /\ y - x <= M /\ x - y <= M
      <4>1. j \in Ids
        BY DEF Others
      <4> QED BY <4>1, ShiftIs
    <3> HIDE DEF x, y, M
    <3>2. s * y <= s * x + M
      BY <1>1, <3>1
    <3> QED BY <3>2 DEF x, y
  <2>3. s * Average(f.pos, Others(i))[a] <= h
    BY DEF Strays
  <2>4. avg \in Int
    BY <2>1, AverageTyped DEF Vectors
  <2> HIDE DEF M, h
  <2>5. M \in Nat /\ h \in Nat
    BY <1>1
  <2> QED BY <2>1, <2>2, <2>3, <2>4, <2>5, AveragesApart
<1>5. c \in Int /\ s * c <= C
  <2>1. c = Truncated(avg - p, CENTER)
    BY <1>3 DEF calcCenterRule, DividedBy, Vector3Subtract
  <2> HIDE DEF c, C, avg, p, h, M
  <2>2. s * (avg - p) \in Int /\ s * (avg - p) <= M /\ avg - p \in Int
    BY <1>1, <1>4
  <2>3. Truncated(s * (avg - p), CENTER) <= M \div CENTER
    BY <1>1, <2>2, TruncatedUp
  <2>4. s * Truncated(avg - p, CENTER) = Truncated(s * (avg - p), CENTER)
    BY <1>1, <2>2, TruncatedSide
  <2> QED BY <1>1, <2>1, <2>2, <2>3, <2>4, TruncatedInt DEF C
<1>6. e = 0
  <2>1. ASSUME NEW j \in Others(i)
        PROVE  \E d \in Axes :
                 \/ g.pos[i][d] - g.pos[j][d] >= AVOID_RADIUS
                 \/ -(g.pos[i][d] - g.pos[j][d]) >= AVOID_RADIUS
    <3>1. j \in Ids
      BY DEF Others
    <3>2. PICK d \in Axes :
            LET diff == f.pos[i][d] - f.pos[j][d]
            IN  diff >= AVOID_RADIUS + MAX_SPEED \/ -diff >= AVOID_RADIUS + MAX_SPEED
      BY DEF Strays, Clear
    <3> DEFINE x == f.pos[j][d]
               y == g.pos[j][d]
               z == f.pos[i][d]
               r == AVOID_RADIUS
    <3>3. x \in Int /\ y \in Int /\ z \in Int /\ y - x <= M /\ x - y <= M
      BY <3>1, ShiftIs
    <3>4. g.pos[i][d] = z /\ (z - x >= r + M \/ -(z - x) >= r + M)
      BY <3>2 DEF NearBy
    <3>5. r \in Nat
      BY <1>1
    <3> HIDE DEF x, y, z, r, M
    <3>6. z - y >= r \/ -(z - y) >= r
      BY <1>1, <3>3, <3>4, <3>5
    <3> QED BY <3>4, <3>6 DEF y, r
  <2> QED BY <2>1, NobodyNear
<1>7. w \in Int /\ s * w <= b + C
  <2> HIDE DEF c, C, v
  <2>1. s * v <= b
    BY DEF v
  <2> QED BY <1>1, <1>2, <1>5, <2>1
<1>8. PICK u \in [Ids -> Vectors] :
        /\ \A j \in Others(i) : u[j] = g.vel[j]
        /\ Flocked(g, i)[a] = (v + c + e) + Truncated(Average(u, Others(i))[a] - (v + c + e), MATCH)
  BY <1>3, FlockedIs
<1> DEFINE m == Average(u, Others(i))[a]
           t == Truncated(m - w, MATCH)
<1>9. m \in Int /\ s * m <= M
  <2>1. ASSUME NEW j \in Others(i) PROVE Slow(u[j])
    BY <1>8 DEF NearBy, Others
  <2>2. m \in Int
    BY AverageTyped DEF Vectors
  <2> QED BY <2>1, <2>2, AverageSlow
<1>10. Flocked(g, i)[a] = w + t
  <2> HIDE DEF v, c, e
  <2>1. v + c + e = w
    BY <1>1, <1>5, <1>6
  <2> QED BY <1>8, <2>1
<1> HIDE DEF w, m, C, H, M
<1>11. t \in Int /\ s * t = Truncated(s * m - s * w, MATCH)
  <2>1. m - w \in Int /\ s * (m - w) = s * m - s * w
    BY <1>7, <1>9
  <2>2. s * Truncated(m - w, MATCH) = Truncated(s * (m - w), MATCH)
    BY <1>1, <2>1, TruncatedSide
  <2>3. t \in Int
    BY <1>1, <2>1, TruncatedInt
  <2> QED BY <2>1, <2>2, <2>3
<1>12. s * w \in Int /\ s * m \in Int /\ b + C \in Nat /\ M \in Nat
  BY <1>1, <1>2, <1>7, <1>9
<1>13. s * w + Truncated(s * m - s * w, MATCH) <= (b + C) + M \div MATCH
  BY <1>1, <1>7, <1>9, <1>12, PartOfTheWay
<1> HIDE DEF t
<1>14. s * (w + t) = s * w + s * t
  BY <1>7, <1>11
<1>15. w + t \in Int /\ s * (w + t) <= b + C + H
  BY <1>2, <1>7, <1>11, <1>12, <1>13, <1>14 DEF H
<1> QED BY <1>10, <1>15 DEF C, H, M

LEMMA VelocityTyped ==
  ASSUME NEW f \in Flocks, NEW i \in Ids
  PROVE  Velocity(f, i) \in Vectors /\ Slow(Velocity(f, i))
<1> DEFINE u == applyBoundRule(f.pos[i], Flocked(f, i))
<1>1. Flocked(f, i) \in Vectors
  BY FlockedIs
<1>2. \A a \in Axes : u[a] \in Int
  <2> SUFFICES ASSUME NEW a \in Axes PROVE u[a] \in Int
    OBVIOUS
  <2>1. Flocked(f, i)[a] \in Int /\ TURN_FACTOR \in Int
    BY <1>1, SizesAre DEF Vectors
  <2> QED BY <2>1 DEF applyBoundRule
<1>3. u \in Vectors
  BY <1>2 DEF applyBoundRule, Vectors
<1>4. Velocity(f, i) = applySpeedRule(u)
  BY DEF Velocity
<1> HIDE DEF u
<1>5. applySpeedRule(u) \in Vectors
  BY <1>3, SpeedRule, SizesAre
<1>6. \A a \in Axes : applySpeedRule(u)[a] <= MAX_SPEED /\ -applySpeedRule(u)[a] <= MAX_SPEED
  BY <1>3, CapShortens, SizesAre
<1> QED BY <1>4, <1>5, <1>6 DEF Slow

(* A stray loses half a push on its way out, whatever the others do. *)
LEMMA StrayTurns ==
  ASSUME MAX_SPEED \div CENTER + MAX_SPEED \div MATCH <= TURN_FACTOR \div 2,
         HalfSize["y"] <= HalfSize["z"],
         NEW f \in Flocks, NEW g \in Flocks, NEW i \in Ids, NearBy(f, g, i),
         NEW a \in Axes, NEW s \in {1, -1}, s = 1 => a = "x", Strays(f, i, a, s)
  PROVE  TurnsBack(f.vel[i], Velocity(g, i), a, s)
<1> DEFINE v == f.vel[i][a]
           p == f.pos[i][a]
           most == IF s * v >= 0 THEN s * v ELSE 0
           u == Flocked(g, i)
           r == applyBoundRule(g.pos[i], u)
           n == Velocity(g, i)[a]
           C == MAX_SPEED \div CENTER
           H == MAX_SPEED \div MATCH
           half == TURN_FACTOR \div 2
<1>1. v \in Int /\ p \in Int /\ g.pos[i][a] = p
  BY ShiftIs DEF NearBy
<1>2. /\ C \in Nat /\ H \in Nat /\ C + H <= half
      /\ TURN_FACTOR \in Nat /\ half \in Nat /\ 2 * half <= TURN_FACTOR
  BY SizesAre, Quotients
<1>3. s * v \in Int /\ most \in Nat /\ s * v <= most
  BY <1>1
<1>4. u \in Vectors
  BY FlockedIs
<1>5. u[a] \in Int /\ s * u[a] <= most + C + H
  <2> HIDE DEF most, v
  <2>1. s * f.vel[i][a] <= most
    BY <1>3 DEF v
  <2> QED BY <1>3, <2>1, StrayIsFlocked
<1>6. s * p > HalfSize[a]
  BY DEF Strays, Beyond
<1>7. r \in Vectors /\ r[a] = u[a] - s * TURN_FACTOR
  <2>1. \A b \in Axes : u[b] \in Int /\ TURN_FACTOR \in Int
    BY <1>2, <1>4 DEF Vectors
  <2> HIDE DEF u
  <2>2. r \in Vectors
    BY <2>1 DEF applyBoundRule, Vectors
  <2>3. r[a] = u[a] + (IF p < Lower[a] THEN TURN_FACTOR ELSE 0)
                    - (IF p > Upper[a] THEN TURN_FACTOR ELSE 0)
    BY <1>1 DEF applyBoundRule
  <2>4. /\ Lower["x"] = -HalfSize["x"] /\ Lower["y"] = -HalfSize["y"]
        /\ Lower["z"] = -HalfSize["y"] /\ Upper[a] = HalfSize["x"]
    BY DEF Lower, Upper
  <2>5. a = "x" \/ a = "y" \/ a = "z"
    BY DEF Axes
  <2> DEFINE x == r[a]
             y == u[a]
  <2>6. y \in Int /\ TURN_FACTOR \in Int
    BY <2>1
  <2>7. x = y + (IF p < Lower[a] THEN TURN_FACTOR ELSE 0)
              - (IF p > Upper[a] THEN TURN_FACTOR ELSE 0)
    BY <2>3
  <2> HIDE DEF x, y
  <2>8. CASE s = 1
    <3>1. p > Upper[a] /\ ~(p < Lower[a])
      BY <1>1, <1>6, <2>4, <2>8, SizesAre
    <3>2. x = y - s * TURN_FACTOR
      BY <2>6, <2>7, <2>8, <3>1, SMTT(40)
    <3> QED BY <2>2, <3>2 DEF x, y
  <2>9. CASE s = -1
    <3>1. p < Lower[a]
      BY <1>1, <1>6, <2>4, <2>5, <2>9, SizesAre
    <3>2. ~(p > Upper[a])
      <4>1. p < 0
        BY <1>1, <1>6, <2>5, <2>9, SizesAre
      <4> QED BY <1>1, <2>4, <4>1, SizesAre
    <3>3. x = y - s * TURN_FACTOR
      BY <2>6, <2>7, <2>9, <3>1, <3>2, SMTT(40)
    <3> QED BY <2>2, <3>3 DEF x, y
  <2> QED BY <2>8, <2>9
<1>8. r[a] \in Int /\ s * r[a] <= most - half
  <2> HIDE DEF most, u, C, H, r, half
  <2>1. r[a] \in Int
    BY <1>7 DEF Vectors
  <2> DEFINE x == s * u[a]
             y == s * r[a]
  <2>2. x \in Int /\ x <= most + C + H
    BY <1>5
  <2>3. y = x - TURN_FACTOR
    BY <1>2, <1>5, <1>7
  <2> HIDE DEF x, y
  <2>4. y <= most - half
    BY <1>2, <1>3, <2>2, <2>3
  <2> QED BY <2>1, <2>4 DEF y
<1>9. n = applySpeedRule(r)[a]
  BY DEF Velocity
<1> HIDE DEF r, u, n, half
<1>10. /\ n \in Int
       /\ r[a] <= 0 => n <= 0
       /\ r[a] >= 0 => 0 <= n /\ n <= r[a]
       /\ r[a] <= 0 => r[a] <= n
  BY <1>7, <1>9, CapShortens, SizesAre
<1>11. s * n <= s * v - half \/ s * n <= 0
  BY <1>1, <1>2, <1>3, <1>8, <1>10
<1> QED BY <1>11 DEF TurnsBack, n, half

-------------------------------------------------------------------------------
(* The rounds of the loop. *)

LEMMA MovedIs ==
  ASSUME NEW f \in Flocks, NEW i \in Ids
  PROVE  LET v == Velocity(f, i)
         IN  /\ Moved(f, i) \in Flocks
             /\ Moved(f, i).pos = [f.pos EXCEPT ![i] = Vector3Add(f.pos[i], v)]
             /\ Moved(f, i).vel = [f.vel EXCEPT ![i] = v]
<1> DEFINE v == Velocity(f, i)
           p == Vector3Add(f.pos[i], v)
           h == Steered(f, i, v)
<1>1. f.pos \in [Ids -> Vectors] /\ f.vel \in [Ids -> Vectors] /\ f.pos[i] \in Vectors
  BY FlockFields
<1>2. v \in Vectors
  BY VelocityTyped
<1> HIDE DEF v
<1>3. p \in Vectors
  BY <1>1, <1>2, VectorsAdd
<1>4. h \in Flocks /\ h = [pos |-> f.pos, vel |-> [f.vel EXCEPT ![i] = v]]
  BY <1>2, SteeredIs
<1>5. Moved(f, i) = [h EXCEPT !.pos[i] = p]
  BY DEF Moved, v
<1> HIDE DEF h, p
<1>6. Moved(f, i) = [pos |-> [f.pos EXCEPT ![i] = p], vel |-> [f.vel EXCEPT ![i] = v]]
  BY <1>4, <1>5
<1>7. [f.pos EXCEPT ![i] = p] \in [Ids -> Vectors] /\ [f.vel EXCEPT ![i] = v] \in [Ids -> Vectors]
  BY <1>1, <1>2, <1>3
<1>8. Moved(f, i) \in Flocks
  BY <1>6, <1>7 DEF Flocks
<1> QED BY <1>6, <1>8 DEF p, v

LEMMA RoundsAre ==
  ASSUME NEW f \in Flocks
  PROVE  /\ Rounds(f) \in [0..NUM_BOIDS -> Flocks] /\ Rounds(f)[0] = f
         /\ \A n \in Ids : Rounds(f)[n] = Moved(Rounds(f)[n - 1], n)
<1> DEFINE N == NUM_BOIDS
           g == [q \in Flocks \X (1..N) |-> Moved(q[1], q[2])]
           Is(s) == s = [n \in 0..N |-> IF n = 0 THEN f ELSE Moved(s[n - 1], n)]
<1>1. N \in Nat /\ Ids = 1..N
  BY IdsAre
<1>2. \A h \in Flocks, n \in 1..N : Moved(h, n) \in Flocks
  BY <1>1, MovedIs
<1>3. g \in [Flocks \X (1..N) -> Flocks]
  BY <1>2
<1>4. PICK s : Follows(s, Flocks, f, g, N)
  <2> HIDE DEF g, N
  <2> QED BY <1>1, <1>3, Recursion
<1>5. s \in [0..N -> Flocks] /\ s[0] = f /\ \A n \in 1..N : s[n] = g[<<s[n - 1], n>>]
  <2> HIDE DEF g, N
  <2> QED BY <1>4 DEF Follows
<1>6. ASSUME NEW n \in 1..N PROVE s[n] = Moved(s[n - 1], n)
  <2>1. n - 1 \in 0..N
    BY <1>1
  <2>2. s[n - 1] \in Flocks
    BY <1>5, <2>1
  <2> DEFINE e == <<s[n - 1], n>>
  <2>3. e[1] = s[n - 1] /\ e[2] = n /\ e \in Flocks \X (1..N)
    BY <2>2
  <2>4. s[n] = g[e]
    BY <1>5
  <2> HIDE DEF e
  <2>5. g[e] = Moved(e[1], e[2])
    BY <2>3, Zenon
  <2> QED BY <2>3, <2>4, <2>5
<1>7. Is(s)
  <2>1. \A n \in 0..N : n # 0 => n \in 1..N
    BY <1>1
  <2>2. \A n \in 0..N : s[n] = IF n = 0 THEN f ELSE Moved(s[n - 1], n)
    BY <1>5, <1>6, <2>1
  <2>3. s = [n \in 0..N |-> s[n]]
    BY <1>5
  <2> QED BY <2>2, <2>3
<1>8. Rounds(f) = CHOOSE after : Is(after)
  BY Zenon DEF Rounds
<1> DEFINE after == Rounds(f)
<1>9. Is(after)
  <2> HIDE DEF Is
  <2> QED BY <1>7, <1>8, Zenon
<1>10. DOMAIN after = 0..N /\ after[0] = f /\ \A n \in 1..N : after[n] = Moved(after[n - 1], n)
  <2>1. 0 \in 0..N /\ \A n \in 1..N : n \in 0..N /\ n # 0
    BY <1>1
  <2> HIDE DEF after
  <2> QED BY <1>9, <2>1
<1>11. \A n \in 0..N : after[n] = s[n]
  <2> DEFINE Bad == {n \in 0..N : after[n] # s[n]}
  <2> SUFFICES ASSUME Bad # {} PROVE FALSE
    OBVIOUS
  <2> HIDE DEF after
  <2>1. PICK k \in Bad : \A j \in Bad : k <= j
    <3>1. Bad \subseteq Nat
      BY <1>1
    <3> HIDE DEF Bad
    <3> QED BY <3>1, Least
  <2>2. k \in 0..N /\ after[k] # s[k] /\ k # 0
    BY <1>5, <1>10, <2>1
  <2>3. k \in 1..N /\ k - 1 \in 0..N /\ ~(k <= k - 1)
    BY <1>1, <2>2
  <2>4. after[k - 1] = s[k - 1]
    BY <2>1, <2>3
  <2> QED BY <1>6, <1>10, <2>2, <2>3, <2>4
<1>12. after \in [0..N -> Flocks]
  <2> HIDE DEF after
  <2>1. \A n \in 0..N : after[n] \in Flocks
    BY <1>5, <1>11
  <2>2. after = [n \in 0..N |-> after[n]]
    BY <1>9, <1>10
  <2> QED BY <2>1, <2>2
<1> QED BY <1>1, <1>10, <1>12

(* After n rounds, the boids moved are slow, have come no farther than one *)
(* move and have the velocities of their rounds; the others wait.          *)
Reached(f, n) ==
  \A j \in Ids :
    LET h == Rounds(f)[n]
    IN  IF j <= n
        THEN /\ h.vel[j] = Velocity(Rounds(f)[j - 1], j)
             /\ h.pos[j] = Vector3Add(f.pos[j], h.vel[j])
        ELSE h.pos[j] = f.pos[j] /\ h.vel[j] = f.vel[j]

LEMMA AllReached ==
  ASSUME NEW f \in Flocks
  PROVE  \A n \in 0..NUM_BOIDS : Reached(f, n)
<1> DEFINE R == Rounds(f)
           Bad == {n \in 0..NUM_BOIDS : ~Reached(f, n)}
<1>1. NUM_BOIDS \in Nat /\ Ids = 1..NUM_BOIDS
  BY IdsAre
<1>2. /\ R \in [0..NUM_BOIDS -> Flocks] /\ R[0] = f
      /\ \A n \in Ids : R[n] = Moved(R[n - 1], n)
  BY RoundsAre
<1>3. SUFFICES ASSUME Bad # {} PROVE FALSE
  OBVIOUS
<1>4. PICK k \in Bad : \A j \in Bad : k <= j
  <2>1. Bad \subseteq Nat
    BY <1>1
  <2> HIDE DEF Bad
  <2> QED BY <1>3, <2>1, Least
<1> HIDE DEF R
<1>5. k # 0
  <2>1. \A j \in Ids : ~(j <= 0)
    BY <1>1
  <2>2. Reached(f, 0)
    BY <1>2, <2>1 DEF Reached, R
  <2> QED BY <1>4, <2>2
<1>6. k \in Ids /\ k - 1 \in 0..NUM_BOIDS /\ ~(k <= k - 1) /\ k \in Nat
  BY <1>1, <1>4, <1>5
<1> DEFINE g == R[k - 1]
           h == R[k]
           v == Velocity(g, k)
<1>7. Reached(f, k - 1)
  BY <1>4, <1>6
<1>8. g \in Flocks /\ h = Moved(g, k)
  BY <1>2, <1>6
<1> HIDE DEF g, h
<1>9. /\ h.pos = [g.pos EXCEPT ![k] = Vector3Add(g.pos[k], v)]
      /\ h.vel = [g.vel EXCEPT ![k] = v]
      /\ g.pos \in [Ids -> Vectors] /\ g.vel \in [Ids -> Vectors]
  BY <1>6, <1>8, MovedIs, FlockFields
<1>10. ASSUME NEW j \in Ids
       PROVE  IF j <= k
              THEN /\ h.vel[j] = Velocity(R[j - 1], j)
                   /\ h.pos[j] = Vector3Add(f.pos[j], h.vel[j])
              ELSE h.pos[j] = f.pos[j] /\ h.vel[j] = f.vel[j]
  <2>1. IF j <= k - 1
        THEN /\ g.vel[j] = Velocity(R[j - 1], j)
             /\ g.pos[j] = Vector3Add(f.pos[j], g.vel[j])
        ELSE g.pos[j] = f.pos[j] /\ g.vel[j] = f.vel[j]
    BY <1>7 DEF Reached, R, g
  <2>2. j \in Nat
    BY <1>1
  <2>3. CASE j = k
    <3>1. h.vel[k] = v /\ h.pos[k] = Vector3Add(g.pos[k], v)
      BY <1>6, <1>9
    <3>2. g.pos[k] = f.pos[k]
      BY <1>6, <2>1, <2>3
    <3>3. v = Velocity(R[k - 1], k)
      BY DEF g
    <3> HIDE DEF v
    <3>4. j <= k
      BY <1>6, <2>3
    <3> QED BY <2>3, <3>1, <3>2, <3>3, <3>4
  <2>4. CASE j # k
    <3>1. h.vel[j] = g.vel[j] /\ h.pos[j] = g.pos[j]
      BY <1>9, <2>4
    <3>2. j <= k <=> j <= k - 1
      BY <1>6, <2>2, <2>4
    <3> QED BY <2>1, <3>1, <3>2
  <2> QED BY <2>3, <2>4
<1>11. Reached(f, k)
  BY <1>10 DEF Reached, R, h
<1> QED BY <1>4, <1>11

(* A tick: everyone is slow after it, and each stray has turned.           *)
LEMMA TickTurns ==
  ASSUME MAX_SPEED \div CENTER + MAX_SPEED \div MATCH <= TURN_FACTOR \div 2,
         HalfSize["y"] <= HalfSize["z"],
         NEW f \in Flocks, \A j \in Ids : Slow(f.vel[j]),
         NEW i \in Ids, NEW a \in Axes, NEW s \in {1, -1}, s = 1 => a = "x",
         Strays(f, i, a, s)
  PROVE  TurnsBack(f.vel[i], Ticked(f).vel[i], a, s)
<1> DEFINE g == Rounds(f)[i - 1]
<1>1. NUM_BOIDS \in Nat /\ i \in 1..NUM_BOIDS /\ Ids = 1..NUM_BOIDS
  BY IdsAre
<1>2. NUM_BOIDS \in 0..NUM_BOIDS /\ i - 1 \in 0..NUM_BOIDS /\ i <= NUM_BOIDS /\ ~(i <= i - 1)
  BY <1>1
<1>3. Reached(f, NUM_BOIDS) /\ Reached(f, i - 1)
  BY <1>2, AllReached
<1>4. Ticked(f).vel[i] = Velocity(g, i)
  BY <1>2, <1>3 DEF Reached, Ticked
<1>5. g \in Flocks
  BY <1>2, RoundsAre
<1>6. g.pos[i] = f.pos[i] /\ g.vel[i] = f.vel[i]
  BY <1>2, <1>3 DEF Reached
<1>7. ASSUME NEW j \in Ids
      PROVE  Slow(g.vel[j]) /\ Slow(Vector3Subtract(g.pos[j], f.pos[j]))
  <2>1. f.pos[j] \in Vectors /\ g.pos[j] \in Vectors /\ g.vel[j] \in Vectors
    BY <1>5, FlockFields
  <2>2. CASE j <= i - 1
    <3>1. /\ g.vel[j] = Velocity(Rounds(f)[j - 1], j)
          /\ g.pos[j] = Vector3Add(f.pos[j], g.vel[j])
      BY <1>3, <2>2 DEF Reached
    <3>2. j - 1 \in 0..NUM_BOIDS
      BY <1>1
    <3>3. Rounds(f)[j - 1] \in Flocks
      BY <3>2, RoundsAre
    <3>4. Slow(g.vel[j])
      BY <3>1, <3>3, VelocityTyped
    <3> HIDE DEF g
    <3>5. \A b \in Axes : Vector3Subtract(g.pos[j], f.pos[j])[b] = g.vel[j][b]
      <4> SUFFICES ASSUME NEW b \in Axes
                   PROVE  Vector3Subtract(g.pos[j], f.pos[j])[b] = g.vel[j][b]
        OBVIOUS
      <4>1. f.pos[j][b] \in Int /\ g.vel[j][b] \in Int
        BY <2>1 DEF Vectors
      <4>2. g.pos[j][b] = f.pos[j][b] + g.vel[j][b]
        BY <3>1 DEF Vector3Add
      <4> QED BY <4>1, <4>2 DEF Vector3Subtract
    <3> QED BY <3>4, <3>5 DEF Slow
  <2>3. CASE ~(j <= i - 1)
    <3>1. g.pos[j] = f.pos[j] /\ g.vel[j] = f.vel[j]
      BY <1>3, <2>3 DEF Reached
    <3> HIDE DEF g
    <3>2. \A b \in Axes : Vector3Subtract(g.pos[j], f.pos[j])[b] = 0
      BY <2>1, <3>1 DEF Vector3Subtract, Vectors
    <3> QED BY <3>1, <3>2, SizesAre DEF Slow
  <2> QED BY <2>2, <2>3
<1> HIDE DEF g
<1>8. NearBy(f, g, i)
  BY <1>6, <1>7 DEF NearBy
<1> QED BY <1>4, <1>5, <1>8, StrayTurns

LEMMA TickSlows ==
  ASSUME NEW f \in Flocks
  PROVE  /\ Ticked(f) \in Flocks
         /\ \A j \in Ids : Slow(Ticked(f).vel[j])
<1>1. NUM_BOIDS \in Nat /\ Ids = 1..NUM_BOIDS /\ NUM_BOIDS \in 0..NUM_BOIDS
  BY IdsAre
<1>2. Ticked(f) \in Flocks
  BY <1>1, RoundsAre DEF Ticked
<1>3. Reached(f, NUM_BOIDS)
  BY <1>1, AllReached
<1>4. ASSUME NEW j \in Ids PROVE Slow(Ticked(f).vel[j])
  <2>1. j - 1 \in 0..NUM_BOIDS /\ j <= NUM_BOIDS
    BY <1>1
  <2>2. Rounds(f)[j - 1] \in Flocks
    BY <2>1, RoundsAre
  <2>3. Ticked(f).vel[j] = Velocity(Rounds(f)[j - 1], j)
    BY <1>3, <2>1 DEF Reached, Ticked
  <2> QED BY <2>2, <2>3, VelocityTyped
<1> QED BY <1>2, <1>4

-------------------------------------------------------------------------------
(* The program's flock. *)

(* What a step of the program is for the flock. *)
LEMMA FlockSteps ==
  ASSUME StageInv, [Next]_vars
  PROVE  \/ /\ flock' \in [pos : [Ids -> Places], vel : [Ids -> Velocities]]
            /\ frames' = frames /\ phase = "init" /\ phase' = "tick"
         \/ flock' = Ticked(flock) /\ frames' = frames + 1 /\ phase' = "draw"
         \/ /\ UNCHANGED <<flock, frames>> /\ (phase' = "init" => phase = "init")
            /\ ~(app = "BOIDS" /\ phase = "tick" /\ phase' = "draw")
<1>1. CASE InitDemo
  <2>1. app \in SetUp
    BY <1>1, CallsInTime
  <2>2. CASE app = "ISO"
    BY <1>1, <2>2 DEF InitDemo, InitIsoApp, boidsData
  <2>3. CASE app = "BOIDS"
    BY <1>1, <2>3 DEF InitDemo, InitBoidsApp
  <2>4. CASE app = "MP"
    BY <1>1, <2>4 DEF InitDemo, demos, boidsData
  <2> QED BY <2>1, <2>2, <2>3, <2>4, AppsAre
<1>2. CASE TickDemo
  <2>1. app \in Ticking
    BY <1>2, CallsInTime
  <2>2. CASE app = "ISO"
    <3>1. TickIso /\ UNCHANGED boidsData
      BY <1>2, <2>2 DEF TickDemo
    <3>2. PICK m \in Mice, keys \in SUBSET Keys, click \in BOOLEAN, toggle \in BOOLEAN :
            TickIsoApp(m, keys, click, toggle)
      BY <3>1 DEF TickIso
    <3>3. phase' = "draw"
      BY <3>2 DEF TickIsoApp
    <3> QED BY <2>2, <3>1, <3>3 DEF boidsData
  <2>3. CASE app = "BOIDS"
    BY <1>2, <2>3 DEF TickDemo, TickBoidsApp
  <2> QED BY <2>1, <2>2, <2>3, AppsAre
<1>3. CASE DrawDemo
  <2>1. app \in Ticking \union {"ICONS", "MP"}
    BY <1>3, CallsInTime
  <2>2. CASE app = "ISO"
    BY <1>3, <2>2 DEF DrawDemo, DrawIsoApp, boidsData
  <2>3. CASE app = "BOIDS"
    BY <1>3, <2>3 DEF DrawDemo, DrawBoidsApp, boidsData
  <2>4. CASE app = "ICONS"
    BY <1>3, <2>4 DEF DrawDemo, boidsData
  <2>5. CASE app = "MP"
    BY <1>3, <2>5 DEF DrawDemo, demos, boidsData
  <2> QED BY <2>1, <2>2, <2>3, <2>4, <2>5, AppsAre
<1>4. CASE DropDemo
  <2>1. app \in SetUp
    BY <1>4, CallsInTime
  <2>2. CASE app = "ISO"
    BY <1>4, <2>2 DEF DropDemo, DropIsoApp, boidsData
  <2>3. CASE app = "BOIDS"
    BY <1>4, <2>3 DEF DropDemo, DropBoidsApp, boidsData
  <2>4. CASE app = "MP"
    BY <1>4, <2>4 DEF DropDemo, demos, boidsData
  <2> QED BY <2>1, <2>2, <2>3, <2>4, AppsAre
<1>5. ASSUME NEW a \in Apps, Start(a) PROVE UNCHANGED <<phase, flock, frames>>
  BY <1>5 DEF Start, demos, boidsData
<1>6. CASE CallWindow
  BY <1>6 DEF CallWindow, demos, boidsData
<1>7. CASE RunTest \/ NextFrame \/ LeaveLoop \/ Return \/ Ended \/ UNCHANGED vars
  BY <1>7 DEF RunTest, NextFrame, LeaveLoop, Return, Ended, vars, demos, boidsData
<1> QED BY <1>1, <1>2, <1>3, <1>4, <1>5, <1>6, <1>7 DEF Next

FlockInv ==
  /\ StageInv
  /\ flock \in Flocks
  /\ frames \in Nat
  /\ phase = "init" => frames = 0
  /\ frames > 0 => \A j \in Ids : Slow(flock.vel[j])

LEMMA FlockInvInit == Init => FlockInv
<1> SUFFICES ASSUME Init PROVE FlockInv
  OBVIOUS
<1>1. StageInv
  BY StageInit
<1>2. Zero \in Vectors
  BY DEF Zero, Vectors
<1> QED BY <1>1, <1>2 DEF FlockInv, Init, BoidsInit, Flocks

LEMMA FlockInvStep == FlockInv /\ [Next]_vars => FlockInv'
<1> SUFFICES ASSUME FlockInv, [Next]_vars PROVE FlockInv'
  OBVIOUS
<1>1. StageInv /\ flock \in Flocks /\ frames \in Nat
  BY DEF FlockInv
<1>2. StageInv'
  BY <1>1, StageStep
<1>3. CASE /\ flock' \in [pos : [Ids -> Places], vel : [Ids -> Velocities]]
           /\ frames' = frames /\ phase = "init" /\ phase' = "tick"
  <2>1. Places \subseteq Vectors /\ Velocities \subseteq Vectors
    BY FlockAssumption DEF FlockAssumption
  <2>2. flock' \in Flocks
    BY <1>3, <2>1 DEF Flocks
  <2>3. frames' = 0
    BY <1>3 DEF FlockInv
  <2> QED BY <1>2, <1>3, <2>2, <2>3 DEF FlockInv
<1>4. CASE flock' = Ticked(flock) /\ frames' = frames + 1 /\ phase' = "draw"
  BY <1>1, <1>2, <1>4, TickSlows DEF FlockInv
<1>5. CASE UNCHANGED <<flock, frames>> /\ (phase' = "init" => phase = "init")
  BY <1>2, <1>5 DEF FlockInv
<1> QED BY <1>1, <1>3, <1>4, <1>5, FlockSteps

(* However many boids there are, and wherever and however fast they start, *)
(* one that strays beyond the left or right, the lower or back side of the *)
(* box of the bounds, away from the others, turns back in that frame.      *)
(* Half the push at the bounds must outweigh a centre and a speed of the   *)
(* others one cap away, as the code's factors make it (0.05 against        *)
(* 0.0108), and the box be no higher than deep, as boundSize is, since the *)
(* back side is held to the size of the y axis (applyBoundRule,            *)
(* calcCenterRule, calcMatchRule, applySpeedRule).                         *)
THEOREM StraysAlwaysTurn ==
  ASSUME MAX_SPEED \div CENTER + MAX_SPEED \div MATCH <= TURN_FACTOR \div 2,
         HalfSize["y"] <= HalfSize["z"]
  PROVE  Spec => StraysTurn
<1> DEFINE sides == Sides \ {<<"y", 1>>, <<"z", 1>>}
<1>1. FlockInv /\ [Next]_vars => [StraysTurnAt(sides)]_boidsVars
  <2> SUFFICES ASSUME FlockInv, [Next]_vars,
                      app = "BOIDS", frames > 0, phase = "tick", phase' = "draw",
                      NEW i \in Ids, NEW side \in sides,
                      Strays(flock, i, side[1], side[2])
               PROVE  TurnsBack(flock.vel[i], flock'.vel[i], side[1], side[2])
    BY DEF StraysTurnAt
  <2>1. StageInv /\ flock \in Flocks /\ \A j \in Ids : Slow(flock.vel[j])
    BY DEF FlockInv
  <2>2. flock' = Ticked(flock)
    BY <2>1, FlockSteps
  <2>3. side[1] \in Axes /\ side[2] \in {1, -1} /\ side = <<side[1], side[2]>>
    BY DEF Sides
  <2>4. side[2] = 1 => side[1] = "x"
    BY <2>3 DEF Axes
  <2> QED BY <2>1, <2>2, <2>3, <2>4, TickTurns
<1> QED BY <1>1, FlockInvInit, FlockInvStep, PTL DEF Spec, StraysTurn
===============================================================================
