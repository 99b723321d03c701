---------------------------------- MODULE Main ----------------------------------
(***************************************************************************)
(* The program's main (main.c): the argument picks a demo, the window is   *)
(* opened, the demo set up, called frame by frame, dropped, and the window *)
(* closed.  The demos' calls are the actions of Iso, Boids and IconSwatch, *)
(* each of which waits for its turn: one called out of turn would stop the *)
(* program here.  The viewer is PartViewer's; here it stands for what it   *)
(* holds.  The profiler's zones are left out.                              *)
(***************************************************************************)
EXTENDS Sequences, IconSwatch, Iso, Boids

VARIABLES
  calls,    \* what is left of the stretch of calls main is in
  stage,    \* "start", "setup", "loop", "teardown" or "ended"
  window,   \* "closed", "open", or "drawing" in between BeginDrawing and EndDrawing
  held      \* the resources the demo has acquired and not released

demos == <<page, phase, isoData, boidsData>>
vars == <<app, calls, stage, window, held, demos>>

Apps == {"INVALID", "ICONS", "MP", "BOIDS", "ISO"}

(* Those with an Init and a Drop, and those with a Tick. *)
SetUp == {"MP", "BOIDS", "ISO"}
Ticking == {"BOIDS", "ISO"}

(* What a demo acquires in its Init, and what its Drop releases: those of  *)
(* boids.c, of partviewer.c (lines 77-88 and 237-241) and of iso.c (lines  *)
(* 128-155 and 287-293).                                                   *)
Acquired ==
  [MP    |-> {"catalog", "arena", "text", "texture"},
   BOIDS |-> {"boidMat", "boidMesh", "testMesh", "testMat", "arr"},
   ISO   |-> {"chartex", "floortex"}]

Released ==
  [MP    |-> {"catalog", "arena", "text"},
   BOIDS |-> {"boidMat", "boidMesh", "testMesh", "arr"},
   ISO   |-> {"chartex", "floortex"}]

(* What its frames use: of partviewer.c lines 185-234, of iso.c 203-285. *)
Needed ==
  [MP    |-> {"catalog", "arena", "texture"},
   BOIDS |-> {"boidMat", "testMesh"},
   ISO   |-> {"chartex", "floortex"}]

-------------------------------------------------------------------------------
(* The stretches of calls. *)

(* Fault, for the mutation runs: the demo is set up before the window. *)
FaultInitFirst(a) == <<"Init", "InitWindow">>

Setup(a) == IF a \in SetUp THEN <<"InitWindow", "Init">> ELSE <<"InitWindow">>

Frame(a) ==
  CASE a \in Ticking         -> <<"BeginDrawing", "Tick", "Draw", "EndDrawing">>
    [] a \in {"ICONS", "MP"} -> <<"BeginDrawing", "Draw", "EndDrawing">>
    [] a = "INVALID"         -> <<"BeginDrawing", "EndDrawing">>

Teardown(a) == IF a \in SetUp THEN <<"Drop", "CloseWindow">> ELSE <<"CloseWindow">>

-------------------------------------------------------------------------------
Init ==
  /\ app = "INVALID"
  /\ calls = <<>>
  /\ stage = "start"
  /\ window = "closed"
  /\ held = {}
  /\ InitIcons /\ IsoInit /\ BoidsInit

(* -strtest and -randtest run a test and return. *)
RunTest ==
  /\ stage = "start"
  /\ stage' = "ended"
  /\ UNCHANGED <<app, calls, window, held, demos>>

(* The demo of the argument, or none. *)
Start(a) ==
  /\ stage = "start"
  /\ stage' = "setup"
  /\ app' = a
  /\ calls' = Setup(a)
  /\ UNCHANGED <<window, held, demos>>

(* WindowShouldClose at the head of the loop. *)
NextFrame ==
  /\ stage \in {"setup", "loop"} /\ calls = <<>>
  /\ frames < MaxFrames
  /\ stage' = "loop"
  /\ calls' = Frame(app)
  /\ UNCHANGED <<app, window, held, demos>>

LeaveLoop ==
  /\ stage \in {"setup", "loop"} /\ calls = <<>>
  /\ stage' = "teardown"
  /\ calls' = Teardown(app)
  /\ UNCHANGED <<app, window, held, demos>>

Return ==
  /\ stage = "teardown" /\ calls = <<>>
  /\ stage' = "ended"
  /\ UNCHANGED <<app, calls, window, held, demos>>

(* The process is gone. *)
Ended == stage = "ended" /\ UNCHANGED vars

(* The next call is the one named. *)
Call(name) ==
  /\ calls # <<>> /\ Head(calls) = name
  /\ calls' = Tail(calls)
  /\ UNCHANGED <<app, stage>>

Windows ==
  [InitWindow  |-> "open",    BeginDrawing |-> "drawing",
   EndDrawing  |-> "open",    CloseWindow  |-> "closed"]

CallWindow ==
  \E name \in DOMAIN Windows :
    /\ Call(name)
    /\ window' = Windows[name]
    /\ UNCHANGED <<held, demos>>

InitDemo ==
  /\ Call("Init")
  /\ held' = Acquired[app]
  /\ CASE app = "ISO"   -> InitIsoApp /\ UNCHANGED <<page, boidsData>>
       [] app = "BOIDS" -> InitBoidsApp /\ UNCHANGED <<page, isoData>>
       [] app = "MP"    -> UNCHANGED demos
  /\ UNCHANGED window

TickDemo ==
  /\ Call("Tick")
  /\ CASE app = "ISO"   -> TickIso /\ UNCHANGED <<page, boidsData>>
       [] app = "BOIDS" -> (\E toggle \in BOOLEAN : TickBoidsApp(toggle))
                           /\ UNCHANGED <<page, isoData>>
  /\ UNCHANGED <<window, held>>

DrawDemo ==
  /\ Call("Draw")
  /\ CASE app = "ISO"   -> DrawIsoApp /\ UNCHANGED <<page, boidsData>>
       [] app = "BOIDS" -> DrawBoidsApp /\ UNCHANGED <<page, isoData>>
       [] app = "ICONS" -> (\E button \in SwatchButtons : DrawIconSwatch(button))
                           /\ UNCHANGED <<phase, isoData, boidsData>>
       [] app = "MP"    -> UNCHANGED demos
  /\ UNCHANGED <<window, held>>

DropDemo ==
  /\ Call("Drop")
  /\ held' = held \ Released[app]
  /\ CASE app = "ISO"   -> DropIsoApp /\ UNCHANGED <<page, boidsData>>
       [] app = "BOIDS" -> DropBoidsApp /\ UNCHANGED <<page, isoData>>
       [] app = "MP"    -> UNCHANGED demos
  /\ UNCHANGED window

Next ==
  \/ RunTest
  \/ \E a \in Apps : Start(a)
  \/ NextFrame \/ LeaveLoop \/ Return \/ Ended
  \/ CallWindow
  \/ InitDemo \/ TickDemo \/ DrawDemo \/ DropDemo

Spec == Init /\ [][Next]_vars

-------------------------------------------------------------------------------
(* Whatever demo runs, each of its frames is drawn inside a frame of the   *)
(* window with what it needs there: the resources its Init acquired, no    *)
(* icon beyond raygui's table, which raygui reads unchecked.  And no demo  *)
(* leaves graphics it releases to a time when the window is not there.     *)
Graphics == {"texture", "boidMat", "boidMesh", "testMesh", "chartex", "floortex"}

FramesHaveWhatTheyDraw ==
  /\ calls # <<>> /\ Head(calls) = "Draw" =>
       /\ window = "drawing"
       /\ app \in SetUp => Needed[app] \subseteq held
       /\ Icons(page) \subseteq 0..(RAYGUI_ICON_MAX_ICONS - 1)
  /\ app \in SetUp /\ window = "closed" =>
       held \intersect Released[app] \intersect Graphics = {}
===============================================================================
