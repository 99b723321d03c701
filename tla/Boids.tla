--------------------------------- MODULE Boids ---------------------------------
(***************************************************************************)
(* The flock (boids.c): every frame TickBoidsApp moves the boids one after *)
(* the other, each by three rules over the flock as it then stands, a push *)
(* back at the bounds and a cap on its speed, and DrawBoidsApp shows them. *)
(*                                                                         *)
(* A float is an integer number of grid units, and each product or         *)
(* quotient is cut to the grid.  Meshes, materials and the camera are left *)
(* out.                                                                    *)
(***************************************************************************)
EXTENDS Demo

CONSTANTS
  NUM_BOIDS,
  CENTER, AVOID, MATCH,   \* one over CENTER_FACTOR, AVOID_FACTOR, MATCH_FACTOR
  AVOID_RADIUS,
  TURN_FACTOR, MAX_SPEED,
  HalfSize,               \* boundSize / 2, by axis
  Places, Velocities,     \* bounds: where boids start and how fast
  MaxFrames               \* bound: the frames of a flock

Axes == {"x", "y", "z"}
Vectors == [Axes -> Int]
Ids == 1..NUM_BOIDS

ASSUME FlockAssumption ==
  /\ NUM_BOIDS \in Nat /\ NUM_BOIDS > 1
  /\ {CENTER, AVOID, MATCH, AVOID_RADIUS, TURN_FACTOR, MAX_SPEED} \subseteq Nat \ {0}
  /\ HalfSize \in [Axes -> Nat]
  /\ Velocities \subseteq Vectors
  /\ \A place \in Places :
       place \in Vectors /\ \A a \in Axes : place[a] \in -HalfSize[a]..HalfSize[a]

VARIABLES
  flock,      \* boids: the positions and velocities, pos and vel
  drawmode,
  frames

boidsData == <<flock, drawmode, frames>>
boidsVars == <<phase, boidsData>>

-------------------------------------------------------------------------------
Vector3Add(u, v) == [a \in Axes |-> u[a] + v[a]]
Vector3Subtract(u, v) == [a \in Axes |-> u[a] - v[a]]

Zero == [a \in Axes |-> 0]

DividedBy(v, n) == [a \in Axes |-> Truncated(v[a], n)]

Square(v) == v["x"] * v["x"] + v["y"] * v["y"] + v["z"] * v["z"]

(* On one axis, the sum over the first n boids of those that are in ids. *)
Sums(vector, ids, a) ==
  LET sum[n \in 0..NUM_BOIDS] ==
        IF n = 0 THEN 0
        ELSE sum[n - 1] + (IF n \in ids THEN vector[n][a] ELSE 0)
  IN  sum

Total(vector, ids) == [a \in Axes |-> Sums(vector, ids, a)[NUM_BOIDS]]

Average(vector, ids) == DividedBy(Total(vector, ids), NUM_BOIDS - 1)

Others(idx) == Ids \ {idx}

calcCenterRule(f, idx) ==
  DividedBy(Vector3Subtract(Average(f.pos, Others(idx)), f.pos[idx]), CENTER)

calcDistRule(f, idx) ==
  LET diff == [i \in Ids |-> Vector3Subtract(f.pos[idx], f.pos[i])]
      near == {i \in Others(idx) : Square(diff[i]) < AVOID_RADIUS * AVOID_RADIUS}
  IN  DividedBy(Total(diff, near), AVOID)

calcMatchRule(f, idx) ==
  DividedBy(Vector3Subtract(Average(f.vel, Others(idx)), f.vel[idx]), MATCH)

(* The bounds the rule uses: above, those of x on every axis, and below    *)
(* those of y on the z axis.                                               *)
Lower == [x |-> -HalfSize["x"], y |-> -HalfSize["y"], z |-> -HalfSize["y"]]
Upper == [a \in Axes |-> HalfSize["x"]]

(* Fault, for the mutation runs: the lower bounds are forgotten. *)
FaultUpperOnly(p, v) ==
  [a \in Axes |-> v[a] - (IF p[a] > Upper[a] THEN TURN_FACTOR ELSE 0)]

applyBoundRule(p, v) ==
  [a \in Axes |-> v[a] + (IF p[a] < Lower[a] THEN TURN_FACTOR ELSE 0)
                       - (IF p[a] > Upper[a] THEN TURN_FACTOR ELSE 0)]

(* The length of a vector longer than MAX_SPEED, rounded up. *)
Vector3Length(v) ==
  LET square == Square(v)
  IN  CHOOSE n \in MAX_SPEED..square : n * n >= square /\ (n - 1) * (n - 1) < square

applySpeedRule(v) ==
  IF Square(v) > MAX_SPEED * MAX_SPEED
  THEN DividedBy([a \in Axes |-> v[a] * MAX_SPEED], Vector3Length(v))
  ELSE v

(* The flock with another velocity of one boid. *)
Steered(f, idx, v) == [f EXCEPT !.vel[idx] = v]

(* The three rules, each with the velocity the one before left behind. *)
Flocked(f, idx) ==
  LET centred == Steered(f, idx, Vector3Add(f.vel[idx], calcCenterRule(f, idx)))
      apart   == Steered(f, idx, Vector3Add(centred.vel[idx], calcDistRule(f, idx)))
  IN  Vector3Add(apart.vel[idx], calcMatchRule(apart, idx))

Velocity(f, idx) ==
  applySpeedRule(applyBoundRule(f.pos[idx], Flocked(f, idx)))

(* One round of the loop over the boids. *)
Moved(f, idx) ==
  LET v == Velocity(f, idx)
  IN  [Steered(f, idx, v) EXCEPT !.pos[idx] = Vector3Add(f.pos[idx], v)]

(* The flock after the first n rounds. *)
Rounds(f) ==
  LET after[n \in 0..NUM_BOIDS] == IF n = 0 THEN f ELSE Moved(after[n - 1], n)
  IN  after

Ticked(f) == Rounds(f)[NUM_BOIDS]

-------------------------------------------------------------------------------
DM_DEFAULT == 0
DM_DEBUG == 1

(* The globals as they start. *)
BoidsInit ==
  /\ phase = "init"
  /\ flock = [pos |-> [i \in Ids |-> Zero], vel |-> [i \in Ids |-> Zero]]
  /\ drawmode = DM_DEFAULT
  /\ frames = 0

InitBoidsApp ==
  /\ phase = "init"
  /\ phase' = "tick"
  /\ flock' \in [pos : [Ids -> Places], vel : [Ids -> Velocities]]
  /\ UNCHANGED <<drawmode, frames>>

TickBoidsApp(toggle) ==
  /\ phase = "tick"
  /\ phase' = "draw"
  /\ drawmode' = IF ~toggle THEN drawmode
                 ELSE IF drawmode = DM_DEFAULT THEN DM_DEBUG ELSE DM_DEFAULT
  /\ flock' = Ticked(flock)
  /\ frames' = frames + 1

DrawBoidsApp ==
  /\ phase = "draw"
  /\ phase' = "tick"
  /\ UNCHANGED boidsData

DropBoidsApp ==
  /\ phase = "tick"
  /\ phase' = "dropped"
  /\ UNCHANGED boidsData

-------------------------------------------------------------------------------
(* Properties. *)

(* A side of the box is an axis and a direction on it, 1 or -1. *)
Sides == Axes \X {1, -1}

(* The box DrawBoidsApp draws: boundSize around the origin. *)
Beyond(p, a, s) == s * p[a] > HalfSize[a]

(* Every other boid is too far on some axis to come near within a frame. *)
Clear(f, i) ==
  \A j \in Others(i) : \E a \in Axes :
    LET diff == f.pos[i][a] - f.pos[j][a]
    IN  diff >= AVOID_RADIUS + MAX_SPEED \/ -diff >= AVOID_RADIUS + MAX_SPEED

(* It has left the others, who are not beyond that side on average. *)
Strays(f, i, a, s) ==
  /\ Beyond(f.pos[i], a, s) /\ Clear(f, i)
  /\ s * Average(f.pos, Others(i))[a] <= HalfSize[a]

(* Half the push at the bounds at least is lost on the way out, or the boid *)
(* does not go that way any longer.                                        *)
TurnsBack(v, newV, a, s) ==
  s * newV[a] <= s * v[a] - (TURN_FACTOR \div 2) \/ s * newV[a] <= 0

(* A frame after the first, where a boid may still be faster than MAX_SPEED. *)
StraysTurnAt(sides) ==
  app = "BOIDS" /\ frames > 0 /\ phase = "tick" /\ phase' = "draw" =>
    \A i \in Ids, side \in sides :
      Strays(flock, i, side[1], side[2]) =>
        TurnsBack(flock.vel[i], flock'.vel[i], side[1], side[2])

(* A boid that strays to the left or right of the box, below or behind it  *)
(* turns back at once: whatever the flock pulls and however many boids     *)
(* have moved before it in the frame, the push at the bounds outweighs the *)
(* rest (applyBoundRule against the rules before it, and the cap after).   *)
StraysTurn == [][StraysTurnAt(Sides \ {<<"y", 1>>, <<"z", 1>>})]_boidsVars

(* The same on every side of the box drawn as the bounds (boids.c:305): it *)
(* fails above and in front of it, where applyBoundRule compares with the  *)
(* size of the x axis.                                                     *)
BoxTurns == [][StraysTurnAt(Sides)]_boidsVars
===============================================================================
