# Explore-Ray: TLA+ specifications, model checking and proofs

Explore-Ray is a raylib program in C (`src/src/*.c`, about 1,560 lines) with
four small applications chosen on the command line, built with the Tracy profiler's
client inside (`src/tracy/`). Its core is `partfx`, a parser that turns YAML exports of
game particle effects into a tree inside a private arena, and the particle viewer built
on it. This directory holds TLA+ modules of the four applications, of main around them,
and of the threads and queues that Tracy brings into the process; the TLC runs that check
them; and TLAPS proofs.

## 1. The system

| Component | State | Operations | Hard behaviour |
|---|---|---|---|
| partfx arena and nodes (`partfx.c` 10-128) | `arena`, `next`, the blocks handed out | `arena_*`, `create_*`, `map_add`, `sequence_add` | exhaustion in the middle of an operation, growing arrays that move, reuse after reset |
| partfx parser (`partfx.c` 130-306) | `partfx_t`, the context stack `stack[0..depth]`, libyaml's parser | `partfx_init`, `partfx_parse`, `partfx_reset`, `partfx_delete` | key/value alternation across nesting, depth limit, errors half way, events without a case |
| partfx queries (`partfx.c` 308-447) | none | `partfx_get*`, `partfx_sequence_*`, `partfx_print_tree` | first match among duplicate keys, type mismatches and defaults |
| particle viewer (`partviewer.c`) | `fx`, `data`, `pickidx`, `picking`, `texture`, `cat`, `options` | `InitParticleViewer`, `LoadParticleEffect`, `DrawParticleViewer`, `DropParticleViewer` | a reload in the middle of a frame, failed loads that replace half of the state, the frame counter, clicks seen twice |
| catalogue (`catalog.c`) | two blocks of fixed-size names and paths | `ParseCatalog`, `DeleteCatalog` | unchecked sizes and separators, fields that spill over their slots |
| boids (`boids.c`) | positions, velocities, draw mode | `InitBoidsApp`, `TickBoidsApp`, `DrawBoidsApp`, `DropBoidsApp` | boids updated in place one after another, bounds and speed rules |
| isometric demo (`iso.c`) | character, hovered and target tile, camera, animation | `InitIsoApp`, `TickIsoApp`, `DrawIsoApp`, `DropIsoApp` | tile geometry, hover computed with the camera of the last frame, sprite rows from an angle |
| icon swatch (`iconswatch.c`) | `page` | `DrawIconSwatch` | paging within raygui's unchecked table |
| main (`main.c`) | which application runs | Init, loop of Tick/Draw, Drop | five branches in three places that must name the same application |
| Tracy's threads (`TracyProfiler.cpp`) | `m_shutdown`, `m_sock`, the queues, the frame being filled | `~Profiler`, `Worker`, `SymbolWorker`, `HandleServerQuery` | shutdown at any point of a connection, two threads taking over from each other |
| Tracy's symbol queue (`tracy_SPSCQueue.h`) | a ring, two indices, a cache of each | `emplace`, `front`, `pop` | stale loads |
| Tracy's event queue (`tracy_concurrentqueue.h`) | a ring of blocks, a circular block index | `enqueue_begin`, commit, `dequeue_bulk` | blocks used again, the index replaced while it is read |
| libyaml, raylib, raygui | - | - | third party |

The program's own code runs on one thread, and what makes it hard to test is long
sequences of legal calls: documents are sequences of libyaml events, and an application's
life is a sequence of frames with input. Its components meet in these places: the viewer
calls partfx over a shared static arena, so loading an effect ends the life of every node
of the one before; partfx pulls events from libyaml; raygui's dropdown writes the
viewer's `pickidx` through a pointer in the middle of a frame; the viewer reads the
catalogue's paths by that index. Tracy adds two threads: the program puts events into
queues, `Worker` takes them out, sends them to a server and takes its queries, and
`SymbolWorker` answers the slow ones through the symbol queue; the process ends only
when its destructor has joined both.

Properties that make each component correct:

- arena and nodes: blocks are disjoint and inside the arena; a container's array
  holds `count <= capacity` entries and nothing is written past it; nodes keep
  what they hold when arrays move;
- parser: the context stack follows libyaml's nesting and key/value phase; the
  tree is the document, and after an error a prefix of it; nothing undefined is
  reached by the documents the game exports; every pointer is live;
- queries: a lookup returns the first entry with that key of the document, and
  the default for anything else;
- viewer: name, text, tree, texture and animation position shown together belong
  to one file; no frame traps; every frame of an animation is presented; a click does
  one thing;
- catalogue: fields that fit read back whole whatever stands around them, and the label
  picked is the entry of that number;
- isometric demo: a click hits the tile seen; the character faces its target; the
  animation follows its motion;
- boids: a boid that strays beyond the bounds is turned back;
- main and icon swatch: calls in turn, frames drawn inside a window with what they need;
- Tracy: one consumer of the symbol queue, a live socket behind every use, nothing sent
  twice or left behind at the end, an exit that completes; queues that are queues.

## 2. Modules

| Module | What it models | Where |
|---|---|---|
| `PartfxHeap` | The arena and the nodes in it, as operators over a memory record `[next, heap, oom]`. A pointer is an offset, a block one record for a node, an array or a string. | `partfx.c` 10-159, `partfx.h` |
| `YamlEvents` | External: libyaml's event stream - well nested, key and value alternating, an error possible at any event. | used at `partfx.c` 175-196 |
| `PartfxParse` | The session: `partfx_init`, `partfx_parse` (an action per event), `partfx_reset`, `partfx_delete`. | `partfx.c` 162-306 |
| `YamlNodes` | The abstract specification node by node: a table of nodes with their types, texts, keys and items, which an event extends by one node at most; no arena, array or copied string. `Values` gives each node the value it stands for, by which the table implements `YamlTree` (`ImplementsTree`). | - |
| `YamlTree` | The abstract specification of the whole: the value of the document read so far, a nested one. | - |
| `PartfxQuery` | The query functions over the memory of `PartfxParse`, and the same questions asked of the document. | `partfx.c` 308-403 |
| `Dropdown` | The update of raygui's `GuiDropdownBox`, with the mouse button's edges. | `raygui.h` 2325-2388 |
| `PartViewer` | The viewer under main's loop: an action for start, frame and close. | `partviewer.c` |
| `Catalog` | `ParseCatalog` line by line on the bytes of its two blocks, and the way of the names through `TextJoin` and `GuiTextSplit` to the labels. | `catalog.c`, `raygui.h` 4970-5022 |
| `Demo` | What the next two share: main's `appId` and the call a demo waits for. | - |
| `Iso` | The isometric demo in integer geometry. | `iso.c` |
| `Boids` | The flock on a grid. | `boids.c`, `raymath.h` |
| `IconSwatch` | The page of icons. | `iconswatch.c` |
| `Main` | main, call by call, composed of the actions of the three modules above. | `main.c` |
| `Profiler` | The program's thread, `~Profiler`, `Worker`, `SymbolWorker`, and a server. | `TracyProfiler.cpp` |
| `SPSCQueue`, `Fifo` | The symbol queue under stale loads, and the abstract queue it implements. | `tracy_SPSCQueue.h` |
| `EventQueue` | One producer of the event queue and its consumer. | `tracy_concurrentqueue.h` 938-1195 |
| `MC...` | Constants for TLC. | - |
| `PartfxParseProofs`, `YamlNodesProofs`, `PartViewerProofs`, `CatalogProofs`, `MainProofs`, `SPSCProofs`, `ProfilerProofs`, `EventQueueProofs` | The theorems of section 5. | - |

### How code and model correspond

*Arena.* `mem.next` is `next - arena`; `mem.heap` maps the offset of each block
to a record. `arena_alloc` sets `mem.oom` where the code's assertion fails, and
`Commit` ends the process then, so nothing computed past that assertion is ever
part of a state. The sizes of nodes, entries and pointers, the initial
capacity (16 in the code), the arena's size (1 MB) and `MAX_DEPTH` (64) are
constants. What a number's node holds is the text it was read from;
`parse_scalar`'s classification is the constant function `ScalarType`. A string
costs `StrSize` bytes, as in `arena_strdup`.

*Parser.* The C variable `depth` is `Len(stack) - 1`. Every libyaml event and the
case of the switch it reaches form one action. The order inside a case is kept:
the container is created first, then added to its parent (whose array may
grow, and whose key is copied), then the depth is checked. `OpenContainer` is the
part that mapping and sequence starts share; they differ in the node's type,
`is_key_next`, and in that only a mapping sets `pfx->root`.

*Two abstract specifications.* `PartfxParse` implements `YamlNodes` - the table is read off the
arena, `NodesOf(mem)` - and `YamlNodes` implements `YamlTree`, whose `doc` is the value of the
table's first node. `ImplementsYamlTree` is the two together: the value found by following the
pointers from `pfx->root`.

*Queries.* A typed getter is the node its result is read from, `NULL` for the
default; C's casts between int and float are left out. A path is the sequence of
the tokens that `strtok` gives.

*Ends of a run.* Assertions are compiled in: `status = "aborted"` is a failed one
(malloc, arena, depth). `"undefined"` stands for the two places where the code would go on
with undefined behaviour: a scalar outside every container reads `stack[-1]`,
and a container as a key makes `map_add` copy a NULL key.

*Viewer.* A file is a record of what the viewer tells apart: readable or not,
parses wholly, breaks after its root opened, or is blank; its texture; its
`KSSM/endFrame`; the arena it needs. `DrawParticleViewer` is the whole frame in
the code's order: panel and billboard from the state as it stands (`shown`), then
the dropdown, which writes `pickidx`, perhaps `LoadParticleEffect`, then the frame
counter. The mouse is a height above, inside or below the column of the dropdown and a
button that goes down or comes up in this frame or stays as it is, since `GuiDropdownBox`
acts on both edges; `OneClickActsOnce` speaks of a press and the release that follows. The
guards of `GuiDropdownBox` on the control's state, `guiLocked` and `guiControlExclusiveMode`
(`raygui.h` 2339) are left out: the viewer never sets what they test.
`num_frames` is a `size_t` made of an int, so a negative `endFrame` wraps around
`SIZE_LIMIT`. A remainder by zero traps. In a frame that crashes nothing is presented,
because `EndDrawing` is never reached.

*Catalogue.* A line is its shape - the lengths on both sides of its colon, whether it has
one, and whether its name starts with a semicolon - and the j-th character of line k is
`<<k, j>>`, so that every byte of the blocks tells where it came from. A copy that leaves
its block, and a line without a colon or shorter than the prefix that `SplitOnce` skips,
is undefined and ends the run. `GuiTextSplit` stops at the end of its table and of its buffer;
names that reach these limits are excluded by the properties, so its cuts are modelled without them.

*Isometric demo.* Floats that are compared or cut to integers become integer formulas with
the divisors multiplied out, C's truncation toward zero included. A step of the character
is one unit in each direction it moves. The row of a sprite comes from the sixteenth of a
turn the ray falls in, told by the tangents between the sectors instead of `atan2`. `view`
holds what the last frame drew: the camera and the sprite.

*Boids.* A float is a number of thousandths; each product or quotient is cut to the grid.
The sums over the flock (`Sums`) and the loop of `TickBoidsApp` (`Rounds`) are recursive
functions, for any number of boids: each round moves one boid in the flock that the rounds
before it have already changed.

*Main.* A stretch of the program (set-up, one frame, tear-down) is the sequence of calls
that main makes in it, and each call is an action of the demo concerned. Those actions
have guards of their own (`phase`): a demo called out of turn could not take its step, and
TLC would report a deadlock. `held` is what the demo's Init has acquired and its Drop not
released. The viewer, which has a module of its own, stands here for what it holds.
`Acquired`, `Released` and `Needed` are one operator each for all the demos; the map gives the
lines of `boids.c`, their comments those of the others.

*Tracy's threads.* A step of a thread is what it does between two looks at what the others
share. `worker` names the place in `Worker`'s loops, `loop` the loop (serving, draining at
exit, waiting for the server's last queries). A frame of the protocol holds `FrameItems`
items; when the next does not fit the frame is sent, which fails once the server has closed.
`noExit` is `TRACY_NO_EXIT=1` in the environment (1378-1384): with it the accept loop does not
return on shutdown (1704) but goes on waiting for a server.
`HandleServerQuery` answers a query of `Fast` at once and puts one of `Slow` into the symbol
queue, spinning while that is full.

*Symbol queue.* The thread that loads the other's index gets any value between the last one
it saw and the current one; stores are release and loads acquire, so the slot a visible
index covers is visible, too. The steps are those between accesses to the two indices.

*Event queue.* The n-th element is the number n, so order, loss and duplication show in the
sequence `processed`. `enqueue_begin` is cut at each store the consumer can see - block,
index entry, front of the index, commit of the tail - and `dequeue_bulk` at each load. The test
whether the next block is empty and the step that takes it, or makes another, are one step: a block
emptied between the two might as well be emptied after both, as neither looks at it again.

## 3. Runs

| Run | Asks | Result |
|---|---|---|
| `parse_plain` | For documents as exported by the game - rooted in a map or sequence, scalar keys, no alias - are memory, pointers, key phase, the table of nodes and the nested document right? | pass, 228,967 states |
| `parse_dialects` | Does what is built stay a tree with aliases, containers as keys and scalar roots? | pass, 10,987 states |
| `query` | Do lookups, paths, typed getters and sequence reads answer what the document says, and keep their answers? | pass, 72,904 states |
| `parse_alias` | Does `is_key_next` mean what its comment says when the text has an alias? | violated, see section 4 |
| `viewer_mixed` | With animated, broken, blank and missing files and one without an animation: counter, one file shown at a time, its texture, every frame shown, one act per click, and traps only where a file that cannot be played is loaded. | pass, 13,340 states |
| `viewer_shipped` | With effects as in `gundata`: does any frame trap? | violated, see section 4 |
| `catalog` | Does the catalogue parse within its limits, and what do fields too long do to the others? Is the label picked the entry loaded? | pass, 298,386 states |
| `main` | Every demo within the program, from the argument to the end. | pass, 284,663 states |
| `boids_box` | Is a boid turned back on every side of the box drawn as the bounds? | violated, see section 4 |
| `spsc` | Is the symbol queue a queue, however old the loads are, and does it hold up neither thread? | pass, 1,922 states |
| `profiler` | Tracy's threads at every interleaving of events, queries, lost connections and shutdown. | pass, 2,804,340 states |
| `eventqueue` | Do events come out in order while blocks are used again and the index grows? | pass, 107,994 states |

`main` and `spsc` check for deadlock. In `main` that is a check of its own: a demo's
function called out of turn would stop the program. The other runs have
`CHECK_DEADLOCK FALSE`, because their systems may legally stop: a process that has ended,
a closed window, a file read to its end, a queue with `MaxItems` passed through it.

The properties, and what each could catch:

- `BlocksSound` - overlapping blocks, blocks outside the used arena, an entry
  written past its array;
- `PointersSound` - a root, stack entry, key, value or array pointer that leads
  to nothing, or to a block of another kind, including after reset and failure;
- `TreeShape` - a node reachable twice, from a later node, or not at all, so that
  the recursive printing and lookups would loop, repeat or miss;
- `KeyPhase` - the parser's stack out of step with libyaml's nesting;
- `NoUndefined` - an event that reaches `stack[-1]` or a NULL key;
- `NodesOnlyGrow` (action) - an entry lost or changed when an array
  moves, an entry added to a closed container;
- `ImplementsNodes` (refinement) - a node with another type or text than the event that made
  it, under another key, in another container or out of order; a node changed or
  added besides; a tree that outlives its arena;
- `ImplementsYamlTree` (refinement) - anything else by which the tree in the
  arena is not the document, at any event, also after a syntax error;
- `QueriesReadDocument` - a lookup, path, index or typed getter that reads another value
  than the abstract document has there, also in the middle of a parse and after an error;
- `LookupsStable` (action) - an answer changed by a later entry or a moved array;
- `OneFileShown`, `PositionInEffect` - a frame whose name, text and effect are not of one file,
  or with a position its effect does not have; `TextureOfEffect` - an effect that names a texture
  shown with another (an effect without one may be shown with the texture before);
- `NeverCrashes` - a trap (`viewer_shipped`); `OnlyALoadCrashes` (action) - a trap in a frame
  that does not load a file, or loads one that can be played;
- `EveryFrameShown` (liveness) - a frame of an animation that never comes round;
- `OneClickActsOnce` (action) - a click whose press opens the dropdown and whose release
  picks or closes;
- `FittingEntriesIntact` - an entry that fits damaged by one before or after it;
  `DefinedWithinLimits` - a file within the limits that leads out of the blocks;
  `LabelsNameEntries` - a label of the dropdown that is another entry's;
- `AimsAtWhatIsSeen`, `HighlightUnderMouse` (actions) - a click or highlight on another
  tile than the picture shows under the mouse, through an old or a new camera;
  `CentreHoldsShadow` - the tile marked beside the character's shadow;
  `NeverLooksAway` - a row of sprites turned from the target;
  `AnimationFollowsMotion` (action) - a run while standing, or a new animation begun in its
  middle;
- `StraysTurn` (action) - a boid beyond the left or right, the lower or back side of the
  drawn box, clear of the others, that keeps its way out; `BoxTurns` (action) - the same on every
  side (`boids_box`);
- `FramesHaveWhatTheyDraw` - a frame outside the window, or with a texture, mesh or icon
  that is not there, and graphics released after the window;
- `SlotsApart`, `ImplementsFifo` (refinement), `NeitherHeldUp` (liveness) - the symbol
  queue's;
- `OneSymbolConsumer`, `SocketInUseIsLive`, `AllSentBeforeEnd`, `ReceivedOnce`,
  `ExitCompletes` (liveness) - the threads', as in section 1;
- `ProcessedInOrder`, `NoSharedPlace`, `AllProcessed` (liveness) - the event queue's.

### Bounds

*Parser.* The only bound on its state space is the arena: a document ends when
the arena is full. With an arena of 28 units, nodes and entries of two units, an
initial capacity of one and three levels, runs of 20 steps fit: maps and
sequences grow from one to two to four entries, with scalars and with open
containers as the new entry, and the arena runs out at every kind of allocation. Growth
from 16 to 32 is the same step from a larger capacity, and the proofs cover it. One string
and one integer are enough texts because the parser looks at a text only through
`parse_scalar`; a repeated text also makes duplicate keys. `parse_dialects` has
smaller documents (20 units, two levels) since its features multiply the choices.
`query` has one text for each type, of which the string is "CNST", so that wrapped
constants, duplicate keys and maps under them occur in 20 units; paths of two
keys cross every kind of node.

*Viewer.* The catalogue of `viewer_mixed` has seven files: animations of 7, -3 and 2 frames, the
second of them 5 modulo a `SIZE_LIMIT` of 8, which give every relation of counters at a pick; one
of these has no texture and one needs the whole arena; and one file for each other way a
load can end - no animation, broken, blank, missing. The mouse is anywhere from one pixel above
the dropdown to one below it.

*Catalogue.* Four lines for three slots of four bytes, with names and paths from empty to
longer than a slot, so that fields reach into the next slot and the one after. The
catalogue shipped has 74 lines, names of at most 18 and paths of at most 37 characters, and
867 characters joined, all within 128, 32, 64 and 1024.

*main.* A map of 2 x 2 tiles around and beside which the character walks, mice on it, beside
it and far from it. Three boids with the factors of the code, at three velocities each, from four
places: a row along the lower back edge, a radius and more apart, so that a boid leaves the box
next to others that have not, and the far corner. `MaxFrames` is 5: boids that start at the bounds
leave them in the first frames, and the property is about single frames, from any flock. The proof
has no such bound. `boids_box` has the row mirrored to the upper front edge. The isometric
demo is finite as it is.

*Tracy.* `spsc`: three items of two kinds, so the ring wraps with every distance of the
indices. `profiler`: two events in each queue, so that their order shows; two connections of up
to two queries each; a fast query and two slow ones for a symbol queue of one, so that `emplace`
finds it full; frames of one item: every wait, full frame and takeover happens.
`Credit`, how many queries a server leaves open, is not above the symbol queue's capacity;
above it `Worker` may spin for a place in a queue whose consumer is gone. `eventqueue`: eleven
events through blocks of two and an index of two entries that doubles twice, which also
has its oldest entry in the middle when it is copied.

### Fairness

`EveryFrameShown` is checked under weak fairness of `InitParticleViewer` and of the
frame (`Draw`): main runs Init once and then the frame in a loop as long as the
window is open. Nothing is assumed of the user - not that the dropdown is ever
closed, nor that the window stays open; both are in the property's premise. The
parser has no liveness property: libyaml's stream may be of any length.

For the queues, each thread goes on with a call it has begun, `SymbolWorker` and `Worker` ask
again and again, as their loops do, and a store is seen at last by a thread that keeps
loading. The producers need not call. For `ExitCompletes` the threads run, and a server that
has been told of the end ends the connection when it has its answers and closes its socket
then; without that the client waits for it, by design. `ExitCompletes` has the other such wait in
its premise: with `TRACY_NO_EXIT=1` a `Worker` without a connection waits in the accept loop for a server
that shakes hands (`WaitsForServer`), and none need come. That the program is ever asked to end
is not assumed, nor that a server comes or asks.

## 4. Where the code and its comments disagree

1. **Aliases** (`parse_alias`). `partfx.c` line 165 says of `is_key_next`: "True if next
   scalar is a key". An alias reaches the `default` case (line 281), which ignores
   it. In the run it is the first key of a map, `{*a ...`: libyaml goes on to the value, but
   `is_key_next` is still true with no key pending, so the next scalar, a value,
   would be stored as a key. No shipped file has an alias.
2. **Effects without an animation** (`viewer_shipped`). Line 233 of
   `partviewer.c` computes `(fx.p+1) % fx.num_frames`, and `num_frames` is zero for
   an effect without `KSSM/endFrame` (54 of the 74 files of the catalogue), since
   `partfx_reset` has just cleared it. The frame that picks such a file traps.
   The panel has a branch for effects of that kind (line 189, "Try to extract WPSM
   properties": none of the 14 WPSM files has a KSSM) and one for files that do not
   load (line 215, "No data loaded or parse failed."); neither is ever presented.
   The first entry shown (`pickidx = 10`) has an animation, so the program starts.
   `OnlyALoadCrashes` shows that the trap comes with a pick and at no other time.

3. **The box of the boids** (`boids_box`). `boids.c` 305 says "// Bounds" of the box of
   `boundSize` drawn after it, 15 by 10 by 10. `applyBoundRule` compares with `boundSize.x / 2` = 7.5
   as the upper bound on every axis (174, 181), and with `boundSize.y / 2` below on the z axis
   (178). In the run a boid at z = 5.015, beyond the front of the box while the others are at
   4.918 and 4.919, leaves with 0.115 a frame; after the frame it is at z = 5.126 and still leaves
   with 0.111, because the push of 0.1 was not applied. `StraysTurn` shows that the
   sides on which the rule and the box agree turn boids back; the back side does as the sizes on y and
   z happen to be the same.

## 5. Proofs

`PartfxParseProofs` proves, for every value of the constants allowed by
`HeapAssumption` and `ParseAssumption`:

| Theorem | States |
|---|---|
| `TypeCorrect` | `Spec => []TypeOK` - also: no allocation past the arena is committed, the stack stays within `MAX_DEPTH` |
| `MemorySafe` | `Spec => []BlocksSound` |
| `PointersSafe` | `Spec => []PointersSound` |
| `KeyPhaseAlways` | `Dialect = {}` implies `Spec => []KeyPhase` |
| `NeverUndefined` | `Dialect = {}` implies `Spec => []NoUndefined` |
| `NodesGrow` | `Spec => NodesOnlyGrow` |
| `AnswersStay` | `Spec => LookupsStable` |
| `AlwaysTree` | `Spec => []TreeShape` |
| `BuildsTheNodes` | `Dialect = {}` implies `Spec => ImplementsNodes`: the session refines `YamlNodes` |
| `QueriesAlwaysRead` | `Spec => []QueriesReadTable`: every query answers what the table of nodes says |
| `BuildsTheDocument` | `Dialect = {}` implies `Spec => ImplementsYamlTree`: the session refines `YamlTree` |
| `QueriesAlwaysReadDocument` | `Dialect = {}` implies `Spec => ImplementsYamlTree /\ []QueriesReadDocument`: every path, getter and sequence read answers what the document has there, the document being that of the events |

`YamlNodesProofs` proves the second half of that refinement by itself: `TableIsDocument`,
`NodesSpec => ImplementsTree`, assuming only that `NoNode` is no number a node can have.

`PartViewerProofs`, for every catalogue and every size of the dropdown:

| Theorem | States |
|---|---|
| `ViewerTypeCorrect`, `ArenaAlwaysHoldsOneEffect` | `Spec => []TypeOK`, `Spec => []ArenaHoldsOneEffect` |
| `OneFileAlwaysShown`, `TextureAlwaysOfEffect`, `PositionAlwaysInEffect` | the invariants of these names |
| `OneClickAlwaysActsOnce` | `Spec => OneClickActsOnce` |
| `PlayableNeverCrashes` | if every file can be read, parses and has an `endFrame` other than 0, `Spec => []NeverCrashes` |
| `OnlyALoadEverCrashes` | if the first effect is such a file, `Spec => OnlyALoadCrashes`: a frame that traps has loaded a file that is not |

The other components:

| Module | Theorem | States, for every value of the constants |
|---|---|---|
| `CatalogProofs` | `FittingEntriesAlwaysIntact`, `AlwaysDefinedWithinLimits` | `Spec => []FittingEntriesIntact`, `Spec => []DefinedWithinLimits` |
| `CatalogProofs` | `NamesAlwaysReadBack` | `Spec => []NamesReadBack`: the texts the dropdown is given are the names of the file |
| `CatalogProofs` | `LabelsAlwaysNameEntries` | `Spec => []LabelsNameEntries`: and so are the labels that raygui makes of them |
| `MainProofs` | `FramesAlwaysHave` | `Spec => []FramesHaveWhatTheyDraw`, about main and all its demos |
| `MainProofs` | `AlwaysAimsAtWhatIsSeen`, `HighlightAlwaysUnderMouse`, `AnimationAlwaysFollows` | `Spec => AimsAtWhatIsSeen`, `HighlightUnderMouse`, `AnimationFollowsMotion` |
| `MainProofs` | `NeverAway`, `TargetAlwaysTold` | `Spec => []NeverLooksAway`, `[]TargetTold` |
| `MainProofs` | `CentreAlwaysHolds` | `ShadowDrop = HalfHeight` implies `Spec => []CentreHoldsShadow` |
| `MainProofs` | `StraysAlwaysTurn` | `MAX_SPEED \div CENTER + MAX_SPEED \div MATCH <= TURN_FACTOR \div 2` and `HalfSize["y"] <= HalfSize["z"]` imply `Spec => StraysTurn`, for any number of boids |
| `SPSCProofs` | `QueueTypeCorrect`, `SlotsAlwaysApart`, `PopNeverAsserts` | `Spec => []TypeOK`, `[]SlotsApart`, `[]PopAssertion` (the `assert` of `pop`) |
| `SPSCProofs` | `RingIsQueue` | `Spec => ImplementsFifo`: the ring refines `Fifo` |
| `EventQueueProofs` | `QueueKept` | `Spec => []QueueInv`, the inductive invariant |
| `EventQueueProofs` | `InOrder`, `NoPlaceShared` | `Spec => []ProcessedInOrder`, `[]NoSharedPlace` |
| `ProfilerProofs` | `AlwaysOneSymbolConsumer`, `SocketAlwaysLive` | `Spec => []OneSymbolConsumer`, `Spec => []SocketInUseIsLive` |
| `ProfilerProofs` | `EachReceivedOnce`, `AllSentAtEnd` | `Spec => []ReceivedOnce`, `Spec => []AllSentBeforeEnd` |

*Assumptions.* Sizes, capacities and depths are positive, the rare YAML features are a
subset of the three named, an entry picked first is in the catalogue, raygui's table has a
row for every slot (both are 128). Nothing is assumed
about alignment, about the ratio of sizes, or about the documents and files.

*The parser.* `BlocksSound` alone is not inductive: that an entry may be stored
needs that the array belongs to one container only, that it is as large as the
capacity says, and that no string or node lies in it. `HeapSound`, at
the front of `PartfxParseProofs`, is a conjunction of named parts - blocks apart (`Apart`) and in
the arena (`InArena`), each container with an array of the right size and
filling (`ArraysSound`), each array with one owner (`ArraysOwned`), strings and
slots that lead to live blocks of the right kind (`StringsSound`, `SlotsSound`) -
and one lemma per operation (`arena_alloc`, `create_*`, `Grow`, `map_add`, ...)
shows that it is preserved and that live nodes and strings stay live. The
inductive invariant `IInv` of the session adds that the root and the stack
point into that memory, and that a map's pending key is there exactly when
`is_key_next` is false. `IInv` holds with every dialect; one lemma per action
shows that the action preserves it. The phase theorems add `PhaseInv`, the
alignment of the stack with libyaml's open containers, which holds only without
aliases, container keys and scalar roots.

*The tree.* `Grows` says what one event may do to the nodes there are: every node keeps its
kind and its items, and only a container that is open gains one, behind the others. It
follows from what each operation keeps (`BlocksKept`, `ItemAdded`), given `HeapSound`: without one owner for
each array an item stored in one container would show in another. `LookupsStable` follows
because a query takes the first item with its key, and later items come behind. For
`TreeShape`, `ShapeInv` says that a child lies at a higher address than its
parent, that nobody holds a node twice, and that every node but the first is held; a new node is above
all others and is added to exactly one container. That a node without a container to go
to is the first of the arena needs the stack to be as deep as libyaml's nesting, which is
part of the invariant.

*The table of nodes.* The mapping reads the table off the arena (`NodesOf`) and the path and
the pending key off the parser's stack. `KindsKept`, `ItemAdded` and `LastUnder` - the last item of the
container has the pending key's text, copied or not - give what one event does to the table:
nothing for a key and for an array that moves (`TableKept`), one node and one item for a value
or a container (`TableExtended`). Besides `IInv`, `ShapeInv` and `PhaseInv` the step needs `BelowInv`: only
the innermost container can wait for a value. A parent's key is thus used up when
the child opens, so that at its end the path gets shorter and nothing is pending. The
hypothesis `Dialect = {}` is needed: with an alias the mapping is false, see
section 4. `QueriesReadTable` asks the queries of the same table: what is found under a key, at an index or by a
typed getter is the first such entry there, and is again a node of the table or
`NULL`. It needs no more than `IInv`, so it holds for every dialect.

*The document.* `Values` is a recursive function on the table. That it has a value for every node
(`ValuesAre`), and that two tables with the same nodes below a node give it the same value
(`SameValues`), is shown from the last node to the first, by a least number for which it fails
(`LeastNat`), since what a node holds has a higher number (`TableSound`). The path
runs down the right edge of the tree: each open container is the last item of the one before
(`PathSound`, `HeldOnPath`). A node added to the innermost one therefore changes the values on the path
only (`ValueOffPath`, `ValueOnPath`), each in its last item, and that is what `Insert` builds from
the outside (`InsertAdded`). `BuildsTheDocument` is `TableIsDocument` after `BuildsTheNodes`.
For `QueriesReadDocument` one step of a path finds the same entry in the table as `ValueUnder` finds in the
value, and a path is followed key by key. A root that is no mapping has no value, and `pfx->root` is
`NULL`. This half (`QueriesReadTree`) holds for every dialect, but with aliases what the arena's table
stands for need not be the document (section 4); the theorem therefore has `Dialect = {}` and states
both, that the tree is the document and that the queries read it.

*The viewer.* `ViewerInv` ties everything held to the selected entry.
What makes it inductive is that the dropdown is open only after a frame that did
not trap, hence with `num_frames > 0`: so the effect a reload replaces was loaded
whole, and if it names a texture that is the one presented (`TextureAlwaysOfEffect`; `OneFileShown`
is about name, text and effect only). The rows of the dropdown lie apart from its
header and from each other, so a release where the press opened it does nothing
(`ReleaseDoesNothing`). The last two theorems turn the defect of
section 4 around: they name the condition on the files under which the code is right.

*The catalogue.* `CatalogInv` says that every field stored so far that fits stands in its
slot. A new entry writes from its own slot on, and the slots before end where it begins
(`SlotsFollow`, `SlotKept`); its own bar comes behind its terminator if it fits
(`SlotWritten`). A slot that stands as it should is read back as its text (`ReadBack`), since no
field holds a terminator of its own. For the other half of `LabelsNameEntries`, from `TextJoin` to the
labels, `CutAt` says where in the joined text each name stands: they follow each other with one
semicolon between, and if no name has one itself these are all the places `GuiTextSplit` cuts at
(`CutsOfJoined`), so that what it cuts out are the names (`SplitOfJoined`). Names that would not fit its buffer are
excluded by the property.

*Main and the isometric demo.* All theorems of `MainProofs` are about the whole program, with
any demo. `StageInv` lists the stages of main - what is left of the frame, the window, the
resources, the call the demo waits for - and shows that each call finds what it needs; the
demos' own variables rest outside their own calls. For the isometric demo `ViewInv` adds what the last
picture still shows of the camera and the animation before a tick, and what the tick has
just decided before a draw; without it no relation of two frames is inductive. Two tiles share no
point inside them: each is a band between two parallels in two directions, and tiles that
differ, differ in one of the two (`AlongSides`, `AreasApart`, `OneTileInside`).
`CentreAlwaysHolds` has a hypothesis, that the shadow lies half a tile below the character. It is
the code's: the literal 40 of `DrawIsoApp` against 80 of `floors.height`. TLC checks the
invariant with these proportions.

*The boids.* `StraysAlwaysTurn` is about `NUM_BOIDS` boids, 250 in the code, wherever and however
fast they start, for any number of frames. `Clear` says that no other boid can be near, whoever
has moved already, so the rule of distance adds nothing (`NobodyNear`). What is left
against the push is the pull to the centre and to the speed of the others. Their average on an axis
was inside the box at the start of the frame; each of the boids moved since has moved by one cap at
most, so no average has changed by more (`TotalsApart`, `AveragesApart`), and no boid is faster than the cap
after the first frame (`AverageSlow`). A share of a distance cut to the grid is at most that share of the
bound of the distance (`PartOfTheWay`): together these are at most one part in `CENTER` and one
in `MATCH` of the cap, 0.0108 with the code's factors, which is less than half of the push, 0.05
(`StrayIsFlocked`). The push is applied since the side is one where the rule's bound is no farther out than the
box, and the cap on the speed only shortens (`CapShortens`), so the boid loses half the push
or turns (`StrayTurns`). Its round comes in the middle of the loop: `RoundsAre` and `AllReached` follow the flock
round by round, as the least round for which this fails (`Recursion`, for all recursive functions
here). `FlockInv` adds to `StageInv` that the flock is one of integer vectors and that after
the first frame every boid is within the cap; before it the starts of `InitBoidsApp` may be
faster. The box must be no higher than deep, as it is, since the back side is held to the size of the y axis.
On the upper and the front side the statement is false (`boids_box`). Nothing is claimed of a boid that
others are near to: their pushes add up beyond `TURN_FACTOR`.

*The symbol queue.* The invariant orders the four indices around the ring - the producer's
cache, the read index, the consumer's cache, the write index - by the sum of their
distances (`Around`), and says which slots hold an object (`Live`). A load moves a cache
within its stretch only (`Loaded`), so everything else is kept however old it is. For the
refinement, `SlotAt` and `SlotOf` give the n-th item its slot, and each of the two commits is the
abstract queue's step.

*The event queue.* `QueueInv` says, for every block of the ring, to which chunk of the
elements it belongs, what of it is written, and that `elementsCompletelyDequeued` is what the
consumer has gone through (`BlocksInv`); that each block is in the ring once (`RingInv`); and where in
the index a chunk is entered (`IndexInv`): chunk `c` at slot `o + c`, cyclically, where the
origin `o` is another one for every index that was made, as `new_block_index` moves the entries to
its beginning. The consumer works with an index that may have been replaced since it loaded
it, and with the last entry it saw at that time; the invariant says that both list
every block of its bulk, which holds because the entries in use are never overwritten: a block
is reused only when it is empty, and the index is never smaller than the ring. Neither
property is inductive without all of it. The quotients and remainders
are in the lemmas `Division` to `Small`.

*The profiler.* `LoopInv`: `Worker` is past its main loop only when `SymbolWorker` is gone.
`SocketInUseIsLive` is inductive as it stands. For the events, `Flow` maps every place an
item can be in - the two queues of events, the queries not answered yet, the answers in the queues of
`Worker` and `SymbolWorker`, what the server was sent together with the frame being filled -
to a sequence, and `FlowSound` says that nothing is in two places or twice in one
(`NothingTwice`), that events of one source stand in their order (`InOrder`), that nothing is
there that was not emitted or asked for (`NothingForeign`), and, unless the server has said
`Disconnect`, that nothing emitted is missing (`NothingLost`). Every action moves items from the
head of one place to the end of another, or drops all of a place (`Rearranged`, `Homes`), and
holds no item twice in between. `ReceivedOnce` is about what has arrived only and is not
inductive without the places. `DrainInv` adds what is known of the queues in the two loops after
the shutdown, by the place `Worker` is at: an empty round leaves nothing behind.

*Only model-checked.* All liveness - `EveryFrameShown`, `NeitherHeldUp`, `ExitCompletes`,
`AllProcessed` - which is out of the prover's reach. No module has a `RECURSIVE`
operator; recursion is written as recursive functions.

## 6. What is not modelled

- `partfx_print_tree`: its text; that its recursion ends and meets every node once
  is `TreeShape`.
- `parse_scalar`'s string tests: a parameter.
- Alignment of arena blocks: a string of any length shifts what follows; the
  program builds for x86-64, where this is harmless.
- A build without assertions, where an exhausted arena would be written past.
- Wording and layout of the panel, cameras in three dimensions, shaders, and the GPU's memory - the
  texture of the effect before is never unloaded.
- The profiler's zones that main and the demos open and close around their calls.
- Of Tracy: the bytes of its frames and their compression, the reading side of its socket, which
  the model of the threads has as items and as messages that arrive whole or not at
  all; the creation, recycling and choice of producers of the event queue; frame images, which the
  program does not send; the crash handlers and the system tracing that `SpawnWorkerThreads` installs;
  the on-demand mode, which is not built. After a server is turned
  away its socket is freed but `m_sock` keeps the address; `Profiler` has this as the value
  `"freed"`, and `SocketInUseIsLive` says only that `Worker` never uses it so, not what the
  destructor does with it.
- The vendored rest: libbacktrace, rpmalloc, lz4, the headers of raylib, and of raygui all but
  `GuiDropdownBox` and `GuiTextSplit`. libyaml and raylib are present as headers and
  libraries only. These are nearly all of the repository's 62,000 lines; the program's own
  are about 1,560, and every function of them that changes state is an action here.

## 7. Plan

Done: the parser, its queries and the viewer; the dropdown, the catalogue, the isometric
demo, boids, the icon swatch and main around them; Tracy's threads, symbol queue and event
queue; the proofs of section 5.

Left, in order of importance:

1. `parse_scalar`: classification of a scalar and its 32-bit value, with the empty
   string, hexadecimal above the range of `long`, and trailing text.
2. The distances the flock keeps: how far from the bounds a boid gets that others are near to.
3. Tracy's send buffer and socket.
