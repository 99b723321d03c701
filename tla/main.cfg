SPECIFICATION Spec
CONSTANTS
  PAGE_SIZE = 120
  RAYGUI_ICON_MAX_ICONS = 256
  MAP_DIMS = 2
  HalfWidth = 2
  HalfHeight = 1
  ShadowDrop = 1
  SPRITE_DELAY = 2
  Stride = 2
  ScreenCentre <- MCScreenCentre
  World <- MCWorld
  Mice <- MCMice
  NUM_BOIDS = 3
  CENTER = 250
  AVOID = 20
  MATCH = 20
  AVOID_RADIUS = 1000
  TURN_FACTOR = 100
  MAX_SPEED = 200
  HalfSize <- MCHalfSize
  Places <- MCPlaces
  Velocities <- MCVelocities
  MaxFrames = 5
INVARIANTS
  CentreHoldsShadow
  NeverLooksAway
  FramesHaveWhatTheyDraw
PROPERTIES
  AimsAtWhatIsSeen
  HighlightUnderMouse
  AnimationFollowsMotion
  StraysTurn
