SPECIFICATION Spec
CONSTANTS
  b1 = b1
  b2 = b2
  k1 = k1
  c1 = c1
  d1 = d1
  d2 = d2
  Box = {b1, b2}
  Camera = {k1}
  Reading = {0, 9}
  Enter = 5
  Exit = 4
  Confirm = 2
  Window = 2
  MaxSamples = 2
  StaleAfter = 1
  GoneAfter = 1
  ForgetAfter = 1
  RenotifyAfter = 2
  MinSpan = 1
  MinSamples = 2
  MaxMono = 3
  MaxSteps = 1
  MaxEvents = 1
  MaxQueued = 2
  MaxPushes = 6
  Client = {c1}
  MaxPieces = 3
  MaxRequest = 2
  Ours = {d1}
  Theirs = {d2}
  Label = {"cart"}
  DiskFills = FALSE
  MaxWall = 2
INVARIANT RosterSurvives
PROPERTIES RegistryIsHonest HeardIsDelivered ClientsAreServed
CHECK_DEADLOCK FALSE
