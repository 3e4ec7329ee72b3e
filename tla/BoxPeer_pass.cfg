SPECIFICATION Spec
CONSTANTS
    Room = {b1, b2}
    b1 = b1
    b2 = b2
    Strangers = {"arduino"}
    Uses = {"off", "auto"}
    MaxBoots = 2
    MaxLinks = 3
    MaxDays = 2
CHECK_DEADLOCK FALSE
INVARIANTS
    WholeAnswers
    OnlyTheDongle
PROPERTY
    TheBoxIsHeard
