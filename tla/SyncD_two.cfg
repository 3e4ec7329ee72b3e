SPECIFICATION Spec
CONSTANTS
    c1 = c1
    c2 = c2
    NoCam = NoCam
    TentacleBench = TRUE
    DryRun = FALSE
    MaxFailures = 1
    MaxAdapts = 1
    Cams = {c1, c2}
    OptWant <- NoWant
    AskWants <- TheSecond
    Hold = TRUE
    HasClock = TRUE
INVARIANTS
    SchedulingIsSound
    TalksToBoundBody
    WritesArePermitted
    HeldCameraIsUsed
