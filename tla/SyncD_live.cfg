SPECIFICATION Spec
CONSTANTS
    c1 = c1
    c2 = c2
    NoCam = NoCam
    TentacleBench = TRUE
    DryRun = FALSE
    MaxFailures = 1
    MaxAdapts = 0
    Cams = {c1}
    OptWant <- NoWant
    AskWants <- AnyCamera
    Hold = FALSE
    HasClock = FALSE
 
PROPERTIES
    CyclesEnd
    
