CONSTANTS
    NumPlayers  = 1
    RingSize    = 2
    Layouts     <- MCLayouts
    Buttons     <- MCButtons
    Sticks      <- MCSticks
    StickKeys   <- MCStickKeys
    SideKeys    <- MCSideKeys
    Screens     <- MCScreens
    ZeroScreens = "zero"
    NamedKeys   <- MCNamedKeys
    StrayKeys   <- MCStray
    Empty       = "empty"
    OtherWords  <- MCOther
    Pids        = {p1}
    Res         = {r1}
    NoRes       = NoRes
    NoPid       = NoPid
    OnePerPid   = TRUE
    RealImages  <- GameImages
    Messages    <- GameMessages
    Files       <- GameFiles
SPECIFICATION Spec
PROPERTIES AdditionalController
