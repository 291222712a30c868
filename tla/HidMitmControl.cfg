CONSTANTS
    NumPlayers  = 1
    RingSize    = 1
    Layouts     <- MCLayouts
    Buttons     <- MCButtons
    Sticks      <- MCSticks
    StickKeys   <- MCStickKeys
    SideKeys    <- MCSideKeys
    Screens     <- MCScreens
    ZeroScreens = "zero"
    NamedKeys   <- MCNamedKeys
    StrayKeys   <- MCStray
    Empty       = "empty"
    OtherWords  <- MCOther
    Pids        = {p1, p2}
    Res         = {r1, r2}
    NoRes       = NoRes
    NoPid       = NoPid
    OnePerPid   = FALSE
    RealImages  <- ControlImages
    Messages    <- ControlMessages
    Files       <- ControlFiles
SPECIFICATION Spec
INVARIANTS TypeOK MutexDiscipline NoDeadlock NoUseAfterUnmap AbortCause
PROPERTIES StableDuringPass
SYMMETRY MCSymmetry
