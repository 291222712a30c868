CONSTANTS
    Controllers = {c1, c2}
    None        = None
    Timers      = {t1, t2}
    Sockets     = {s1, s2}
    Addresses   = {a1, a2}
    Chords      <- MCChords
    Plain       = {"A"}
    Strange     = {"Home"}
    AndroidKeys <- MCAndroidKeys
    Button      <- MCButton
    AndroidPads <- MCAndroidPads
    PyPads      <- MCPyPads
    MaxQueue    = 1
    Instances   = 4
    Literals    = {"192.168.178.22", "literal"}
    Hosts       = {"host"}
    Wrong       = {"mistyped"}
    Default     = "192.168.178.22"
    MaxSenders  = 3
SPECIFICATION CompanionSpec
INVARIANTS TypeOK OnlyToChosen OneSocket OfAttached PlusChord CompanionTypeOK AtRest NoFlicker AttachedIsHeard SendsWhereTold EndsOnlyForHosts
PROPERTIES Settles
CHECK_DEADLOCK FALSE
