CONSTANTS
    Controllers = {c1, c2}
    None        = None
    Timers      = {t1, t2}
    Sockets     = {s1, s2}
    Addresses   = {a1, a2}
    Chords      <- MCChords
SPECIFICATION Spec
INVARIANTS MinusChord
