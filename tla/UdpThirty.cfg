CONSTANTS
    Messages  = {m1, m2}
    NoMessage = NoMessage
    IPs       = {ip1, ip2, zero}
    ZeroIP    = zero
SPECIFICATION Spec
INVARIANTS ThirtyTries
