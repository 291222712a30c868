CONSTANTS
    Messages  = {1, 2}
    NoMessage = 0
    IPs       = {zero}
    ZeroIP    = zero
    QueueCap  = 2
SPECIFICATION E2ESpec
INVARIANTS E2ETypeOK NoGoingBack
PROPERTIES FollowsPlayer
