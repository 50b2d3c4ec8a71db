SPECIFICATION Spec
CONSTANTS
    Conns = {c1, c2}
    Talkers = {c1}
    Emitters = {e1}
    MaxQueue = 1
    MaxWire = 1
    MaxStream = 1
    Frames = 2
    None = None
INVARIANTS ConnectionsAreSound MessagesArrive
CONSTRAINT OneRequest
CHECK_DEADLOCK FALSE
