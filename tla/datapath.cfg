\* One camera, joined, closed and opened again, on two threads of the pool.
CONSTANTS
    Camera = {c1}
    CallId = {k1, k2}
    Request <- MCRequest
    NoRequest = NoRequest
    NoCamera = NoCamera
    NoCall = NoCall
    Thread <- MCThread
    NoThread = NoThread
    MaxRequests = 4
    MaxPackets = 2
SPECIFICATION Spec
SYMMETRY Symmetry
INVARIANTS
    DataTypeOK
    SendsForRegistered
    AttachedOnce
    OpensFindTheirStream
PROPERTIES
    MapStableInRound
    ImplementsChannel
