\* Two cameras on one thread of the pool.
CONSTANTS
    Camera = {c1, c2}
    CallId = {k1, k2}
    Request <- MCRequest
    NoRequest = NoRequest
    NoCamera = NoCamera
    NoCall = NoCall
    Thread = {1}
    NoThread = NoThread
    MaxRequests = 2
    MaxPackets = 2
SPECIFICATION FairSpec
PROPERTIES
    
    BufferIsServed
