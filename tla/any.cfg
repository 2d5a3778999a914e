\* Clients at will, and every vendor call may fail.
CONSTANTS
    Camera = {c1, c2}
    CallId = {k1, k2}
    Handle = {h1, h2}
    Request <- MCRequest
    Thread <- MCThread
    NoRequest = NoRequest
    NoCamera = NoCamera
    NoHandle = NoHandle
    NoUser = NoUser
    LoginMayFail = TRUE
    PlayMayFail = TRUE
    MuteMayFail = TRUE
    StopMayFail = TRUE
    HandleReuse = TRUE
    PatientClients = FALSE
    MaxRequests = 3
SPECIFICATION Spec
SYMMETRY Symmetry
INVARIANTS
    TypeOK
    EachOpenHasOneOwner
    PoolMatchesRegistry
    DestroyedStreamsAreEmpty
    EmptyOnlyAfterFailedOpen
    OneLoginPerCamera
    NoDoubleFree
PROPERTIES
    UsesController
    UsesMessageThread
