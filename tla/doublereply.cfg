\* A close of an unknown id.
CONSTANTS
    Camera = {c1, c2}
    CallId = {k1, k2}
    Handle = {h1, h2}
    Request <- MCRequest
    Thread <- MCThread
    NoRequest = NoRequest
    NoCamera = NoCamera
    NoHandle = NoHandle
    NoUser = NoUser
    LoginMayFail = TRUE
    PlayMayFail = TRUE
    MuteMayFail = TRUE
    StopMayFail = TRUE
    HandleReuse = TRUE
    PatientClients = TRUE
    MaxRequests = 2
SPECIFICATION Spec
SYMMETRY Symmetry
INVARIANTS
    OneResponsePerClose
