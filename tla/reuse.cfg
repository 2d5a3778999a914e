\* Patient clients and an SDK that gives stopped handles out again, but plays
\* whenever it has one and always stops.
CONSTANTS
    Camera = {c1, c2}
    CallId = {k1, k2}
    Handle = {h1, h2}
    Request <- MCRequest
    Thread <- MCThread
    NoRequest = NoRequest
    NoCamera = NoCamera
    NoHandle = NoHandle
    NoUser = NoUser
    LoginMayFail = TRUE
    PlayMayFail = FALSE
    MuteMayFail = TRUE
    StopMayFail = FALSE
    HandleReuse = TRUE
    PatientClients = TRUE
    MaxRequests = 4
SPECIFICATION Spec
SYMMETRY Symmetry
INVARIANTS
    OpenedIsPlaying
    OnePreviewPerCamera
PROPERTIES
    CloseStopsOwnPreview
