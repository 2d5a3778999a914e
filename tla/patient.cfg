\* Patient clients and an SDK that may refuse to log in, to play, to mute or to stop, but never
\* gives a handle out twice.
CONSTANTS
    Camera = {c1, c2}
    CallId = {k1, k2}
    Handle = {h1, h2, h3}
    Request <- MCRequest
    Thread <- MCThread
    NoRequest = NoRequest
    NoCamera = NoCamera
    NoHandle = NoHandle
    NoUser = NoUser
    LoginMayFail = TRUE
    PlayMayFail = TRUE
    MuteMayFail = TRUE
    StopMayFail = TRUE
    HandleReuse = FALSE
    PatientClients = TRUE
    MaxRequests = 4
SPECIFICATION Spec
SYMMETRY Symmetry
INVARIANTS
    NoCloseDuringOpen
    SubscriberHasSender
    CallbackOutlivesPreview
    CallbackIsOwned
    PreviewTargetAlive
    OnePreviewPerCamera
PROPERTIES
    ImplementsRegistry
