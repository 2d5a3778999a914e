\* All command bytes.
CONSTANTS
    Camera = {"c1"}
    Message <- MCMessage
SPECIFICATION Spec
INVARIANTS
    PtzTypeOK
    MovesAsAsked
    SpeedOfItsAxis
