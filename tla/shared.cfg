\* Two cameras sent to two addresses.
CONSTANTS
    s1 = s1
    s2 = s2
    a1 = a1
    a2 = a2
    Sender = {s1, s2}
    Address = {a1, a2}
    Dest <- MCDestApart
    Size <- MCSize
    Timestamps = 3
SPECIFICATION Spec
INVARIANTS
    SentToItsOwnAddress
