\* Two cameras sent to one address.
CONSTANTS
    s1 = s1
    s2 = s2
    a1 = a1
    a2 = a2
    Sender = {s1, s2}
    Address = {a1, a2}
    Dest <- MCDest
    Size <- MCSize
    Timestamps = 3
SPECIFICATION Spec
INVARIANTS
    RtpTypeOK
    PacketIsWhole
    TimestampsTellPackets
