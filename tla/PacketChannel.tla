--------------------------- MODULE PacketChannel ---------------------------
(***************************************************************************)
(* What the data path promises a destination, without locks, threads or     *)
(* cameras: the packets accepted for it arrive in the order they were       *)
(* accepted, each at most once, and none after it stopped listening.  A     *)
(* destination listens once; a new subscription is a new destination.       *)
(***************************************************************************)
EXTENDS Naturals, Sequences

CONSTANT Request   \* the destinations

VARIABLES
    joined,      \* destinations that have ever listened
    listening,   \* those that still do
    backlog,     \* packets accepted for a destination and not yet delivered
    sent,        \* packets delivered
    made         \* number of packets accepted so far, which numbers them

chanVars == <<joined, listening, backlog, sent, made>>

Init ==
    /\ joined = {}
    /\ listening = {}
    /\ backlog = [d \in Request |-> <<>>]
    /\ sent = [d \in Request |-> <<>>]
    /\ made = 0

\* A new subscription may end others: those whose destination nobody holds.
Join(d, gone) ==
    /\ d \notin joined
    /\ joined' = joined \cup {d}
    /\ listening' = (listening \ gone) \cup {d}
    /\ UNCHANGED <<backlog, sent, made>>

Leave(gone) ==
    /\ listening' = listening \ gone
    /\ UNCHANGED <<joined, backlog, sent, made>>

Accept(d) ==
    /\ made' = made + 1
    /\ backlog' = [backlog EXCEPT ![d] = Append(@, made')]
    /\ UNCHANGED <<joined, listening, sent>>

Deliver(d) ==
    /\ d \in listening
    /\ backlog[d] # <<>>
    /\ sent' = [sent EXCEPT ![d] = Append(@, Head(backlog[d]))]
    /\ backlog' = [backlog EXCEPT ![d] = Tail(@)]
    /\ UNCHANGED <<joined, listening, made>>

Next ==
    \/ \E d \in Request : Accept(d) \/ Deliver(d)
    \/ \E gone \in SUBSET Request : Leave(gone) \/ \E d \in Request : Join(d, gone)

Spec == Init /\ [][Next]_chanVars
=============================================================================
