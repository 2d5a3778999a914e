----------------------------- MODULE RtpSender -----------------------------
(***************************************************************************)
(* RTPSender (rtpsender.cpp): how a packet of the camera becomes RTP packets*)
(* and where they go.  Each sender has an RTPSession of its own and all     *)
(* share the static transmitter_, whose list of destinations every session  *)
(* adds to.  The threads of the pool send for different senders at a time.  *)
(***************************************************************************)
EXTENDS Naturals

CONSTANTS
    Sender,       \* RTPSenders, one per subscription
    Address,      \* addresses the clients ask for
    Dest,         \* Dest[s]: destip_ and destport_ of s
    Size,         \* lengths of the packets
    Timestamps    \* how many timestamps there are, 2^28 (2^32 ticks, 3600 at a time)

ASSUME DestAssumption == Dest \in [Sender -> Address]
ASSUME SizeAssumption == Size \subseteq Nat
ASSUME TimestampAssumption == Timestamps \in Nat /\ Timestamps >= 2

VARIABLES
    live,          \* senders whose session exists
    destinations,  \* the transmitter's list
    size, left,    \* the packet each sender is sending, or sent last; bytes to go
    bytes,         \* bytes of it that were sent
    sending,       \* whether send is running
    timestamp,     \* the session's
    stamps,        \* timestamps of the RTP packets of this packet
    before,        \* size and timestamps of the packet before it
    received       \* which address was sent something by which sender

sendVars == <<size, left, bytes, sending, timestamp, stamps, before>>
vars == <<live, destinations, sendVars, received>>

Stamp == 0..(Timestamps - 1)

Packet == [size : Nat, stamps : SUBSET Stamp]

Nothing == [size |-> 0, stamps |-> {}]

RtpTypeOK ==
    /\ live \subseteq Sender
    /\ destinations \subseteq Address
    /\ size \in [Sender -> Nat]
    /\ left \in [Sender -> Nat]
    /\ bytes \in [Sender -> Nat]
    /\ sending \in [Sender -> BOOLEAN]
    /\ timestamp \in [Sender -> Stamp]
    /\ stamps \in [Sender -> SUBSET Stamp]
    /\ before \in [Sender -> Packet]
    /\ received \subseteq Sender \X Address
    /\ \A s \in Sender : sending[s] => s \in live

Init ==
    /\ live = {}
    /\ destinations = {}
    /\ size = [s \in Sender |-> 0]
    /\ left = [s \in Sender |-> 0]
    /\ bytes = [s \in Sender |-> 0]
    /\ sending = [s \in Sender |-> FALSE]
    /\ timestamp = [s \in Sender |-> 0]
    /\ stamps = [s \in Sender |-> {}]
    /\ before = [s \in Sender |-> Nothing]
    /\ received = {}

-----------------------------------------------------------------------------
(* The session *)

\* init and createRTPSession, for a new RTPSender: AddDestination of an address that
\* is listed fails, which is only logged.  A session starts at any timestamp.
Create(s) ==
    /\ s \notin live
    /\ live' = live \cup {s}
    /\ destinations' = destinations \cup {Dest[s]}
    /\ \E stamp \in Stamp : timestamp' = [timestamp EXCEPT ![s] = stamp]
    /\ size' = [size EXCEPT ![s] = 0]
    /\ bytes' = [bytes EXCEPT ![s] = 0]
    /\ stamps' = [stamps EXCEPT ![s] = {}]
    /\ before' = [before EXCEPT ![s] = Nothing]
    /\ UNCHANGED <<left, sending, received>>

\* Mutant: the buffer drops the sender without waiting for destsmutex_.
Destroy_NoWait(s) ==
    /\ s \in live
    /\ live' = live \ {s}
    /\ UNCHANGED <<destinations, sendVars, received>>

\* The sender was removed from its buffer, under the lock its send holds.  Nothing
\* takes its address off the list.
Destroy(s) ==
    /\ s \in live /\ ~sending[s]
    /\ live' = live \ {s}
    /\ UNCHANGED <<destinations, sendVars, received>>

\* RTPSession::SendPacket: the timestamp moves on after the RTP packet was built,
\* and the transmitter sends it to every address of its list.
SendPacket(s, len, increment) ==
    /\ left' = [left EXCEPT ![s] = @ - len]
    /\ bytes' = [bytes EXCEPT ![s] = @ + len]
    /\ stamps' = [stamps EXCEPT ![s] = @ \cup {timestamp[s]}]
    /\ timestamp' = [timestamp EXCEPT ![s] =
                        IF @ + increment = Timestamps THEN 0 ELSE @ + increment]
    /\ received' = received \cup ({s} \X destinations)
    /\ UNCHANGED <<live, destinations, size, before>>

-----------------------------------------------------------------------------
(* send *)

MaxPayload == 1400

Send(s, len) ==
    /\ s \in live /\ ~sending[s]
    /\ sending' = [sending EXCEPT ![s] = TRUE]
    /\ size' = [size EXCEPT ![s] = len]
    /\ left' = [left EXCEPT ![s] = len]
    /\ bytes' = [bytes EXCEPT ![s] = 0]
    /\ before' = IF stamps[s] = {} THEN before
                 ELSE [before EXCEPT ![s] = [size |-> size[s], stamps |-> stamps[s]]]
    /\ stamps' = [stamps EXCEPT ![s] = {}]
    /\ UNCHANGED <<live, destinations, timestamp, received>>

FullFragment(s) ==
    /\ sending[s] /\ left[s] >= MaxPayload
    /\ SendPacket(s, MaxPayload, 0)
    /\ UNCHANGED sending

NothingSent == UNCHANGED <<live, destinations, size, left, bytes, timestamp, stamps,
                           before, received>>

\* Mutants: a rest of one byte is dropped; the timestamp never moves.
Return_Short(s) ==
    /\ sending[s] /\ left[s] < MaxPayload
    /\ IF left[s] > 1 THEN SendPacket(s, left[s], 1) ELSE NothingSent
    /\ sending' = [sending EXCEPT ![s] = FALSE]

Return_Stays(s) ==
    /\ sending[s] /\ left[s] < MaxPayload
    /\ IF left[s] > 0 THEN SendPacket(s, left[s], 0) ELSE NothingSent
    /\ sending' = [sending EXCEPT ![s] = FALSE]

\* Less than a full fragment is left, or nothing: the rest goes out, if there is any, and
\* send returns.  This is all that moves the timestamp on (3600 ticks, one increment).
Return(s) ==
    /\ sending[s] /\ left[s] < MaxPayload
    /\ IF left[s] > 0 THEN SendPacket(s, left[s], 1) ELSE NothingSent
    /\ sending' = [sending EXCEPT ![s] = FALSE]

-----------------------------------------------------------------------------

Next ==
    \E s \in Sender :
        \/ Create(s) \/ Destroy(s)
        \/ \E len \in Size : Send(s, len)
        \/ FullFragment(s) \/ Return(s)

Spec == Init /\ [][Next]_vars

-----------------------------------------------------------------------------

\* When send has returned, every byte of the packet was sent: the fragments of 1400 and
\* the rest make up any length.
PacketIsWhole == \A s \in Sender : ~sending[s] => bytes[s] = size[s]

\* A receiver puts together what has one timestamp: the RTP packets of one packet
\* have the same, whoever else sends in between,
OneTimestampPerPacket == \A s \in Sender : \A t, u \in stamps[s] : t = u

\* and those of the next another one, except after a packet of a multiple of
\* 1400 bytes, all of whose RTP packets leave the timestamp where it is.
SharedOnlyAfterMultiple ==
    \A s \in Sender :
        stamps[s] \cap before[s].stamps # {} => before[s].size % MaxPayload = 0

\* Both: the timestamps tell a receiver where a packet ends, but for the multiples.
TimestampsTellPackets == OneTimestampPerPacket /\ SharedOnlyAfterMultiple

\* What a sender sends reaches its own address only.
SentToItsOwnAddress == \A s \in Sender, a \in Address : <<s, a>> \in received => a = Dest[s]
=============================================================================
