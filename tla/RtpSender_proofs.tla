-------------------------- MODULE RtpSender_proofs --------------------------
(***************************************************************************)
(* Theorems about RtpSender, for any senders, addresses and packet lengths.  *)
(***************************************************************************)
EXTENDS RtpSender, TLAPS

\* As long as bytes are left, all RTP packets were full ones and had the session's
\* timestamp; a packet that keeps the timestamp was made of full ones only.
OneStamp(s) ==
    /\ left[s] > 0 => stamps[s] \subseteq {timestamp[s]}
    /\ left[s] > 0 => left[s] % MaxPayload = size[s] % MaxPayload
    /\ timestamp[s] \in stamps[s] => left[s] % MaxPayload = size[s] % MaxPayload

\* The timestamp the next RTP packet gets was used before by multiples only.
NextStamp(s) ==
    stamps[s] = {} =>
        (timestamp[s] \in before[s].stamps => before[s].size % MaxPayload = 0)

\* What is left and what was sent make up the packet.
Accounted(s) == bytes[s] + left[s] = size[s]

RtpInv ==
    /\ RtpTypeOK
    /\ PacketIsWhole
    /\ OneTimestampPerPacket
    /\ SharedOnlyAfterMultiple
    /\ \A s \in Sender : Accounted(s) /\ OneStamp(s) /\ NextStamp(s)

LEMMA InitRtpInv == Init => RtpInv
<1> SUFFICES ASSUME Init PROVE RtpInv
  OBVIOUS
<1> USE TimestampAssumption, SizeAssumption DEF Init
<1>1. RtpTypeOK
  BY DEF RtpTypeOK, Stamp, Packet, Nothing
<1>2. PacketIsWhole /\ OneTimestampPerPacket
  BY DEF PacketIsWhole, OneTimestampPerPacket
<1>3. SharedOnlyAfterMultiple
  BY DEF SharedOnlyAfterMultiple
<1>4. ASSUME NEW s \in Sender
      PROVE  Accounted(s) /\ OneStamp(s) /\ NextStamp(s)
  <2>1. size[s] = 0 /\ left[s] = 0 /\ bytes[s] = 0 /\ stamps[s] = {} /\ before[s] = Nothing
    OBVIOUS
  <2>2. Accounted(s)
    BY <2>1 DEF Accounted
  <2>3. OneStamp(s) /\ NextStamp(s)
    BY <2>1 DEF OneStamp, NextStamp, Nothing
  <2> QED
    BY <2>2, <2>3
<1> QED
  BY <1>1, <1>2, <1>3, <1>4 DEF RtpInv

\* What a step of a sender has to show: that it keeps the types, the other senders
\* and its own part of the invariant.
Keeps(s) ==
    /\ Accounted(s)'
    /\ ~sending[s]' => bytes[s]' = size[s]'
    /\ \A t, u \in stamps[s]' : t = u
    /\ stamps[s]' \cap before[s]'.stamps # {} => before[s]'.size % MaxPayload = 0
    /\ OneStamp(s)'
    /\ NextStamp(s)'

Others(s) ==
    \A r \in Sender \ {s} :
        /\ size[r]' = size[r] /\ left[r]' = left[r] /\ bytes[r]' = bytes[r]
        /\ sending[r]' = sending[r] /\ timestamp[r]' = timestamp[r]
        /\ stamps[r]' = stamps[r] /\ before[r]' = before[r]

LEMMA StepOfOne ==
    ASSUME NEW s \in Sender, RtpInv, RtpTypeOK', Keeps(s), Others(s)
    PROVE  RtpInv'
<1>1. ASSUME NEW r \in Sender
      PROVE  /\ Accounted(r)' /\ (~sending[r]' => bytes[r]' = size[r]')
             /\ \A t, u \in stamps[r]' : t = u
             /\ stamps[r]' \cap before[r]'.stamps # {} => before[r]'.size % MaxPayload = 0
             /\ OneStamp(r)' /\ NextStamp(r)'
  <2>1. CASE r = s
    BY <2>1 DEF Keeps
  <2>2. CASE r # s
    BY <2>2 DEF Others, RtpInv, PacketIsWhole, OneTimestampPerPacket,
       SharedOnlyAfterMultiple, Accounted, OneStamp, NextStamp
  <2> QED
    BY <2>1, <2>2
<1>2. PacketIsWhole' /\ OneTimestampPerPacket' /\ SharedOnlyAfterMultiple'
  BY <1>1 DEF PacketIsWhole, OneTimestampPerPacket, SharedOnlyAfterMultiple
<1> QED
  BY <1>1, <1>2 DEF RtpInv

LEMMA FullStep ==
    ASSUME NEW n \in Nat, n >= MaxPayload
    PROVE  n - MaxPayload \in Nat /\ (n - MaxPayload) % MaxPayload = n % MaxPayload
BY DEF MaxPayload

LEMMA NoRest == 0 % MaxPayload = 0
BY DEF MaxPayload

LEMMA CreateKeeps == ASSUME RtpInv, NEW s \in Sender, Create(s) PROVE RtpInv'
<1> USE DEF Create
<1>0. ~sending[s] /\ left[s] = 0
  BY DEF RtpInv, RtpTypeOK, PacketIsWhole, Accounted
<1>1. RtpTypeOK'
  BY DestAssumption DEF RtpInv, RtpTypeOK, Packet, Nothing
<1>2. Keeps(s)
  BY <1>0, NoRest DEF Keeps, Accounted, OneStamp, NextStamp, Nothing, RtpInv, RtpTypeOK
<1>3. Others(s)
  BY DEF Others, RtpInv, RtpTypeOK
<1> QED
  BY <1>1, <1>2, <1>3, StepOfOne

LEMMA DestroyKeeps == ASSUME RtpInv, NEW s \in Sender, Destroy(s) PROVE RtpInv'
<1> USE DEF Destroy, sendVars
<1>1. RtpTypeOK'
  BY DEF RtpInv, RtpTypeOK
<1>2. PacketIsWhole' /\ OneTimestampPerPacket' /\ SharedOnlyAfterMultiple'
  BY DEF RtpInv, PacketIsWhole, OneTimestampPerPacket, SharedOnlyAfterMultiple
<1>3. \A r \in Sender : (Accounted(r) /\ OneStamp(r) /\ NextStamp(r))'
  BY DEF RtpInv, Accounted, OneStamp, NextStamp
<1> QED
  BY <1>1, <1>2, <1>3 DEF RtpInv

LEMMA SendKeeps ==
    ASSUME RtpInv, NEW s \in Sender, NEW len \in Size, Send(s, len) PROVE RtpInv'
<1> USE SizeAssumption DEF Send
<1>0. /\ len \in Nat /\ left[s] = 0 /\ size[s] \in Nat
      /\ timestamp[s] \in stamps[s] => size[s] % MaxPayload = 0
  BY NoRest DEF RtpInv, RtpTypeOK, PacketIsWhole, Accounted, OneStamp
<1>1. RtpTypeOK'
  BY DEF RtpInv, RtpTypeOK, Packet
<1>2. Keeps(s)
  <2>1. /\ size[s]' = len /\ left[s]' = len /\ bytes[s]' = 0 /\ stamps[s]' = {}
        /\ sending[s]' = TRUE /\ timestamp[s]' = timestamp[s]
    BY DEF RtpInv, RtpTypeOK
  <2>2. NextStamp(s)'
    <3>1. CASE stamps[s] = {}
      BY <3>1, <2>1 DEF RtpInv, NextStamp
    <3>2. CASE stamps[s] # {}
      BY <3>2, <2>1, <1>0 DEF RtpInv, RtpTypeOK, NextStamp
    <3> QED
      BY <3>1, <3>2
  <2> QED
    BY <2>1, <2>2, <1>0 DEF Keeps, Accounted, OneStamp
<1>3. Others(s)
  BY DEF Others, RtpInv, RtpTypeOK
<1> QED
  BY <1>1, <1>2, <1>3, StepOfOne

\* Both fragments: the RTP packet gets the timestamp all RTP packets of this packet have.
LEMMA FragmentKeeps ==
    ASSUME RtpInv, NEW s \in Sender, NEW len \in Nat, NEW increment \in {0, 1},
           sending[s], left[s] > 0, len <= left[s], SendPacket(s, len, increment),
           sending' \in [Sender -> BOOLEAN], ~sending'[s] => len = left[s],
           \A r \in Sender \ {s} : sending'[r] = sending[r],
           increment = 0 => (left[s] - len) % MaxPayload = left[s] % MaxPayload,
           increment = 1 => len = left[s]
    PROVE  RtpInv'
<1> USE DEF SendPacket
<1>0. /\ left[s] \in Nat /\ bytes[s] \in Nat /\ size[s] \in Nat
      /\ timestamp[s] \in Stamp /\ stamps[s] \subseteq {timestamp[s]}
      /\ bytes[s] + left[s] = size[s]
      /\ left[s] % MaxPayload = size[s] % MaxPayload
  BY DEF RtpInv, RtpTypeOK, Accounted, OneStamp
<1>1. /\ left[s]' = left[s] - len /\ bytes[s]' = bytes[s] + len
      /\ stamps[s]' = {timestamp[s]} /\ size[s]' = size[s]
      /\ before[s]' = before[s]
      /\ increment = 0 => timestamp[s]' = timestamp[s]
      /\ increment = 1 => timestamp[s]' # timestamp[s]
  <2>1. /\ left[s]' = left[s] - len /\ bytes[s]' = bytes[s] + len
        /\ stamps[s]' = stamps[s] \cup {timestamp[s]} /\ size[s]' = size[s]
        /\ before[s]' = before[s]
        /\ timestamp[s]' = IF timestamp[s] + increment = Timestamps THEN 0
                           ELSE timestamp[s] + increment
    BY DEF RtpInv, RtpTypeOK
  <2> QED
    BY <2>1, <1>0, TimestampAssumption DEF Stamp
<1>2. RtpTypeOK'
  <2>1. timestamp' \in [Sender -> Stamp]
    BY <1>0, TimestampAssumption DEF RtpInv, RtpTypeOK, Stamp
  <2>2. left' \in [Sender -> Nat] /\ bytes' \in [Sender -> Nat]
    BY <1>0 DEF RtpInv, RtpTypeOK
  <2>3. stamps' \in [Sender -> SUBSET Stamp] /\ received' \subseteq Sender \X Address
    BY <1>0 DEF RtpInv, RtpTypeOK
  <2> QED
    BY <2>1, <2>2, <2>3 DEF RtpInv, RtpTypeOK
<1>3. Keeps(s)
  <2>1. Accounted(s)' /\ (~sending[s]' => bytes[s]' = size[s]')
    BY <1>0, <1>1 DEF Accounted
  <2>2. timestamp[s] \in before[s].stamps => before[s].size % MaxPayload = 0
    BY <1>0 DEF RtpInv, NextStamp, SharedOnlyAfterMultiple
  <2>3. OneStamp(s)'
    BY <1>0, <1>1 DEF OneStamp
  <2> QED
    BY <2>1, <2>2, <2>3, <1>1 DEF Keeps, NextStamp
<1>4. Others(s)
  BY DEF Others, RtpInv, RtpTypeOK
<1> QED
  BY <1>2, <1>3, <1>4, StepOfOne

LEMMA ReturnKeeps == ASSUME RtpInv, NEW s \in Sender, Return(s) PROVE RtpInv'
<1>0. left[s] \in Nat
  BY DEF RtpInv, RtpTypeOK
<1>1. CASE left[s] > 0
  <2>1. /\ sending[s] /\ SendPacket(s, left[s], 1)
        /\ sending' \in [Sender -> BOOLEAN] /\ ~sending'[s]
        /\ \A r \in Sender \ {s} : sending'[r] = sending[r]
    BY <1>1 DEF Return, RtpInv, RtpTypeOK
  <2>2. 1 \in {0, 1} /\ left[s] <= left[s]
    BY <1>0
  <2> QED
    BY <1>0, <1>1, <2>1, <2>2, FragmentKeeps
<1>2. CASE left[s] = 0
  <2> USE <1>2 DEF Return, NothingSent
  <2>1. RtpTypeOK'
    BY DEF RtpInv, RtpTypeOK
  <2>2. Keeps(s)
    BY DEF Keeps, RtpInv, RtpTypeOK, OneTimestampPerPacket, SharedOnlyAfterMultiple,
       Accounted, OneStamp, NextStamp
  <2>3. Others(s)
    BY DEF Others, RtpInv, RtpTypeOK
  <2> QED
    BY <2>1, <2>2, <2>3, StepOfOne
<1> QED
  BY <1>0, <1>1, <1>2

LEMMA NextRtpInv == RtpInv /\ [Next]_vars => RtpInv'
<1> SUFFICES ASSUME RtpInv, [Next]_vars PROVE RtpInv'
  OBVIOUS
<1>1. ASSUME NEW s \in Sender, Create(s) PROVE RtpInv'
  BY <1>1, CreateKeeps
<1>2. ASSUME NEW s \in Sender, Destroy(s) PROVE RtpInv'
  BY <1>2, DestroyKeeps
<1>3. ASSUME NEW s \in Sender, NEW len \in Size, Send(s, len) PROVE RtpInv'
  BY <1>3, SendKeeps
<1>4. ASSUME NEW s \in Sender, FullFragment(s) PROVE RtpInv'
  <2>1. left[s] \in Nat /\ MaxPayload \in Nat /\ left[s] > 0
    BY <1>4 DEF RtpInv, RtpTypeOK, FullFragment, MaxPayload
  <2>2. (left[s] - MaxPayload) % MaxPayload = left[s] % MaxPayload
    BY <1>4, <2>1, FullStep DEF FullFragment
  <2>3. sending' = sending /\ sending \in [Sender -> BOOLEAN]
    BY <1>4 DEF RtpInv, RtpTypeOK, FullFragment
  <2>4. sending[s] /\ SendPacket(s, MaxPayload, 0) /\ MaxPayload <= left[s]
    BY <1>4, <2>1 DEF FullFragment
  <2> HIDE DEF MaxPayload
  <2> QED
    BY <2>1, <2>2, <2>3, <2>4, FragmentKeeps
<1>5. ASSUME NEW s \in Sender, Return(s) PROVE RtpInv'
  BY <1>5, ReturnKeeps
<1>6. CASE UNCHANGED vars
  BY <1>6 DEF vars, sendVars, RtpInv, RtpTypeOK, PacketIsWhole, OneTimestampPerPacket,
     SharedOnlyAfterMultiple, Accounted, OneStamp, NextStamp
<1> QED
  BY <1>1, <1>2, <1>3, <1>4, <1>5, <1>6 DEF Next

\* The sender is type correct, and send runs for live sessions only.
THEOREM RtpTypeCorrect == Spec => []RtpTypeOK
<1>1. RtpInv => RtpTypeOK
  BY DEF RtpInv
<1> QED
  BY InitRtpInv, NextRtpInv, <1>1, PTL DEF Spec

\* When send returns, the packet was sent to its last byte, whatever its length.
THEOREM PacketsAreWhole == Spec => []PacketIsWhole
<1>1. RtpInv => PacketIsWhole
  BY DEF RtpInv
<1> QED
  BY InitRtpInv, NextRtpInv, <1>1, PTL DEF Spec

\* All RTP packets of one packet have one timestamp, and two packets in a row share it only
\* if the first has a multiple of 1400 bytes.
THEOREM PacketsAreTold == Spec => []TimestampsTellPackets
<1>1. RtpInv => TimestampsTellPackets
  BY DEF RtpInv, TimestampsTellPackets
<1> QED
  BY InitRtpInv, NextRtpInv, <1>1, PTL DEF Spec
=============================================================================
