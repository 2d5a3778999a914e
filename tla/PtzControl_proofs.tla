------------------------- MODULE PtzControl_proofs -------------------------
(* TLAPS proofs about PtzControl: for every message, where TLC takes the other *)
(* bytes at the bounds of their conversions only.                              *)
EXTENDS PtzControl, TLAPS

\* A byte and its two digits.
LEMMA Digits ==
    ASSUME NEW b \in Byte
    PROVE  Low(b) \in 0..15 /\ High(b) \in 0..15 /\ b = 16 * High(b) + Low(b)
BY DEF Byte, Low, High

\* The decimal reading of two digits stays below the presets and cruises, and that of
\* a command of the table among the commands.
LEMMA AtoiRange ==
    ASSUME NEW b \in Byte
    PROVE  Atoi(b) \in 0..99 /\ (b < 74 => Atoi(b) < 74)
<1>1. Low(b) \in 0..15 /\ High(b) \in 0..15 /\ b = 16 * High(b) + Low(b)
    BY Digits
<1> QED BY <1>1 DEF Atoi

LEMMA DispatchIs ==
    ASSUME NEW msg \in Message
    PROVE  /\ Dispatch(msg) = <<DecodePTZCommand(msg)>> \/ Dispatch(msg) = <<>>
           /\ msg.cmd < 74 => Dispatch(msg) = <<DecodePTZCommand(msg)>>
<1>1. msg.cmd \in Byte
    BY MessageAssumption
<1> DEFINE a == Atoi(msg.cmd)
<1>2. a \in 0..99 /\ (msg.cmd < 74 => a < 74)
    BY <1>1, AtoiRange
<1>3. a < 74 => Dispatch(msg) = <<DecodePTZCommand(msg)>>
    BY DEF Dispatch
<1>4. ~(a < 74) /\ a \notin 129..131 /\ a \notin 132..136 => Dispatch(msg) = <<>>
    BY Zenon DEF Dispatch
<1> HIDE DEF a
<1>5. a < 74 \/ (~(a < 74) /\ a \notin 129..131 /\ a \notin 132..136)
    BY <1>2
<1> QED BY <1>2, <1>3, <1>4, <1>5

-----------------------------------------------------------------------------
(* The bits of the command byte *)

Directions == {"right", "left", "down", "up", "in", "out"}

LEMMA AskedIs ==
    ASSUME NEW b
    PROVE  /\ Asked(b) \subseteq Directions
           /\ "right" \in Asked(b) <=> Bit(b, 1)
           /\ "left" \in Asked(b) <=> Bit(b, 2)
           /\ "down" \in Asked(b) <=> Bit(b, 4)
           /\ "up" \in Asked(b) <=> Bit(b, 8)
           /\ "in" \in Asked(b) <=> Bit(b, 16)
           /\ "out" \in Asked(b) <=> Bit(b, 32)
BY DEF Asked, Weight, Directions

\* The directions that may be asked for together are those of the table.
Moving == {1, 2, 4, 5, 6, 8, 9, 10, 16, 32}

LEMMA AskedTogether ==
    ASSUME NEW b \in Byte, b < 64, Asked(b) \in Together
    PROVE  b \in Moving \cup {0}
<1>1. /\ ~(Bit(b, 1) /\ Bit(b, 2)) /\ ~(Bit(b, 4) /\ Bit(b, 8)) /\ ~(Bit(b, 16) /\ Bit(b, 32))
      /\ Bit(b, 16) \/ Bit(b, 32) => ~Bit(b, 1) /\ ~Bit(b, 2) /\ ~Bit(b, 4) /\ ~Bit(b, 8)
  <2> DEFINE asked == Asked(b)
  <2>1. /\ "right" \in asked <=> Bit(b, 1)
        /\ "left" \in asked <=> Bit(b, 2)
        /\ "down" \in asked <=> Bit(b, 4)
        /\ "up" \in asked <=> Bit(b, 8)
        /\ "in" \in asked <=> Bit(b, 16)
        /\ "out" \in asked <=> Bit(b, 32)
      BY AskedIs
  <2>2. asked \in Together
      OBVIOUS
  <2> HIDE DEF asked
  <2> QED BY <2>1, <2>2 DEF Together
<1> QED BY <1>1 DEF Bit, Byte, Moving

LEMMA MovingTogether ==
    ASSUME NEW b \in Moving \cup {0}
    PROVE  ForHead(b)
<1>1. /\ ~(Bit(b, 1) /\ Bit(b, 2)) /\ ~(Bit(b, 4) /\ Bit(b, 8)) /\ ~(Bit(b, 16) /\ Bit(b, 32))
      /\ Bit(b, 16) \/ Bit(b, 32) => ~Bit(b, 1) /\ ~Bit(b, 2) /\ ~Bit(b, 4) /\ ~Bit(b, 8)
    BY DEF Bit, Moving
<1> DEFINE asked == Asked(b)
<1>2. /\ asked \subseteq Directions
      /\ "right" \in asked <=> Bit(b, 1)
      /\ "left" \in asked <=> Bit(b, 2)
      /\ "down" \in asked <=> Bit(b, 4)
      /\ "up" \in asked <=> Bit(b, 8)
      /\ "in" \in asked <=> Bit(b, 16)
      /\ "out" \in asked <=> Bit(b, 32)
    BY AskedIs
<1>3. SUFFICES asked \in Together
    BY DEF ForHead, Moving
<1> HIDE DEF asked
<1>4. CASE Bit(b, 16)
  <2>1. asked = {"in"}
      BY <1>1, <1>2, <1>4 DEF Directions
  <2> QED BY <2>1 DEF Together
<1>5. CASE Bit(b, 32)
  <2>1. asked = {"out"}
      BY <1>1, <1>2, <1>5 DEF Directions
  <2> QED BY <2>1 DEF Together
<1>6. CASE ~Bit(b, 16) /\ ~Bit(b, 32)
    BY <1>1, <1>2, <1>6 DEF Together, Directions
<1> QED BY <1>4, <1>5, <1>6

\* Byte 0 asks for nothing.
LEMMA AskedNothing == Asked(0) = {}
<1>1. ~Bit(0, 1) /\ ~Bit(0, 2) /\ ~Bit(0, 4) /\ ~Bit(0, 8) /\ ~Bit(0, 16) /\ ~Bit(0, 32)
    BY DEF Bit
<1> QED BY <1>1, AskedIs DEF Directions

\* The table moves the camera as the bits of the command say, with the speed of the
\* horizontal byte whenever it pans.
SpeedByte(asked) ==
    IF asked \cap {"right", "left"} # {} THEN "p5"
    ELSE IF asked \cap {"down", "up"} # {} THEN "p6"
    ELSE "p7"

LEMMA TableMoves ==
    ASSUME NEW b \in Moving
    PROVE  /\ b \in DOMAIN CommandTable
           /\ Asked(b) # {}
           /\ Moves(CommandTable[b][1]) = Asked(b)
           /\ CommandTable[b][2] = SpeedByte(Asked(b))
<1>1. b \in DOMAIN CommandTable
    BY DEF CommandTable, Moving
<1>2. CASE b = 1
  <2>1. Bit(b, 1) /\ ~Bit(b, 2) /\ ~Bit(b, 4) /\ ~Bit(b, 8) /\ ~Bit(b, 16) /\ ~Bit(b, 32)
      BY <1>2 DEF Bit
  <2>2. Asked(b) = {"right"}
      BY <2>1, AskedIs DEF Directions
  <2>3. CommandTable[b] = <<"PAN_RIGHT", "p5">>
      BY <1>2 DEF CommandTable
  <2> QED BY <1>1, <2>2, <2>3 DEF Moves, SpeedByte
<1>3. CASE b = 2
  <2>1. ~Bit(b, 1) /\ Bit(b, 2) /\ ~Bit(b, 4) /\ ~Bit(b, 8) /\ ~Bit(b, 16) /\ ~Bit(b, 32)
      BY <1>3 DEF Bit
  <2>2. Asked(b) = {"left"}
      BY <2>1, AskedIs DEF Directions
  <2>3. CommandTable[b] = <<"PAN_LEFT", "p5">>
      BY <1>3 DEF CommandTable
  <2> QED BY <1>1, <2>2, <2>3 DEF Moves, SpeedByte
<1>4. CASE b = 4
  <2>1. ~Bit(b, 1) /\ ~Bit(b, 2) /\ Bit(b, 4) /\ ~Bit(b, 8) /\ ~Bit(b, 16) /\ ~Bit(b, 32)
      BY <1>4 DEF Bit
  <2>2. Asked(b) = {"down"}
      BY <2>1, AskedIs DEF Directions
  <2>3. CommandTable[b] = <<"TILT_DOWN", "p6">>
      BY <1>4 DEF CommandTable
  <2> QED BY <1>1, <2>2, <2>3 DEF Moves, SpeedByte
<1>5. CASE b = 5
  <2>1. Bit(b, 1) /\ ~Bit(b, 2) /\ Bit(b, 4) /\ ~Bit(b, 8) /\ ~Bit(b, 16) /\ ~Bit(b, 32)
      BY <1>5 DEF Bit
  <2>2. Asked(b) = {"right", "down"}
      BY <2>1, AskedIs DEF Directions
  <2>3. CommandTable[b] = <<"DOWN_RIGHT", "p5">>
      BY <1>5 DEF CommandTable
  <2> QED BY <1>1, <2>2, <2>3 DEF Moves, SpeedByte
<1>6. CASE b = 6
  <2>1. ~Bit(b, 1) /\ Bit(b, 2) /\ Bit(b, 4) /\ ~Bit(b, 8) /\ ~Bit(b, 16) /\ ~Bit(b, 32)
      BY <1>6 DEF Bit
  <2>2. Asked(b) = {"left", "down"}
      BY <2>1, AskedIs DEF Directions
  <2>3. CommandTable[b] = <<"DOWN_LEFT", "p5">>
      BY <1>6 DEF CommandTable
  <2> QED BY <1>1, <2>2, <2>3 DEF Moves, SpeedByte
<1>7. CASE b = 8
  <2>1. ~Bit(b, 1) /\ ~Bit(b, 2) /\ ~Bit(b, 4) /\ Bit(b, 8) /\ ~Bit(b, 16) /\ ~Bit(b, 32)
      BY <1>7 DEF Bit
  <2>2. Asked(b) = {"up"}
      BY <2>1, AskedIs DEF Directions
  <2>3. CommandTable[b] = <<"TILT_UP", "p6">>
      BY <1>7 DEF CommandTable
  <2> QED BY <1>1, <2>2, <2>3 DEF Moves, SpeedByte
<1>8. CASE b = 9
  <2>1. Bit(b, 1) /\ ~Bit(b, 2) /\ ~Bit(b, 4) /\ Bit(b, 8) /\ ~Bit(b, 16) /\ ~Bit(b, 32)
      BY <1>8 DEF Bit
  <2>2. Asked(b) = {"right", "up"}
      BY <2>1, AskedIs DEF Directions
  <2>3. CommandTable[b] = <<"UP_RIGHT", "p5">>
      BY <1>8 DEF CommandTable
  <2> QED BY <1>1, <2>2, <2>3 DEF Moves, SpeedByte
<1>9. CASE b = 10
  <2>1. ~Bit(b, 1) /\ Bit(b, 2) /\ ~Bit(b, 4) /\ Bit(b, 8) /\ ~Bit(b, 16) /\ ~Bit(b, 32)
      BY <1>9 DEF Bit
  <2>2. Asked(b) = {"left", "up"}
      BY <2>1, AskedIs DEF Directions
  <2>3. CommandTable[b] = <<"UP_LEFT", "p5">>
      BY <1>9 DEF CommandTable
  <2> QED BY <1>1, <2>2, <2>3 DEF Moves, SpeedByte
<1>10. CASE b = 16
  <2>1. ~Bit(b, 1) /\ ~Bit(b, 2) /\ ~Bit(b, 4) /\ ~Bit(b, 8) /\ Bit(b, 16) /\ ~Bit(b, 32)
      BY <1>10 DEF Bit
  <2>2. Asked(b) = {"in"}
      BY <2>1, AskedIs DEF Directions
  <2>3. CommandTable[b] = <<"ZOOM_IN", "p7">>
      BY <1>10 DEF CommandTable
  <2> QED BY <1>1, <2>2, <2>3 DEF Moves, SpeedByte
<1>11. CASE b = 32
  <2>1. ~Bit(b, 1) /\ ~Bit(b, 2) /\ ~Bit(b, 4) /\ ~Bit(b, 8) /\ ~Bit(b, 16) /\ Bit(b, 32)
      BY <1>11 DEF Bit
  <2>2. Asked(b) = {"out"}
      BY <2>1, AskedIs DEF Directions
  <2>3. CommandTable[b] = <<"ZOOM_OUT", "p7">>
      BY <1>11 DEF CommandTable
  <2> QED BY <1>1, <2>2, <2>3 DEF Moves, SpeedByte
<1> QED BY <1>2, <1>3, <1>4, <1>5, <1>6, <1>7, <1>8, <1>9, <1>10, <1>11 DEF Moving

\* The lens moves nothing, and what is left has no entry.
LEMMA TableLens ==
    ASSUME NEW b, ForLens(b)
    PROVE  /\ b \in DOMAIN CommandTable /\ b < 74 /\ b \notin Moving \cup {0}
           /\ Moves(CommandTable[b][1]) = {}
<1>1. b \in DOMAIN CommandTable /\ b < 74 /\ b \notin Moving \cup {0}
    BY DEF ForLens, CommandTable, Moving
<1>2. CASE b = 64
  <2>1. CommandTable[b] = <<"IRIS_OPEN", "none">>
      BY <1>2 DEF CommandTable
  <2> QED BY <1>1, <2>1 DEF Moves
<1>3. CASE b = 66
  <2>1. CommandTable[b] = <<"FOCUS_NEAR", "p5">>
      BY <1>3 DEF CommandTable
  <2> QED BY <1>1, <2>1 DEF Moves
<1>4. CASE b = 65 \/ b = 73
  <2>1. CommandTable[b] = <<"FOCUS_FAR", "p5">>
      BY <1>4 DEF CommandTable
  <2> QED BY <1>1, <2>1 DEF Moves
<1>5. CASE b = 68
  <2>1. CommandTable[b] = <<"IRIS_OPEN", "p6">>
      BY <1>5 DEF CommandTable
  <2> QED BY <1>1, <2>1 DEF Moves
<1>6. CASE b = 72
  <2>1. CommandTable[b] = <<"IRIS_CLOSE", "p6">>
      BY <1>6 DEF CommandTable
  <2> QED BY <1>1, <2>1 DEF Moves
<1> QED BY <1>2, <1>3, <1>4, <1>5, <1>6 DEF ForLens

LEMMA TableIs ==
    ASSUME NEW b \in Byte
    PROVE  b \in DOMAIN CommandTable <=> b \in Moving \/ ForLens(b)
BY DEF CommandTable, Moving, ForLens

-----------------------------------------------------------------------------
(* What one message becomes *)

LEMMA ClampRange ==
    ASSUME NEW n \in Byte
    PROVE  Clamp(n) \in 1..7
BY DEF Clamp, Byte

LEMMA SpeedIsByte ==
    ASSUME NEW msg \in Message, NEW byte
    PROVE  Speed(msg, byte) \in Byte
<1>1. msg.p5 \in Byte /\ msg.p6 \in Byte /\ msg.p7 \in Byte
    BY MessageAssumption
<1>2. High(msg.p7) \in 0..15
    BY <1>1, Digits
<1> QED BY <1>1, <1>2 DEF Speed, Byte

\* Command 0 stops the pan.
LEMMA DecodeStop ==
    ASSUME NEW msg \in Message, msg.cmd = 0
    PROVE  DecodePTZCommand(msg) = Control("PAN_RIGHT", TRUE, 1)
<1>1. msg.cmd \notin DOMAIN CommandTable
    BY DEF CommandTable
<1> QED BY <1>1 DEF DecodePTZCommand

\* Every message becomes a call within the ranges of the SDK.
LEMMA DecodeType ==
    ASSUME NEW msg \in Message
    PROVE  DecodePTZCommand(msg) \in SdkCall
<1> DEFINE n == msg.cmd
<1>1. \A cmd \in Commands, stop \in BOOLEAN, speed \in 1..7 : Control(cmd, stop, speed) \in SdkCall
    BY DEF Control, SdkCall
<1>2. "PAN_RIGHT" \in Commands
  <2>1. 1 \in DOMAIN CommandTable /\ CommandTable[1][1] = "PAN_RIGHT"
      BY DEF CommandTable
  <2> QED BY <2>1 DEF Commands
<1>3. /\ Control("PAN_RIGHT", TRUE, 1) \in SdkCall
      /\ Control("PAN_RIGHT", FALSE, 1) \in SdkCall
    BY <1>2 DEF Control, SdkCall
<1>4. CASE n # 0 /\ n \in DOMAIN CommandTable
  <2>1. DecodePTZCommand(msg)
            = Control(CommandTable[n][1], FALSE, Clamp(Speed(msg, CommandTable[n][2])))
      BY <1>4 DEF DecodePTZCommand
  <2>2. CommandTable[n][1] \in Commands
      BY <1>4 DEF Commands
  <2>3. Clamp(Speed(msg, CommandTable[n][2])) \in 1..7
      BY SpeedIsByte, ClampRange
  <2> QED BY <1>1, <2>1, <2>2, <2>3
<1>5. CASE n = 0
  <2>1. DecodePTZCommand(msg) = Control("PAN_RIGHT", TRUE, 1)
      BY <1>5, DecodeStop
  <2> QED BY <1>3, <2>1
<1>6. CASE n # 0 /\ n \notin DOMAIN CommandTable
  <2>1. DecodePTZCommand(msg) = Control("PAN_RIGHT", FALSE, 1)
      BY <1>6, Zenon DEF DecodePTZCommand
  <2> QED BY <1>3, <2>1
<1> QED BY <1>4, <1>5, <1>6

\* A command of the table, with the speed of the byte the table gives.
LEMMA DecodeMoving ==
    ASSUME NEW msg \in Message, msg.cmd \in Moving
    PROVE  DecodePTZCommand(msg)
               = Control(CommandTable[msg.cmd][1], FALSE,
                         Clamp(Speed(msg, SpeedByte(Asked(msg.cmd)))))
<1>1. msg.cmd # 0 /\ msg.cmd \in DOMAIN CommandTable
    BY TableMoves DEF Moving
<1>2. CommandTable[msg.cmd][2] = SpeedByte(Asked(msg.cmd))
    BY TableMoves
<1> QED BY <1>1, <1>2 DEF DecodePTZCommand

-----------------------------------------------------------------------------
(* The request that runs made the calls its message becomes, and no other does. *)
PtzInv ==
    /\ known \subseteq Camera
    /\ request \in {NoRequest} \cup PtzRequest \cup StatusRequest
    /\ calls = IF IsPtz THEN Dispatch(request.msg) ELSE <<>>
    /\ \A i \in DOMAIN answers : answers[i] \in {0, 1}

LEMMA PtzInvInit == Init => PtzInv
BY DEF Init, PtzInv, IsPtz, NoRequest

LEMMA PtzInvNext == PtzInv /\ [Next]_vars => PtzInv'
<1> SUFFICES ASSUME PtzInv, [Next]_vars
             PROVE  PtzInv'
    OBVIOUS
<1> USE DEF PtzInv, IsPtz
<1>1. CASE Return
    BY <1>1 DEF Return, NoRequest
<1>2. ASSUME NEW c \in Camera, LogIn(c)
      PROVE  PtzInv'
    BY <1>2 DEF LogIn
<1>3. ASSUME NEW c \in Camera, NEW msg \in Message, PtzCall(c, msg)
      PROVE  PtzInv'
  <2>1. request' = [op |-> "ptz", camera |-> c, msg |-> msg]
      BY <1>3 DEF PtzCall
  <2>2. request' \in PtzRequest /\ request'.op = "ptz" /\ request'.msg = msg
      BY <2>1 DEF PtzRequest
  <2>3. calls' = Dispatch(msg) /\ answers' = <<>> /\ known' = known
      BY <1>3 DEF PtzCall
  <2> QED BY <2>2, <2>3
<1>4. ASSUME NEW c \in Camera, NEW ok \in BOOLEAN, NEW state \in 0..2, DeviceStatus(c, ok, state)
      PROVE  PtzInv'
  <2>1. request' = [op |-> "status", camera |-> c, ok |-> ok, state |-> state]
      BY <1>4 DEF DeviceStatus
  <2>2. request' \in StatusRequest /\ request'.op = "status"
      BY <2>1 DEF StatusRequest
  <2>3. calls' = <<>> /\ known' = known /\ answers' = <<IF ~ok \/ state = 0 THEN 0 ELSE 1>>
      BY <1>4 DEF DeviceStatus
  <2> QED BY <2>2, <2>3
<1>5. CASE UNCHANGED vars
    BY <1>5 DEF vars
<1> QED BY <1>1, <1>2, <1>3, <1>4, <1>5 DEF Next

LEMMA PtzInvAlways == Spec => []PtzInv
BY PtzInvInit, PtzInvNext, PTL DEF Spec

\* The message of a call that runs.
LEMMA RunningMessage ==
    ASSUME PtzInv, IsPtz
    PROVE  request.msg \in Message /\ calls = Dispatch(request.msg)
<1>1. request \in PtzRequest
    BY DEF PtzInv, IsPtz, NoRequest, StatusRequest
<1> QED BY <1>1 DEF PtzInv, PtzRequest

\* It made the call of the decoder for commands, if any, and did for a command of the table.
LEMMA RunningCommand ==
    ASSUME PtzInv, IsPtz
    PROVE  /\ request.msg \in Message /\ request.msg.cmd \in Byte
           /\ \A i \in DOMAIN calls : calls[i] = DecodePTZCommand(request.msg)
           /\ request.msg.cmd < 74 => calls = <<DecodePTZCommand(request.msg)>>
<1>1. request.msg \in Message /\ calls = Dispatch(request.msg)
    BY RunningMessage
<1>2. calls = <<DecodePTZCommand(request.msg)>> \/ calls = <<>>
    BY <1>1, DispatchIs
<1>3. request.msg.cmd < 74 => calls = <<DecodePTZCommand(request.msg)>>
    BY <1>1, DispatchIs
<1> QED BY <1>1, <1>2, <1>3, MessageAssumption

-----------------------------------------------------------------------------

\* Whatever message arrives, the call of the SDK keeps its ranges, above all the speed
\* of 1 to 7: the clamp of ptzControl covers every byte the decoders can read.
THEOREM PtzTypeCorrect == Spec => []PtzTypeOK
<1>1. PtzInv => PtzTypeOK
  <2> SUFFICES ASSUME PtzInv
               PROVE  \A i \in DOMAIN calls : calls[i] \in SdkCall
      BY DEF PtzInv, PtzTypeOK
  <2>1. CASE IsPtz
    <3>1. calls = <<DecodePTZCommand(request.msg)>> \/ calls = <<>>
        BY <2>1, RunningMessage, DispatchIs
    <3>2. DecodePTZCommand(request.msg) \in SdkCall
        BY <2>1, RunningMessage, DecodeType
    <3> QED BY <3>1, <3>2
  <2>2. CASE ~IsPtz
      BY <2>2 DEF PtzInv
  <2> QED BY <2>1, <2>2
<1> QED BY <1>1, PtzInvAlways, PTL

\* Whatever message arrives, the camera moves in exactly the directions it asks for, byte
\* 0 stops it and the lens commands move nothing: reading the byte in decimal for the
\* dispatch and in hexadecimal for the command never sends a command of the table to
\* another decoder or past all of them.  What else reaches the SDK is a pan to the right.
THEOREM MovesRight == Spec => []MovesAsAsked
<1>1. PtzInv => MovesAsAsked
  <2> SUFFICES ASSUME PtzInv, IsPtz
               PROVE  MovesAsAsked
      BY DEF MovesAsAsked
  <2> DEFINE msg == request.msg
             n == request.msg.cmd
             call == DecodePTZCommand(msg)
  <2>1. /\ msg \in Message /\ n \in Byte
        /\ \A i \in DOMAIN calls : calls[i] = call
        /\ n < 74 => calls = <<call>>
      BY RunningCommand
  <2>2. CASE n = 0
    <3>1. call = Control("PAN_RIGHT", TRUE, 1) /\ ForHead(n)
        BY <2>1, <2>2, DecodeStop, MovingTogether
    <3>2. call.fn = "control" /\ call.stop /\ ~ForLens(n)
        BY <2>2, <3>1 DEF Control, ForLens
    <3>3. calls = <<call>>
        BY <2>1, <2>2
    <3> QED BY <2>1, <2>2, <3>1, <3>2, <3>3 DEF MovesAsAsked
  <2>3. CASE n \in Moving
    <3>1. call = Control(CommandTable[n][1], FALSE, Clamp(Speed(msg, SpeedByte(Asked(n)))))
        BY <2>1, <2>3, DecodeMoving
    <3>2. call.fn = "control" /\ ~call.stop /\ Moves(call.cmd) = Asked(n)
        BY <2>3, <3>1, TableMoves DEF Control
    <3>3. ForHead(n) /\ n # 0 /\ ~ForLens(n)
        BY <2>3, MovingTogether DEF Moving, ForLens
    <3>4. calls = <<call>>
        BY <2>1, <2>3 DEF Moving
    <3> QED BY <2>1, <3>2, <3>3, <3>4 DEF MovesAsAsked
  <2>4. CASE ForLens(n)
    <3>1. n \in DOMAIN CommandTable /\ n < 74 /\ n # 0 /\ Moves(CommandTable[n][1]) = {}
        BY <2>4, TableLens
    <3>2. call = Control(CommandTable[n][1], FALSE, Clamp(Speed(msg, CommandTable[n][2])))
        BY <3>1 DEF DecodePTZCommand
    <3>3. call.fn = "control" /\ ~call.stop /\ Moves(call.cmd) = {}
        BY <3>1, <3>2 DEF Control
    <3>4. ~ForHead(n) /\ calls = <<call>>
        BY <2>1, <2>4, <3>1 DEF ForHead, ForLens
    <3> QED BY <2>1, <2>4, <3>1, <3>3, <3>4 DEF MovesAsAsked
  <2>5. CASE n \notin Moving \cup {0} /\ ~ForLens(n)
    <3>1. n \notin DOMAIN CommandTable /\ n # 0
        BY <2>1, <2>5, TableIs
    <3>2. call = Control("PAN_RIGHT", FALSE, 1)
        BY <3>1, Zenon DEF DecodePTZCommand
    <3>3. call.fn = "control" /\ ~call.stop
        BY <3>2 DEF Control
    <3>4. ~ForHead(n)
        BY <2>1, <2>5, AskedTogether DEF ForHead
    <3> QED BY <2>1, <2>5, <3>1, <3>2, <3>3, <3>4 DEF MovesAsAsked
  <2> QED BY <2>2, <2>3, <2>4, <2>5
<1> QED BY <1>1, PtzInvAlways, PTL

\* The speed of every call is the byte of the axis that moves, within 1 to 7.
THEOREM SpeedRight == Spec => []SpeedOfItsAxis
<1>1. PtzInv => SpeedOfItsAxis
  <2> SUFFICES ASSUME PtzInv, IsPtz, ForHead(request.msg.cmd), request.msg.cmd # 0,
                      NEW i \in DOMAIN calls
               PROVE  LET asked == Asked(request.msg.cmd)
                          byte == IF asked \cap {"right", "left"} # {} THEN request.msg.p5
                                  ELSE IF asked \cap {"down", "up"} # {} THEN request.msg.p6
                                  ELSE request.msg.p7 \div 16
                      IN  calls[i].speed = IF byte > 7 THEN 7
                                           ELSE IF byte = 0 THEN 1 ELSE byte
      BY DEF SpeedOfItsAxis
  <2> DEFINE msg == request.msg
             byte == Speed(msg, SpeedByte(Asked(msg.cmd)))
  <2>1. msg \in Message /\ calls[i] = DecodePTZCommand(msg) /\ msg.cmd \in Moving
      BY RunningCommand, AskedTogether DEF ForHead
  <2>2. calls[i].speed = Clamp(byte)
    <3>1. DecodePTZCommand(msg) = Control(CommandTable[msg.cmd][1], FALSE, Clamp(byte))
        BY <2>1, DecodeMoving
    <3> QED BY <2>1, <3>1 DEF Control
  <2>3. byte = IF Asked(msg.cmd) \cap {"right", "left"} # {} THEN msg.p5
               ELSE IF Asked(msg.cmd) \cap {"down", "up"} # {} THEN msg.p6
               ELSE msg.p7 \div 16
      BY DEF Speed, SpeedByte, High
  <2>4. Clamp(byte) = IF byte > 7 THEN 7 ELSE IF byte = 0 THEN 1 ELSE byte
      BY DEF Clamp
  <2> HIDE DEF byte
  <2> QED BY <2>2, <2>3, <2>4
<1> QED BY <1>1, PtzInvAlways, PTL
=============================================================================
