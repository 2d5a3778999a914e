----------------------------- MODULE PtzControl -----------------------------
(***************************************************************************)
(* The PTZ and status calls of HikCamaraController: a message of the         *)
(* protocol, of which four bytes matter, becomes a call of the SDK.  Each    *)
(* byte arrives as two hexadecimal digits.                                   *)
(***************************************************************************)
EXTENDS Naturals, Sequences

CONSTANTS Camera, Message

Byte == 0..255

ASSUME MessageAssumption == Message \subseteq [cmd : Byte, p5 : Byte, p6 : Byte, p7 : Byte]

VARIABLES
    known,     \* cameras that have an SdkUser
    request,   \* the call of the controller that runs
    calls,     \* SDK calls it made
    answers    \* what its callback was called with, or returned

vars == <<known, request, calls, answers>>

NoRequest == [op |-> "none"]

PtzRequest == [op : {"ptz"}, camera : Camera, msg : Message]

\* ok: whether the SDK could ask the device; state: what it said, 0 is normal
StatusRequest == [op : {"status"}, camera : Camera, ok : BOOLEAN, state : 0..2]

Init ==
    /\ known = {}
    /\ request = NoRequest
    /\ calls = <<>>
    /\ answers = <<>>

-----------------------------------------------------------------------------
(* DecodePTZCommand: sscanf("%x") of the bytes *)

Low(b) == b % 16

High(b) == b \div 16

\* What the SDK is told for a command of the protocol, and the byte with its speed.
CommandTable ==
    [n \in {1, 2, 4, 5, 6, 8, 9, 10, 16, 32, 64, 65, 66, 68, 72, 73} |->
        CASE n = 1 -> <<"PAN_RIGHT", "p5">>   [] n = 2 -> <<"PAN_LEFT", "p5">>
          [] n = 4 -> <<"TILT_DOWN", "p6">>   [] n = 8 -> <<"TILT_UP", "p6">>
          [] n = 5 -> <<"DOWN_RIGHT", "p5">>  [] n = 6 -> <<"DOWN_LEFT", "p5">>
          [] n = 9 -> <<"UP_RIGHT", "p5">>    [] n = 10 -> <<"UP_LEFT", "p5">>
          [] n = 16 -> <<"ZOOM_IN", "p7">>    [] n = 32 -> <<"ZOOM_OUT", "p7">>
          [] n = 64 -> <<"IRIS_OPEN", "none">>
          [] n = 66 -> <<"FOCUS_NEAR", "p5">> [] n \in {65, 73} -> <<"FOCUS_FAR", "p5">>
          [] n = 68 -> <<"IRIS_OPEN", "p6">>  [] OTHER -> <<"IRIS_CLOSE", "p6">>]

\* Mutant: the bytes of the two axes are exchanged.
Speed_Swapped(msg, byte) ==
    CASE byte = "p5" -> msg.p6
      [] byte = "p6" -> msg.p5
      [] byte = "p7" -> High(msg.p7)
      [] OTHER -> 0

Speed(msg, byte) ==
    CASE byte = "p5" -> msg.p5
      [] byte = "p6" -> msg.p6
      [] byte = "p7" -> High(msg.p7)
      [] OTHER -> 0

\* Mutant: the bound of the SDK is forgotten.
Clamp_NoLimit(n) == IF n = 0 THEN 1 ELSE n

Clamp(n) == CASE n > 7 -> 7 [] n = 0 -> 1 [] OTHER -> n

Control(cmd, stop, speed) == [fn |-> "control", cmd |-> cmd, stop |-> stop, speed |-> speed]

\* Mutant: the decoder reads decimal, as in the lines that are commented out.
DecodePTZCommand_Decimal(msg) ==
    LET cmd == IF High(msg.cmd) > 9 THEN 0
               ELSE IF Low(msg.cmd) > 9 THEN High(msg.cmd)
               ELSE 10 * High(msg.cmd) + Low(msg.cmd)
    IN  CASE cmd = 0 -> Control("PAN_RIGHT", TRUE, 1)
          [] cmd \in DOMAIN CommandTable ->
                Control(CommandTable[cmd][1], FALSE, Clamp(Speed(msg, CommandTable[cmd][2])))
          [] OTHER -> Control("PAN_RIGHT", FALSE, 1)

\* The values ptzControl initialised stay for 0, which stops, and for a command that
\* is not in the table, which is only logged.
DecodePTZCommand(msg) ==
    CASE msg.cmd = 0 -> Control("PAN_RIGHT", TRUE, 1)
      [] msg.cmd \in DOMAIN CommandTable ->
            Control(CommandTable[msg.cmd][1], FALSE,
                    Clamp(Speed(msg, CommandTable[msg.cmd][2])))
      [] OTHER -> Control("PAN_RIGHT", FALSE, 1)

-----------------------------------------------------------------------------
(* DecodePTZPreset and DecodePTZCruise *)

PresetTable ==
    [n \in 129..131 |-> CASE n = 129 -> "SET_PRESET" [] n = 130 -> "GOTO_PRESET"
                          [] OTHER -> "CLE_PRESET"]

DecodePTZPreset(msg) == [fn |-> "preset", cmd |-> PresetTable[msg.cmd], index |-> msg.p6]

CruiseTable ==
    [n \in 132..136 |-> CASE n = 132 -> "FILL_PRE_SEQ"  [] n = 133 -> "CLE_PRE_SEQ"
                          [] n = 134 -> "SET_SEQ_SPEED" [] n = 135 -> "SET_SEQ_DWELL"
                          [] OTHER -> "RUN_SEQ"]

\* Twelve bits of the message, (p7 & 0xF0) << 4 and p6, scaled to 1..limit.
Scaled(msg, limit) ==
    LET n == ((256 * High(msg.p7) + msg.p6) * limit) \div 4095
    IN  IF n = 0 THEN 1 ELSE n

DecodePTZCruise(msg) ==
    [fn |-> "cruise", cmd |-> CruiseTable[msg.cmd], route |-> msg.p5,
     point |-> IF msg.cmd \in {132, 133} THEN msg.p6 ELSE 0,
     input |-> CASE msg.cmd \in {132, 133} -> msg.p6
                 [] msg.cmd = 134 -> Scaled(msg, 40)
                 [] msg.cmd = 135 -> Scaled(msg, 255)
                 [] OTHER -> 0]

-----------------------------------------------------------------------------
(* The calls, of cameras that have an SdkUser: without one the code dereferences *)
(* sdkusers_.end().                                                            *)

\* openRealStream logged in to the camera.
LogIn(c) ==
    /\ c \notin known
    /\ known' = known \cup {c}
    /\ UNCHANGED <<request, calls, answers>>

\* ptzControl reads the command byte with atoi: decimal, up to the first letter.
Atoi(b) ==
    CASE High(b) > 9 -> 0
      [] High(b) <= 9 /\ Low(b) > 9 -> High(b)
      [] OTHER -> 10 * High(b) + Low(b)

\* Scans (0x89, 0x8A) and commands beyond are only logged.
Dispatch(msg) ==
    CASE Atoi(msg.cmd) < 74 -> <<DecodePTZCommand(msg)>>
      [] Atoi(msg.cmd) \in 129..131 -> <<DecodePTZPreset(msg)>>
      [] Atoi(msg.cmd) \in 132..136 -> <<DecodePTZCruise(msg)>>
      [] OTHER -> <<>>

\* A failure of the SDK call is only logged.
PtzCall(c, msg) ==
    /\ c \in known /\ request = NoRequest
    /\ request' = [op |-> "ptz", camera |-> c, msg |-> msg]
    /\ calls' = Dispatch(msg)
    /\ answers' = <<>>
    /\ UNCHANGED known

\* getDeviceStatusAsync, and getDeviceStatus likewise.
DeviceStatus(c, ok, state) ==
    /\ c \in known /\ request = NoRequest
    /\ request' = [op |-> "status", camera |-> c, ok |-> ok, state |-> state]
    /\ answers' = <<IF ~ok \/ state = 0 THEN 0 ELSE 1>>
    /\ calls' = <<>>
    /\ UNCHANGED known

Return ==
    /\ request # NoRequest
    /\ request' = NoRequest
    /\ calls' = <<>>
    /\ answers' = <<>>
    /\ UNCHANGED known

Next ==
    \/ Return
    \/ \E c \in Camera :
            \/ LogIn(c)
            \/ \E msg \in Message : PtzCall(c, msg)
            \/ \E ok \in BOOLEAN, state \in 0..2 : DeviceStatus(c, ok, state)

Spec == Init /\ [][Next]_vars

-----------------------------------------------------------------------------

Commands == {CommandTable[n][1] : n \in DOMAIN CommandTable}

SdkCall ==
    [fn : {"control"}, cmd : Commands, stop : BOOLEAN, speed : 1..7]
        \cup [fn : {"preset"}, cmd : {"SET_PRESET", "GOTO_PRESET", "CLE_PRESET"}, index : Byte]

\* Every call keeps the ranges of the SDK, above all the speed of 1 to 7.
PtzTypeOK ==
    /\ known \subseteq Camera
    /\ request \in {NoRequest} \cup PtzRequest \cup StatusRequest
    /\ \A i \in DOMAIN calls : calls[i] \in SdkCall
    /\ \A i \in DOMAIN answers : answers[i] \in {0, 1}

IsPtz == request.op = "ptz"

-----------------------------------------------------------------------------
(* The command byte has one bit for each direction; the reference says what a call *)
(* of the SDK moves.                                                              *)

Weight(d) ==
    CASE d = "right" -> 1 [] d = "left" -> 2 [] d = "down" -> 4
      [] d = "up" -> 8 [] d = "in" -> 16 [] OTHER -> 32

Bit(b, weight) == (b \div weight) % 2 = 1

Asked(b) == {d \in {"right", "left", "down", "up", "in", "out"} : Bit(b, Weight(d))}

Moves(cmd) ==
    CASE cmd = "PAN_RIGHT" -> {"right"} [] cmd = "PAN_LEFT" -> {"left"}
      [] cmd = "TILT_DOWN" -> {"down"}  [] cmd = "TILT_UP" -> {"up"}
      [] cmd = "DOWN_RIGHT" -> {"down", "right"} [] cmd = "DOWN_LEFT" -> {"down", "left"}
      [] cmd = "UP_RIGHT" -> {"up", "right"}     [] cmd = "UP_LEFT" -> {"up", "left"}
      [] cmd = "ZOOM_IN" -> {"in"} [] cmd = "ZOOM_OUT" -> {"out"}
      [] OTHER -> {}

\* Directions one message may ask for together: none, one, or two of different axes of
\* the head.
Together ==
    {asked \in SUBSET {"right", "left", "down", "up", "in", "out"} :
        \/ asked \in {{"in"}, {"out"}}
        \/ /\ asked \cap {"in", "out"} = {}
           /\ ~({"right", "left"} \subseteq asked)
           /\ ~({"down", "up"} \subseteq asked)}

\* A command of the head or the zoom, 0 included, and the commands of the lens.
ForHead(n) == n < 64 /\ Asked(n) \in Together

ForLens(n) == n \in {64, 65, 66, 68, 72, 73}

\* Of all messages, one that asks for directions moves the camera in exactly those, byte
\* 0 stops it and a command of the lens moves nothing, although the byte is read twice, in
\* two bases.  Any other byte the dispatch lets through is only logged as unknown, and
\* ptzControl pans right at speed 1; presets and cruises never reach the SDK.
MovesAsAsked ==
    IsPtz =>
        LET n == request.msg.cmd
        IN  /\ ForHead(n) \/ ForLens(n) => calls # <<>>
            /\ \A i \in DOMAIN calls :
                /\ calls[i].fn = "control"
                /\ calls[i].stop <=> n = 0
                /\ ForHead(n) /\ n # 0 => Moves(calls[i].cmd) = Asked(n)
                /\ ForLens(n) => Moves(calls[i].cmd) = {}
                /\ ~ForHead(n) /\ ~ForLens(n) => calls[i] = Control("PAN_RIGHT", FALSE, 1)

\* The speed is taken from the byte of the axis that moves, of the horizontal one for
\* both directions of a diagonal, and told within 1 to 7.
SpeedOfItsAxis ==
    IsPtz /\ ForHead(request.msg.cmd) /\ request.msg.cmd # 0 =>
        LET asked == Asked(request.msg.cmd)
            byte == IF asked \cap {"right", "left"} # {} THEN request.msg.p5
                    ELSE IF asked \cap {"down", "up"} # {} THEN request.msg.p6
                    ELSE request.msg.p7 \div 16
        IN  \A i \in DOMAIN calls :
                calls[i].speed = IF byte > 7 THEN 7 ELSE IF byte = 0 THEN 1 ELSE byte
=============================================================================
