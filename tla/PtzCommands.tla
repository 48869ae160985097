---------------------------- MODULE PtzCommands ----------------------------
(***************************************************************************)
(* The eight bytes of a PTZ command (GB28181 appendix A.3): what the API   *)
(* asks for, with its defaults, as the device that takes the bytes apart   *)
(* is to understand it.  Names are in lower case, without their synonyms.  *)
(***************************************************************************)
EXTENDS Naturals, Sequences

CONSTANTS
  Numbers8,       \* the speeds, groups and switches asked for, out of 0..255
  Numbers16,      \* the values asked for, out of 0..65535
  PresetNumbers         \* the presets asked for, of any size

ASSUME PtzAssumption ==
  /\ Numbers8 \subseteq 0..255 /\ PresetNumbers \subseteq Nat
  /\ Numbers16 \subseteq Nat /\ \A n \in Numbers16 : n < 65536

VARIABLES
  asked,          \* the command, as the API takes it
  bytes           \* what the device receives; Refused, or NotYet

ptzVars == <<asked, bytes>>

NotYet == <<>>
Refused == <<"refused">>

\* Bits of the fourth byte, for a movement and for the lens.
MoveBit == [right |-> 1, left |-> 2, up |-> 4, down |-> 8, zoom_out |-> 16, zoom_in |-> 32]
Moves == {{m} : m \in DOMAIN MoveBit} \cup {{x, y} : x \in {"left", "right"}, y \in {"up", "down"}}
LensBit == [focus_far |-> 1, focus_near |-> 2, iris_open |-> 4, iris_close |-> 8]
PresetCode == [preset_set |-> 129, preset_call |-> 130, preset_delete |-> 131]
StationCode == [cruise_add |-> 132, cruise_del |-> 133]
ValueCode == [cruise_speed |-> 134, cruise_stay |-> 135, scan_speed |-> 138]
PlainCode == [cruise_start |-> 136, scan_start |-> 137, scan_left |-> 137, scan_right |-> 137]
ScanSide == [cruise_start |-> 0, scan_start |-> 0, scan_left |-> 1, scan_right |-> 2]
SwitchCode == [aux_on |-> 140, aux_off |-> 141]

\* A movement is the set of its directions; none is the stop.
Actions ==
  UNION {DOMAIN t : t \in {LensBit, PresetCode, StationCode, ValueCode, PlainCode, SwitchCode}}

Asked(does, speed, preset, group, aux, value) ==
  [does |-> does, speed |-> speed, preset |-> preset, group |-> group, aux |-> aux, value |-> value]

Inputs ==
  {Asked(<<"move", m>>, s, 0, 0, 0, 0) : m \in Moves \cup {{}}, s \in Numbers8}
    \cup {Asked(<<"act", a>>, s, p, g, g, v) :
            a \in Actions, s \in Numbers8, p \in PresetNumbers, g \in Numbers8, v \in Numbers16}

PtzInit ==
  /\ asked \in Inputs
  /\ bytes = NotYet

----------------------------------------------------------------------------
\* The defaults: PTZControl and PTZ (speed), encodePTZCommand (group, value).
Speed(in) == IF in.speed = 0 THEN 40 ELSE in.speed
Group(in) == IF in.group = 0 THEN 1 ELSE in.group
Value(in) == IF in.value = 0 THEN Speed(in) ELSE in.value

\* Mutant: the speed itself, whose upper bits the shift drops.
MutNormalizeZoomSpeed(s) == s % 16

NormalizeZoomSpeed(s) == IF s > 15 THEN 15 ELSE s

\* set12BitValue, after the byte that says what for: the low byte, and the upper four
\* bits in the upper half of the next.
Clamped(value) == IF value > 4095 THEN 4095 ELSE value
TwelveBits(what, value) == <<what, Clamped(value) % 256, (Clamped(value) \div 256) * 16 % 256>>

\* finalizePTZCmd, over the bytes that are always the same.
Final(code, rest) ==
  <<165, 15, 1, code, rest[1], rest[2], rest[3],
    (165 + 15 + 1 + code + rest[1] + rest[2] + rest[3]) % 256>>

OutOfRange(preset) == preset < 1 \/ preset > 255

MoveCode(dirs) ==
  LET On(d) == IF d \in dirs THEN MoveBit[d] ELSE 0
  IN  On("right") + On("left") + On("up") + On("down") + On("zoom_out") + On("zoom_in")

MoveBytes(in) ==
  LET s == IF in.does[2] = {} THEN 0 ELSE Speed(in)
  IN  Final(MoveCode(in.does[2]), <<s, s, NormalizeZoomSpeed(s) * 16>>)

LensBytes(in, a) ==
  Final(64 + LensBit[a], IF a \in {"iris_open", "iris_close"} THEN <<0, Speed(in), 0>> ELSE <<Speed(in), 0, 0>>)

\* encodePTZCommand, of an action: its code, and what it says.
ActBytes(in, a) ==
  CASE a \in DOMAIN StationCode -> Final(StationCode[a], <<Group(in), in.preset % 256, 0>>)
    [] a \in DOMAIN PresetCode -> Final(PresetCode[a], <<0, in.preset % 256, 0>>)
    [] a \in DOMAIN ValueCode -> Final(ValueCode[a], TwelveBits(Group(in), Value(in)))
    [] a \in DOMAIN SwitchCode -> Final(SwitchCode[a], TwelveBits(in.aux, Value(in)))
    [] a \in DOMAIN PlainCode -> Final(PlainCode[a], <<Group(in), ScanSide[a], 0>>)
    [] a \in DOMAIN LensBit -> LensBytes(in, a)

NeedsPreset(does) == does[1] = "act" /\ does[2] \in DOMAIN StationCode \cup DOMAIN PresetCode

Encode(in) ==
  IF NeedsPreset(in.does) /\ OutOfRange(in.preset) THEN Refused
  ELSE IF in.does[1] = "move" THEN MoveBytes(in) ELSE ActBytes(in, in.does[2])

PtzNext ==
  /\ bytes = NotYet
  /\ bytes' = Encode(asked)
  /\ UNCHANGED asked

PtzSpec == PtzInit /\ [][PtzNext]_ptzVars

----------------------------------------------------------------------------
PtzTypeOK ==
  /\ asked \in Inputs
  /\ bytes \in {NotYet, Refused} \/ (Len(bytes) = 8 /\ \A i \in 1..8 : bytes[i] \in 0..255)

\* Bit k of a byte; the 12 bits of the sixth and seventh.
Bit(byte, k) == (byte \div k) % 2 = 1
Wide(b) == b[6] + 256 * (b[7] \div 16)
SumOfSeven(b) == b[1] + b[2] + b[3] + b[4] + b[5] + b[6] + b[7]
AtMost(n, max) == CHOOSE m \in {n, max} : m <= n /\ m <= max

\* What a device reads in the bytes b of a movement; and in those of an action.
MoveUnderstood(in, b) ==
  LET dirs == in.does[2]
  IN  /\ \A d \in DOMAIN MoveBit : Bit(b[4], MoveBit[d]) <=> d \in dirs
      /\ b[4] < 64
      /\ dirs # {} => b[5] = Speed(in) /\ b[6] = Speed(in) /\ b[7] \div 16 = AtMost(Speed(in), 15)
      /\ dirs = {} => b[5] = 0 /\ b[6] = 0 /\ b[7] = 0

ActUnderstood(in, b) ==
  LET IsA(table) == in.does[2] \in DOMAIN table
  IN  /\ IsA(LensBit) => /\ \A l \in DOMAIN LensBit : Bit(b[4], LensBit[l]) <=> l = in.does[2]
                         /\ {b[5], b[6]} = {0, Speed(in)}
      /\ IsA(StationCode) \/ IsA(PresetCode) => b[6] = in.preset
      /\ IsA(ValueCode) \/ IsA(SwitchCode) => Wide(b) = AtMost(Value(in), 4095)
      /\ IsA(SwitchCode) => b[5] = in.aux
      /\ IsA(StationCode) \/ IsA(ValueCode) \/ IsA(PlainCode) => b[5] = Group(in)

Understood(in, b) ==
  /\ b = Refused <=> NeedsPreset(in.does) /\ in.preset \notin 1..255
  /\ b # Refused => /\ SumOfSeven(b) % 256 = b[8]
                    /\ in.does[1] = "move" => MoveUnderstood(in, b)
                    /\ in.does[1] = "act" => ActUnderstood(in, b)

\* The device understands what was asked, over the whole range of numbers: every
\* direction, speed, group, preset and value is found in its bits, cut to their
\* largest number and never wrapped around to a small one; what does not fit is
\* refused; and the check sum is right (ptz.go, encodePTZCommand).
PtzUnderstood == bytes # NotYet => Understood(asked, bytes)
=============================================================================
