---------------------------- MODULE HubControls ----------------------------
(***************************************************************************)
(* Command codes and status (client.py, models.py, const.py): how an       *)
(* intention of the caller becomes a command code and a wire field, what   *)
(* the hub makes of it, and how get_status reads the hub's feature list    *)
(* back.  A session that works is taken for granted.                       *)
(***************************************************************************)
EXTENDS Integers, Sequences, FiniteSets

CONSTANTS
  Advertised,   \* the toggle slots the hub lists
  Presets,      \* command codes of the hub's presets
  Percents,     \* percentages that callers ask set_open_percent for
  Stops         \* positions the door can rest at

(***************************************************************************)
(* Codes.  A toggle slot is a pair <<on, off>> of commands.                *)
(***************************************************************************)
CMD_OPEN == 2
CMD_STOP == 3
CMD_CLOSE == 4
Slots == {"light", "auxiliary", "remote", "phone"}
CMD_OF == [light |-> <<16, 17>>, auxiliary |-> <<18, 19>>,
           remote |-> <<20, 21>>, phone |-> <<258, 257>>]
PERCENT_OPEN_MIN == 5
PERCENT_OPEN_MAX == 95
PERCENT_OPEN_STEP == 5
PERCENT_OPEN_CMD_BASE == 31

Codes(s) == {CMD_OF[s][1], CMD_OF[s][2]}
ToggleCodes == UNION {Codes(s) : s \in Slots}
DoorCodes == {CMD_OPEN, CMD_STOP, CMD_CLOSE}
Allowed(percent) ==
  /\ percent % PERCENT_OPEN_STEP = 0
  /\ percent \in PERCENT_OPEN_MIN..PERCENT_OPEN_MAX
PercentCodes == 32..50

ASSUME SlotsAssumption == Advertised \subseteq Slots
ASSUME StopsAssumption == Stops \subseteq 0..100 /\ {0, 100} \subseteq Stops
ASSUME PercentsAssumption == Percents \subseteq Int
ASSUME PresetsAssumption ==
  Presets \subseteq Nat \ (ToggleCodes \cup DoorCodes \cup PercentCodes)
-----------------------------------------------------------------------------
(* Pure helpers.                                                           *)

\* Mutation: 256 itself is taken for a plain command.
ActionForCommandOffByOne(command) ==
  IF command > 256 THEN [field |-> "base", value |-> command - 256]
                   ELSE [field |-> "cmd", value |-> command]

\* _action_for_command
ActionForCommand(command) ==
  IF command >= 256 THEN [field |-> "base", value |-> command - 256]
                    ELSE [field |-> "cmd", value |-> command]

NoCommand == -1

\* _effective_command; an entry with neither field has no command.
EffectiveCommand(action) ==
  CASE action.field = "cmd" -> action.value
    [] action.field = "base" -> action.value + 256
    [] OTHER -> NoCommand

\* Mutation: the steps are counted from the smallest percentage.
PercentOpenCommandFromMin(percent) ==
  PERCENT_OPEN_CMD_BASE + (percent - PERCENT_OPEN_MIN) \div PERCENT_OPEN_STEP

\* _percent_open_command, for a percentage it does not raise ValueError for.
PercentOpenCommand(percent) ==
  PERCENT_OPEN_CMD_BASE + percent \div PERCENT_OPEN_STEP

\* _split_features: for each slot its last entry, and everything else.
Entry(actions, s) ==
  {i \in DOMAIN actions : EffectiveCommand(actions[i]) \in Codes(s)}

NoToggle == [command |-> NoCommand, isOn |-> FALSE]

\* Mutation: the listed command is taken for the state it would bring about.
ToggleMisread(actions, s) ==
  IF Entry(actions, s) = {} THEN NoToggle
  ELSE LET last == CHOOSE i \in Entry(actions, s) :
                     \A j \in Entry(actions, s) : j <= i
           command == EffectiveCommand(actions[last])
       IN [command |-> command, isOn |-> command = CMD_OF[s][1]]

Toggle(actions, s) ==
  IF Entry(actions, s) = {} THEN NoToggle
  ELSE LET last == CHOOSE i \in Entry(actions, s) :
                     \A j \in Entry(actions, s) : j <= i
           command == EffectiveCommand(actions[last])
       IN [command |-> command, isOn |-> command = CMD_OF[s][2]]

\* Mutation: a toggle the hub lists is left among the presets.
PresetsWithToggles(actions) ==
  {EffectiveCommand(actions[i]) : i \in DOMAIN actions} \ {NoCommand}

\* The commands that are left; their titles and order are not modelled.
PresetsOf(actions) ==
  {EffectiveCommand(actions[i]) : i \in DOMAIN actions}
    \ (ToggleCodes \cup {NoCommand})

\* status_from_raw
StateOf(position, rate) ==
  CASE rate # 0 -> "moving"
    [] rate = 0 /\ position < 0 -> "unknown"
    [] rate = 0 /\ position = 0 -> "closed"
    [] rate = 0 /\ position = 100 -> "open"
    [] OTHER -> "partial"
-----------------------------------------------------------------------------
VARIABLES
  on,         \* hub: the state of each toggle slot
  position,   \* hub: where the door is
  goal,       \* hub: where it is driving to; its position when it rests
  shown,      \* client: the HubStatus of the last get_status
  wire,       \* the action of the command on its way to the hub
  intent      \* what the caller meant it to do

vars == <<on, position, goal, shown, wire, intent>>

NoAction == [field |-> "none", value |-> 0]
NoIntent == [kind |-> "none", what |-> "none", value |-> 0]
Intent(kind, what, value) == [kind |-> kind, what |-> what, value |-> value]

Status(actions, pos, rate) ==
  [state |-> StateOf(pos, rate), position |-> pos, presets |-> PresetsOf(actions),
   toggle |-> [s \in Slots |-> Toggle(actions, s)]]

\* What get_status returns when no message tells of a device.
UnknownStatus == Status(<<>>, -1, 0)

Rate == IF goal > position THEN 1 ELSE IF goal < position THEN -1 ELSE 0

\* External: the hub's aux list.  A slot shows the command that would flip it.
Listed == [s \in Slots |-> IF on[s] THEN CMD_OF[s][2] ELSE CMD_OF[s][1]]

\* External: the advertised slots in some order, among the presets, each
\* entry with its command in the field that has room for it.
Listings ==
  {f \in [1..Cardinality(Advertised) -> Advertised] :
     \A s \in Advertised : \E i \in DOMAIN f : f[i] = s}
HubEntry(command) ==
  IF command < 256 THEN [field |-> "cmd", value |-> command]
                   ELSE [field |-> "base", value |-> command - 256]
Entries(features) ==
  [i \in 1..Cardinality(Advertised) |-> HubEntry(Listed[features[i]])]
Others == {HubEntry(p) : p \in Presets} \cup {NoAction}

Init ==
  /\ on \in [Slots -> BOOLEAN]
  /\ position \in Stops
  /\ goal = position
  /\ shown = UnknownStatus
  /\ wire = NoAction
  /\ intent = NoIntent
-----------------------------------------------------------------------------
(* The client.                                                             *)

\* send_command, for a command meant to do something.
SendCommand(command, meant) ==
  /\ wire = NoAction
  /\ wire' = ActionForCommand(command)
  /\ intent' = meant
  /\ UNCHANGED <<on, position, goal, shown>>

OpenDoor == SendCommand(CMD_OPEN, Intent("door", "goal", 100))
CloseDoor == SendCommand(CMD_CLOSE, Intent("door", "goal", 0))
StopDoor == SendCommand(CMD_STOP, Intent("door", "stop", 0))

\* set_open_percent raises ValueError for everything that is not allowed.
SetOpenPercent(percent) ==
  /\ Allowed(percent)
  /\ SendCommand(PercentOpenCommand(percent), Intent("door", "goal", percent))

\* set_remote_control_lockout and set_phone_lockout.
SetLockout(s, enabled) ==
  /\ s \in {"remote", "phone"}
  /\ SendCommand(CMD_OF[s][IF enabled THEN 1 ELSE 2],
                 Intent("toggle", s, IF enabled THEN 1 ELSE 0))

\* A caller presses a toggle it was shown, however long ago.
PressToggle(s) ==
  /\ shown.toggle[s] # NoToggle
  /\ SendCommand(shown.toggle[s].command,
                 Intent("toggle", s, IF shown.toggle[s].isOn THEN 0 ELSE 1))

PressPreset(command) ==
  /\ command \in shown.presets
  /\ SendCommand(command, Intent("preset", "preset", command))

GetStatus ==
  /\ \/ \E features \in Listings, extra \in Others :
          shown' = Status(Append(Entries(features), extra), position, Rate)
     \/ shown' = UnknownStatus
  /\ UNCHANGED <<on, position, goal, wire, intent>>
-----------------------------------------------------------------------------
(* The hub and the door (external).                                        *)

\* The phone lockout refuses everything but the command that ends it.
Refused(command) == on["phone"] /\ command # CMD_OF["phone"][2]

\* A command of 256 or more does not fit the cmd field.
Decoded == IF wire.field = "base" THEN wire.value + 256 ELSE wire.value % 256

CarryOut(command) ==
  \/ \E s \in Slots :
       /\ command \in Codes(s)
       /\ on' = [on EXCEPT ![s] = command = CMD_OF[s][1]]
       /\ UNCHANGED goal
  \/ command = CMD_OPEN /\ goal' = 100 /\ UNCHANGED on
  \/ command = CMD_CLOSE /\ goal' = 0 /\ UNCHANGED on
  \/ command = CMD_STOP /\ goal' = position /\ UNCHANGED on
  \/ /\ command \in PercentCodes
     /\ goal' = (command - PERCENT_OPEN_CMD_BASE) * PERCENT_OPEN_STEP
     /\ UNCHANGED on
  \/ command \in Presets /\ goal' \in Stops /\ UNCHANGED on
  \/ /\ command \notin ToggleCodes \cup DoorCodes \cup PercentCodes \cup Presets
     /\ UNCHANGED <<on, goal>>

HubDo ==
  /\ wire # NoAction
  /\ \/ Refused(Decoded) /\ UNCHANGED <<on, goal>>
     \/ ~Refused(Decoded) /\ CarryOut(Decoded)
  /\ wire' = NoAction
  /\ intent' = NoIntent
  /\ UNCHANGED <<position, shown>>

\* The command is lost on its way.
Lose ==
  /\ wire # NoAction
  /\ wire' = NoAction
  /\ intent' = NoIntent
  /\ UNCHANGED <<on, position, goal, shown>>

\* The door moves to its goal, or past some of the stops on the way.
Move ==
  /\ goal # position
  /\ \E p \in Stops \cup {goal} :
       /\ IF goal > position THEN p > position /\ p <= goal
                             ELSE p < position /\ p >= goal
       /\ position' = p
  /\ UNCHANGED <<on, goal, shown, wire, intent>>
-----------------------------------------------------------------------------
Next ==
  \/ OpenDoor \/ CloseDoor \/ StopDoor
  \/ \E p \in Percents : SetOpenPercent(p)
  \/ \E s \in Slots : PressToggle(s)
  \/ \E s \in Slots, enabled \in BOOLEAN : SetLockout(s, enabled)
  \/ \E p \in Presets : PressPreset(p)
  \/ GetStatus \/ HubDo \/ Lose \/ Move

Spec == Init /\ [][Next]_vars
-----------------------------------------------------------------------------
(* Properties.                                                             *)

Toggles == [command : ToggleCodes \cup {NoCommand}, isOn : BOOLEAN]

\* Every variable holds a value of its kind.
TypeOK ==
  /\ on \in [Slots -> BOOLEAN]
  /\ position \in 0..100
  /\ goal \in 0..100
  /\ shown.state \in {"moving", "unknown", "closed", "open", "partial"}
  /\ shown.position \in -1..100
  /\ shown.presets \subseteq Presets
  /\ shown.toggle \in [Slots -> Toggles]
  /\ wire.field \in {"none", "cmd", "base"} /\ wire.value \in Nat
  /\ intent \in [kind : {"none", "door", "toggle", "preset"},
                what : {"none", "goal", "stop", "preset"} \cup Slots,
                value : Int]

\* What a caller meant is what the hub does: through the code tables, the
\* cmd/base split, the reading of the feature list and a status that may be
\* stale by the time a toggle is pressed.  Under a phone lockout this is
\* promised of the one command that ends it, which must not be refused.
IntentCarriedOut ==
  [][HubDo /\ (on["phone"] => intent = Intent("toggle", "phone", 0)) =>
       /\ intent.kind = "toggle" =>
            on' = [on EXCEPT ![intent.what] = intent.value = 1]
       /\ intent.kind = "door" =>
            /\ goal' = IF intent.what = "stop" THEN position ELSE intent.value
            /\ UNCHANGED on
       /\ intent.kind = "preset" => Decoded = intent.value /\ UNCHANGED on]_vars

\* A status that tells of a toggle tells its true state at that moment, and a
\* door reported open or closed is there and at rest (get_status).
StatusTellsTruth ==
  [][GetStatus /\ shown' # UnknownStatus =>
       /\ \A s \in Advertised : shown'.toggle[s].isOn = on[s]
       /\ \A s \in Slots \ Advertised : shown'.toggle[s] = NoToggle
       /\ shown'.state = "open" <=> position = 100 /\ goal = 100
       /\ shown'.state = "closed" <=> position = 0 /\ goal = 0]_vars
=============================================================================
