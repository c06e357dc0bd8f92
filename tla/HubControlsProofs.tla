------------------------- MODULE HubControlsProofs -------------------------
(***************************************************************************)
(* Proofs about HubControls for every set of advertised slots, presets,    *)
(* percentages and stops.                                                  *)
(***************************************************************************)
EXTENDS HubControls, FiniteSetTheorems, WellFoundedInduction,
        NaturalsInduction, TLAPS

USE DEF CMD_OPEN, CMD_STOP, CMD_CLOSE, PERCENT_OPEN_MIN, PERCENT_OPEN_MAX,
        PERCENT_OPEN_STEP, PERCENT_OPEN_CMD_BASE, NoCommand
-----------------------------------------------------------------------------
(* The code tables.                                                        *)

\* The toggle commands are eight numbers.
LEMMA ToggleCodesAre == ToggleCodes = {16, 17, 18, 19, 20, 21, 257, 258}
  BY DEF ToggleCodes, Codes, Slots, CMD_OF

\* _effective_command undoes _action_for_command, whatever the command.
LEMMA EffectiveOfAction ==
  ASSUME NEW command \in Nat
  PROVE  /\ EffectiveCommand(ActionForCommand(command)) = command
         /\ ActionForCommand(command).field \in {"cmd", "base"}
         /\ ActionForCommand(command).value \in Nat
  BY DEF EffectiveCommand, ActionForCommand

\* The hub's own entries are read as the commands they stand for.
LEMMA EffectiveOfEntry ==
  ASSUME NEW command \in Nat
  PROVE  /\ EffectiveCommand(HubEntry(command)) = command
         /\ HubEntry(command) \in [field : {"cmd", "base"}, value : Nat]
  BY DEF EffectiveCommand, HubEntry

\* So does the hub, which sees only eight bits of the cmd field.
LEMMA DecodedOfAction ==
  ASSUME NEW command \in Nat, wire' = ActionForCommand(command)
  PROVE  Decoded' = command /\ wire' # NoAction
  BY DEF Decoded, ActionForCommand, NoAction

\* An allowed percentage has a code of its own, and the hub reads it back.
LEMMA PercentCodeFits ==
  ASSUME NEW percent \in Int, Allowed(percent)
  PROVE  /\ PercentOpenCommand(percent) \in PercentCodes
         /\ (PercentOpenCommand(percent) - PERCENT_OPEN_CMD_BASE)
              * PERCENT_OPEN_STEP = percent
  BY DEF Allowed, PercentOpenCommand, PercentCodes

\* No command belongs to two slots, and no slot's two commands are the same.
LEMMA CodesApart ==
  ASSUME NEW s \in Slots
  PROVE  /\ CMD_OF[s][1] # CMD_OF[s][2]
         /\ CMD_OF[s][1] \in Nat /\ CMD_OF[s][2] \in Nat
         /\ \A t \in Slots : Codes(s) \cap Codes(t) # {} => s = t
  BY DEF Slots, CMD_OF, Codes
-----------------------------------------------------------------------------
(* Reading the feature list.                                               *)

\* Some entry of a slot is its last one.
LEMMA LastEntry ==
  ASSUME NEW n \in Nat, NEW E, E \subseteq 1..n, E # {}
  PROVE  \E i \in E : \A j \in E : j <= i
<1> DEFINE T == {n - i : i \in E}
<1>1. T \subseteq Nat /\ T # {}
  <2>1. PICK e \in E : TRUE
    OBVIOUS
  <2>2. n - e \in T
    OBVIOUS
  <2>3. \A i \in E : n - i \in Nat
    OBVIOUS
  <2>. QED  BY <2>2, <2>3
<1>2. PICK m \in T : \A k \in T : <<k, m>> \notin OpToRel(<, Nat)
  BY <1>1, WFMin, NatLessThanWellFounded, Zenon
<1>3. \A k \in T : ~(k < m)
  BY <1>1, <1>2, Zenon DEF OpToRel
<1>4. PICK i \in E : m = n - i
  OBVIOUS
<1>5. \A j \in E : j <= i
  BY <1>3, <1>4
<1>. QED  BY <1>5

\* _split_features reads a slot from an entry that is one of the slot's own.
LEMMA ToggleFromEntry ==
  ASSUME NEW n \in Nat, NEW actions, DOMAIN actions = 1..n, NEW s \in Slots,
         Entry(actions, s) # {}
  PROVE  \E i \in Entry(actions, s) :
           Toggle(actions, s) =
             [command |-> EffectiveCommand(actions[i]),
              isOn |-> EffectiveCommand(actions[i]) = CMD_OF[s][2]]
<1> DEFINE last == CHOOSE i \in Entry(actions, s) :
                     \A j \in Entry(actions, s) : j <= i
<1>1. Entry(actions, s) \subseteq 1..n
  BY DEF Entry
<1>2. last \in Entry(actions, s)
  BY <1>1, LastEntry
<1>. QED  BY <1>2 DEF Toggle

\* What a status tells of a slot: nothing, or a command of the slot, with the
\* state which that command would end.
LEMMA ToggleIsOwn ==
  ASSUME NEW n \in Nat, NEW actions, DOMAIN actions = 1..n, NEW s \in Slots
  PROVE  \/ Toggle(actions, s) = NoToggle
         \/ \E command \in Codes(s) :
              Toggle(actions, s) = [command |-> command,
                                    isOn |-> command = CMD_OF[s][2]]
<1>1. CASE Entry(actions, s) = {}
  BY <1>1 DEF Toggle
<1>2. CASE Entry(actions, s) # {}
  BY <1>2, ToggleFromEntry DEF Entry
<1>. QED  BY <1>1, <1>2

\* There are finitely many advertised slots.
LEMMA AdvertisedCount == Cardinality(Advertised) \in Nat
<1>1. IsFiniteSet(Slots)
  <2>1. /\ IsFiniteSet({"light"} \cup {"auxiliary"})
        /\ IsFiniteSet({"remote"} \cup {"phone"})
    BY FS_Singleton, FS_Union, Zenon
  <2>2. Slots = ({"light"} \cup {"auxiliary"}) \cup ({"remote"} \cup {"phone"})
    BY DEF Slots
  <2>. QED  BY <2>1, <2>2, FS_Union, Zenon
<1>. QED  BY <1>1, FS_Subset, FS_CardinalityType, SlotsAssumption

\* A function on an initial segment of the naturals is a sequence.
LEMMA SeqOfFunction ==
  ASSUME NEW R, NEW n \in Nat, NEW f \in [1..n -> R]
  PROVE  f \in Seq(R)
  OBVIOUS

\* The client reads each entry of the hub's list as the command it stands for.
LEMMA ListAsSent ==
  ASSUME NEW features \in Listings, NEW extra \in Others
  PROVE  LET actions == Append(Entries(features), extra)
         IN  /\ DOMAIN actions = 1..(Cardinality(Advertised) + 1)
             /\ \A i \in 1..Cardinality(Advertised) :
                  /\ features[i] \in Advertised
                  /\ EffectiveCommand(actions[i]) = Listed[features[i]]
             /\ EffectiveCommand(actions[Cardinality(Advertised) + 1])
                  \in Presets \cup {NoCommand}
<1> DEFINE n == Cardinality(Advertised)
           actions == Append(Entries(features), extra)
<1>1. n \in Nat
  BY AdvertisedCount
<1>2. Entries(features) \in Seq([field : {"cmd", "base"}, value : Nat])
  <2>1. \A s \in Slots : Listed[s] \in Nat
    BY CodesApart DEF Listed
  <2>2. features \in [1..n -> Advertised]
    BY DEF Listings
  <2>3. ASSUME NEW i \in 1..n
        PROVE  HubEntry(Listed[features[i]])
                 \in [field : {"cmd", "base"}, value : Nat]
    <3>1. Listed[features[i]] \in Nat
      BY <2>1, <2>2, SlotsAssumption
    <3>. QED  BY <3>1, EffectiveOfEntry
  <2>4. Entries(features)
          \in [1..n -> [field : {"cmd", "base"}, value : Nat]]
    BY <2>3 DEF Entries
  <2> HIDE DEF n
  <2>. QED  BY <1>1, <2>4, SeqOfFunction
<1>3. DOMAIN Entries(features) = 1..n /\ Len(Entries(features)) = n
  BY <1>1 DEF Entries
<1>4. /\ DOMAIN actions = 1..(n + 1)
      /\ \A i \in 1..n : actions[i] = Entries(features)[i]
      /\ actions[n + 1] = extra
  BY <1>1, <1>2, <1>3
<1>5. ASSUME NEW i \in 1..n
      PROVE  /\ features[i] \in Advertised
             /\ EffectiveCommand(actions[i]) = Listed[features[i]]
  <2>1. features[i] \in Advertised
    BY DEF Listings
  <2>2. Listed[features[i]] \in Nat
    BY <2>1, SlotsAssumption, CodesApart DEF Listed
  <2>. QED  BY <1>4, <2>1, <2>2, EffectiveOfEntry DEF Entries
<1>6. EffectiveCommand(extra) \in Presets \cup {NoCommand}
  <2>1. CASE extra = NoAction
    BY <2>1 DEF EffectiveCommand, NoAction
  <2>2. CASE \E p \in Presets : extra = HubEntry(p)
    BY <2>2, PresetsAssumption, EffectiveOfEntry
  <2>. QED  BY <2>1, <2>2 DEF Others
<1>. QED  BY <1>1, <1>4, <1>5, <1>6

\* What the status tells of the toggles is true, and it shows no toggle
\* among the presets.
LEMMA ListReadBack ==
  ASSUME NEW features \in Listings, NEW extra \in Others,
         on \in [Slots -> BOOLEAN]
  PROVE  LET actions == Append(Entries(features), extra)
         IN  /\ \A s \in Advertised : Toggle(actions, s).isOn = on[s]
             /\ \A s \in Slots \ Advertised : Toggle(actions, s) = NoToggle
             /\ PresetsOf(actions) \subseteq Presets
<1> DEFINE n == Cardinality(Advertised)
           actions == Append(Entries(features), extra)
<1>1. n \in Nat
  BY AdvertisedCount
<1>2. /\ DOMAIN actions = 1..(n + 1)
      /\ \A i \in 1..n : /\ features[i] \in Advertised
                         /\ EffectiveCommand(actions[i]) = Listed[features[i]]
      /\ EffectiveCommand(actions[n + 1]) \in Presets \cup {NoCommand}
  BY ListAsSent
<1> HIDE DEF n, actions
<1>3. \A s \in Slots : Listed[s] \in Codes(s)
  BY DEF Listed, Codes
<1>4. \A s \in Slots : Codes(s) \cap (Presets \cup {NoCommand}) = {}
  BY PresetsAssumption, CodesApart DEF ToggleCodes, Codes
<1>5. ASSUME NEW s \in Slots, NEW i \in Entry(actions, s)
      PROVE  i \in 1..n /\ features[i] = s
  <2>1. i \in 1..(n + 1) /\ EffectiveCommand(actions[i]) \in Codes(s)
    BY <1>2 DEF Entry
  <2>2. i # n + 1
    BY <1>2, <1>4, <2>1
  <2>3. i \in 1..n
    BY <1>1, <2>1, <2>2
  <2>4. Listed[features[i]] \in Codes(s) \cap Codes(features[i])
    BY <1>2, <1>3, <2>1, <2>3, SlotsAssumption
  <2>. QED  BY <1>2, <2>3, <2>4, CodesApart, SlotsAssumption
<1>6. ASSUME NEW s \in Advertised
      PROVE  Toggle(actions, s).isOn = on[s]
  <2>1. PICK i \in 1..n : features[i] = s
    BY <1>1 DEF Listings, n
  <2>2. i \in Entry(actions, s)
    BY <1>1, <1>2, <1>3, <2>1, SlotsAssumption DEF Entry
  <2>3. PICK j \in Entry(actions, s) :
          Toggle(actions, s).isOn =
            (EffectiveCommand(actions[j]) = CMD_OF[s][2])
    BY <1>1, <1>2, <2>2, ToggleFromEntry, SlotsAssumption
  <2>4. EffectiveCommand(actions[j]) = Listed[s]
    BY <1>2, <1>5, SlotsAssumption
  <2>5. (Listed[s] = CMD_OF[s][2]) = on[s]
    BY CodesApart, SlotsAssumption DEF Listed
  <2>. QED  BY <2>3, <2>4, <2>5
<1>7. ASSUME NEW s \in Slots \ Advertised
      PROVE  Toggle(actions, s) = NoToggle
  <2>1. Entry(actions, s) = {}
    BY <1>2, <1>5
  <2>. QED  BY <2>1 DEF Toggle
<1>8. PresetsOf(actions) \subseteq Presets
  <2>1. ASSUME NEW i \in 1..(n + 1)
        PROVE  EffectiveCommand(actions[i])
                 \in ToggleCodes \cup {NoCommand} \cup Presets
    <3>1. CASE i \in 1..n
      BY <1>2, <1>3, <3>1, SlotsAssumption DEF ToggleCodes
    <3>2. CASE i = n + 1
      BY <1>2, <3>2
    <3>. QED  BY <1>1, <3>1, <3>2
  <2>. QED  BY <1>2, <2>1 DEF PresetsOf
<1>. QED  BY <1>6, <1>7, <1>8 DEF actions

-----------------------------------------------------------------------------
(* The invariant.                                                          *)

\* A toggle that a caller was shown carries one of its slot's own commands,
\* the one that ends the state it was shown in.
ShownTogglesOwn ==
  \A s \in Slots :
    \/ shown.toggle[s] = NoToggle
    \/ \E command \in Codes(s) :
         shown.toggle[s] = [command |-> command,
                            isOn |-> command = CMD_OF[s][2]]

\* The command on the wire is the code of what the caller meant.
WireMeansIntent ==
  wire # NoAction =>
    \/ \E s \in Slots, enabled \in BOOLEAN :
         /\ intent = Intent("toggle", s, IF enabled THEN 1 ELSE 0)
         /\ Decoded = CMD_OF[s][IF enabled THEN 1 ELSE 2]
    \/ intent = Intent("door", "goal", 100) /\ Decoded = CMD_OPEN
    \/ intent = Intent("door", "goal", 0) /\ Decoded = CMD_CLOSE
    \/ intent = Intent("door", "stop", 0) /\ Decoded = CMD_STOP
    \/ \E percent \in Percents :
         /\ intent = Intent("door", "goal", percent)
         /\ Decoded \in PercentCodes
         /\ (Decoded - PERCENT_OPEN_CMD_BASE) * PERCENT_OPEN_STEP = percent
    \/ \E p \in Presets : intent = Intent("preset", "preset", p) /\ Decoded = p

IInv == TypeOK /\ ShownTogglesOwn /\ WireMeansIntent

USE SlotsAssumption, StopsAssumption, PercentsAssumption, PresetsAssumption

\* Initially nothing is shown and nothing is on the wire.
LEMMA InitIInv == Init => IInv
<1> SUFFICES ASSUME Init PROVE IInv
  OBVIOUS
<1>1. /\ shown.state = "unknown" /\ shown.position = -1 /\ shown.presets = {}
      /\ shown.toggle = [s \in Slots |-> NoToggle]
  BY DEF Init, UnknownStatus, Status, StateOf, PresetsOf, Toggle, Entry
<1>2. TypeOK
  BY <1>1 DEF Init, TypeOK, Toggles, NoToggle, NoAction, NoIntent
<1>. QED  BY <1>1, <1>2 DEF Init, IInv, ShownTogglesOwn, WireMeansIntent

\* A command that is sent with the code of its intention keeps the invariant.
LEMMA SendKeepsTypes ==
  ASSUME TypeOK, NEW command \in Nat, NEW kind \in {"door", "toggle", "preset"},
         NEW what \in {"goal", "stop", "preset"} \cup Slots, NEW value \in Int,
         SendCommand(command, Intent(kind, what, value))
  PROVE  /\ TypeOK' /\ Decoded' = command
         /\ intent' = Intent(kind, what, value)
         /\ UNCHANGED shown
  BY EffectiveOfAction, DecodedOfAction DEF SendCommand, TypeOK, Intent

\* The entry points of the client send the code of what they are meant to do.
LEMMA ClientIInv ==
  ASSUME IInv,
         \/ OpenDoor \/ CloseDoor \/ StopDoor
         \/ \E p \in Percents : SetOpenPercent(p)
         \/ \E s \in Slots : PressToggle(s)
         \/ \E s \in Slots, enabled \in BOOLEAN : SetLockout(s, enabled)
         \/ \E p \in Presets : PressPreset(p)
  PROVE  IInv'
<1> USE DEF IInv
<1>1. CASE OpenDoor
  <2>1. TypeOK' /\ Decoded' = CMD_OPEN /\ UNCHANGED shown
        /\ intent' = Intent("door", "goal", 100)
    BY <1>1, SendKeepsTypes DEF OpenDoor
  <2>. QED  BY <2>1 DEF ShownTogglesOwn, WireMeansIntent
<1>2. CASE CloseDoor
  <2>1. TypeOK' /\ Decoded' = CMD_CLOSE /\ UNCHANGED shown
        /\ intent' = Intent("door", "goal", 0)
    BY <1>2, SendKeepsTypes DEF CloseDoor
  <2>. QED  BY <2>1 DEF ShownTogglesOwn, WireMeansIntent
<1>3. CASE StopDoor
  <2>1. TypeOK' /\ Decoded' = CMD_STOP /\ UNCHANGED shown
        /\ intent' = Intent("door", "stop", 0)
    BY <1>3, SendKeepsTypes DEF StopDoor
  <2>. QED  BY <2>1 DEF ShownTogglesOwn, WireMeansIntent
<1>4. ASSUME NEW p \in Percents, SetOpenPercent(p) PROVE IInv'
  <2>1. /\ PercentOpenCommand(p) \in PercentCodes
        /\ (PercentOpenCommand(p) - PERCENT_OPEN_CMD_BASE)
             * PERCENT_OPEN_STEP = p
    BY <1>4, PercentCodeFits DEF SetOpenPercent
  <2>2. PercentOpenCommand(p) \in Nat
    BY <2>1 DEF PercentCodes
  <2>3. TypeOK' /\ Decoded' = PercentOpenCommand(p) /\ UNCHANGED shown
        /\ intent' = Intent("door", "goal", p)
    BY <1>4, <2>2, SendKeepsTypes DEF SetOpenPercent
  <2>. QED  BY <2>1, <2>3 DEF ShownTogglesOwn, WireMeansIntent
<1>5. ASSUME NEW s \in Slots, PressToggle(s) PROVE IInv'
  <2> DEFINE enabled == ~shown.toggle[s].isOn
  <2>1. PICK command \in Codes(s) :
          shown.toggle[s] = [command |-> command,
                             isOn |-> command = CMD_OF[s][2]]
    BY <1>5 DEF PressToggle, ShownTogglesOwn
  <2>2. /\ shown.toggle[s].command = CMD_OF[s][IF enabled THEN 1 ELSE 2]
        /\ enabled \in BOOLEAN
    <3>1. CASE command = CMD_OF[s][1]
      <4>1. shown.toggle[s] = [command |-> command, isOn |-> FALSE]
        BY <2>1, <3>1, CodesApart
      <4>. QED  BY <3>1, <4>1
    <3>2. CASE command = CMD_OF[s][2]
      <4>1. shown.toggle[s] = [command |-> command, isOn |-> TRUE]
        BY <2>1, <3>2
      <4>. QED  BY <3>2, <4>1
    <3>. QED  BY <3>1, <3>2 DEF Codes
  <2>3. CMD_OF[s][IF enabled THEN 1 ELSE 2] \in Nat
    BY CodesApart
  <2>4. SendCommand(CMD_OF[s][IF enabled THEN 1 ELSE 2],
                    Intent("toggle", s, IF enabled THEN 1 ELSE 0))
    BY <1>5, <2>2 DEF PressToggle
  <2> HIDE DEF enabled
  <2>5. TypeOK' /\ Decoded' = CMD_OF[s][IF enabled THEN 1 ELSE 2]
        /\ UNCHANGED shown
        /\ intent' = Intent("toggle", s, IF enabled THEN 1 ELSE 0)
    BY <2>3, <2>4, SendKeepsTypes
  <2>. QED  BY <2>2, <2>5 DEF ShownTogglesOwn, WireMeansIntent
<1>6. ASSUME NEW s \in Slots, NEW enabled \in BOOLEAN, SetLockout(s, enabled)
      PROVE  IInv'
  <2>1. CMD_OF[s][IF enabled THEN 1 ELSE 2] \in Nat
    BY CodesApart
  <2>2. TypeOK' /\ Decoded' = CMD_OF[s][IF enabled THEN 1 ELSE 2]
        /\ UNCHANGED shown
        /\ intent' = Intent("toggle", s, IF enabled THEN 1 ELSE 0)
    BY <1>6, <2>1, SendKeepsTypes DEF SetLockout
  <2>. QED  BY <2>2 DEF ShownTogglesOwn, WireMeansIntent
<1>7. ASSUME NEW p \in Presets, PressPreset(p) PROVE IInv'
  <2>1. TypeOK' /\ Decoded' = p /\ UNCHANGED shown
        /\ intent' = Intent("preset", "preset", p)
    <3>1. p \in Nat /\ SendCommand(p, Intent("preset", "preset", p))
      BY <1>7 DEF PressPreset
    <3>. QED  BY <3>1, SendKeepsTypes
  <2>. QED  BY <2>1 DEF ShownTogglesOwn, WireMeansIntent
<1>. QED  BY <1>1, <1>2, <1>3, <1>4, <1>5, <1>6, <1>7

\* A status that is read keeps the invariant, in whatever order the hub lists
\* its features.
LEMMA GetStatusIInv == IInv /\ GetStatus => IInv'
<1> SUFFICES ASSUME IInv, GetStatus PROVE IInv'
  OBVIOUS
<1>1. CASE shown' = UnknownStatus
  <2>1. /\ shown'.state = "unknown" /\ shown'.position = -1
        /\ shown'.presets = {} /\ shown'.toggle = [s \in Slots |-> NoToggle]
    BY <1>1 DEF UnknownStatus, Status, StateOf, PresetsOf, Toggle, Entry
  <2>2. TypeOK'
    BY <2>1 DEF GetStatus, IInv, TypeOK, Toggles, NoToggle
  <2>. QED  BY <2>1, <2>2
            DEF GetStatus, IInv, ShownTogglesOwn, WireMeansIntent, Decoded
<1>2. ASSUME NEW features \in Listings, NEW extra \in Others,
             shown' = Status(Append(Entries(features), extra), position, Rate)
      PROVE  IInv'
  <2> DEFINE n == Cardinality(Advertised) + 1
             actions == Append(Entries(features), extra)
  <2>1. n \in Nat /\ DOMAIN actions = 1..n
    BY AdvertisedCount, ListAsSent
  <2>2. PresetsOf(actions) \subseteq Presets
    BY ListReadBack DEF IInv, TypeOK
  <2> HIDE DEF n, actions
  <2>3. /\ shown'.state = StateOf(position, Rate)
        /\ shown'.position = position
        /\ shown'.presets = PresetsOf(actions)
        /\ shown'.toggle = [s \in Slots |-> Toggle(actions, s)]
    BY <1>2 DEF Status, actions
  <2>4. ShownTogglesOwn'
    BY <2>1, <2>3, ToggleIsOwn DEF ShownTogglesOwn
  <2>5. shown'.toggle \in [Slots -> Toggles]
    <3>1. ASSUME NEW s \in Slots PROVE shown'.toggle[s] \in Toggles
      <4>1. CASE shown'.toggle[s] = NoToggle
        BY <4>1 DEF Toggles, NoToggle
      <4>2. ASSUME NEW command \in Codes(s), NEW isOn \in BOOLEAN,
                   shown'.toggle[s] = [command |-> command, isOn |-> isOn]
            PROVE  shown'.toggle[s] \in Toggles
        BY <4>2 DEF Toggles, ToggleCodes
      <4>. QED  BY <2>4, <4>1, <4>2 DEF ShownTogglesOwn
    <3>. QED  BY <2>3, <3>1
  <2>6. shown'.state \in {"moving", "unknown", "closed", "open", "partial"}
    BY <2>3 DEF StateOf
  <2>7. TypeOK'
    BY <2>2, <2>3, <2>5, <2>6 DEF GetStatus, IInv, TypeOK
  <2>. QED  BY <2>4, <2>7 DEF GetStatus, IInv, WireMeansIntent, Decoded
<1>. QED  BY <1>1, <1>2 DEF GetStatus

\* The hub, a lost command and the moving door keep the invariant.
LEMMA HubIInv == IInv /\ (HubDo \/ Lose \/ Move) => IInv'
<1> SUFFICES ASSUME IInv, HubDo \/ Lose \/ Move PROVE IInv'
  OBVIOUS
<1> USE DEF IInv
<1>1. CASE HubDo
  <2>1. on' \in [Slots -> BOOLEAN] /\ goal' \in 0..100
    <3>1. Decoded \in PercentCodes =>
            (Decoded - PERCENT_OPEN_CMD_BASE) * PERCENT_OPEN_STEP \in 0..100
      BY DEF PercentCodes
    <3>2. ASSUME NEW s \in Slots, NEW up \in BOOLEAN,
                 on' = [on EXCEPT ![s] = up]
          PROVE  on' \in [Slots -> BOOLEAN]
      BY <3>2 DEF TypeOK
    <3>3. CASE Refused(Decoded) /\ UNCHANGED <<on, goal>>
      BY <3>3 DEF TypeOK
    <3>4. CASE CarryOut(Decoded)
      <4>1. CASE \E s \in Slots :
                   /\ Decoded \in Codes(s)
                   /\ on' = [on EXCEPT ![s] = Decoded = CMD_OF[s][1]]
                   /\ UNCHANGED goal
        BY <3>2, <4>1 DEF TypeOK
      <4>2. CASE goal' \in 0..100 /\ UNCHANGED on
        BY <4>2 DEF TypeOK
      <4>3. CASE Decoded \in PercentCodes /\ UNCHANGED on /\
                 goal' = (Decoded - PERCENT_OPEN_CMD_BASE) * PERCENT_OPEN_STEP
        BY <3>1, <4>3 DEF TypeOK
      <4>4. CASE UNCHANGED <<on, goal>>
        BY <4>4 DEF TypeOK
      <4>5. /\ position \in 0..100 /\ 0 \in 0..100 /\ 100 \in 0..100
            /\ Stops \subseteq 0..100
        BY DEF TypeOK
      <4>. QED  BY <3>4, <4>1, <4>2, <4>3, <4>4, <4>5, ZenonT(30) DEF CarryOut
    <3>. QED  BY <1>1, <3>3, <3>4 DEF HubDo
  <2>2. TypeOK'
    BY <1>1, <2>1 DEF HubDo, TypeOK, NoAction, NoIntent
  <2>. QED  BY <1>1, <2>2 DEF HubDo, ShownTogglesOwn, WireMeansIntent
<1>2. CASE Lose
  BY <1>2 DEF Lose, TypeOK, NoAction, NoIntent, ShownTogglesOwn, WireMeansIntent
<1>3. CASE Move
  <2>1. position' \in 0..100
    BY <1>3 DEF Move, TypeOK
  <2>2. UNCHANGED <<on, goal, shown, wire, intent>>
    BY <1>3 DEF Move
  <2>3. TypeOK'
    BY <2>1, <2>2 DEF TypeOK
  <2>4. ShownTogglesOwn' /\ WireMeansIntent'
    BY <2>2 DEF ShownTogglesOwn, WireMeansIntent, Decoded
  <2>. QED  BY <2>3, <2>4
<1>. QED  BY <1>1, <1>2, <1>3
-----------------------------------------------------------------------------
(* The theorems.                                                           *)

\* The invariant holds throughout.
THEOREM Invariance == Spec => []IInv
<1>1. IInv /\ [Next]_vars => IInv'
  <2> SUFFICES ASSUME IInv, [Next]_vars PROVE IInv'
    OBVIOUS
  <2>1. CASE UNCHANGED vars
    <3>1. TypeOK'
      BY <2>1 DEF vars, IInv, TypeOK
    <3>2. ShownTogglesOwn'
      BY <2>1 DEF vars, IInv, ShownTogglesOwn
    <3>3. WireMeansIntent'
      <4>1. UNCHANGED <<wire, intent>> /\ Decoded' = Decoded
        BY <2>1 DEF vars, Decoded
      <4>. QED  BY <4>1 DEF IInv, WireMeansIntent
    <3>. QED  BY <3>1, <3>2, <3>3 DEF IInv
  <2>. QED  BY <2>1, ClientIInv, GetStatusIInv, HubIInv DEF Next
<1>. QED  BY <1>1, InitIInv, PTL DEF Spec

\* Every variable of the client and of the hub holds a value of its kind.
THEOREM TypeCorrect == Spec => []TypeOK
  BY Invariance, PTL DEF IInv

\* Whoever ends the phone lockout is not refused because of it.
LEMMA LockoutEnds ==
  ASSUME IInv, wire # NoAction, intent = Intent("toggle", "phone", 0)
  PROVE  ~Refused(Decoded)
<1>1. PICK s \in Slots, enabled \in BOOLEAN :
        /\ intent = Intent("toggle", s, IF enabled THEN 1 ELSE 0)
        /\ Decoded = CMD_OF[s][IF enabled THEN 1 ELSE 2]
  BY DEF IInv, WireMeansIntent, Intent
<1>2. s = "phone" /\ ~enabled
  BY <1>1 DEF Intent
<1>. QED  BY <1>1, <1>2 DEF Refused

\* The hub does what the caller meant, for every command, preset, percentage
\* and status, stale ones included, and lets nobody be locked out for good.
THEOREM IntentsCarriedOut == Spec => IntentCarriedOut
<1>1. ASSUME IInv, HubDo,
             on["phone"] => intent = Intent("toggle", "phone", 0)
      PROVE  /\ intent.kind = "toggle" =>
                  on' = [on EXCEPT ![intent.what] = intent.value = 1]
             /\ intent.kind = "door" =>
                  /\ goal' = IF intent.what = "stop" THEN position
                                                     ELSE intent.value
                  /\ UNCHANGED on
             /\ intent.kind = "preset" =>
                  Decoded = intent.value /\ UNCHANGED on
  <2>1. CarryOut(Decoded) /\ wire # NoAction
    <3>1. wire # NoAction
      BY <1>1 DEF HubDo
    <3>2. ~Refused(Decoded)
      BY <1>1, <3>1, LockoutEnds DEF Refused
    <3>. QED  BY <1>1, <3>1, <3>2 DEF HubDo
  <2>2. CASE \E s \in Slots, enabled \in BOOLEAN :
               /\ intent = Intent("toggle", s, IF enabled THEN 1 ELSE 0)
               /\ Decoded = CMD_OF[s][IF enabled THEN 1 ELSE 2]
    <3>1. PICK s \in Slots, enabled \in BOOLEAN :
            /\ intent = Intent("toggle", s, IF enabled THEN 1 ELSE 0)
            /\ Decoded = CMD_OF[s][IF enabled THEN 1 ELSE 2]
      BY <2>2
    <3>2. Decoded \in Codes(s) /\ Decoded \in ToggleCodes
      BY <3>1 DEF Codes, ToggleCodes
    <3>3. PICK t \in Slots : /\ Decoded \in Codes(t)
                             /\ on' = [on EXCEPT ![t] = Decoded = CMD_OF[t][1]]
      BY <2>1, <3>2, ToggleCodesAre DEF CarryOut, PercentCodes, DoorCodes
    <3>4. t = s /\ (Decoded = CMD_OF[s][1]) = enabled
      BY <3>1, <3>2, <3>3, CodesApart
    <3>. QED  BY <3>1, <3>3, <3>4 DEF Intent
  <2>3. CASE intent.kind = "door"
    <3>1. Decoded \in DoorCodes \cup PercentCodes
      BY <1>1, <2>1, <2>3 DEF IInv, WireMeansIntent, Intent, DoorCodes
    <3>2. \A s \in Slots : Decoded \notin Codes(s)
      BY <3>1, ToggleCodesAre DEF ToggleCodes, DoorCodes, PercentCodes
    <3>3. Decoded \notin Presets
      BY <3>1
    <3>. QED  BY <1>1, <2>1, <2>3, <3>1, <3>2, <3>3
              DEF IInv, WireMeansIntent, Intent, CarryOut, DoorCodes, PercentCodes
  <2>4. CASE intent.kind = "preset"
    <3>1. Decoded \in Presets /\ Decoded = intent.value
      BY <1>1, <2>1, <2>4 DEF IInv, WireMeansIntent, Intent
    <3>2. \A s \in Slots : Decoded \notin Codes(s)
      BY <3>1 DEF ToggleCodes
    <3>. QED  BY <2>1, <2>4, <3>1, <3>2 DEF CarryOut
  <2>. QED  BY <1>1, <2>1, <2>2, <2>3, <2>4 DEF IInv, WireMeansIntent, Intent
<1>2. IInv /\ [Next]_vars =>
        [HubDo /\ (on["phone"] => intent = Intent("toggle", "phone", 0)) =>
           /\ intent.kind = "toggle" =>
                on' = [on EXCEPT ![intent.what] = intent.value = 1]
           /\ intent.kind = "door" =>
                /\ goal' = IF intent.what = "stop" THEN position
                                                   ELSE intent.value
                /\ UNCHANGED on
           /\ intent.kind = "preset" =>
                Decoded = intent.value /\ UNCHANGED on]_vars
  BY <1>1
<1>. QED  BY <1>2, Invariance, PTL DEF Spec, IntentCarriedOut

\* A status that is more than "unknown" tells the state of every advertised
\* toggle, invents no other, and calls the door open or closed only when it is
\* there and at rest.
THEOREM StatusIsTrue == Spec => StatusTellsTruth
<1> DEFINE True ==
      /\ \A s \in Advertised : shown'.toggle[s].isOn = on[s]
      /\ \A s \in Slots \ Advertised : shown'.toggle[s] = NoToggle
      /\ shown'.state = "open" <=> position = 100 /\ goal = 100
      /\ shown'.state = "closed" <=> position = 0 /\ goal = 0
<1>1. ASSUME IInv, GetStatus, shown' # UnknownStatus PROVE True
  <2>1. PICK features \in Listings, extra \in Others :
          shown' = Status(Append(Entries(features), extra), position, Rate)
    BY <1>1 DEF GetStatus
  <2> DEFINE actions == Append(Entries(features), extra)
  <2>2. /\ \A s \in Advertised : Toggle(actions, s).isOn = on[s]
        /\ \A s \in Slots \ Advertised : Toggle(actions, s) = NoToggle
    BY <1>1, ListReadBack DEF IInv, TypeOK
  <2> HIDE DEF actions
  <2>3. /\ shown'.state = StateOf(position, Rate)
        /\ shown'.toggle = [s \in Slots |-> Toggle(actions, s)]
    BY <2>1 DEF Status, actions
  <2>4. position \in 0..100 /\ goal \in 0..100
    BY <1>1 DEF IInv, TypeOK
  <2>5. /\ StateOf(position, Rate) = "open" <=> position = 100 /\ goal = 100
        /\ StateOf(position, Rate) = "closed" <=> position = 0 /\ goal = 0
    BY <2>4 DEF StateOf, Rate
  <2>. QED  BY <2>2, <2>3, <2>5
<1>2. IInv /\ [Next]_vars => [GetStatus /\ shown' # UnknownStatus => True]_vars
  BY <1>1
<1>. QED  BY <1>2, Invariance, PTL DEF Spec, StatusTellsTruth
=============================================================================
