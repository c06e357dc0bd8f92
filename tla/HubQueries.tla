----------------------------- MODULE HubQueries -----------------------------
(***************************************************************************)
(* What the queries of HubClient (client.py) make of the messages of a     *)
(* reply.  A message carries whose it is, which the client cannot see, its *)
(* processState and the body in its `data`; a part that is not there reads *)
(* as empty.  Results are sequences: <<>> is None, or a status of a door   *)
(* at position -1.                                                         *)
(***************************************************************************)
EXTENDS Integers, Sequences

Kinds == {"status", "ids", "info", "logs", "wifi"}

Body(devices, hub, logs, samples) ==
  [devices |-> devices, hub |-> hub, logs |-> logs, samples |-> samples]
NoBody == Body(<<>>, "", <<>>, <<>>)

\* A door of a list; one without an id cannot be addressed.
Entry(id, log) == [id |-> id, log |-> log]
\* A log entry and its logType.
Logged(id, type) == [id |-> id, type |-> type]

LOG_TYPES_HIDDEN_BY_VENDOR_APP == {0, 21}

\* The messages to look at are given by their positions, in the order of which
\* the client goes through them.
First(messages, positions) ==
  messages[CHOOSE i \in positions : \A j \in positions : i <= j]

Completed(messages) == {i \in DOMAIN messages : messages[i].state = 0}

Ids(entries) == [i \in DOMAIN entries |-> entries[i].id]

ParseActivity(log) == IF log = <<>> THEN <<>> ELSE <<log[1].id>>

ParseDeviceLogs(logs) ==
  Ids(SelectSeq(logs, LAMBDA e : e.type \notin LOG_TYPES_HIDDEN_BY_VENDOR_APP))

\* Mutation: get_status takes the first completed message, as the others do.
FirstStatus(messages) ==
  LET told == Completed(messages)
      shown == IF told = {} THEN <<>> ELSE First(messages, told).body.devices
  IN  IF shown = <<>> THEN <<>>
      ELSE <<[door |-> Head(shown).id, activity |-> ParseActivity(Head(shown).log)]>>

\* get_status: the first door of the first completed message that lists any,
\* whichever door that is.
GetStatus(messages) ==
  LET told == {i \in Completed(messages) : messages[i].body.devices # <<>>}
      entry == Head(First(messages, told).body.devices)
  IN  IF told = {} THEN <<>>
      ELSE <<[door |-> entry.id, activity |-> ParseActivity(entry.log)]>>

\* The other queries read the first completed message, whatever it is about.
GetDeviceIds(body) == Ids(SelectSeq(body.devices, LAMBDA e : e.id # ""))
GetHubInfo(body) == <<body.hub>>
GetDeviceLogs(body) == ParseDeviceLogs(body.logs)
GetWifiDiagnostics(body) == body.samples

Result(kind, messages) ==
  LET told == Completed(messages)
      body == First(messages, told).body
  IN  CASE kind = "status" -> GetStatus(messages)
        [] kind # "status" /\ told = {} -> <<>>
        [] kind = "ids" /\ told # {} -> GetDeviceIds(body)
        [] kind = "info" /\ told # {} -> GetHubInfo(body)
        [] kind = "logs" /\ told # {} -> GetDeviceLogs(body)
        [] kind = "wifi" /\ told # {} -> GetWifiDiagnostics(body)
=============================================================================
