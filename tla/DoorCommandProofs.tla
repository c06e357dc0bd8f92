------------------------- MODULE DoorCommandProofs -------------------------
(***************************************************************************)
(* Proofs about DoorCommand for any set of senders, setters and queries.   *)
(***************************************************************************)
EXTENDS DoorCommand, SequenceTheorems, WellFoundedInduction, TLAPS

\* An invocation is suspended in a call exactly while the call is pending, and
\* nothing is known of its request's fate before the hub has run it.
Accounted(c) ==
  /\ pc[c] = "idle" <=> status[<<c, "action">>] = "idle"
  /\ pc[c] = "action" <=> status[<<c, "action">>] = "pending"
  /\ status[<<c, "action">>] = "idle" => runs[<<c, "action">>] = 0
  /\ status[<<c, "action">>] = "ok" => runs[<<c, "action">>] = 1
  /\ runs[<<c, "action">>] = 0 => fate[c] = "none"
  /\ pc[c] \in {"sleep", "poll"} => c \in Senders
  /\ outcome[c] # "none" => pc[c] = "done"
  /\ c \in Queries => fate[c] # "processing"
  /\ c \in Queries /\ outcome[c] = "ok" => runs[<<c, "action">>] = 1

PollAccounted(c) ==
  /\ pc[c] \in {"idle", "action", "sleep"} => status[<<c, "poll">>] = "idle"
  /\ pc[c] = "poll" <=> status[<<c, "poll">>] = "pending"
  /\ status[<<c, "poll">>] = "idle" => runs[<<c, "poll">>] = 0

CallsAccounted == \A c \in Ops : Accounted(c)
PollsAccounted == \A c \in Senders : PollAccounted(c)

\* Results are of commands, and only a query's own answer is of a query.
OwnersKnown ==
  /\ \A i \in DOMAIN landed :
       landed[i].owner \in Commands /\ landed[i].body = NoBody
  /\ \A c \in Ops : \A i \in DOMAIN reply[c] :
       reply[c][i].owner \in Commands \cup {c}

\* The commands whose failure messages tell of.
Told(messages) == {messages[i].owner : i \in Failed(messages)}

FailedOps == {c \in Ops : fate[c] = "failed"}

\* The failure of a command is in one place at most: in the mailbox, in one
\* reply on its way, or in one error that has been raised.
FailuresOnce ==
  /\ Told(landed) \subseteq FailedOps
  /\ \A c \in Ops :
       /\ Told(reply[c]) \cup blame[c] \subseteq FailedOps
       /\ Told(landed) \cap (Told(reply[c]) \cup blame[c]) = {}
       /\ \A d \in Ops : Told(reply[c]) \cap blame[d] = {}
       /\ \A d \in Ops \ {c} :
            /\ Told(reply[c]) \cap Told(reply[d]) = {}
            /\ blame[c] \cap blame[d] = {}

\* What the hub itself has to say to an invocation.
Own(c, s) ==
  Message(c, s, IF c \in Queries /\ s = 0 THEN Truth(asked[c]) ELSE NoBody)

\* The reply to a query ends with the query's own answer, and nothing before it
\* has a body.
QueryAnswered ==
  \A q \in Queries :
    pc[q] = "action" /\ runs[<<q, "action">>] = 1 =>
      /\ fate[q] \in {"ok", "failed"}
      /\ reply[q] # <<>>
      /\ reply[q][Len(reply[q])] = Own(q, IF fate[q] = "ok" THEN 0 ELSE -1)
      /\ \A i \in DOMAIN reply[q] :
           i # Len(reply[q]) => reply[q][i].body = NoBody

\* A command the hub still works on, and one whose result awaits the poll.
Unsettled(c) == fate[c] = "processing" /\ landed = <<>>
Settled(c) ==
  \E s \in {0, -1} : fate[c] = FateOf(s) /\ landed = <<Message(c, s, NoBody)>>

\* What holds of an invocation in calm surroundings: what its reply and the
\* mailbox hold at each await, and what it says in the end.
Calmly(c) ==
  /\ c \in Setters => pc[c] = "idle"
  /\ pc[c] = "action" /\ runs[<<c, "action">>] = 0 => landed = <<>>
  /\ pc[c] = "action" /\ runs[<<c, "action">>] = 1 =>
       \E s \in States :
         /\ reply[c] = <<Own(c, s)>>
         /\ s = 1 => c \in Commands /\ (Unsettled(c) \/ Settled(c))
         /\ s # 1 => fate[c] = FateOf(s) /\ landed = <<>>
  /\ pc[c] = "sleep" => Unsettled(c) \/ Settled(c)
  /\ pc[c] = "poll" /\ runs[<<c, "poll">>] = 0 => Settled(c)
  /\ pc[c] = "poll" /\ runs[<<c, "poll">>] = 1 =>
       /\ landed = <<>>
       /\ \E s \in {0, -1} :
            fate[c] = FateOf(s) /\ reply[c] = <<Message(c, s, NoBody)>>
  /\ pc[c] = "done" => fate[c] # "processing"
  /\ c \in Senders /\ outcome[c] = "ok" => fate[c] = "ok"
  /\ c \in Senders /\ outcome[c] = "failed" =>
       fate[c] = "failed" /\ blame[c] = {c}
  /\ c \in Queries /\ outcome[c] = "ok" => told[c] = Alone(c)

\* In calm surroundings one invocation is made at a time, and it leaves an empty
\* mailbox to the next.
Calm ==
  calm =>
    /\ \A c \in Ops : Calmly(c)
    /\ \A c, d \in Ops : Running(c) /\ Running(d) => c = d
    /\ (\A c \in Ops : ~Running(c)) => landed = <<>>
    /\ \A r \in Requests : status[r] # "failed"

-----------------------------------------------------------------------------
(* Going through the messages of a reply.                                  *)

USE OpsAssumption DEF Commands, Ops, States, Fates

\* Any positions have a first one, so First picks one of them.
LEMMA FirstIsOne ==
  ASSUME NEW messages, NEW positions, positions \subseteq Nat, positions # {}
  PROVE  \E i \in positions :
           /\ First(messages, positions) = messages[i]
           /\ \A j \in positions : i <= j
<1>1. \E i \in positions : \A j \in positions : <<j, i>> \notin OpToRel(<, Nat)
  BY WFMin, NatLessThanWellFounded, Zenon
<1>2. PICK i \in positions : \A j \in positions : ~(j < i)
  BY <1>1, Zenon DEF OpToRel
<1>3. \E k \in positions : \A j \in positions : k <= j
  BY <1>2
<1>. DEFINE first == CHOOSE k \in positions : \A j \in positions : k <= j
<1>4. first \in positions /\ \A j \in positions : first <= j
  BY <1>3, Zenon
<1>5. First(messages, positions) = messages[first]
  BY DEF First
<1>. QED  BY <1>4, <1>5, Zenon

\* What one more message adds to the failures told of, and none.
LEMMA ToldOneMore ==
  ASSUME NEW messages \in Seq(Messages), NEW m \in Messages
  PROVE  Told(Append(messages, m)) =
           Told(messages) \cup (IF m.state = -1 THEN {m.owner} ELSE {})
<1>. DEFINE more == Append(messages, m)
            n == Len(messages)
<1>1. /\ n \in Nat /\ DOMAIN messages = 1..n /\ DOMAIN more = 1..(n + 1)
      /\ more[n + 1] = m /\ \A i \in 1..n : more[i] = messages[i]
  BY AppendProperties, LenProperties
<1>2. ASSUME NEW o, o \in Told(more)
      PROVE  o \in Told(messages) \/ (m.state = -1 /\ o = m.owner)
  BY <1>1, <1>2 DEF Told, Failed
<1>3. ASSUME NEW o, o \in Told(messages)
      PROVE  o \in Told(more)
  <2>1. PICK i \in 1..n : messages[i].state = -1 /\ o = messages[i].owner
    BY <1>1, <1>3 DEF Told, Failed
  <2>2. i \in 1..(n + 1) /\ more[i] = messages[i]
    BY <1>1
  <2>. QED  BY <2>1, <2>2, <1>1 DEF Told, Failed
<1>4. ASSUME m.state = -1
      PROVE  m.owner \in Told(more)
  <2>1. n + 1 \in 1..(n + 1)
    BY <1>1
  <2>. QED  BY <1>1, <1>4, <2>1 DEF Told, Failed
<1>. QED  BY <1>2, <1>3, <1>4

\* An empty reply tells of nothing, and a single message of its own command.
LEMMA ToldBySingle ==
  /\ <<>> \in Seq(Messages) /\ Told(<<>>) = {}
  /\ \A m \in Messages :
       /\ <<m>> \in Seq(Messages) /\ DOMAIN <<m>> = {1}
       /\ Told(<<m>>) = IF m.state = -1 THEN {m.owner} ELSE {}
<1>1. <<>> \in Seq(Messages)
  BY EmptySeq, Zenon
<1>2. Told(<<>>) = {}
  BY DEF Told, Failed
<1>3. ASSUME NEW m \in Messages
      PROVE  /\ <<m>> \in Seq(Messages) /\ DOMAIN <<m>> = {1}
             /\ Told(<<m>>) = IF m.state = -1 THEN {m.owner} ELSE {}
  BY DEF Told, Failed
<1>. QED  BY <1>1, <1>2, <1>3

\* What the queries are told, and what the hub says to an invocation, are
\* messages.
LEMMA MessageTyped ==
  /\ \A c \in Ops, s \in States :
       /\ Message(c, s, NoBody) \in Messages
       /\ Message(c, s, NoBody).owner = c /\ Message(c, s, NoBody).state = s
       /\ Message(c, s, NoBody).body = NoBody
  /\ asked \in [Queries -> Kinds] => \A c \in Ops, s \in States :
       /\ Own(c, s) \in Messages
       /\ Own(c, s).owner = c /\ Own(c, s).state = s
<1>1. \A c \in Ops, s \in States, b \in {NoBody} \cup {Truth(k) : k \in Kinds} :
        /\ Message(c, s, b) \in Messages
        /\ Message(c, s, b).owner = c /\ Message(c, s, b).state = s
        /\ Message(c, s, b).body = b
  BY DEF Message, Messages
<1>2. ASSUME asked \in [Queries -> Kinds], NEW c \in Ops, NEW s \in States
      PROVE  Own(c, s) \in Messages /\ Own(c, s).owner = c /\ Own(c, s).state = s
  <2>. DEFINE b == IF c \in Queries /\ s = 0 THEN Truth(asked[c]) ELSE NoBody
  <2>1. b \in {NoBody} \cup {Truth(k) : k \in Kinds}
    BY <1>2
  <2>2. Own(c, s) = Message(c, s, b)
    BY DEF Own
  <2>. HIDE DEF b
  <2>. QED  BY <1>1, <2>1, <2>2
<1>. QED  BY <1>1, <1>2

\* What failed messages there are is told of.
LEMMA FailedTold ==
  ASSUME NEW messages \in Seq(Messages)
  PROVE  /\ Failed(messages) \subseteq Nat /\ Unfinished(messages) \subseteq Nat
         /\ Failed(messages) # {} =>
              First(messages, Failed(messages)).owner \in Told(messages)
         /\ Unfinished(messages) # {} =>
              LET m == First(messages, Unfinished(messages))
              IN  m.state = -1 => m.owner \in Told(messages)
<1>1. Failed(messages) \subseteq Nat /\ Unfinished(messages) \subseteq Nat
  BY LenProperties DEF Failed, Unfinished
<1>2. ASSUME Failed(messages) # {}
      PROVE  First(messages, Failed(messages)).owner \in Told(messages)
  BY <1>1, <1>2, FirstIsOne, Zenon DEF Told
<1>3. ASSUME Unfinished(messages) # {}
      PROVE  LET m == First(messages, Unfinished(messages))
             IN  m.state = -1 => m.owner \in Told(messages)
  <2>1. PICK i \in Unfinished(messages) :
          First(messages, Unfinished(messages)) = messages[i]
    BY <1>1, <1>3, FirstIsOne
  <2>. QED  BY <2>1 DEF Told, Failed, Unfinished
<1>. QED  BY <1>1, <1>2, <1>3
-----------------------------------------------------------------------------
(* What the steps of the call layer and a return do.                       *)

\* A request is in one state, and a step of the call layer is of one request.
LEMMA CallSteps ==
  ASSUME TypeOK, NEW r \in Requests
  PROVE  /\ Call!Issue(r) =>
              /\ status[r] = "idle" /\ status'[r] = "pending" /\ runs' = runs
              /\ \A q \in Requests \ {r} : status'[q] = status[q]
              /\ status' \in [Requests -> {"idle", "pending", "ok", "failed"}]
         /\ Call!Succeed(r) =>
              /\ status[r] = "pending" /\ status'[r] = "ok" /\ runs' = runs
              /\ runs[r] = 1
              /\ \A q \in Requests \ {r} : status'[q] = status[q]
              /\ status' \in [Requests -> {"idle", "pending", "ok", "failed"}]
         /\ Call!Fail(r) =>
              /\ status'[r] = "failed" /\ runs' = runs
              /\ \A q \in Requests \ {r} : status'[q] = status[q]
              /\ status' \in [Requests -> {"idle", "pending", "ok", "failed"}]
         /\ Call!Run(r) =>
              /\ status[r] \in {"pending", "failed"} /\ status' = status
              /\ runs[r] = 0 /\ runs'[r] = 1
              /\ \A q \in Requests \ {r} : runs'[q] = runs[q]
              /\ runs' \in [Requests -> {0, 1}]
  BY DEF TypeOK, Call!Issue, Call!Succeed, Call!Fail, Call!Run

\* The requests of an invocation, and that different ones have different ones.
LEMMA RequestsApart ==
  /\ \A c \in Ops : <<c, "action">> \in Requests
  /\ \A c \in Senders : <<c, "poll">> \in Requests
  /\ \A c, d : <<c, "action">> # <<d, "poll">>
  /\ \A c, d, k : c # d => <<c, "action">> # <<d, k>> /\ <<c, "poll">> # <<d, k>>
  BY DEF Requests

\* A return changes what is known of the invocation that returns, and empties
\* its reply.
LEMMA Returning ==
  ASSUME TypeOK, NEW c \in Ops, NEW how, NEW whose, Return(c, how, whose)
  PROVE  /\ pc'[c] = "done" /\ outcome'[c] = how /\ blame'[c] = whose
         /\ reply'[c] = <<>> /\ asked' = asked /\ told' = told
         /\ \A d \in Ops \ {c} :
              /\ pc'[d] = pc[d] /\ outcome'[d] = outcome[d]
              /\ blame'[d] = blame[d] /\ reply'[d] = reply[d]
         /\ pc' \in [Ops -> {"idle", "action", "sleep", "poll", "done"}]
         /\ how \in {"ok", "failed", "unreachable", "cancelled"} =>
              outcome' \in [Ops -> {"none", "ok", "failed", "unreachable",
                                    "cancelled"}]
         /\ whose \subseteq Commands => blame' \in [Ops -> SUBSET Commands]
         /\ reply' \in [Ops -> Seq(Messages)]
<1>1. <<>> \in Seq(Messages)
  BY ToldBySingle
<1>. QED  BY <1>1 DEF TypeOK, Return

\* What an invocation raises has been told to it.
LEMMA VerdictReturns ==
  ASSUME TypeOK, OwnersKnown, NEW c \in Commands, Verdict(c)
  PROVE  \E how \in {"ok", "failed"} :
           \E whose \in SUBSET (Told(reply[c]) \cap Commands) :
             /\ Return(c, how, whose)
             /\ how = "ok" <=> Failed(reply[c]) = {}
             /\ how = "failed" =>
                  whose = {First(reply[c], Failed(reply[c])).owner}
<1>1. reply[c] \in Seq(Messages) /\ Told(reply[c]) \subseteq Commands
  BY DEF TypeOK, OwnersKnown, Told, Failed
<1>2. CASE Failed(reply[c]) = {}
  BY <1>2 DEF Verdict
<1>3. CASE Failed(reply[c]) # {}
  <2>. DEFINE o == First(reply[c], Failed(reply[c])).owner
  <2>1. o \in Told(reply[c]) \cap Commands
    BY <1>1, <1>3, FailedTold
  <2>2. Return(c, "failed", {o})
    BY <1>3 DEF Verdict, Raise
  <2>. QED  BY <2>1, <2>2, <1>3
<1>. QED  BY <1>2, <1>3

\* How send_command takes the reply of its action.
LEMMA ActionOutcomes ==
  ASSUME TypeOK, OwnersKnown, NEW c \in Senders, ActionReturns(c)
  PROVE  \/ \E how \in {"ok", "failed"} :
              \E whose \in SUBSET (Told(reply[c]) \cap Commands) :
                /\ Return(c, how, whose)
                /\ how = "ok" => Unfinished(reply[c]) = {}
                /\ how = "failed" =>
                     /\ Unfinished(reply[c]) # {}
                     /\ First(reply[c], Unfinished(reply[c])).state = -1
                     /\ whose = {First(reply[c], Unfinished(reply[c])).owner}
         \/ /\ Unfinished(reply[c]) # {}
            /\ First(reply[c], Unfinished(reply[c])).state = 1
            /\ pc' = [pc EXCEPT ![c] = "sleep"]
            /\ reply' = [reply EXCEPT ![c] = <<>>]
            /\ UNCHANGED local
<1>. DEFINE m == First(reply[c], Unfinished(reply[c]))
<1>1. reply[c] \in Seq(Messages) /\ Told(reply[c]) \subseteq Commands
  BY DEF TypeOK, OwnersKnown, Told, Failed
<1>2. CASE Unfinished(reply[c]) = {} /\ Return(c, "ok", {})
  BY <1>2
<1>3. CASE /\ Unfinished(reply[c]) # {} /\ m.state = -1
           /\ Return(c, "failed", {m.owner})
  <2>1. m.owner \in Told(reply[c]) \cap Commands
    BY <1>1, <1>3, FailedTold
  <2>. QED  BY <2>1, <1>3
<1>. QED  BY <1>2, <1>3 DEF ActionReturns, Raise
-----------------------------------------------------------------------------
(* What each step keeps whether or not it is calm.                         *)

\* Together they are inductive.
Safe ==
  /\ TypeOK /\ CallsAccounted /\ PollsAccounted /\ OwnersKnown /\ FailuresOnce
  /\ QueryAnswered /\ StatusIsOwn

\* The call an invocation is in, if it is in one, has come to an end.
CallEnds(c) ==
  /\ runs' = runs
  /\ status' \in [Requests -> {"idle", "pending", "ok", "failed"}]
  /\ \A r \in Requests \ {<<c, pc[c]>>} : status'[r] = status[r]
  /\ <<c, pc[c]>> \in Requests =>
       /\ status'[<<c, pc[c]>>] \in {"ok", "failed"}
       /\ status'[<<c, pc[c]>>] = "ok" => runs[<<c, pc[c]>>] = 1

\* The end of an invocation that raises, or that asked for nothing.
LEMMA EndKeeps ==
  ASSUME Safe, NEW c \in Ops, pc[c] \in {"action", "sleep", "poll"}, CallEnds(c),
         NEW how \in {"ok", "failed", "unreachable", "cancelled"},
         NEW whose \in SUBSET (Told(reply[c]) \cap Commands),
         Return(c, how, whose), how = "ok" => c \in Commands,
         UNCHANGED <<calm, fate, landed>>
  PROVE  Safe'
<1>1. /\ pc'[c] = "done" /\ outcome'[c] = how /\ blame'[c] = whose
      /\ reply'[c] = <<>> /\ asked' = asked /\ told' = told
      /\ \A d \in Ops \ {c} :
           /\ pc'[d] = pc[d] /\ outcome'[d] = outcome[d]
           /\ blame'[d] = blame[d] /\ reply'[d] = reply[d]
      /\ pc' \in [Ops -> {"idle", "action", "sleep", "poll", "done"}]
      /\ outcome' \in [Ops -> {"none", "ok", "failed", "unreachable",
                               "cancelled"}]
      /\ blame' \in [Ops -> SUBSET Commands]
      /\ reply' \in [Ops -> Seq(Messages)]
  BY Returning DEF Safe
<1>2. /\ runs' = runs /\ fate' = fate /\ landed' = landed
      /\ status' \in [Requests -> {"idle", "pending", "ok", "failed"}]
      /\ \A r \in Requests \ {<<c, pc[c]>>} : status'[r] = status[r]
      /\ <<c, pc[c]>> \in Requests =>
           /\ status'[<<c, pc[c]>>] \in {"ok", "failed"}
           /\ status'[<<c, pc[c]>>] = "ok" => runs[<<c, pc[c]>>] = 1
  BY DEF CallEnds
<1>3. \A d \in Ops :
        /\ d # c \/ pc[c] # "action" =>
             status'[<<d, "action">>] = status[<<d, "action">>]
        /\ d = c /\ pc[c] = "action" =>
             /\ status'[<<c, "action">>] \in {"ok", "failed"}
             /\ status'[<<c, "action">>] = "ok" => runs[<<c, "action">>] = 1
  BY <1>2, RequestsApart
<1>4. \A d \in Senders :
        /\ d # c \/ pc[c] # "poll" =>
             status'[<<d, "poll">>] = status[<<d, "poll">>]
        /\ d = c /\ pc[c] = "poll" => status'[<<c, "poll">>] \in {"ok", "failed"}
  BY <1>2, RequestsApart
<1>5. \A d \in Ops \ {c} : pc'[d] = pc[d] /\ outcome'[d] = outcome[d]
  BY <1>1
<1>6. TypeOK'
  <2>1. calm' \in BOOLEAN
    BY Zenon DEF Safe, TypeOK
  <2>. QED  BY <1>1, <1>2, <2>1 DEF Safe, TypeOK
<1>7. CallsAccounted'
  <2>. SUFFICES ASSUME NEW d \in Ops, Accounted(d)
                PROVE  Accounted(d)'
    BY DEF Safe, CallsAccounted
  <2>1. CASE d = c
    <3>1. /\ pc[c] # "action" => status[<<c, "action">>] \notin {"idle", "pending"}
          /\ status[<<c, "action">>] = "ok" => runs[<<c, "action">>] = 1
          /\ runs[<<c, "action">>] = 0 => fate[c] = "none"
          /\ c \in Queries => fate[c] # "processing"
      BY <2>1 DEF Accounted
    <3>2. status[<<c, "action">>] \in {"idle", "pending", "ok", "failed"}
      BY RequestsApart DEF Safe, TypeOK
    <3>3. /\ status'[<<c, "action">>] \in {"ok", "failed"}
          /\ status'[<<c, "action">>] = "ok" => runs[<<c, "action">>] = 1
      BY <1>3, <3>1, <3>2
    <3>. QED  BY <1>1, <1>2, <2>1, <3>1, <3>3 DEF Accounted
  <2>2. CASE d # c
    BY <1>5, <1>2, <1>3, <2>2 DEF Accounted
  <2>. QED  BY <2>1, <2>2
<1>8. PollsAccounted'
  <2>. SUFFICES ASSUME NEW d \in Senders, PollAccounted(d)
                PROVE  PollAccounted(d)'
    BY DEF Safe, PollsAccounted
  <2>1. CASE d = c
    BY <1>1, <1>2, <1>4, <2>1 DEF PollAccounted
  <2>2. CASE d # c
    BY <1>5, <1>2, <1>4, <2>2 DEF PollAccounted
  <2>. QED  BY <2>1, <2>2
<1>9. OwnersKnown'
  <2>1. DOMAIN reply'[c] = {} /\ \A d \in Ops \ {c} : reply'[d] = reply[d]
    BY <1>1
  <2>2. \A d \in Ops : \A i \in DOMAIN reply'[d] :
          reply'[d][i].owner \in Commands \cup {d}
    BY <2>1 DEF Safe, OwnersKnown
  <2>. QED  BY <1>2, <2>2 DEF Safe, OwnersKnown
<1>10. FailuresOnce'
  <2>1. Told(reply'[c]) = {} /\ blame'[c] \subseteq Told(reply[c])
    BY <1>1, ToldBySingle
  <2>2. FailedOps' = FailedOps
    BY <1>2 DEF FailedOps
  <2>3. Told(landed)' = Told(landed)
    BY <1>2
  <2>4. \A d \in Ops \ {c} : Told(reply'[d]) = Told(reply[d]) /\ blame'[d] = blame[d]
    BY <1>1
  <2>. QED  BY <2>1, <2>2, <2>3, <2>4, SMTT(30) DEF Safe, FailuresOnce
<1>11. QueryAnswered'
  BY <1>1, <1>2, SMTT(30) DEF Safe, QueryAnswered, Own
<1>12. StatusIsOwn'
  <2>. SUFFICES ASSUME NEW q \in Queries, outcome'[q] = "ok", asked'[q] = "status"
                PROVE  told'[q] = Alone(q)'
    BY DEF StatusIsOwn
  <2>1. q # c /\ outcome[q] = "ok"
    BY <1>1
  <2>2. told[q] = Alone(q)
    BY <1>1, <2>1 DEF Safe, StatusIsOwn
  <2>3. Alone(q)' = Alone(q)
    BY <1>1, <1>2 DEF Alone
  <2>. QED  BY <1>1, <2>2, <2>3
<1>. QED  BY <1>6, <1>7, <1>8, <1>9, <1>10, <1>11, <1>12 DEF Safe

\* An invocation that is in the call it ends.
LEMMA SucceedEnds ==
  ASSUME Safe, NEW c \in Ops
  PROVE  /\ Call!Succeed(<<c, "action">>) =>
              pc[c] = "action" /\ CallEnds(c) /\ runs[<<c, "action">>] = 1
         /\ c \in Senders /\ Call!Succeed(<<c, "poll">>) =>
              pc[c] = "poll" /\ CallEnds(c)
<1>1. ASSUME Call!Succeed(<<c, "action">>)
      PROVE  pc[c] = "action" /\ CallEnds(c) /\ runs[<<c, "action">>] = 1
  <2>1. <<c, "action">> \in Requests
    BY RequestsApart
  <2>2. /\ status[<<c, "action">>] = "pending" /\ status'[<<c, "action">>] = "ok"
        /\ runs' = runs /\ runs[<<c, "action">>] = 1
        /\ \A q \in Requests \ {<<c, "action">>} : status'[q] = status[q]
        /\ status' \in [Requests -> {"idle", "pending", "ok", "failed"}]
    BY <1>1, <2>1, CallSteps DEF Safe
  <2>3. pc[c] = "action"
    BY <2>2 DEF Safe, CallsAccounted, Accounted
  <2>. QED  BY <2>2, <2>3 DEF CallEnds
<1>2. ASSUME c \in Senders, Call!Succeed(<<c, "poll">>)
      PROVE  pc[c] = "poll" /\ CallEnds(c)
  <2>1. <<c, "poll">> \in Requests
    BY <1>2, RequestsApart
  <2>2. /\ status[<<c, "poll">>] = "pending" /\ status'[<<c, "poll">>] = "ok"
        /\ runs' = runs /\ runs[<<c, "poll">>] = 1
        /\ \A q \in Requests \ {<<c, "poll">>} : status'[q] = status[q]
        /\ status' \in [Requests -> {"idle", "pending", "ok", "failed"}]
    BY <1>2, <2>1, CallSteps DEF Safe
  <2>3. pc[c] = "poll"
    BY <1>2, <2>2 DEF Safe, PollsAccounted, PollAccounted
  <2>. QED  BY <2>2, <2>3 DEF CallEnds
<1>. QED  BY <1>1, <1>2

\* set_advanced_parameter returns or raises.
LEMMA SetReturnsKeeps ==
  ASSUME Safe, NEW c \in Ops, SetReturns(c)
  PROVE  Safe'
<1>1. pc[c] = "action" /\ CallEnds(c) /\ c \in Commands
  BY SucceedEnds DEF SetReturns
<1>2. PICK how \in {"ok", "failed"}, whose \in SUBSET (Told(reply[c]) \cap Commands) :
        Return(c, how, whose)
  BY <1>1, VerdictReturns DEF SetReturns, Safe
<1>. QED  BY <1>1, <1>2, EndKeeps DEF SetReturns

\* send_command returns or raises after its poll.
LEMMA PollReturnsKeeps ==
  ASSUME Safe, NEW c \in Ops, PollReturns(c)
  PROVE  Safe'
<1>1. pc[c] = "poll" /\ CallEnds(c) /\ c \in Commands
  BY SucceedEnds DEF PollReturns, Safe, CallsAccounted, Accounted
<1>2. PICK how \in {"ok", "failed"}, whose \in SUBSET (Told(reply[c]) \cap Commands) :
        Return(c, how, whose)
  BY <1>1, VerdictReturns DEF PollReturns, Safe
<1>. QED  BY <1>1, <1>2, EndKeeps DEF PollReturns

\* A call fails.
LEMMA CallFailsKeeps ==
  ASSUME Safe, NEW c \in Ops, CallFails(c)
  PROVE  Safe'
<1>1. <<c, pc[c]>> \in Requests
  BY RequestsApart DEF CallFails, Safe, CallsAccounted, Accounted
<1>2. CallEnds(c)
  BY <1>1, CallSteps DEF CallFails, CallEnds, Safe
<1>. QED  BY <1>2, EndKeeps DEF CallFails

\* The task is cancelled while it sleeps.
LEMMA CancelSleepKeeps ==
  ASSUME Safe, NEW c \in Ops, CancelSleep(c)
  PROVE  Safe'
<1>1. <<c, "sleep">> \notin Requests
  BY DEF Requests
<1>2. CallEnds(c)
  BY <1>1 DEF CancelSleep, CallEnds, Safe, TypeOK
<1>. QED  BY <1>2, EndKeeps DEF CancelSleep
-----------------------------------------------------------------------------
(* What get_status makes of a reply.                                       *)

\* If one message lists doors, the first of them is what the caller is told.
LEMMA StatusFromOne ==
  ASSUME NEW messages, NEW n \in Nat,
         {i \in Completed(messages) : messages[i].body.devices # <<>>} = {n}
  PROVE  Result("status", messages) =
           <<[door |-> Head(messages[n].body.devices).id,
              activity |-> ParseActivity(Head(messages[n].body.devices).log)]>>
<1>. DEFINE positions == {i \in Completed(messages) :
                            messages[i].body.devices # <<>>}
<1>1. First(messages, positions) = messages[n]
  BY FirstIsOne
<1>2. GetStatus(messages) =
           <<[door |-> Head(messages[n].body.devices).id,
              activity |-> ParseActivity(Head(messages[n].body.devices).log)]>>
  BY <1>1 DEF GetStatus
<1>. QED  BY <1>2 DEF Result

\* If no message lists doors, the caller is told of none.
LEMMA StatusFromNone ==
  ASSUME NEW messages,
         {i \in Completed(messages) : messages[i].body.devices # <<>>} = {}
  PROVE  Result("status", messages) = <<>>
  BY DEF Result, GetStatus

\* A status lists a door, an empty body none.
LEMMA StatusLists ==
  /\ Truth("status").devices # <<>>
  /\ NoBody.devices = <<>>
<1>1. Truth("status").devices # <<>>
  BY DEF Truth, Body, Entry, Logged
<1>2. NoBody.devices = <<>>
  BY DEF NoBody, Body
<1>. QED  BY <1>1, <1>2

\* The first message that lists doors is the query's own.
LEMMA StatusOfOwn ==
  ASSUME Safe, NEW q \in Queries, asked[q] = "status", pc[q] = "action",
         runs[<<q, "action">>] = 1
  PROVE  Result("status", reply[q]) = Alone(q)
<1>. DEFINE n == Len(reply[q])
            one == <<Message(q, 0, Truth("status"))>>
            Listing(messages) == {i \in Completed(messages) :
                                    messages[i].body.devices # <<>>}
<1>1. /\ fate[q] \in {"ok", "failed"} /\ reply[q] # <<>>
      /\ reply[q][n] = Own(q, IF fate[q] = "ok" THEN 0 ELSE -1)
      /\ \A i \in DOMAIN reply[q] : i # n => reply[q][i].body = NoBody
  BY DEF Safe, QueryAnswered
<1>2. n \in Nat /\ n \in DOMAIN reply[q]
  BY <1>1, LenProperties DEF Safe, TypeOK
<1>3. \A i \in Listing(reply[q]) : i = n
  BY <1>1, StatusLists DEF Completed
<1>4. CASE fate[q] = "ok"
  <2>1. reply[q][n].state = 0 /\ reply[q][n].body = Truth("status")
    BY <1>1, <1>4 DEF Own, Message
  <2>2. Listing(reply[q]) = {n}
    BY <1>2, <1>3, <2>1, StatusLists DEF Completed
  <2>3. one[1].state = 0 /\ one[1].body = Truth("status") /\ DOMAIN one = {1}
    BY DEF Message
  <2>4. Listing(one) = {1}
    BY <2>3, StatusLists DEF Completed
  <2>5. Result("status", reply[q]) = Result("status", one)
    <3>. DEFINE doors == Truth("status").devices
                told1 == <<[door |-> Head(doors).id,
                            activity |-> ParseActivity(Head(doors).log)]>>
    <3>1. Result("status", reply[q]) = told1
      BY <1>2, <2>1, <2>2, StatusFromOne, SMTT(30)
    <3>2. one[1].body = Truth("status") /\ Listing(one) = {1}
      BY <2>3, <2>4
    <3>. HIDE DEF one
    <3>3. Result("status", one) = told1
      BY <3>2, StatusFromOne
    <3>. QED  BY <3>1, <3>3
  <2>. QED  BY <1>4, <2>5 DEF Alone
<1>5. CASE fate[q] = "failed"
  <2>1. reply[q][n].state = -1
    BY <1>1, <1>5 DEF Own, Message
  <2>2. Listing(reply[q]) = {}
    BY <1>3, <2>1 DEF Completed
  <2>. QED  BY <1>5, <2>2, StatusFromNone DEF Alone
<1>. QED  BY <1>1, <1>4, <1>5
-----------------------------------------------------------------------------
(* The other steps of the client.                                          *)

\* Emptying a reply leaves the other places a failure can be in alone.
LEMMA EmptiedKeeps ==
  ASSUME Safe, NEW c \in Ops, reply'[c] = <<>>,
         \A d \in Ops \ {c} : reply'[d] = reply[d],
         UNCHANGED <<blame, fate, landed>>
  PROVE  OwnersKnown' /\ FailuresOnce'
<1>1. OwnersKnown'
  <2>1. DOMAIN reply'[c] = {} /\ \A d \in Ops \ {c} : reply'[d] = reply[d]
    OBVIOUS
  <2>2. \A d \in Ops : \A i \in DOMAIN reply'[d] :
          reply'[d][i].owner \in Commands \cup {d}
    BY <2>1 DEF Safe, OwnersKnown
  <2>. QED  BY <2>2 DEF Safe, OwnersKnown
<1>2. FailuresOnce'
  <2>1. Told(reply'[c]) = {} /\ Told(landed)' = Told(landed) /\ blame' = blame
    BY ToldBySingle
  <2>2. FailedOps' = FailedOps
    BY DEF FailedOps
  <2>3. \A d \in Ops \ {c} : Told(reply'[d]) = Told(reply[d])
    OBVIOUS
  <2>. QED  BY <2>1, <2>2, <2>3 DEF Safe, FailuresOnce
<1>. QED  BY <1>1, <1>2

\* A query is told its own answer if it asked for the status.
LEMMA QueryReturnsKeeps ==
  ASSUME Safe, NEW c \in Ops, QueryReturns(c)
  PROVE  Safe'
<1>1. /\ pc[c] = "action" /\ CallEnds(c) /\ c \in Queries
      /\ runs[<<c, "action">>] = 1
  BY SucceedEnds DEF QueryReturns
<1>2. /\ pc'[c] = "done" /\ outcome'[c] = "ok" /\ reply'[c] = <<>>
      /\ \A d \in Ops \ {c} :
           pc'[d] = pc[d] /\ outcome'[d] = outcome[d] /\ reply'[d] = reply[d]
      /\ DOMAIN told' = Queries /\ told'[c] = Result(asked[c], reply[c])
      /\ \A q \in Queries \ {c} : told'[q] = told[q]
      /\ asked' = asked /\ blame' = blame /\ fate' = fate /\ landed' = landed
      /\ calm' = calm
      /\ pc' \in [Ops -> {"idle", "action", "sleep", "poll", "done"}]
      /\ outcome' \in [Ops -> {"none", "ok", "failed", "unreachable",
                               "cancelled"}]
      /\ reply' \in [Ops -> Seq(Messages)]
  BY <1>1, ToldBySingle DEF QueryReturns, Safe, TypeOK
<1>3. /\ runs' = runs /\ runs[<<c, "action">>] = 1
      /\ status' \in [Requests -> {"idle", "pending", "ok", "failed"}]
      /\ status'[<<c, "action">>] \in {"ok", "failed"}
      /\ \A d \in Ops \ {c} : status'[<<d, "action">>] = status[<<d, "action">>]
      /\ \A d \in Senders : status'[<<d, "poll">>] = status[<<d, "poll">>]
  BY <1>1, RequestsApart DEF CallEnds
<1>4. TypeOK'
  <2>1. calm' \in BOOLEAN
    BY <1>2, Zenon DEF Safe, TypeOK
  <2>. QED  BY <1>2, <1>3, <2>1 DEF Safe, TypeOK
<1>5. CallsAccounted'
  <2>. SUFFICES ASSUME NEW d \in Ops, Accounted(d)
                PROVE  Accounted(d)'
    BY DEF Safe, CallsAccounted
  <2>1. CASE d = c
    BY <1>1, <1>2, <1>3, <2>1 DEF Accounted
  <2>2. CASE d # c
    BY <1>2, <1>3, <2>2 DEF Accounted
  <2>. QED  BY <2>1, <2>2
<1>6. PollsAccounted'
  <2>1. \A d \in Senders : d # c /\ pc'[d] = pc[d]
    BY <1>1, <1>2
  <2>. QED  BY <1>3, <2>1 DEF Safe, PollsAccounted, PollAccounted
<1>7. OwnersKnown' /\ FailuresOnce'
  BY <1>2, EmptiedKeeps
<1>8. QueryAnswered'
  <2>1. \A q \in Queries :
          pc'[q] = "action" => pc[q] = "action" /\ reply'[q] = reply[q]
    BY <1>2
  <2>2. asked' = asked /\ fate' = fate /\ runs' = runs
    BY <1>2, <1>3
  <2>. QED  BY <2>1, <2>2 DEF Safe, QueryAnswered, Own
<1>9. StatusIsOwn'
  <2>. SUFFICES ASSUME NEW q \in Queries, outcome'[q] = "ok", asked'[q] = "status"
                PROVE  told'[q] = Alone(q)'
    BY DEF StatusIsOwn
  <2>1. Alone(q)' = Alone(q)
    BY <1>2 DEF Alone
  <2>2. CASE q = c
    <3>1. asked[c] = "status"
      BY <1>2, <2>2
    <3>. QED  BY <1>1, <1>2, <1>3, <2>1, <2>2, <3>1, StatusOfOwn
  <2>3. CASE q # c
    BY <1>2, <2>1, <2>3 DEF Safe, StatusIsOwn
  <2>. QED  BY <2>2, <2>3
<1>. QED  BY <1>4, <1>5, <1>6, <1>7, <1>8, <1>9 DEF Safe

\* send_command goes to sleep.
LEMMA SleepKeeps ==
  ASSUME Safe, NEW c \in Senders, ActionReturns(c),
         pc' = [pc EXCEPT ![c] = "sleep"], reply' = [reply EXCEPT ![c] = <<>>],
         UNCHANGED local
  PROVE  Safe'
<1>1. /\ pc[c] = "action" /\ CallEnds(c) /\ c \in Ops
      /\ runs[<<c, "action">>] = 1
  BY SucceedEnds DEF ActionReturns
<1>2. /\ pc'[c] = "sleep" /\ reply'[c] = <<>>
      /\ \A d \in Ops \ {c} : pc'[d] = pc[d] /\ reply'[d] = reply[d]
      /\ asked' = asked /\ outcome' = outcome /\ told' = told /\ blame' = blame
      /\ fate' = fate /\ landed' = landed /\ calm' = calm
      /\ pc' \in [Ops -> {"idle", "action", "sleep", "poll", "done"}]
      /\ reply' \in [Ops -> Seq(Messages)]
  BY <1>1, ToldBySingle DEF ActionReturns, Safe, TypeOK, local
<1>3. /\ runs' = runs /\ runs[<<c, "action">>] = 1
      /\ status' \in [Requests -> {"idle", "pending", "ok", "failed"}]
      /\ status'[<<c, "action">>] \in {"ok", "failed"}
      /\ \A d \in Ops \ {c} : status'[<<d, "action">>] = status[<<d, "action">>]
      /\ \A d \in Senders : status'[<<d, "poll">>] = status[<<d, "poll">>]
  BY <1>1, RequestsApart DEF CallEnds
<1>4. TypeOK'
  <2>1. calm' \in BOOLEAN
    BY <1>2, Zenon DEF Safe, TypeOK
  <2>. QED  BY <1>2, <1>3, <2>1 DEF Safe, TypeOK
<1>5. CallsAccounted'
  <2>. SUFFICES ASSUME NEW d \in Ops, Accounted(d)
                PROVE  Accounted(d)'
    BY DEF Safe, CallsAccounted
  <2>1. CASE d = c
    BY <1>1, <1>2, <1>3, <2>1 DEF Accounted
  <2>2. CASE d # c
    BY <1>2, <1>3, <2>2 DEF Accounted
  <2>. QED  BY <2>1, <2>2
<1>6. PollsAccounted'
  <2>. SUFFICES ASSUME NEW d \in Senders, PollAccounted(d)
                PROVE  PollAccounted(d)'
    BY DEF Safe, PollsAccounted
  <2>1. CASE d = c
    BY <1>1, <1>2, <1>3, <2>1 DEF PollAccounted
  <2>2. CASE d # c
    BY <1>2, <1>3, <2>2 DEF PollAccounted
  <2>. QED  BY <2>1, <2>2
<1>7. OwnersKnown' /\ FailuresOnce'
  BY <1>2, EmptiedKeeps
<1>8. QueryAnswered'
  BY <1>1, <1>2, <1>3 DEF Safe, QueryAnswered, Own
<1>9. StatusIsOwn'
  BY <1>2 DEF Safe, StatusIsOwn, Alone
<1>. QED  BY <1>4, <1>5, <1>6, <1>7, <1>8, <1>9 DEF Safe

\* send_command goes on, returns or raises after its action.
LEMMA ActionReturnsKeeps ==
  ASSUME Safe, NEW c \in Ops, ActionReturns(c)
  PROVE  Safe'
<1>1. pc[c] = "action" /\ CallEnds(c) /\ c \in Senders
  BY SucceedEnds DEF ActionReturns
<1>2. CASE \E how \in {"ok", "failed"} :
             \E whose \in SUBSET (Told(reply[c]) \cap Commands) :
               Return(c, how, whose)
  BY <1>1, <1>2, EndKeeps DEF ActionReturns
<1>3. CASE /\ pc' = [pc EXCEPT ![c] = "sleep"]
           /\ reply' = [reply EXCEPT ![c] = <<>>]
           /\ UNCHANGED local
  BY <1>1, <1>3, SleepKeeps
<1>. QED  BY <1>1, <1>2, <1>3, ActionOutcomes DEF Safe

\* An invocation is made: its request is issued.
LEMMA SendKeeps ==
  ASSUME Safe, NEW c \in Ops, Send(c)
  PROVE  Safe'
<1>1. <<c, "action">> \in Requests
  BY RequestsApart
<1>2. /\ runs' = runs
      /\ status' \in [Requests -> {"idle", "pending", "ok", "failed"}]
      /\ status[<<c, "action">>] = "idle" /\ status'[<<c, "action">>] = "pending"
      /\ \A d \in Ops \ {c} : status'[<<d, "action">>] = status[<<d, "action">>]
      /\ \A d \in Senders : status'[<<d, "poll">>] = status[<<d, "poll">>]
  BY <1>1, CallSteps, RequestsApart DEF Send, Safe
<1>3. /\ pc[c] = "idle" /\ pc'[c] = "action"
      /\ \A d \in Ops \ {c} : pc'[d] = pc[d]
      /\ reply' = reply /\ outcome' = outcome /\ told' = told /\ blame' = blame
      /\ fate' = fate /\ landed' = landed /\ calm' = calm
      /\ pc' \in [Ops -> {"idle", "action", "sleep", "poll", "done"}]
  BY DEF Send, Safe, TypeOK
<1>4. /\ asked' \in [Queries -> Kinds]
      /\ \A q \in Queries \ {c} : asked'[q] = asked[q]
  <2>1. asked \in [Queries -> Kinds]
    BY DEF Safe, TypeOK
  <2>2. CASE UNCHANGED asked
    BY <2>1, <2>2
  <2>3. CASE c \in Queries /\ \E k \in Kinds : asked' = [asked EXCEPT ![c] = k]
    BY <2>1, <2>3
  <2>. QED  BY <2>2, <2>3 DEF Send
<1>5. TypeOK'
  <2>1. calm' \in BOOLEAN
    BY <1>3, Zenon DEF Safe, TypeOK
  <2>. QED  BY <1>2, <1>3, <1>4, <2>1 DEF Safe, TypeOK
<1>6. CallsAccounted'
  <2>. SUFFICES ASSUME NEW d \in Ops, Accounted(d)
                PROVE  Accounted(d)'
    BY DEF Safe, CallsAccounted
  <2>1. CASE d = c
    BY <1>2, <1>3, <2>1 DEF Accounted
  <2>2. CASE d # c
    BY <1>2, <1>3, <2>2 DEF Accounted
  <2>. QED  BY <2>1, <2>2
<1>7. PollsAccounted'
  <2>. SUFFICES ASSUME NEW d \in Senders, PollAccounted(d)
                PROVE  PollAccounted(d)'
    BY DEF Safe, PollsAccounted
  <2>1. CASE d = c
    BY <1>2, <1>3, <2>1 DEF PollAccounted
  <2>2. CASE d # c
    BY <1>2, <1>3, <2>2 DEF PollAccounted
  <2>. QED  BY <2>1, <2>2
<1>8. OwnersKnown'
  BY <1>3 DEF Safe, OwnersKnown
<1>9. FailuresOnce'
  BY <1>3 DEF Safe, FailuresOnce, FailedOps
<1>10. QueryAnswered'
  <2>. SUFFICES ASSUME NEW q \in Queries, pc'[q] = "action",
                       runs'[<<q, "action">>] = 1
                PROVE  /\ fate'[q] \in {"ok", "failed"}
                       /\ reply'[q] # <<>>
                       /\ reply'[q][Len(reply'[q])] =
                            Own(q, IF fate[q] = "ok" THEN 0 ELSE -1)'
                       /\ \A i \in DOMAIN reply'[q] :
                            i # Len(reply'[q]) => reply'[q][i].body = NoBody
    BY DEF QueryAnswered
  <2>1. q # c
    BY <1>2 DEF Safe, CallsAccounted, Accounted
  <2>2. pc[q] = "action" /\ asked'[q] = asked[q]
    BY <1>3, <1>4, <2>1
  <2>. QED  BY <1>2, <1>3, <2>2 DEF Safe, QueryAnswered, Own
<1>11. StatusIsOwn'
  <2>. SUFFICES ASSUME NEW q \in Queries, outcome'[q] = "ok", asked'[q] = "status"
                PROVE  told'[q] = Alone(q)'
    BY DEF StatusIsOwn
  <2>1. q # c
    BY <1>3 DEF Safe, CallsAccounted, Accounted
  <2>. QED  BY <1>3, <1>4, <2>1 DEF Safe, StatusIsOwn, Alone
<1>. QED  BY <1>5, <1>6, <1>7, <1>8, <1>9, <1>10, <1>11 DEF Safe

\* send_command wakes up and issues its poll.
LEMMA WakeKeeps ==
  ASSUME Safe, NEW c \in Ops, Wake(c)
  PROVE  Safe'
<1>1. c \in Senders /\ pc[c] = "sleep"
  BY DEF Wake, Safe, CallsAccounted, Accounted
<1>2. <<c, "poll">> \in Requests
  BY <1>1, RequestsApart
<1>3. /\ runs' = runs
      /\ status' \in [Requests -> {"idle", "pending", "ok", "failed"}]
      /\ status[<<c, "poll">>] = "idle" /\ status'[<<c, "poll">>] = "pending"
      /\ \A d \in Ops : status'[<<d, "action">>] = status[<<d, "action">>]
      /\ \A d \in Senders \ {c} : status'[<<d, "poll">>] = status[<<d, "poll">>]
  BY <1>2, CallSteps, RequestsApart DEF Wake, Safe
<1>4. /\ pc'[c] = "poll" /\ \A d \in Ops \ {c} : pc'[d] = pc[d]
      /\ asked' = asked /\ reply' = reply /\ outcome' = outcome /\ told' = told
      /\ blame' = blame /\ fate' = fate /\ landed' = landed /\ calm' = calm
      /\ pc' \in [Ops -> {"idle", "action", "sleep", "poll", "done"}]
  BY DEF Wake, Safe, TypeOK, local
<1>5. TypeOK'
  <2>1. calm' \in BOOLEAN
    BY <1>4, Zenon DEF Safe, TypeOK
  <2>. QED  BY <1>3, <1>4, <2>1 DEF Safe, TypeOK
<1>6. CallsAccounted'
  <2>. SUFFICES ASSUME NEW d \in Ops, Accounted(d)
                PROVE  Accounted(d)'
    BY DEF Safe, CallsAccounted
  <2>1. CASE d = c
    BY <1>1, <1>3, <1>4, <2>1 DEF Accounted
  <2>2. CASE d # c
    BY <1>3, <1>4, <2>2 DEF Accounted
  <2>. QED  BY <2>1, <2>2
<1>7. PollsAccounted'
  <2>. SUFFICES ASSUME NEW d \in Senders, PollAccounted(d)
                PROVE  PollAccounted(d)'
    BY DEF Safe, PollsAccounted
  <2>1. CASE d = c
    BY <1>3, <1>4, <2>1 DEF PollAccounted
  <2>2. CASE d # c
    BY <1>3, <1>4, <2>2 DEF PollAccounted
  <2>. QED  BY <2>1, <2>2
<1>8. OwnersKnown'
  BY <1>4 DEF Safe, OwnersKnown
<1>9. FailuresOnce'
  BY <1>4 DEF Safe, FailuresOnce, FailedOps
<1>10. QueryAnswered'
  <2>1. \A q \in Queries : pc'[q] = pc[q]
    BY <1>1, <1>4
  <2>. QED  BY <1>3, <1>4, <2>1 DEF Safe, QueryAnswered, Own
<1>11. StatusIsOwn'
  BY <1>4 DEF Safe, StatusIsOwn, Alone
<1>. QED  BY <1>5, <1>6, <1>7, <1>8, <1>9, <1>10, <1>11 DEF Safe
-----------------------------------------------------------------------------
(* The hub.                                                                *)

\* Messages that are delivered, or lost, tell of what was in the mailbox and of
\* what has failed just now.
LEMMA DeliveryKeeps ==
  ASSUME Safe, NEW c \in Ops, NEW messages, NEW fresh,
         fresh \cap FailedOps = {}, FailedOps' = FailedOps \cup fresh,
         Told(messages) \subseteq (Told(landed) \ Told(landed')) \cup fresh,
         Told(landed') \subseteq Told(landed),
         reply' = reply \/ reply' = [reply EXCEPT ![c] = messages],
         blame' = blame
  PROVE  FailuresOnce'
<1>1. \A d \in Ops \ {c} : Told(reply'[d]) = Told(reply[d])
  BY DEF Safe, TypeOK
<1>2. Told(reply'[c]) = Told(reply[c]) \/ Told(reply'[c]) = Told(messages)
  BY DEF Safe, TypeOK
<1>3. \A d \in Ops : Told(reply[d]) \cup blame[d] \subseteq FailedOps
  BY DEF Safe, FailuresOnce
<1>4. Told(landed)' = Told(landed')
  OBVIOUS
<1>5. Told(landed)' \subseteq FailedOps'
  BY <1>4 DEF Safe, FailuresOnce
<1>6. ASSUME NEW d \in Ops
      PROVE  /\ Told(reply'[d]) \cup blame'[d] \subseteq FailedOps'
             /\ Told(landed)' \cap (Told(reply'[d]) \cup blame'[d]) = {}
             /\ \A e \in Ops : Told(reply'[d]) \cap blame'[e] = {}
             /\ \A e \in Ops \ {d} :
                  /\ Told(reply'[d]) \cap Told(reply'[e]) = {}
                  /\ blame'[d] \cap blame'[e] = {}
  <2>. DEFINE new == Told(reply'[c])
  <2>1. new \subseteq FailedOps' /\ new \cap Told(landed)' = {}
    BY <1>2, <1>3, <1>4 DEF Safe, FailuresOnce
  <2>2. \A e \in Ops : new \cap blame[e] = {}
    BY <1>2, <1>3 DEF Safe, FailuresOnce
  <2>3. \A e \in Ops \ {c} : new \cap Told(reply[e]) = {}
    BY <1>2, <1>3 DEF Safe, FailuresOnce
  <2>. HIDE DEF new
  <2>4. /\ Told(reply[d]) \cup blame[d] \subseteq FailedOps
        /\ Told(landed) \cap (Told(reply[d]) \cup blame[d]) = {}
        /\ \A e \in Ops : Told(reply[d]) \cap blame[e] = {}
        /\ \A e \in Ops \ {d} :
             /\ Told(reply[d]) \cap Told(reply[e]) = {}
             /\ blame[d] \cap blame[e] = {}
    BY DEF Safe, FailuresOnce
  <2>5. CASE d = c
    BY <1>1, <1>4, <2>1, <2>2, <2>3, <2>4, <2>5 DEF new
  <2>6. CASE d # c
    <3>1. Told(reply'[d]) = Told(reply[d])
      BY <1>1, <2>6
    <3>2. \A e \in Ops \ {d} : Told(reply'[d]) \cap Told(reply'[e]) = {}
      BY <1>1, <2>3, <2>4, <2>6, <3>1 DEF new
    <3>. QED  BY <1>4, <2>4, <3>1, <3>2
  <2>. QED  BY <2>5, <2>6
<1>. QED  BY <1>4, <1>5, <1>6 DEF FailuresOnce

\* A result lands in the mailbox.
LEMMA HubFinishKeeps ==
  ASSUME Safe, NEW c \in Ops, HubFinish(c)
  PROVE  Safe'
<1>1. PICK s \in {0, -1} :
        /\ fate' = [fate EXCEPT ![c] = FateOf(s)]
        /\ landed' = Append(landed, Message(c, s, NoBody))
  BY DEF HubFinish
<1>. DEFINE m == Message(c, s, NoBody)
<1>2. /\ fate[c] = "processing" /\ status' = status /\ runs' = runs /\ pc' = pc
      /\ reply' = reply /\ asked' = asked /\ outcome' = outcome
      /\ told' = told /\ blame' = blame /\ calm' = calm
  BY DEF HubFinish, local
<1>3. /\ fate'[c] = FateOf(s) /\ \A d \in Ops \ {c} : fate'[d] = fate[d]
      /\ FateOf(s) \in Fates \ {"none", "processing"}
      /\ FateOf(s) = "failed" <=> s = -1
      /\ fate' \in [Ops -> Fates]
  BY <1>1 DEF Safe, TypeOK, FateOf
<1>4. c \in Commands
  BY <1>2 DEF Safe, CallsAccounted, Accounted
<1>5. /\ m \in Messages /\ m.owner = c /\ m.state = s /\ m.body = NoBody
      /\ landed \in Seq(Messages) /\ landed' = Append(landed, m)
      /\ landed' \in Seq(Messages)
  <2>1. m \in Messages /\ m.owner = c /\ m.state = s /\ m.body = NoBody
    BY MessageTyped
  <2>. HIDE DEF m
  <2>2. landed \in Seq(Messages)
    BY DEF Safe, TypeOK
  <2>3. landed' = Append(landed, m)
    BY <1>1 DEF m
  <2>. QED  BY <2>1, <2>2, <2>3, AppendProperties
<1>. HIDE DEF m
<1>6. TypeOK'
  <2>1. calm' \in BOOLEAN
    BY <1>2, Zenon DEF Safe, TypeOK
  <2>. QED  BY <1>2, <1>3, <1>5, <2>1 DEF Safe, TypeOK
<1>7. CallsAccounted'
  <2>. SUFFICES ASSUME NEW d \in Ops, Accounted(d)
                PROVE  Accounted(d)'
    BY DEF Safe, CallsAccounted
  <2>1. CASE d = c
    BY <1>2, <1>3, <1>4, <2>1 DEF Accounted
  <2>2. CASE d # c
    BY <1>2, <1>3, <2>2 DEF Accounted
  <2>. QED  BY <2>1, <2>2
<1>8. PollsAccounted'
  BY <1>2 DEF Safe, PollsAccounted, PollAccounted
<1>9. OwnersKnown'
  <2>1. \A i \in DOMAIN landed' :
          landed'[i].owner \in Commands /\ landed'[i].body = NoBody
    BY <1>4, <1>5, AppendProperties, LenProperties DEF Safe, OwnersKnown
  <2>. QED  BY <1>2, <2>1 DEF Safe, OwnersKnown
<1>10. FailuresOnce'
  <2>1. Told(landed') = Told(landed) \cup (IF s = -1 THEN {c} ELSE {})
    BY <1>5, ToldOneMore
  <2>2. FailedOps' = FailedOps \cup (IF s = -1 THEN {c} ELSE {})
    BY <1>2, <1>3 DEF FailedOps
  <2>3. c \notin FailedOps
    BY <1>2 DEF FailedOps
  <2>4. \A d \in Ops : c \notin Told(reply[d]) /\ c \notin blame[d]
    BY <2>3 DEF Safe, FailuresOnce
  <2>5. Told(landed)' = Told(landed') /\ reply' = reply /\ blame' = blame
    BY <1>2
  <2>. QED  BY <2>1, <2>2, <2>3, <2>4, <2>5 DEF Safe, FailuresOnce
<1>11. QueryAnswered' /\ StatusIsOwn'
  <2>1. \A q \in Queries : fate'[q] = fate[q]
    BY <1>3, <1>4
  <2>2. QueryAnswered'
    BY <1>2, <2>1 DEF Safe, QueryAnswered, Own
  <2>3. StatusIsOwn'
    BY <1>2, <2>1 DEF Safe, StatusIsOwn, Alone
  <2>. QED  BY <2>2, <2>3
<1>. QED  BY <1>6, <1>7, <1>8, <1>9, <1>10, <1>11 DEF Safe

\* The mailbox is handed over to a poll.
LEMMA HubPollKeeps ==
  ASSUME Safe, NEW c \in Ops, HubPoll(c)
  PROVE  Safe'
<1>1. c \in Senders /\ <<c, "poll">> \in Requests
  BY RequestsApart DEF HubPoll
<1>2. /\ status' = status /\ status[<<c, "poll">>] \in {"pending", "failed"}
      /\ runs' \in [Requests -> {0, 1}] /\ runs'[<<c, "poll">>] = 1
      /\ \A d \in Ops : runs'[<<d, "action">>] = runs[<<d, "action">>]
      /\ \A d \in Senders \ {c} : runs'[<<d, "poll">>] = runs[<<d, "poll">>]
  BY <1>1, CallSteps, RequestsApart DEF HubPoll, Safe
<1>3. /\ landed' = <<>> /\ fate' = fate /\ pc' = pc /\ asked' = asked
      /\ outcome' = outcome /\ told' = told /\ blame' = blame /\ calm' = calm
      /\ reply' = reply \/ reply' = [reply EXCEPT ![c] = landed]
  BY DEF HubPoll, local, Deliver
<1>4. /\ <<>> \in Seq(Messages) /\ Told(<<>>) = {}
      /\ landed \in Seq(Messages) /\ reply \in [Ops -> Seq(Messages)]
  BY ToldBySingle DEF Safe, TypeOK
<1>5. TypeOK'
  <2>1. calm' \in BOOLEAN
    BY <1>3, Zenon DEF Safe, TypeOK
  <2>2. reply' \in [Ops -> Seq(Messages)]
    BY <1>3, <1>4
  <2>. QED  BY <1>2, <1>3, <1>4, <2>1, <2>2 DEF Safe, TypeOK
<1>6. CallsAccounted'
  <2>. SUFFICES ASSUME NEW d \in Ops, Accounted(d)
                PROVE  Accounted(d)'
    BY DEF Safe, CallsAccounted
  <2>. QED  BY <1>2, <1>3 DEF Accounted
<1>7. PollsAccounted'
  <2>. SUFFICES ASSUME NEW d \in Senders, PollAccounted(d)
                PROVE  PollAccounted(d)'
    BY DEF Safe, PollsAccounted
  <2>1. CASE d = c
    BY <1>2, <1>3, <2>1 DEF PollAccounted
  <2>2. CASE d # c
    BY <1>2, <1>3, <2>2 DEF PollAccounted
  <2>. QED  BY <2>1, <2>2
<1>8. OwnersKnown'
  <2>1. DOMAIN landed' = {}
    BY <1>3
  <2>2. \A d \in Ops : \A i \in DOMAIN reply'[d] :
          reply'[d][i].owner \in Commands \cup {d}
    BY <1>3, <1>4 DEF Safe, OwnersKnown
  <2>. QED  BY <2>1, <2>2 DEF Safe, OwnersKnown
<1>9. FailuresOnce'
  <2>1. FailedOps' = FailedOps \cup {}
    BY <1>3 DEF FailedOps
  <2>2. Told(landed') = {}
    BY <1>3, <1>4
  <2>. QED  BY <1>3, <2>1, <2>2, DeliveryKeeps
<1>10. QueryAnswered'
  <2>1. \A q \in Queries : reply'[q] = reply[q]
    BY <1>1, <1>3, <1>4
  <2>. QED  BY <1>2, <1>3, <2>1 DEF Safe, QueryAnswered, Own
<1>11. StatusIsOwn'
  BY <1>3 DEF Safe, StatusIsOwn, Alone
<1>. QED  BY <1>5, <1>6, <1>7, <1>8, <1>9, <1>10, <1>11 DEF Safe

\* What HubAct does when it gives its message the state s.
HubActs(c, s) ==
  /\ fate' = [fate EXCEPT ![c] = FateOf(s)]
  /\ \/ /\ Deliver(c, <<Own(c, s)>>)
        /\ UNCHANGED landed
     \/ /\ landed # <<>>
        /\ Deliver(c, Append(landed, Own(c, s)))
        /\ landed' = <<>>

\* HubAct, said in terms of its message.
LEMMA HubActState ==
  ASSUME NEW c \in Ops, HubAct(c)
  PROVE  \E s \in States : HubActs(c, s) /\ (c \in Queries => s # 1)
<1>1. c \in Queries <=> c \notin Commands
  OBVIOUS
<1>2. PICK s \in IF c \in Commands THEN States ELSE {0, -1} :
        LET body == IF c \in Queries /\ s = 0 THEN Truth(asked[c]) ELSE NoBody
        IN /\ fate' = [fate EXCEPT ![c] = FateOf(s)]
           /\ \/ /\ Deliver(c, <<Message(c, s, body)>>)
                 /\ UNCHANGED landed
              \/ /\ landed # <<>>
                 /\ Deliver(c, Append(landed, Message(c, s, body)))
                 /\ landed' = <<>>
  BY DEF HubAct
<1>3. HubActs(c, s)
  BY <1>2, Zenon DEF HubActs, Own
<1>4. s \in States /\ (c \in Queries => s # 1)
  BY <1>1
<1>. QED  BY <1>3, <1>4

\* The reply of an action has the hub's own answer last.
OwnLast(messages, c, s) ==
  /\ messages \in Seq(Messages) /\ messages # <<>>
  /\ messages[Len(messages)] = Own(c, s)
  /\ \A i \in DOMAIN messages : i # Len(messages) =>
       messages[i].owner \in Commands /\ messages[i].body = NoBody
  /\ Told(messages) \subseteq
       (Told(landed) \ Told(landed')) \cup (IF s = -1 THEN {c} ELSE {})

\* So it is, whether or not the hub hands over the mailbox too.
LEMMA HubActReply ==
  ASSUME Safe, NEW c \in Ops, NEW s \in States, HubActs(c, s)
  PROVE  /\ \E messages : /\ OwnLast(messages, c, s)
                          /\ reply' = IF Running(c)
                                      THEN [reply EXCEPT ![c] = messages]
                                      ELSE reply
         /\ landed' = landed \/ landed' = <<>>
<1>. DEFINE m == Own(c, s)
<1>1. /\ m \in Messages /\ m.owner = c /\ m.state = s
      /\ landed \in Seq(Messages)
  BY MessageTyped DEF Safe, TypeOK
<1>2. \A i \in DOMAIN landed :
        landed[i].owner \in Commands /\ landed[i].body = NoBody
  BY DEF Safe, OwnersKnown
<1>3. CASE /\ Deliver(c, <<m>>)
           /\ landed' = landed
  <2>. HIDE DEF m
  <2>1. /\ <<m>> \in Seq(Messages) /\ <<m>> # <<>> /\ <<m>>[Len(<<m>>)] = m
        /\ DOMAIN <<m>> = {1} /\ Len(<<m>>) = 1
        /\ Told(<<m>>) = IF s = -1 THEN {c} ELSE {}
    BY <1>1, ToldBySingle
  <2>2. OwnLast(<<m>>, c, s)
    BY <2>1 DEF OwnLast, m
  <2>. QED  BY <1>3, <2>2 DEF Deliver
<1>4. CASE /\ Deliver(c, Append(landed, m))
           /\ landed' = <<>>
  <2>. DEFINE all == Append(landed, m)
              n == Len(landed)
  <2>. HIDE DEF m
  <2>1. /\ n \in Nat /\ all \in Seq(Messages) /\ Len(all) = n + 1
        /\ DOMAIN all = 1..(n + 1) /\ all[n + 1] = m /\ DOMAIN landed = 1..n
        /\ \A i \in 1..n : all[i] = landed[i]
    BY <1>1, AppendProperties, LenProperties
  <2>2. Told(all) = Told(landed) \cup (IF s = -1 THEN {c} ELSE {})
    BY <1>1, ToldOneMore
  <2>3. Told(landed') = {}
    BY <1>4, ToldBySingle
  <2>4. all # <<>>
    BY <1>1, AppendProperties
  <2>5. \A i \in DOMAIN all : i # Len(all) => i \in DOMAIN landed /\ all[i] = landed[i]
    BY <2>1
  <2>. HIDE DEF all
  <2>6. OwnLast(all, c, s)
    BY <1>2, <2>1, <2>2, <2>3, <2>4, <2>5 DEF OwnLast, m
  <2>. QED  BY <1>4, <2>6 DEF Deliver, all
<1>. QED  BY <1>3, <1>4 DEF HubActs

\* The hub acts on a request.
LEMMA HubActKeeps ==
  ASSUME Safe, NEW c \in Ops, HubAct(c)
  PROVE  Safe'
<1>1. PICK s \in States : HubActs(c, s) /\ (c \in Queries => s # 1)
  BY HubActState
<1>2. <<c, "action">> \in Requests
  BY RequestsApart
<1>3. /\ status' = status /\ status[<<c, "action">>] \in {"pending", "failed"}
      /\ runs' \in [Requests -> {0, 1}]
      /\ runs[<<c, "action">>] = 0 /\ runs'[<<c, "action">>] = 1
      /\ \A d \in Ops \ {c} : runs'[<<d, "action">>] = runs[<<d, "action">>]
      /\ \A d \in Senders : runs'[<<d, "poll">>] = runs[<<d, "poll">>]
  BY <1>2, CallSteps, RequestsApart DEF HubAct, Safe
<1>4. /\ pc' = pc /\ asked' = asked /\ outcome' = outcome /\ told' = told
      /\ blame' = blame /\ calm' = calm
  BY DEF HubAct, local
<1>5. /\ fate'[c] = FateOf(s) /\ \A d \in Ops \ {c} : fate'[d] = fate[d]
      /\ fate' \in [Ops -> Fates]
      /\ FateOf(s) = "failed" <=> s = -1
      /\ FateOf(s) = "processing" <=> s = 1
      /\ FateOf(s) = "ok" <=> s = 0
      /\ FateOf(s) \in {"ok", "failed", "processing"}
  BY <1>1 DEF HubActs, Safe, TypeOK, FateOf
<1>6. fate[c] = "none"
  BY <1>3 DEF Safe, CallsAccounted, Accounted
<1>7. PICK messages :
        /\ OwnLast(messages, c, s)
        /\ reply' = IF Running(c) THEN [reply EXCEPT ![c] = messages] ELSE reply
  BY <1>1, HubActReply
<1>8. landed' = landed \/ landed' = <<>>
  BY <1>1, HubActReply
<1>9. reply' \in [Ops -> Seq(Messages)] /\ \A d \in Ops \ {c} : reply'[d] = reply[d]
  BY <1>7 DEF Safe, TypeOK, OwnLast
<1>10. reply'[c] = messages \/ reply'[c] = reply[c]
  BY <1>7 DEF Safe, TypeOK
<1>11. TypeOK'
  <2>1. calm' \in BOOLEAN
    BY <1>4, Zenon DEF Safe, TypeOK
  <2>2. landed' \in Seq(Messages)
    BY <1>8, ToldBySingle DEF Safe, TypeOK
  <2>. QED  BY <1>3, <1>4, <1>5, <1>9, <2>1, <2>2 DEF Safe, TypeOK
<1>12. CallsAccounted'
  <2>. SUFFICES ASSUME NEW d \in Ops, Accounted(d)
                PROVE  Accounted(d)'
    BY DEF Safe, CallsAccounted
  <2>1. CASE d = c
    BY <1>1, <1>3, <1>4, <1>5, <2>1 DEF Accounted
  <2>2. CASE d # c
    BY <1>3, <1>4, <1>5, <2>2 DEF Accounted
  <2>. QED  BY <2>1, <2>2
<1>13. PollsAccounted'
  BY <1>3, <1>4 DEF Safe, PollsAccounted, PollAccounted
<1>14. OwnersKnown'
  <2>1. \A i \in DOMAIN landed' :
          landed'[i].owner \in Commands /\ landed'[i].body = NoBody
    BY <1>8 DEF Safe, OwnersKnown
  <2>2. \A i \in DOMAIN messages : messages[i].owner \in Commands \cup {c}
    BY <1>7, MessageTyped DEF OwnLast, Safe, TypeOK
  <2>3. \A d \in Ops : \A i \in DOMAIN reply'[d] :
          reply'[d][i].owner \in Commands \cup {d}
    BY <1>9, <1>10, <2>2 DEF Safe, OwnersKnown
  <2>. QED  BY <2>1, <2>3 DEF OwnersKnown
<1>15. FailuresOnce'
  <2>. DEFINE fresh == IF s = -1 THEN {c} ELSE {}
  <2>1. fresh \cap FailedOps = {} /\ FailedOps' = FailedOps \cup fresh
    BY <1>5, <1>6 DEF FailedOps
  <2>2. Told(messages) \subseteq (Told(landed) \ Told(landed')) \cup fresh
    BY <1>7 DEF OwnLast
  <2>3. Told(landed') \subseteq Told(landed)
    BY <1>8, ToldBySingle
  <2>. HIDE DEF fresh
  <2>. QED  BY <1>4, <1>7, <2>1, <2>2, <2>3, DeliveryKeeps
<1>16. QueryAnswered'
  <2>. SUFFICES ASSUME NEW q \in Queries, pc'[q] = "action",
                       runs'[<<q, "action">>] = 1
                PROVE  /\ fate'[q] \in {"ok", "failed"}
                       /\ reply'[q] # <<>>
                       /\ reply'[q][Len(reply'[q])] =
                            Own(q, IF fate[q] = "ok" THEN 0 ELSE -1)'
                       /\ \A i \in DOMAIN reply'[q] :
                            i # Len(reply'[q]) => reply'[q][i].body = NoBody
    BY DEF QueryAnswered
  <2>1. CASE q = c
    <3>1. Running(c)
      BY <1>4, <2>1 DEF Running
    <3>2. reply'[q] = messages
      BY <1>7, <2>1, <3>1 DEF Safe, TypeOK
    <3>3. s = IF fate'[q] = "ok" THEN 0 ELSE -1
      BY <1>1, <1>5, <2>1
    <3>4. Own(q, IF fate[q] = "ok" THEN 0 ELSE -1)' = Own(c, s)
      BY <1>4, <2>1, <3>3 DEF Own
    <3>5. fate'[q] \in {"ok", "failed"}
      BY <1>1, <1>5, <2>1
    <3>. QED  BY <1>7, <3>2, <3>4, <3>5 DEF OwnLast
  <2>2. CASE q # c
    <3>1. /\ runs'[<<q, "action">>] = runs[<<q, "action">>]
          /\ fate'[q] = fate[q] /\ reply'[q] = reply[q]
      BY <1>3, <1>5, <1>9, <2>2
    <3>. QED  BY <1>4, <3>1 DEF Safe, QueryAnswered, Own
  <2>. QED  BY <2>1, <2>2
<1>17. StatusIsOwn'
  <2>. SUFFICES ASSUME NEW q \in Queries, outcome'[q] = "ok", asked'[q] = "status"
                PROVE  told'[q] = Alone(q)'
    BY DEF StatusIsOwn
  <2>1. q # c
    BY <1>3, <1>4 DEF Safe, CallsAccounted, Accounted
  <2>. QED  BY <1>4, <1>5, <2>1 DEF Safe, StatusIsOwn, Alone
<1>. QED  BY <1>11, <1>12, <1>13, <1>14, <1>15, <1>16, <1>17 DEF Safe
-----------------------------------------------------------------------------
(* In every state, calm or not.                                            *)

\* At first nothing has been asked for or told.
LEMMA InitSafe == Init => Safe
<1>. SUFFICES ASSUME Init PROVE Safe
  OBVIOUS
<1>1. /\ status = [c \in Requests |-> "idle"] /\ runs = [c \in Requests |-> 0]
      /\ pc = [c \in Ops |-> "idle"] /\ asked = [q \in Queries |-> "status"]
      /\ outcome = [c \in Ops |-> "none"] /\ told = [q \in Queries |-> <<>>]
      /\ blame = [c \in Ops |-> {}] /\ fate = [c \in Ops |-> "none"]
      /\ landed = <<>> /\ reply = [c \in Ops |-> <<>>]
  BY DEF Init, Call!Init
<1>2. <<>> \in Seq(Messages) /\ Told(<<>>) = {}
  BY ToldBySingle
<1>3. TypeOK
  <2>1. calm \in BOOLEAN
    BY Zenon DEF Init
  <2>. QED  BY <1>1, <1>2, <2>1 DEF TypeOK, Kinds
<1>4. CallsAccounted /\ PollsAccounted
  BY <1>1, RequestsApart DEF CallsAccounted, Accounted, PollsAccounted,
                             PollAccounted
<1>5. OwnersKnown
  BY <1>1 DEF OwnersKnown
<1>6. FailuresOnce
  BY <1>1, <1>2 DEF FailuresOnce
<1>7. QueryAnswered /\ StatusIsOwn
  BY <1>1 DEF QueryAnswered, StatusIsOwn
<1>. QED  BY <1>3, <1>4, <1>5, <1>6, <1>7 DEF Safe

\* A step that changes nothing keeps everything.
LEMMA StutterKeeps ==
  ASSUME Safe, UNCHANGED vars
  PROVE  Safe'
<1>1. /\ calm' = calm /\ status' = status /\ runs' = runs /\ pc' = pc
      /\ asked' = asked /\ outcome' = outcome /\ told' = told /\ blame' = blame
      /\ fate' = fate /\ landed' = landed /\ reply' = reply
  BY DEF vars
<1>2. TypeOK'
  <2>1. calm' \in BOOLEAN
    BY <1>1, Zenon DEF Safe, TypeOK
  <2>. QED  BY <1>1, <2>1 DEF Safe, TypeOK
<1>3. CallsAccounted' /\ PollsAccounted'
  BY <1>1 DEF Safe, CallsAccounted, Accounted, PollsAccounted, PollAccounted
<1>4. OwnersKnown' /\ FailuresOnce'
  BY <1>1 DEF Safe, OwnersKnown, FailuresOnce, FailedOps
<1>5. QueryAnswered'
  BY <1>1 DEF Safe, QueryAnswered, Own
<1>6. StatusIsOwn'
  BY <1>1 DEF Safe, StatusIsOwn, Alone
<1>. QED  BY <1>2, <1>3, <1>4, <1>5, <1>6 DEF Safe

\* No step of any action breaks what holds in every state.
LEMMA NextSafe == Safe /\ [Next]_vars => Safe'
<1>. SUFFICES ASSUME Safe, [Next]_vars PROVE Safe'
  OBVIOUS
<1>1. ASSUME NEW c \in Ops,
             \/ Send(c) \/ ActionReturns(c) \/ SetReturns(c) \/ QueryReturns(c)
             \/ Wake(c) \/ PollReturns(c) \/ CallFails(c) \/ CancelSleep(c)
             \/ HubAct(c) \/ HubFinish(c) \/ HubPoll(c)
      PROVE  Safe'
  BY <1>1, SendKeeps, ActionReturnsKeeps, SetReturnsKeeps, QueryReturnsKeeps,
     WakeKeeps, PollReturnsKeeps, CallFailsKeeps, CancelSleepKeeps, HubActKeeps,
     HubFinishKeeps, HubPollKeeps
<1>2. ASSUME Over \/ UNCHANGED vars
      PROVE  Safe'
  BY <1>2, StutterKeeps DEF Over
<1>. QED  BY <1>1, <1>2 DEF Next

\* Safe is an inductive invariant.
THEOREM SafeInvariance == Spec => []Safe
  BY InitSafe, NextSafe, PTL DEF Spec

\* Every variable always holds a value of its kind.
THEOREM TypeCorrect == Spec => []TypeOK
<1>1. Safe => TypeOK
  BY DEF Safe
<1>. QED  BY <1>1, SafeInvariance, PTL

\* Whatever is lost, late or cancelled, and whoever runs at once, an error of
\* send_command or set_advanced_parameter (_raise_for_error) tells of a command
\* that did fail, and no other error tells of it.
THEOREM ErrorsAreReal == Spec => []EveryErrorIsReal
<1>1. Safe => EveryErrorIsReal
  <2>. SUFFICES ASSUME Safe, NEW c \in Commands, NEW f \in blame[c]
                PROVE  /\ fate[f] = "failed"
                       /\ \A d \in Commands \ {c} : f \notin blame[d]
    BY Zenon DEF EveryErrorIsReal
  <2>1. blame[c] \subseteq FailedOps
    BY DEF Safe, FailuresOnce
  <2>2. \A d \in Ops \ {c} : blame[c] \cap blame[d] = {}
    BY DEF Safe, FailuresOnce
  <2>. QED  BY <2>1, <2>2 DEF FailedOps
<1>. QED  BY <1>1, SafeInvariance, PTL

\* get_status tells what the hub said of the doors in answer to it, whichever
\* results of commands come with the answer.
THEOREM StatusesAreOwn == Spec => []StatusIsOwn
<1>1. Safe => StatusIsOwn
  BY DEF Safe
<1>. QED  BY <1>1, SafeInvariance, PTL
-----------------------------------------------------------------------------
(* In calm surroundings.                                                   *)

\* A step of one invocation while no other is running.
LEMMA CalmStep ==
  ASSUME calm, Calm, calm' = calm, NEW c \in Ops,
         \A d \in Ops \ {c} :
           /\ ~Running(d)
           /\ pc'[d] = pc[d] /\ outcome'[d] = outcome[d] /\ blame'[d] = blame[d]
           /\ fate'[d] = fate[d]
           /\ d \in Queries => told'[d] = told[d] /\ asked'[d] = asked[d],
         Calmly(c)', Running(c)' \/ landed' = <<>>,
         \A r \in Requests : status'[r] # "failed"
  PROVE  Calm'
<1>1. ASSUME NEW d \in Ops \ {c}
      PROVE  Calmly(d)' /\ ~Running(d)'
  <2>1. Calmly(d) /\ pc[d] \in {"idle", "done"}
    BY Zenon DEF Calm, Running
  <2>2. /\ d \in Queries => told'[d] = told[d] /\ Alone(d)' = Alone(d)
        /\ pc'[d] = pc[d] /\ outcome'[d] = outcome[d] /\ blame'[d] = blame[d]
        /\ fate'[d] = fate[d]
    BY DEF Alone
  <2>. QED  BY <2>1, <2>2 DEF Calmly, Running
<1>2. \A d \in Ops : Calmly(d)'
  BY <1>1
<1>3. \A d, e \in Ops : Running(d)' /\ Running(e)' => d = e
  BY <1>1
<1>4. (\A d \in Ops : ~Running(d)') => landed' = <<>>
  OBVIOUS
<1>. QED  BY <1>2, <1>3, <1>4, Zenon DEF Calm

\* The invocation that runs is the only one.
LEMMA Solo ==
  ASSUME calm, Calm, NEW c \in Ops, pc[c] \in {"action", "sleep", "poll"}
  PROVE  /\ \A d \in Ops \ {c} : ~Running(d)
         /\ Calmly(c) /\ \A r \in Requests : status[r] # "failed"
<1>1. Running(c)
  BY DEF Running
<1>. QED  BY <1>1, Zenon DEF Calm

\* An invocation is made when no other is running.
LEMMA SendCalm ==
  ASSUME calm, Calm, Safe, NEW c \in Ops, Send(c)
  PROVE  Calm'
<1>1. <<c, "action">> \in Requests
  BY RequestsApart
<1>2. /\ runs' = runs /\ status[<<c, "action">>] = "idle"
      /\ status'[<<c, "action">>] = "pending"
      /\ \A r \in Requests \ {<<c, "action">>} : status'[r] = status[r]
  BY <1>1, CallSteps DEF Send, Safe
<1>3. /\ \A d \in Ops : ~Running(d)
      /\ landed = <<>> /\ \A r \in Requests : status[r] # "failed"
  BY Zenon DEF Send, Calm
<1>4. /\ c \notin Setters /\ pc'[c] = "action"
      /\ \A d \in Ops \ {c} : pc'[d] = pc[d]
      /\ reply' = reply /\ outcome' = outcome /\ told' = told /\ blame' = blame
      /\ fate' = fate /\ landed' = landed
      /\ \A q \in Queries \ {c} : asked'[q] = asked[q]
  BY DEF Send, Safe, TypeOK
<1>5. calm' = calm
  BY Zenon DEF Send
<1>6. runs[<<c, "action">>] = 0 /\ outcome[c] = "none"
  BY <1>2 DEF Send, Safe, CallsAccounted, Accounted
<1>7. Calmly(c)'
  BY <1>2, <1>3, <1>4, <1>6 DEF Calmly
<1>8. \A r \in Requests : status'[r] # "failed"
  BY <1>2, <1>3
<1>. QED  BY <1>3, <1>4, <1>5, <1>7, <1>8, CalmStep

\* The hub hands its own answer to an invocation, and nothing else.
LEMMA HubActCalm ==
  ASSUME calm, Calm, Safe, NEW c \in Ops, HubAct(c)
  PROVE  Calm'
<1>1. PICK s \in States : HubActs(c, s) /\ (c \in Queries => s # 1)
  BY HubActState
<1>2. <<c, "action">> \in Requests
  BY RequestsApart
<1>3. /\ status' = status /\ status[<<c, "action">>] \in {"pending", "failed"}
      /\ runs[<<c, "action">>] = 0 /\ runs'[<<c, "action">>] = 1
  BY <1>2, CallSteps DEF HubAct, Safe
<1>4. \A r \in Requests : status[r] # "failed"
  BY Zenon DEF Calm
<1>5. pc[c] = "action"
  BY <1>2, <1>3, <1>4 DEF Safe, CallsAccounted, Accounted
<1>6. Calmly(c) /\ \A d \in Ops \ {c} : ~Running(d)
  BY <1>5, Solo
<1>7. landed = <<>>
  BY <1>3, <1>5, <1>6 DEF Calmly
<1>8. /\ pc' = pc /\ asked' = asked /\ outcome' = outcome /\ told' = told
      /\ blame' = blame
  BY DEF HubAct, local
<1>9. calm' = calm
  BY Zenon DEF HubAct
<1>10. Running(c) /\ Running(c)'
  BY <1>5, <1>8 DEF Running
<1>11. reply'[c] = <<Own(c, s)>> /\ landed' = <<>>
  BY <1>1, <1>7, <1>10 DEF HubActs, Deliver, Safe, TypeOK
<1>12. /\ fate'[c] = FateOf(s) /\ \A d \in Ops \ {c} : fate'[d] = fate[d]
  BY <1>1 DEF HubActs, Safe, TypeOK
<1>13. Own(c, s)' = Own(c, s)
  BY <1>8 DEF Own
<1>14. c \in Queries \/ c \in Commands
  OBVIOUS
<1>15. s = 1 => Unsettled(c)'
  BY <1>11, <1>12 DEF Unsettled, FateOf
<1>16. outcome[c] = "none"
  BY <1>5 DEF Safe, CallsAccounted, Accounted
<1>17. c \notin Setters
  BY <1>5, <1>6 DEF Calmly
<1>18. Calmly(c)'
  <2>1. \E t \in States :
          /\ reply'[c] = <<Own(c, t)'>>
          /\ t = 1 => c \in Commands /\ (Unsettled(c)' \/ Settled(c)')
          /\ t # 1 => fate'[c] = FateOf(t) /\ landed' = <<>>
    BY <1>1, <1>11, <1>12, <1>13, <1>14, <1>15
  <2>. QED  BY <1>3, <1>5, <1>8, <1>16, <1>17, <2>1 DEF Calmly
<1>. QED  BY <1>3, <1>4, <1>6, <1>8, <1>9, <1>10, <1>12, <1>18, CalmStep

\* The hub finishes the command of the sender that is waiting.
LEMMA HubFinishCalm ==
  ASSUME calm, Calm, Safe, NEW c \in Ops, HubFinish(c)
  PROVE  Calm'
<1>1. PICK s \in {0, -1} :
        /\ fate' = [fate EXCEPT ![c] = FateOf(s)]
        /\ landed' = Append(landed, Message(c, s, NoBody))
  BY DEF HubFinish
<1>2. /\ fate[c] = "processing" /\ status' = status /\ runs' = runs /\ pc' = pc
      /\ reply' = reply /\ asked' = asked /\ outcome' = outcome
      /\ told' = told /\ blame' = blame
  BY DEF HubFinish, local
<1>3. calm' = calm
  BY Zenon DEF HubFinish
<1>4. Calmly(c) /\ \A r \in Requests : status[r] # "failed"
  BY Zenon DEF Calm
<1>5. /\ runs[<<c, "action">>] = 1 /\ pc[c] # "idle"
      /\ outcome[c] # "none" => pc[c] = "done"
  BY <1>2, RequestsApart DEF Safe, TypeOK, CallsAccounted, Accounted
<1>6. pc[c] # "done"
  BY <1>2, <1>4 DEF Calmly
<1>7. pc[c] \in {"action", "sleep", "poll"}
  BY <1>5, <1>6 DEF Safe, TypeOK
<1>8. \A d \in Ops \ {c} : ~Running(d)
  BY <1>7, Solo
<1>9. \A t \in States : FateOf(t) = "processing" => t = 1
  BY DEF FateOf
<1>10. ~Settled(c)
  BY <1>2, <1>9 DEF Settled
<1>11. pc[c] # "poll"
  <2>1. pc[c] = "poll" => runs[<<c, "poll">>] \in {0, 1}
    BY RequestsApart DEF Safe, TypeOK, CallsAccounted, Accounted
  <2>. QED  BY <1>2, <1>4, <1>9, <1>10, <2>1 DEF Calmly
<1>12. /\ landed = <<>>
       /\ pc[c] = "action" => reply[c] = <<Own(c, 1)>> /\ c \in Commands
  BY <1>2, <1>4, <1>5, <1>7, <1>9, <1>10, <1>11 DEF Calmly, Unsettled
<1>13. landed' = <<Message(c, s, NoBody)>>
  BY <1>1, <1>12
<1>14. fate'[c] = FateOf(s) /\ \A d \in Ops \ {c} : fate'[d] = fate[d]
  BY <1>1 DEF Safe, TypeOK
<1>15. Settled(c)'
  BY <1>13, <1>14 DEF Settled
<1>16. Own(c, 1)' = Own(c, 1)
  BY <1>2 DEF Own
<1>17. Calmly(c)'
  <2>1. pc[c] = "action" => \E t \in States :
          /\ reply'[c] = <<Own(c, t)'>>
          /\ t = 1 => c \in Commands /\ (Unsettled(c)' \/ Settled(c)')
          /\ t # 1 => fate'[c] = FateOf(t) /\ landed' = <<>>
    BY <1>2, <1>12, <1>15, <1>16
  <2>2. c \in Setters => pc[c] = "idle"
    BY <1>4 DEF Calmly
  <2>3. outcome[c] = "none"
    BY <1>5, <1>6
  <2>. QED  BY <1>2, <1>5, <1>6, <1>11, <1>15, <2>1, <2>2, <2>3 DEF Calmly
<1>18. Running(c)'
  BY <1>2, <1>7 DEF Running
<1>. QED  BY <1>2, <1>3, <1>4, <1>8, <1>14, <1>17, <1>18, CalmStep

\* The client looks at a reply that is a single message.
LEMMA SingleReply ==
  ASSUME NEW m
  PROVE  /\ Failed(<<m>>) = IF m.state = -1 THEN {1} ELSE {}
         /\ Unfinished(<<m>>) = IF m.state # 0 THEN {1} ELSE {}
         /\ Completed(<<m>>) = IF m.state = 0 THEN {1} ELSE {}
         /\ First(<<m>>, {1}) = m
<1>1. First(<<m>>, {1}) = m
  BY FirstIsOne
<1>. QED  BY <1>1 DEF Failed, Unfinished, Completed

\* An invocation that returns leaves a finished command and an empty mailbox.
LEMMA EndCalm ==
  ASSUME calm, Calm, Safe, NEW c \in Ops, pc[c] \in {"action", "sleep", "poll"},
         CallEnds(c), pc[c] # "sleep" => status'[<<c, pc[c]>>] = "ok",
         pc'[c] = "done", fate' = fate, landed' = <<>>, asked' = asked,
         calm' = calm, fate[c] # "processing",
         \A d \in Ops \ {c} :
           /\ pc'[d] = pc[d] /\ outcome'[d] = outcome[d] /\ blame'[d] = blame[d]
           /\ d \in Queries => told'[d] = told[d],
         c \in Senders /\ outcome'[c] = "ok" => fate[c] = "ok",
         c \in Senders /\ outcome'[c] = "failed" =>
           fate[c] = "failed" /\ blame'[c] = {c},
         c \in Queries => told'[c] = Alone(c)
  PROVE  Calm'
<1>1. /\ \A d \in Ops \ {c} : ~Running(d)
      /\ Calmly(c) /\ \A r \in Requests : status[r] # "failed"
  BY Solo
<1>2. c \notin Setters
  BY <1>1 DEF Calmly
<1>3. Alone(c)' = Alone(c)
  BY DEF Alone
<1>4. Calmly(c)'
  BY <1>2, <1>3 DEF Calmly
<1>5. \A r \in Requests : status'[r] # "failed"
  <2>1. ASSUME NEW r \in Requests PROVE status'[r] # "failed"
    <3>1. CASE r = <<c, pc[c]>>
      <4>1. pc[c] # "sleep"
        BY <3>1 DEF Requests
      <4>. QED  BY <3>1, <4>1
    <3>2. CASE r # <<c, pc[c]>>
      BY <1>1, <3>2 DEF CallEnds
    <3>. QED  BY <3>1, <3>2
  <2>. QED  BY <2>1
<1>. QED  BY <1>1, <1>4, <1>5, CalmStep

\* send_command finds its own answer in the reply.
LEMMA ActionReturnsCalm ==
  ASSUME calm, Calm, Safe, NEW c \in Ops, ActionReturns(c)
  PROVE  Calm'
<1>1. c \in Senders /\ <<c, "action">> \in Requests
  BY RequestsApart DEF ActionReturns
<1>2. /\ pc[c] = "action" /\ CallEnds(c) /\ runs[<<c, "action">>] = 1
      /\ status'[<<c, "action">>] = "ok" /\ runs' = runs
      /\ \A r \in Requests \ {<<c, "action">>} : status'[r] = status[r]
  BY <1>1, SucceedEnds, CallSteps DEF ActionReturns, Safe
<1>3. /\ \A d \in Ops \ {c} : ~Running(d)
      /\ Calmly(c) /\ \A r \in Requests : status[r] # "failed"
  BY <1>2, Solo
<1>4. fate' = fate /\ landed' = landed
  BY DEF ActionReturns
<1>5. calm' = calm
  BY Zenon DEF ActionReturns
<1>6. PICK s \in States :
        /\ reply[c] = <<Own(c, s)>>
        /\ s = 1 => Unsettled(c) \/ Settled(c)
        /\ s # 1 => fate[c] = FateOf(s) /\ landed = <<>>
  BY <1>2, <1>3 DEF Calmly
<1>7. Own(c, s).owner = c /\ Own(c, s).state = s
  BY MessageTyped DEF Safe, TypeOK
<1>8. /\ Unfinished(reply[c]) = IF s # 0 THEN {1} ELSE {}
      /\ s # 0 => First(reply[c], Unfinished(reply[c])) = Own(c, s)
  BY <1>6, <1>7, SingleReply
<1>9. CASE \E how \in {"ok", "failed"} :
             \E whose \in SUBSET (Told(reply[c]) \cap Commands) :
               /\ Return(c, how, whose)
               /\ how = "ok" => Unfinished(reply[c]) = {}
               /\ how = "failed" =>
                    /\ Unfinished(reply[c]) # {}
                    /\ First(reply[c], Unfinished(reply[c])).state = -1
                    /\ whose = {First(reply[c], Unfinished(reply[c])).owner}
  <2>1. PICK how \in {"ok", "failed"},
             whose \in SUBSET (Told(reply[c]) \cap Commands) :
               /\ Return(c, how, whose)
               /\ how = "ok" => Unfinished(reply[c]) = {}
               /\ how = "failed" =>
                    /\ Unfinished(reply[c]) # {}
                    /\ First(reply[c], Unfinished(reply[c])).state = -1
                    /\ whose = {First(reply[c], Unfinished(reply[c])).owner}
    BY <1>9
  <2>2. how = "ok" => s = 0
    BY <1>8, <2>1
  <2>3. how = "failed" => s = -1 /\ whose = {c}
    BY <1>7, <1>8, <2>1
  <2>4. /\ pc'[c] = "done" /\ outcome'[c] = how /\ blame'[c] = whose
        /\ asked' = asked /\ told' = told
        /\ \A d \in Ops \ {c} :
             pc'[d] = pc[d] /\ outcome'[d] = outcome[d] /\ blame'[d] = blame[d]
    BY <2>1, Returning DEF Safe
  <2>5. s # 1 /\ landed = <<>> /\ fate[c] = FateOf(s)
    BY <1>6, <2>2, <2>3
  <2>6. /\ how = "ok" => fate[c] = "ok"
        /\ how = "failed" => fate[c] = "failed"
        /\ fate[c] # "processing"
    BY <2>2, <2>3, <2>5 DEF FateOf
  <2>7. c \notin Queries
    BY <1>1
  <2>. QED  BY <1>2, <1>4, <1>5, <2>3, <2>4, <2>5, <2>6, <2>7, EndCalm
<1>10. CASE /\ Unfinished(reply[c]) # {}
            /\ First(reply[c], Unfinished(reply[c])).state = 1
            /\ pc' = [pc EXCEPT ![c] = "sleep"]
            /\ reply' = [reply EXCEPT ![c] = <<>>]
            /\ UNCHANGED local
  <2>1. s = 1
    BY <1>7, <1>8, <1>10
  <2>2. /\ pc'[c] = "sleep" /\ \A d \in Ops \ {c} : pc'[d] = pc[d]
        /\ asked' = asked /\ outcome' = outcome /\ told' = told
        /\ blame' = blame
    BY <1>10 DEF Safe, TypeOK, local
  <2>3. Unsettled(c)' \/ Settled(c)'
    BY <1>4, <1>6, <2>1 DEF Unsettled, Settled
  <2>4. c \notin Setters /\ c \notin Queries
    BY <1>1
  <2>5. outcome[c] = "none"
    BY <1>2 DEF Safe, CallsAccounted, Accounted
  <2>6. Calmly(c)'
    BY <2>2, <2>3, <2>4, <2>5 DEF Calmly
  <2>7. \A r \in Requests : status'[r] # "failed"
    BY <1>2, <1>3
  <2>8. Running(c)'
    BY <2>2 DEF Running
  <2>. QED  BY <1>3, <1>4, <1>5, <2>2, <2>6, <2>7, <2>8, CalmStep
<1>. QED  BY <1>1, <1>9, <1>10, ActionOutcomes DEF Safe

\* A query finds its own answer in the reply.
LEMMA QueryReturnsCalm ==
  ASSUME calm, Calm, Safe, NEW c \in Ops, QueryReturns(c)
  PROVE  Calm'
<1>1. c \in Queries /\ <<c, "action">> \in Requests /\ c \notin Senders
  BY RequestsApart DEF QueryReturns
<1>2. /\ pc[c] = "action" /\ CallEnds(c) /\ runs[<<c, "action">>] = 1
      /\ status'[<<c, "action">>] = "ok"
  BY <1>1, SucceedEnds, CallSteps DEF QueryReturns, Safe
<1>3. Calmly(c)
  BY <1>2, Solo
<1>4. PICK s \in States :
        /\ reply[c] = <<Own(c, s)>>
        /\ s = 1 => c \in Commands
        /\ s # 1 => fate[c] = FateOf(s) /\ landed = <<>>
  BY <1>2, <1>3 DEF Calmly
<1>5. s \in {0, -1} /\ fate[c] = FateOf(s) /\ landed = <<>>
  BY <1>1, <1>4
<1>6. /\ pc'[c] = "done" /\ told'[c] = Result(asked[c], reply[c])
      /\ \A d \in Ops \ {c} : pc'[d] = pc[d] /\ outcome'[d] = outcome[d]
      /\ \A q \in Queries \ {c} : told'[q] = told[q]
      /\ asked' = asked /\ blame' = blame /\ fate' = fate /\ landed' = landed
  BY <1>1 DEF QueryReturns, Safe, TypeOK
<1>7. calm' = calm
  BY Zenon DEF QueryReturns
<1>8. Result(asked[c], reply[c]) = Alone(c)
  <2>1. CASE s = 0
    <3>1. reply[c] = <<Message(c, 0, Truth(asked[c]))>>
      BY <1>1, <1>4, <2>1 DEF Own
    <3>2. fate[c] = "ok"
      BY <1>5, <2>1 DEF FateOf
    <3>. QED  BY <3>1, <3>2 DEF Alone
  <2>2. CASE s = -1
    <3>1. Own(c, s).state = -1
      BY <2>2, MessageTyped DEF Safe, TypeOK
    <3>2. Completed(reply[c]) = {}
      BY <1>4, <3>1, SingleReply
    <3>3. asked[c] \in Kinds
      BY <1>1 DEF Safe, TypeOK
    <3>4. Result(asked[c], reply[c]) = <<>>
      BY <3>2, <3>3 DEF Result, GetStatus
    <3>5. fate[c] # "ok"
      BY <1>5, <2>2 DEF FateOf
    <3>. QED  BY <3>4, <3>5 DEF Alone
  <2>. QED  BY <1>5, <2>1, <2>2
<1>9. fate[c] # "processing"
  BY <1>5 DEF FateOf
<1>. QED  BY <1>1, <1>2, <1>5, <1>6, <1>7, <1>8, <1>9, EndCalm

\* send_command wakes up when its command has been finished.
LEMMA WakeCalm ==
  ASSUME calm, Calm, Safe, NEW c \in Ops, Wake(c)
  PROVE  Calm'
<1>1. c \in Senders /\ pc[c] = "sleep"
  BY DEF Wake, Safe, CallsAccounted, Accounted
<1>2. <<c, "poll">> \in Requests
  BY <1>1, RequestsApart
<1>3. /\ runs' = runs /\ status[<<c, "poll">>] = "idle"
      /\ status'[<<c, "poll">>] = "pending"
      /\ \A r \in Requests \ {<<c, "poll">>} : status'[r] = status[r]
  BY <1>2, CallSteps DEF Wake, Safe
<1>4. /\ \A d \in Ops \ {c} : ~Running(d)
      /\ Calmly(c) /\ \A r \in Requests : status[r] # "failed"
  BY <1>1, Solo
<1>5. runs[<<c, "poll">>] = 0
  BY <1>1, <1>3 DEF Safe, PollsAccounted, PollAccounted
<1>6. fate[c] # "processing"
  BY Zenon DEF Wake
<1>7. Settled(c)
  BY <1>1, <1>4, <1>6 DEF Calmly, Unsettled
<1>8. /\ pc'[c] = "poll" /\ \A d \in Ops \ {c} : pc'[d] = pc[d]
      /\ asked' = asked /\ reply' = reply /\ outcome' = outcome /\ told' = told
      /\ blame' = blame /\ fate' = fate /\ landed' = landed
  BY DEF Wake, Safe, TypeOK, local
<1>9. calm' = calm
  BY Zenon DEF Wake
<1>10. Settled(c)'
  BY <1>7, <1>8 DEF Settled
<1>11. c \notin Setters /\ c \notin Queries /\ outcome[c] = "none"
  BY <1>1 DEF Safe, CallsAccounted, Accounted
<1>12. Calmly(c)'
  BY <1>3, <1>5, <1>8, <1>10, <1>11 DEF Calmly
<1>13. \A r \in Requests : status'[r] # "failed"
  BY <1>3, <1>4
<1>14. Running(c)'
  BY <1>8 DEF Running
<1>. QED  BY <1>4, <1>8, <1>9, <1>12, <1>13, <1>14, CalmStep

\* The poll hands over the result of the sender that polls.
LEMMA HubPollCalm ==
  ASSUME calm, Calm, Safe, NEW c \in Ops, HubPoll(c)
  PROVE  Calm'
<1>1. c \in Senders /\ <<c, "poll">> \in Requests
  BY RequestsApart DEF HubPoll
<1>2. /\ status' = status /\ status[<<c, "poll">>] \in {"pending", "failed"}
      /\ runs[<<c, "poll">>] = 0 /\ runs'[<<c, "poll">>] = 1
  BY <1>1, CallSteps DEF HubPoll, Safe
<1>3. \A r \in Requests : status[r] # "failed"
  BY Zenon DEF Calm
<1>4. pc[c] = "poll"
  BY <1>1, <1>2, <1>3 DEF Safe, PollsAccounted, PollAccounted
<1>5. Calmly(c) /\ \A d \in Ops \ {c} : ~Running(d)
  BY <1>4, Solo
<1>6. PICK s \in {0, -1} : /\ fate[c] = FateOf(s)
                           /\ landed = <<Message(c, s, NoBody)>>
  BY <1>2, <1>4, <1>5 DEF Calmly, Settled
<1>7. /\ landed' = <<>> /\ fate' = fate /\ pc' = pc /\ asked' = asked
      /\ outcome' = outcome /\ told' = told /\ blame' = blame
  BY DEF HubPoll, local
<1>8. calm' = calm
  BY Zenon DEF HubPoll
<1>9. Running(c) /\ Running(c)'
  BY <1>4, <1>7 DEF Running
<1>10. reply'[c] = <<Message(c, s, NoBody)>>
  BY <1>6, <1>9 DEF HubPoll, Deliver, Safe, TypeOK
<1>11. c \notin Setters /\ c \notin Queries /\ outcome[c] = "none"
  BY <1>1, <1>4 DEF Safe, CallsAccounted, Accounted
<1>12. Calmly(c)'
  BY <1>2, <1>4, <1>6, <1>7, <1>10, <1>11 DEF Calmly
<1>. QED  BY <1>2, <1>3, <1>5, <1>7, <1>8, <1>9, <1>12, CalmStep

\* send_command finds the result of its own command in the poll.
LEMMA PollReturnsCalm ==
  ASSUME calm, Calm, Safe, NEW c \in Ops, PollReturns(c)
  PROVE  Calm'
<1>1. c \in Senders /\ pc[c] = "poll"
  BY DEF PollReturns, Safe, CallsAccounted, Accounted
<1>2. <<c, "poll">> \in Requests
  BY <1>1, RequestsApart
<1>3. /\ CallEnds(c) /\ runs[<<c, "poll">>] = 1
      /\ status'[<<c, "poll">>] = "ok"
  BY <1>1, <1>2, SucceedEnds, CallSteps DEF PollReturns, Safe
<1>4. Calmly(c)
  BY <1>1, Solo
<1>5. landed = <<>>
  BY <1>1, <1>3, <1>4 DEF Calmly
<1>6. PICK s \in {0, -1} : /\ fate[c] = FateOf(s)
                           /\ reply[c] = <<Message(c, s, NoBody)>>
  BY <1>1, <1>3, <1>4 DEF Calmly
<1>7. /\ Message(c, s, NoBody).owner = c /\ Message(c, s, NoBody).state = s
  BY MessageTyped
<1>8. /\ Failed(reply[c]) = IF s = -1 THEN {1} ELSE {}
      /\ s = -1 => First(reply[c], Failed(reply[c])).owner = c
  BY <1>6, <1>7, SingleReply
<1>9. PICK how \in {"ok", "failed"}, whose \in SUBSET (Told(reply[c]) \cap Commands) :
        /\ Return(c, how, whose)
        /\ how = "ok" <=> Failed(reply[c]) = {}
        /\ how = "failed" => whose = {First(reply[c], Failed(reply[c])).owner}
  BY <1>1, VerdictReturns DEF PollReturns, Safe
<1>10. /\ how = "ok" => s = 0
       /\ how = "failed" => s = -1 /\ whose = {c}
  BY <1>8, <1>9
<1>11. /\ pc'[c] = "done" /\ outcome'[c] = how /\ blame'[c] = whose
       /\ asked' = asked /\ told' = told
       /\ \A d \in Ops \ {c} :
            pc'[d] = pc[d] /\ outcome'[d] = outcome[d] /\ blame'[d] = blame[d]
  BY <1>9, Returning DEF Safe
<1>12. /\ how = "ok" => fate[c] = "ok"
       /\ how = "failed" => fate[c] = "failed"
       /\ fate[c] # "processing"
  BY <1>6, <1>10 DEF FateOf
<1>13. fate' = fate /\ landed' = landed
  BY DEF PollReturns
<1>14. calm' = calm
  BY Zenon DEF PollReturns
<1>. QED  BY <1>1, <1>3, <1>5, <1>10, <1>11, <1>12, <1>13, <1>14, EndCalm
-----------------------------------------------------------------------------
(* The invariant of calm surroundings.                                     *)

\* At first nobody runs and nothing has landed.
LEMMA InitCalm == Init => Calm
<1>. SUFFICES ASSUME Init PROVE Calm
  OBVIOUS
<1>1. /\ status = [c \in Requests |-> "idle"]
      /\ pc = [c \in Ops |-> "idle"] /\ outcome = [c \in Ops |-> "none"]
      /\ landed = <<>>
  BY DEF Init, Call!Init
<1>2. \A c \in Ops : Calmly(c) /\ ~Running(c)
  BY <1>1 DEF Calmly, Running
<1>. QED  BY <1>1, <1>2, Zenon DEF Calm

\* The steps that end a call badly are not taken, and the others keep calm.
LEMMA NextCalm == Safe /\ Calm /\ [Next]_vars => Calm'
<1>. SUFFICES ASSUME Safe, Calm, [Next]_vars PROVE Calm'
  OBVIOUS
<1>1. calm' = calm
  BY Zenon DEF Next, vars, Send, ActionReturns, SetReturns, QueryReturns, Wake,
     PollReturns, CallFails, CancelSleep, HubAct, HubFinish, HubPoll, Over
<1>2. CASE ~calm
  BY <1>1, <1>2, Zenon DEF Calm
<1>3. ASSUME calm, NEW c \in Ops,
             \/ Send(c) \/ ActionReturns(c) \/ SetReturns(c) \/ QueryReturns(c)
             \/ Wake(c) \/ PollReturns(c) \/ CallFails(c) \/ CancelSleep(c)
             \/ HubAct(c) \/ HubFinish(c) \/ HubPoll(c)
      PROVE  Calm'
  <2>1. ~SetReturns(c)
    <3>1. SetReturns(c) => pc[c] = "action" /\ c \in Setters
      BY SucceedEnds DEF SetReturns
    <3>2. c \in Setters => pc[c] = "idle"
      BY <1>3, Zenon DEF Calm, Calmly
    <3>. QED  BY <3>1, <3>2
  <2>2. ~CallFails(c) /\ ~CancelSleep(c)
    BY <1>3, Zenon DEF CallFails, CancelSleep
  <2>. QED  BY <1>3, <2>1, <2>2, SendCalm, ActionReturnsCalm, QueryReturnsCalm,
            WakeCalm, PollReturnsCalm, HubActCalm, HubFinishCalm, HubPollCalm,
            Zenon
<1>4. ASSUME calm, UNCHANGED vars
      PROVE  Calm'
  <2>1. /\ status' = status /\ runs' = runs /\ pc' = pc
        /\ asked' = asked /\ outcome' = outcome /\ told' = told /\ blame' = blame
        /\ fate' = fate /\ landed' = landed /\ reply' = reply
    BY <1>4 DEF vars
  <2>2. ASSUME NEW c \in Ops, Calmly(c)
        PROVE  Calmly(c)'
    <3>1. \A s \in States : Own(c, s)' = Own(c, s)
      BY <2>1 DEF Own
    <3>2. Alone(c)' = Alone(c)
      BY <2>1 DEF Alone
    <3>3. Unsettled(c)' = Unsettled(c) /\ Settled(c)' = Settled(c)
      BY <2>1 DEF Unsettled, Settled
    <3>. QED  BY <2>1, <2>2, <3>1, <3>2, <3>3 DEF Calmly
  <2>3. \A c \in Ops : Calmly(c)'
    BY <1>4, <2>2, Zenon DEF Calm
  <2>4. \A c : Running(c)' <=> Running(c)
    BY <2>1 DEF Running
  <2>. QED  BY <1>4, <2>1, <2>3, <2>4, Zenon DEF Calm
<1>5. Over => UNCHANGED vars
  BY DEF Over
<1>. QED  BY <1>2, <1>3, <1>4, <1>5, Zenon DEF Next

\* Calm is an invariant, inductive together with Safe.
THEOREM CalmInvariance == Spec => []Calm
  BY InitCalm, NextCalm, SafeInvariance, PTL DEF Spec

\* In calm surroundings send_command says what became of its own command.
THEOREM VerdictsAreExact == Spec => []ExactVerdict
<1>1. Calm => ExactVerdict
  BY Zenon DEF Calm, Calmly, ExactVerdict, Ops, Commands
<1>. QED  BY <1>1, CalmInvariance, PTL

\* In calm surroundings every query is told its own answer.
THEOREM CalmAnswersAreExact == Spec => []CalmQueriesExact
<1>1. Calm => CalmQueriesExact
  BY Zenon DEF Calm, Calmly, CalmQueriesExact, Ops
<1>. QED  BY <1>1, CalmInvariance, PTL
=============================================================================
