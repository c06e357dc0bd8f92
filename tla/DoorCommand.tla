---------------------------- MODULE DoorCommand ----------------------------
(***************************************************************************)
(* HubClient.send_command, set_advanced_parameter and the queries          *)
(* (client.py), on top of a call layer that keeps the promises of          *)
(* AtMostOnce, which HubSession is shown to implement.  The hub either     *)
(* completes a command in its reply or accepts it as still processing;     *)
(* then send_command sleeps 1.5 seconds and polls once.  Results wait at   *)
(* the hub for the phone, not for the command: nothing in a message tells  *)
(* the client whose result it is, and any reply may hand some over.        *)
(***************************************************************************)
EXTENDS HubQueries, FiniteSets

CONSTANTS
  Senders,      \* invocations of send_command
  Setters,      \* invocations of set_advanced_parameter
  Queries,      \* invocations of get_status, get_device_ids, ...
  MaxRough      \* bound on the invocations made unless it is calm

Commands == Senders \cup Setters
Ops == Commands \cup Queries
Requests == (Ops \X {"action"}) \cup (Senders \X {"poll"})

ASSUME OpsAssumption ==
  /\ Senders \cap Setters = {}
  /\ Queries \cap Commands = {}
ASSUME BoundAssumption == MaxRough \in Nat

VARIABLES
  calm,         \* whether the surroundings are calm; never changes
  status, runs, \* the call layer: see AtMostOnce
  pc,           \* the await each invocation is suspended at
  asked,        \* which query an invocation is
  outcome,      \* how each invocation returned or raised
  told,         \* what a query returned
  blame,        \* the commands whose failure an invocation raised
  fate,         \* hub: what has become of each request
  landed,       \* hub: results the phone has not been told of
  reply         \* the messages of the reply on its way to each invocation

local == <<asked, outcome, told, blame>>
vars == <<calm, status, runs, pc, asked, outcome, told, blame, fate, landed,
          reply>>

Call == INSTANCE AtMostOnce WITH Calls <- Requests

\* processState.  The hub is taken to state it in every message; where it is
\* missing, send_command's first loop reads -1 and raises, the others read none.
States == {0, 1, -1}
Message(c, s, body) == [owner |-> c, state |-> s, body |-> body]
Fates == {"none", "processing", "ok", "failed"}

\* What the hub has to say to each query.
Truth(kind) ==
  CASE kind = "status" -> Body(<<Entry("left", <<Logged(7, 3)>>)>>, "", <<>>, <<>>)
    [] kind = "ids" -> Body(<<Entry("left", <<>>), Entry("", <<>>), Entry("right", <<>>)>>,
                            "", <<>>, <<>>)
    [] kind = "info" -> Body(<<>>, "hub", <<>>, <<>>)
    [] kind = "logs" -> Body(<<>>, "", <<Logged(7, 3), Logged(8, 21)>>, <<>>)
    [] kind = "wifi" -> Body(<<>>, "", <<>>, <<-60, -61>>)

Messages == [owner : Ops, state : States,
             body : {NoBody} \cup {Truth(k) : k \in Kinds}]
\* The messages that tell of a failure, and those that tell of no success.
Failed(messages) == {i \in DOMAIN messages : messages[i].state = -1}
Unfinished(messages) == {i \in DOMAIN messages : messages[i].state # 0}

FateOf(s) == CASE s = 0 -> "ok" [] s = 1 -> "processing" [] s = -1 -> "failed"

(***************************************************************************)
(* In calm surroundings callers wait for one send_command or query before  *)
(* they make the next, no call fails, nobody is cancelled, and the hub     *)
(* finishes each command before its sender wakes up.                       *)
(***************************************************************************)
Init ==
  /\ calm \in BOOLEAN
  /\ Call!Init
  /\ pc = [c \in Ops |-> "idle"]
  /\ asked = [q \in Queries |-> "status"]
  /\ outcome = [c \in Ops |-> "none"]
  /\ told = [q \in Queries |-> <<>>]
  /\ blame = [c \in Ops |-> {}]
  /\ fate = [c \in Ops |-> "none"]
  /\ landed = <<>>
  /\ reply = [c \in Ops |-> <<>>]
-----------------------------------------------------------------------------
(* The client.                                                             *)

Running(c) == pc[c] \notin {"idle", "done"}
Made == {c \in Ops : pc[c] # "idle"}

Return(c, how, whose) ==
  /\ pc' = [pc EXCEPT ![c] = "done"]
  /\ outcome' = [outcome EXCEPT ![c] = how]
  /\ blame' = [blame EXCEPT ![c] = whose]
  /\ reply' = [reply EXCEPT ![c] = <<>>]
  /\ UNCHANGED <<asked, told>>

\* Mutation: the error tells of the state instead of the command.
RaiseState(c, message) == Return(c, "failed", {message.state})

\* _raise_for_error: the error tells the caller of the message it is given.
Raise(c, message) == Return(c, "failed", {message.owner})

\* The first failure is raised, whoever it is of.
Verdict(c) ==
  LET failed == Failed(reply[c])
  IN  \/ failed = {} /\ Return(c, "ok", {})
      \/ failed # {} /\ Raise(c, First(reply[c], failed))

Send(c) ==
  /\ pc[c] = "idle"
  /\ \/ calm /\ c \notin Setters /\ \A d \in Ops : ~Running(d)
     \/ ~calm /\ Cardinality(Made) < MaxRough
  /\ Call!Issue(<<c, "action">>)
  /\ pc' = [pc EXCEPT ![c] = "action"]
  /\ \/ c \in Commands /\ UNCHANGED asked
     \/ c \in Queries /\ \E k \in Kinds : asked' = [asked EXCEPT ![c] = k]
  /\ UNCHANGED <<calm, outcome, told, blame, fate, landed, reply>>

\* Mutation: a command that is still processing counts as carried out.
ActionReturnsUnpolled(c) ==
  /\ c \in Senders
  /\ Call!Succeed(<<c, "action">>)
  /\ Verdict(c)
  /\ UNCHANGED <<calm, fate, landed>>

\* send_command looks at the messages in order: it goes to sleep at the first
\* that says "processing", raises at the first that says "failed".
ActionReturns(c) ==
  /\ c \in Senders
  /\ Call!Succeed(<<c, "action">>)
  /\ LET open == Unfinished(reply[c])
         first == First(reply[c], open)
     IN \/ open = {} /\ Return(c, "ok", {})
        \/ /\ open # {} /\ first.state = 1
           /\ pc' = [pc EXCEPT ![c] = "sleep"]
           /\ reply' = [reply EXCEPT ![c] = <<>>]
           /\ UNCHANGED local
        \/ open # {} /\ first.state = -1 /\ Raise(c, first)
  /\ UNCHANGED <<calm, fate, landed>>

\* set_advanced_parameter raises at the first failure and polls for nothing.
SetReturns(c) ==
  /\ c \in Setters
  /\ Call!Succeed(<<c, "action">>)
  /\ Verdict(c)
  /\ UNCHANGED <<calm, fate, landed>>

\* A query keeps to the completed messages and never raises.
QueryReturns(q) ==
  /\ q \in Queries
  /\ Call!Succeed(<<q, "action">>)
  /\ pc' = [pc EXCEPT ![q] = "done"]
  /\ outcome' = [outcome EXCEPT ![q] = "ok"]
  /\ told' = [told EXCEPT ![q] = Result(asked[q], reply[q])]
  /\ reply' = [reply EXCEPT ![q] = <<>>]
  /\ UNCHANGED <<calm, asked, blame, fate, landed>>

Wake(c) ==
  /\ pc[c] = "sleep"
  /\ calm => fate[c] # "processing"
  /\ Call!Issue(<<c, "poll">>)
  /\ pc' = [pc EXCEPT ![c] = "poll"]
  /\ UNCHANGED <<calm, local, fate, landed, reply>>

\* Mutation: any message of the poll is taken for a failure.
PollReturnsAny(c) ==
  /\ pc[c] = "poll"
  /\ Call!Succeed(<<c, "poll">>)
  /\ \/ reply[c] = <<>> /\ Return(c, "ok", {})
     \/ reply[c] # <<>> /\ Raise(c, Head(reply[c]))
  /\ UNCHANGED <<calm, fate, landed>>

\* One poll; the first failure in it is this command's, whoever it came from.
PollReturns(c) ==
  /\ pc[c] = "poll"
  /\ Call!Succeed(<<c, "poll">>)
  /\ Verdict(c)
  /\ UNCHANGED <<calm, fate, landed>>

\* _call raises.  The request may be carried out all the same, or later.
CallFails(c) ==
  /\ ~calm
  /\ pc[c] \in {"action", "poll"}
  /\ Call!Fail(<<c, pc[c]>>)
  /\ Return(c, "unreachable", {})
  /\ UNCHANGED <<calm, fate, landed>>

\* The task is cancelled while it sleeps (in a call, it is a CallFails).
CancelSleep(c) ==
  /\ ~calm
  /\ pc[c] = "sleep"
  /\ Return(c, "cancelled", {})
  /\ UNCHANGED <<calm, status, runs, fate, landed>>
-----------------------------------------------------------------------------
(* The hub, as send_command expects it to behave.                          *)

\* The answer, to nobody if the call has been given up: its messages are lost.
Deliver(c, messages) ==
  reply' = IF Running(c) THEN [reply EXCEPT ![c] = messages] ELSE reply

\* A request is completed, failed or, if it is a command, taken on; the reply
\* may also hand over the results that have landed meanwhile, before its own.
HubAct(c) ==
  /\ Call!Run(<<c, "action">>)
  /\ \E s \in IF c \in Commands THEN States ELSE {0, -1} :
       LET body == IF c \in Queries /\ s = 0 THEN Truth(asked[c]) ELSE NoBody
       IN /\ fate' = [fate EXCEPT ![c] = FateOf(s)]
          /\ \/ /\ Deliver(c, <<Message(c, s, body)>>)
                /\ UNCHANGED landed
             \/ /\ landed # <<>>
                /\ Deliver(c, Append(landed, Message(c, s, body)))
                /\ landed' = <<>>
  /\ UNCHANGED <<calm, pc, local>>

HubFinish(c) ==
  /\ fate[c] = "processing"
  /\ \E s \in {0, -1} :
       /\ fate' = [fate EXCEPT ![c] = FateOf(s)]
       /\ landed' = Append(landed, Message(c, s, NoBody))
  /\ UNCHANGED <<calm, status, runs, pc, local, reply>>

\* app/res/messages: what has landed is handed over, once.
HubPoll(c) ==
  /\ c \in Senders
  /\ Call!Run(<<c, "poll">>)
  /\ Deliver(c, landed)
  /\ landed' = <<>>
  /\ UNCHANGED <<calm, pc, local, fate>>

Over ==
  /\ \A c \in Ops : ~Running(c)
  /\ \/ calm /\ Made = Senders \cup Queries
     \/ ~calm /\ (Made = Ops \/ Cardinality(Made) = MaxRough)
  /\ UNCHANGED vars
-----------------------------------------------------------------------------
Next ==
  \/ \E c \in Ops :
       \/ Send(c) \/ ActionReturns(c) \/ SetReturns(c) \/ QueryReturns(c)
       \/ Wake(c) \/ PollReturns(c) \/ CallFails(c) \/ CancelSleep(c)
       \/ HubAct(c) \/ HubFinish(c) \/ HubPoll(c)
  \/ Over

Spec == Init /\ [][Next]_vars
-----------------------------------------------------------------------------
(* Properties.                                                             *)

\* Every variable holds a value of its kind.
TypeOK ==
  /\ calm \in BOOLEAN
  /\ status \in [Requests -> {"idle", "pending", "ok", "failed"}]
  /\ runs \in [Requests -> {0, 1}]
  /\ pc \in [Ops -> {"idle", "action", "sleep", "poll", "done"}]
  /\ asked \in [Queries -> Kinds]
  /\ outcome \in [Ops -> {"none", "ok", "failed", "unreachable", "cancelled"}]
  /\ DOMAIN told = Queries
  /\ blame \in [Ops -> SUBSET Commands]
  /\ fate \in [Ops -> Fates]
  /\ landed \in Seq(Messages)
  /\ reply \in [Ops -> Seq(Messages)]

\* A HubCommandError always reports a command that did fail, and no failure is
\* reported twice - though not always to the caller whose command it was
\* (send_command, _raise_for_error).
EveryErrorIsReal ==
  \A c \in Commands :
    outcome[c] = "failed" =>
      \A f \in blame[c] :
        /\ fate[f] = "failed"
        /\ \A d \in Commands \ {c} : f \notin blame[d]

\* In calm surroundings send_command says exactly what became of its own
\* command, whatever it and the hub made of the commands before.
ExactVerdict ==
  calm => \A c \in Senders :
    /\ outcome[c] = "ok" => fate[c] = "ok"
    /\ outcome[c] = "failed" => fate[c] = "failed" /\ blame[c] = {c}

\* What a query returns if the reply holds nothing but its own message.
Alone(q) ==
  IF fate[q] = "ok" THEN Result(asked[q], <<Message(q, 0, Truth(asked[q]))>>)
  ELSE <<>>

\* get_status never takes the result of a command for a status, nor misses the
\* status behind it: it looks for a message with doors (get_status).
StatusIsOwn ==
  \A q \in Queries :
    outcome[q] = "ok" /\ asked[q] = "status" => told[q] = Alone(q)

\* In calm surroundings send_command leaves nothing behind in the mailbox that
\* a later query would take for its own answer (the one poll of send_command;
\* get_device_ids and the others take the first completed message).
CalmQueriesExact ==
  calm => \A q \in Queries : outcome[q] = "ok" => told[q] = Alone(q)
=============================================================================
