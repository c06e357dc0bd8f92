----------------------------- MODULE SdkSession -----------------------------
(***************************************************************************)
(* SdkClient (sdk_client.py) and try_signing_keys (sdk_protocol.py): the   *)
(* session key cached without a lock, its local expiry, and calls of two   *)
(* POSTs each - sdk/info for the hub's clock, which becomes the time stamp *)
(* of the sdk/message that follows.  Time is explicit: a POST takes at     *)
(* most InfoDelay or MessageDelay, the two ClientTimeouts.                 *)
(***************************************************************************)
EXTENDS Integers, Sequences

CONSTANTS
  Calls,          \* invocations of SdkClient.call
  Histories,      \* those made by get_notification_history
  Margin,         \* _SESSION_MARGIN_SECONDS
  Floor,          \* _MIN_SESSION_SECONDS
  DefaultExpiry,  \* the expiresIn assumed when the reply shows none
  Grants,         \* the expiresIn values the hub may grant
  Unread,         \* those that may be missing from the decoded reply
  InfoDelay,      \* the longest an sdk/info exchange takes
  MessageDelay,   \* the longest an sdk/message exchange takes
  MaxClock        \* bound on the clock

ASSUME NumbersAssumption ==
  /\ {Margin, DefaultExpiry, InfoDelay, MessageDelay, MaxClock} \subseteq Nat
  /\ Floor \in Nat \ {0}
  /\ Grants \subseteq Nat
  /\ Unread \subseteq Grants
ASSUME HistoriesAssumption == Histories \subseteq Calls

VARIABLES
  clock,      \* time.monotonic(), and the hub's clock
  userId,     \* whether the credentials name a user_id; never changes
  key,        \* SdkClient._session_key; 0 is ""
  expiresAt,  \* SdkClient._session_expires_at
  open,       \* whether the aiohttp ClientSession is open
  pc,         \* the await each call is suspended at
  began,      \* when that await began
  using,      \* the key a call's message is signed with
  stamp,      \* the time stamp of a call's message
  reply,      \* the hub's answer, as _decode makes it out
  outcome,    \* how each call returned or raised
  grants,     \* hub: when it granted each key and for how long, in their order,
              \* and how long the client read that to be
  forgotten,  \* hub: the keys it does not know any more
  executed,   \* hub: how often it carried out each call's command
  late        \* abandoned messages the hub may still carry out

clientVars == <<key, expiresAt, open, userId>>
hubVars == <<grants, forgotten, executed, late>>
vars == <<clock, userId, key, expiresAt, open, pc, began, using, stamp, reply,
          outcome, grants, forgotten, executed, late>>

Larger(a, b) == IF a > b THEN a ELSE b

\* How an answer decodes.  "undecodable" also stands for a MAC the hub calls
\* INVALID and for no answer at all: try_signing_keys turns both into {}.
Answer(kind, k, expiresIn) == [kind |-> kind, key |-> k, expiresIn |-> expiresIn]
NoAnswer == Answer("none", 0, 0)
Undecodable == Answer("undecodable", 0, 0)

Live == {k \in DOMAIN grants : clock < grants[k].at + grants[k].expiresIn}
          \ forgotten

\* How long a key is cached.
Lifetime(expiresIn) == Larger(expiresIn - Margin, Floor)

\* The time stamp of a message that carries the client's own clock.
LocalTime == -1

Init ==
  /\ clock = 0
  /\ userId \in BOOLEAN
  /\ key = 0
  /\ expiresAt = 0
  /\ open = TRUE
  /\ pc = [c \in Calls |-> "idle"]
  /\ began = [c \in Calls |-> 0]
  /\ using = [c \in Calls |-> 0]
  /\ stamp = [c \in Calls |-> LocalTime]
  /\ reply = [c \in Calls |-> NoAnswer]
  /\ outcome = [c \in Calls |-> "none"]
  /\ grants = <<>>
  /\ forgotten = {}
  /\ executed = [c \in Calls |-> 0]
  /\ late = {}
-----------------------------------------------------------------------------
(* The client.                                                             *)

Finish(c, how) ==
  /\ pc' = [pc EXCEPT ![c] = "done"]
  /\ outcome' = [outcome EXCEPT ![c] = how]
  /\ reply' = [reply EXCEPT ![c] = NoAnswer]
  /\ stamp' = [stamp EXCEPT ![c] = LocalTime]
  /\ began' = [began EXCEPT ![c] = 0]
  /\ using' = [using EXCEPT ![c] = 0]

\* A POST by a call that is to use key k; on a closed ClientSession it raises
\* RuntimeError.
Post(c, where, time, k) ==
  \/ /\ open
     /\ pc' = [pc EXCEPT ![c] = where]
     /\ began' = [began EXCEPT ![c] = clock]
     /\ stamp' = [stamp EXCEPT ![c] = time]
     /\ using' = [using EXCEPT ![c] = k]
     /\ reply' = [reply EXCEPT ![c] = NoAnswer]
     /\ UNCHANGED outcome
  \/ ~open /\ Finish(c, "broken")

PostInfo(c, where, k) == Post(c, where, LocalTime, k)

\* get_notification_history raises before it calls anything.
HistoryRefused(c) ==
  /\ pc[c] = "idle"
  /\ c \in Histories /\ ~userId
  /\ Finish(c, "auth")
  /\ UNCHANGED <<clock, clientVars, hubVars>>

\* call: a cached key that has not expired locally is used, else `auth` first.
Start(c) ==
  /\ pc[c] = "idle"
  /\ c \in Histories => userId
  /\ \/ /\ key # 0 /\ clock < expiresAt
        /\ PostInfo(c, "info", key)
     \/ /\ ~(key # 0 /\ clock < expiresAt)
        /\ PostInfo(c, "authInfo", 0)
  /\ UNCHANGED <<clock, clientVars, hubVars>>

\* fetch_hub_timestamp: the hub's clock at some moment of the exchange, or the
\* local one if the exchange fails or yields none; then the message is sent.
Stamp(c) ==
  /\ \E time \in began[c]..clock \cup {LocalTime} :
       \/ pc[c] = "authInfo" /\ Post(c, "auth", time, 0)
       \/ pc[c] = "info" /\ Post(c, "message", time, using[c])
  /\ UNCHANGED <<clock, clientVars, hubVars>>

\* A body that is not the expected JSON raises ValueError or AttributeError.
Garbled(c) ==
  /\ pc[c] \in {"authInfo", "info", "authReply", "reply"}
  /\ Finish(c, "broken")
  /\ UNCHANGED <<clock, clientVars, hubVars>>

\* Mutation: the key is kept for as long as the hub grants it.
HandleAuthNoMargin(c) ==
  /\ pc[c] = "authReply"
  /\ reply[c].kind = "key"
  /\ key' = reply[c].key
  /\ expiresAt' = clock + Larger(reply[c].expiresIn, Floor)
  /\ PostInfo(c, "info", reply[c].key)
  /\ UNCHANGED <<clock, userId, open, hubVars>>

\* Mutation: the lifetime is set off against the clock, not added to it.
HandleAuthSetOff(c) ==
  /\ pc[c] = "authReply"
  /\ reply[c].kind = "key"
  /\ key' = reply[c].key
  /\ expiresAt' = Lifetime(reply[c].expiresIn) - clock
  /\ PostInfo(c, "info", reply[c].key)
  /\ UNCHANGED <<clock, userId, open, hubVars>>

\* _ensure_session: cache the key, whichever concurrent call it replaces.
HandleAuth(c) ==
  /\ pc[c] = "authReply"
  /\ reply[c].kind = "key"
  /\ key' = reply[c].key
  /\ expiresAt' = clock + Lifetime(reply[c].expiresIn)
  /\ PostInfo(c, "info", reply[c].key)
  /\ UNCHANGED <<clock, userId, open, hubVars>>

HandleNoAuth(c) ==
  /\ pc[c] = "authReply"
  /\ reply[c].kind \in {"rejected", "undecodable"}
  /\ Finish(c, "auth")
  /\ UNCHANGED <<clock, clientVars, hubVars>>

\* Mutation: a reply that shows no errorCode counts as success.
HandleReplyLenient(c) ==
  /\ pc[c] = "reply"
  /\ \/ reply[c].kind \in {"ok", "undecodable"} /\ Finish(c, "ok")
     \/ reply[c].kind = "rejected" /\ Finish(c, "command")
  /\ UNCHANGED <<clock, clientVars, hubVars>>

HandleReply(c) ==
  /\ pc[c] = "reply"
  /\ \/ reply[c].kind = "ok" /\ Finish(c, "ok")
     \/ reply[c].kind \in {"rejected", "undecodable"} /\ Finish(c, "command")
  /\ UNCHANGED <<clock, clientVars, hubVars>>

\* Mutation: a message that is not answered is sent again as it is.
NetFailResent(c) ==
  /\ \/ pc[c] \in {"auth", "authReply"} /\ Finish(c, "auth") /\ UNCHANGED late
     \/ pc[c] = "reply" /\ Finish(c, "command") /\ UNCHANGED late
     \/ /\ pc[c] = "message"
        /\ Post(c, "message", stamp[c], using[c])
        /\ UNCHANGED late
  /\ UNCHANGED <<clock, clientVars, grants, forgotten, executed>>

\* A timeout or ClientError of sdk/message ends try_signing_keys with {}, which
\* is an AuthenticationError of the auth call, a HubCommandError of any other.
NetFail(c) ==
  /\ \/ pc[c] \in {"auth", "authReply"} /\ Finish(c, "auth") /\ UNCHANGED late
     \/ pc[c] = "reply" /\ Finish(c, "command") /\ UNCHANGED late
     \/ /\ pc[c] = "message"
        /\ Finish(c, "command")
        /\ late' = late \cup {[call |-> c, key |-> using[c]]}
  /\ UNCHANGED <<clock, clientVars, grants, forgotten, executed>>

Close ==
  /\ open
  /\ open' = FALSE
  /\ UNCHANGED <<clock, userId, key, expiresAt, pc, began, using, stamp, reply,
                 outcome, hubVars>>
-----------------------------------------------------------------------------
(* The hub, as the client's handling of its answers describes it.          *)

Respond(c, where, answer) ==
  /\ pc' = [pc EXCEPT ![c] = where]
  /\ reply' = [reply EXCEPT ![c] = answer]
  /\ stamp' = [stamp EXCEPT ![c] = LocalTime]
  /\ using' = [using EXCEPT ![c] = 0]
  /\ UNCHANGED <<clock, clientVars, began, outcome, late>>

\* What the client may take the expiresIn of a grant for.
Readings(expiresIn) ==
  {expiresIn} \cup (IF expiresIn \in Unread THEN {DefaultExpiry} ELSE {})

\* A key is granted.  What _decode makes of the reply may lack the expiresIn,
\* or the key.
HubAuth(c) ==
  /\ pc[c] = "auth"
  /\ \E e \in Grants : \E read \in Readings(e) :
       /\ grants' = Append(grants, [at |-> clock, expiresIn |-> e, read |-> read])
       /\ \/ Respond(c, "authReply", Answer("key", Len(grants'), read))
          \/ Respond(c, "authReply", Undecodable)
  /\ UNCHANGED <<forgotten, executed>>

HubRefuse(c) ==
  /\ pc[c] = "auth"
  /\ Respond(c, "authReply", Answer("rejected", 0, 0))
  /\ UNCHANGED <<grants, forgotten, executed>>

\* The command is carried out and answered with success, with an error, or
\* with something that does not decode.
HubServe(c) ==
  /\ pc[c] = "message"
  /\ using[c] \in Live
  /\ executed' = [executed EXCEPT ![c] = @ + 1]
  /\ \E answer \in {Answer("ok", 0, 0), Answer("rejected", 0, 0), Undecodable} :
       Respond(c, "reply", answer)
  /\ UNCHANGED <<grants, forgotten>>

\* A message that does not carry the hub's own time may be turned down.
HubDistrust(c) ==
  /\ pc[c] = "message"
  /\ stamp[c] = LocalTime
  /\ Respond(c, "reply", Answer("rejected", 0, 0))
  /\ UNCHANGED <<grants, forgotten, executed>>

\* A key the hub does not know, or not any more: the MAC is INVALID.
HubInvalid(c) ==
  /\ pc[c] = "message"
  /\ using[c] \notin Live
  /\ Respond(c, "reply", Undecodable)
  /\ UNCHANGED <<grants, forgotten, executed>>

HubServeLate(c) ==
  /\ \E m \in late :
       /\ m.call = c
       /\ m.key \in Live
       /\ late' = late \ {m}
  /\ executed' = [executed EXCEPT ![c] = @ + 1]
  /\ UNCHANGED <<clock, clientVars, pc, began, using, stamp, reply, outcome,
                 grants, forgotten>>

\* A restart of the hub, or a newer session of the phone; a key that nobody
\* holds makes no difference.
HubForget(k) ==
  /\ k \notin forgotten
  /\ k \in {key} \cup {m.key : m \in late} \cup
          UNION {{using[c], reply[c].key} : c \in Calls}
  /\ forgotten' = forgotten \cup {k}
  /\ UNCHANGED <<clock, clientVars, pc, began, using, stamp, reply, outcome,
                 grants, executed, late>>

\* Time passes while every exchange is within its bound.
Tick ==
  /\ clock < MaxClock
  /\ \A c \in Calls :
       /\ pc[c] \in {"authInfo", "info"} => clock - began[c] < InfoDelay
       /\ pc[c] \in {"auth", "authReply", "message", "reply"} =>
            clock - began[c] < MessageDelay
  /\ clock' = clock + 1
  /\ UNCHANGED <<clientVars, pc, began, using, stamp, reply, outcome, hubVars>>

Over ==
  /\ \A c \in Calls : pc[c] = "done"
  /\ UNCHANGED vars
-----------------------------------------------------------------------------
Next ==
  \/ \E c \in Calls :
       \/ Start(c) \/ HistoryRefused(c) \/ Stamp(c) \/ Garbled(c)
       \/ HandleAuth(c) \/ HandleNoAuth(c) \/ HandleReply(c) \/ NetFail(c)
       \/ HubAuth(c) \/ HubRefuse(c) \/ HubServe(c) \/ HubDistrust(c)
       \/ HubInvalid(c) \/ HubServeLate(c)
  \/ \E k \in DOMAIN grants : HubForget(k)
  \/ Close \/ Tick \/ Over

Spec == Init /\ [][Next]_vars
-----------------------------------------------------------------------------
(* Properties.                                                             *)

\* Every variable holds a value of its kind.
TypeOK ==
  /\ clock \in 0..MaxClock
  /\ key \in 0..Len(grants)
  /\ expiresAt \in Nat
  /\ open \in BOOLEAN
  /\ pc \in [Calls -> {"idle", "authInfo", "auth", "authReply", "info",
                       "message", "reply", "done"}]
  /\ began \in [Calls -> 0..MaxClock]
  /\ using \in [Calls -> 0..Len(grants)]
  /\ stamp \in [Calls -> {LocalTime} \cup 0..clock]
  /\ reply \in [Calls -> [kind : {"none", "key", "ok", "rejected",
                                  "undecodable"},
                          key : 0..Len(grants), expiresIn : Nat]]
  /\ outcome \in [Calls -> {"none", "ok", "auth", "command", "broken"}]
  /\ userId \in BOOLEAN
  /\ grants \in Seq([at : Nat, expiresIn : Nat, read : Nat])
  /\ forgotten \subseteq DOMAIN grants
  /\ executed \in [Calls -> Nat]
  /\ late \subseteq [call : Calls, key : 1..Len(grants)]

\* The margin exists "to avoid a request racing against expiry mid-flight"
\* (_SESSION_MARGIN_SECONDS), and the timeouts do not leave room for that.  What
\* holds, however the calls interleave, is how late the race can be: counted from
\* its grant, a key is in flight for no longer than its cached lifetime, two
\* sdk/message exchanges (the `auth` that brought it, the message) and one
\* sdk/info.  With the code's numbers that is up to 30 s after a grant of 15 s or
\* more that was read.  Keys the hub has forgotten are included: the calls that
\* fail because such a key is cached end with that time.
OverrunBounded ==
  \A c \in Calls : pc[c] = "message" =>
    LET grant == grants[using[c]]
    IN clock < grant.at + Lifetime(grant.read) + 2 * MessageDelay + InfoDelay

\* A message that carries the hub's own clock shows it as it was at most two
\* exchanges ago: it is asked anew for every message, after the `auth` that may
\* come first (try_signing_keys, fetch_hub_timestamp).
StampFresh ==
  \A c \in Calls :
    pc[c] \in {"auth", "message"} /\ stamp[c] # LocalTime =>
      clock - stamp[c] <= InfoDelay + MessageDelay

\* An AuthenticationError means that "the hub rejected the credentials presented
\* to it" (errors.py), so never a timeout or a reply that does not decode.
AuthErrorMeansRejected ==
  [][\A c \in Calls \ Histories :
       outcome[c] # "auth" /\ outcome'[c] = "auth" => reply[c].kind = "rejected"]_vars

\* Refinement: AtMostOnce seen through the invocations of call.
Status(c) ==
  IF pc[c] = "idle" THEN "idle"
  ELSE IF pc[c] # "done" THEN "pending"
  ELSE IF outcome[c] = "ok" THEN "ok" ELSE "failed"

AMO == INSTANCE AtMostOnce
         WITH status <- [c \in Calls |-> Status(c)], runs <- executed

\* An RPC is carried out at most once, and has been if call returns normally,
\* in spite of authentication races, expired grants and late messages.
ImplementsAtMostOnce == AMO!Spec
=============================================================================
