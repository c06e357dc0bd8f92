----------------------------- MODULE HubSession -----------------------------
(***************************************************************************)
(* The session layer of HubClient (client.py): the cached control-API      *)
(* session, the lock around _call, the single retry after a 403, the       *)
(* unlocked public connect(), rate limiting and task cancellation.         *)
(*                                                                         *)
(* A process is one invocation: a _call or a connect().  asyncio switches  *)
(* tasks only at an await, so one action is everything between two awaits. *)
(* A request that is in flight, its reply, and the hub's own view are      *)
(* separate steps.  Session n has the token n and the secret n; 0 is "".   *)
(***************************************************************************)
EXTENDS Integers

CONSTANTS
  Calls,        \* invocations of HubClient._call
  Connects,     \* invocations of HubClient.connect
  NoOne,        \* the holder of the free lock
  Lifetime,     \* SESSION_LIFETIME_SECONDS, in ticks of the clock
  Throttles,    \* how far ahead, in ticks, the hub may set nextAccess
  Faults,       \* which faulty answers the hub may give (see AllFaults)
  Cancellable,  \* the invocations whose task may be cancelled
  Uptimes,      \* what time.monotonic() may read when the client is created
  MaxClock      \* bound on the clock

Ops == Calls \cup Connects

(***************************************************************************)
(* "denied"   connect answered 401 or 403                                  *)
(* "error"    any other status but 200 (a call may or may not have run)    *)
(* "garbled"  200 with a body that does not parse or lacks sessionId       *)
(* "noSecret" a session granted by a reply without sessionSecret           *)
(* "badLimit" a session granted by a reply with an unusable nextAccess     *)
(***************************************************************************)
AllFaults == {"denied", "error", "garbled", "noSecret", "badLimit"}

ASSUME OpsAssumption ==
  /\ Calls \cap Connects = {}
  /\ NoOne \notin Ops
  /\ Cancellable \subseteq Ops
ASSUME TimeAssumption ==
  /\ Lifetime \in Nat \ {0}
  /\ MaxClock \in Nat
  /\ Uptimes \subseteq 0..MaxClock
  /\ Throttles \subseteq Nat
ASSUME FaultsAssumption == Faults \subseteq AllFaults

VARIABLES
  clock,          \* time.monotonic() of the client's host
  token,          \* HubClient._session_token
  secret,         \* HubClient._session_secret
  establishedAt,  \* HubClient._session_established_at
  lock,           \* HubClient._session_lock
  open,           \* whether the aiohttp ClientSession is open
  pc,             \* the await each invocation is suspended at
  retry,          \* _call's attempt_is_retry
  sent,           \* the session an invocation's request is signed with
  reply,          \* the last answer of the hub to an invocation
  outcome,        \* how each invocation returned or raised
  granted,        \* hub: number of sessions granted so far
  live,           \* hub: the sessions it would accept
  nextAccess,     \* hub: what it announced with its newest session, 0: nothing
  executed,       \* hub: how often it carried out each call's request
  late            \* abandoned requests the hub may still carry out

hubVars == <<granted, live, nextAccess, executed, late>>
sessionVars == <<token, secret, establishedAt>>
vars == <<clock, token, secret, establishedAt, lock, open, pc, retry, sent,
          reply, outcome, granted, live, nextAccess, executed, late>>

Awaits == {"idle", "lock", "connect", "session", "sleep", "call", "reply",
           "done"}
Outcomes == {"none", "ok", "auth", "unreachable", "broken", "cancelled"}
Answers == AllFaults \cup {"none", "granted", "ok", "forbidden"}

\* An answer, the session it grants and the nextAccess it announces.
Reply(kind, session, until) ==
  [kind |-> kind, session |-> session, until |-> until]
NoReply == Reply("none", 0, 0)

Signature(tok, sec) == [token |-> tok, secret |-> sec]
Unsigned == Signature(0, 0)

Init ==
  /\ clock \in Uptimes
  /\ token = 0
  /\ secret = 0
  /\ establishedAt = 0
  /\ lock = NoOne
  /\ open = TRUE
  /\ pc = [o \in Ops |-> "idle"]
  /\ retry = [o \in Ops |-> FALSE]
  /\ sent = [o \in Ops |-> Unsigned]
  /\ reply = [o \in Ops |-> NoReply]
  /\ outcome = [o \in Ops |-> "none"]
  /\ granted = 0
  /\ live = {}
  /\ nextAccess = 0
  /\ executed = [c \in Calls |-> 0]
  /\ late = {}
-----------------------------------------------------------------------------
(* Building blocks of the client's actions.                                *)

\* The test of _active_session.
Usable == token # 0 /\ clock - establishedAt < Lifetime

\* Mutation: the lock is released by hand, without a finally.
LeaveWithoutFinally(o, how) ==
  /\ pc' = [pc EXCEPT ![o] = "done"]
  /\ outcome' = [outcome EXCEPT ![o] = how]
  /\ lock' = IF lock = o /\ how # "cancelled" THEN NoOne ELSE lock
  /\ retry' = [retry EXCEPT ![o] = FALSE]
  /\ reply' = [reply EXCEPT ![o] = NoReply]

\* The invocation returns or raises: its locals are gone, and leaving _call's
\* `async with` frees the lock.
Leave(o, how) ==
  /\ pc' = [pc EXCEPT ![o] = "done"]
  /\ outcome' = [outcome EXCEPT ![o] = how]
  /\ lock' = IF lock = o THEN NoOne ELSE lock
  /\ retry' = [retry EXCEPT ![o] = FALSE]
  /\ reply' = [reply EXCEPT ![o] = NoReply]

Finish(o, how) ==
  /\ Leave(o, how)
  /\ sent' = [sent EXCEPT ![o] = Unsigned]

\* A POST: suspended at `where`, holding the lock if it is a call.  On a closed
\* ClientSession aiohttp raises RuntimeError, which no handler here catches.
Post(o, where, signature, again) ==
  \/ /\ open
     /\ pc' = [pc EXCEPT ![o] = where]
     /\ lock' = IF o \in Calls THEN o ELSE lock
     /\ sent' = [sent EXCEPT ![o] = signature]
     /\ retry' = [retry EXCEPT ![o] = again]
     /\ UNCHANGED <<reply, outcome>>
  \/ ~open /\ Finish(o, "broken")

PostConnect(o, again) == Post(o, "connect", Unsigned, again)

\* What follows _establish_session: connect() returns, _call posts its request
\* with the session fields as they are by now.
Proceed(o, tok, sec) ==
  \/ o \in Connects /\ Finish(o, "ok")
  \/ o \in Calls /\ Post(o, "call", Signature(tok, sec), retry[o])

Store(tok, sec, at) == token' = tok /\ secret' = sec /\ establishedAt' = at
-----------------------------------------------------------------------------
(* The client.                                                             *)

StartConnect(o) ==
  /\ pc[o] = "idle"
  /\ PostConnect(o, FALSE)
  /\ UNCHANGED <<clock, sessionVars, open, hubVars>>

StartCall(c) ==
  /\ pc[c] = "idle"
  /\ pc' = [pc EXCEPT ![c] = "lock"]
  /\ UNCHANGED <<clock, sessionVars, lock, open, retry, sent, reply, outcome,
                 hubVars>>

\* Mutation: _call without the lock.
AcquireUnlocked(c) ==
  /\ pc[c] = "lock"
  /\ \/ Usable /\ Post(c, "call", Signature(token, secret), FALSE)
     \/ ~Usable /\ PostConnect(c, FALSE)
  /\ UNCHANGED <<clock, sessionVars, open, hubVars>>

\* The first attempt: the cached session if it is usable, else a new one.
Acquire(c) ==
  /\ pc[c] = "lock"
  /\ lock = NoOne
  /\ \/ Usable /\ Post(c, "call", Signature(token, secret), FALSE)
     \/ ~Usable /\ PostConnect(c, FALSE)
  /\ UNCHANGED <<clock, sessionVars, open, hubVars>>

\* Mutation: the rate limit is not slept off.
GrantWithoutWait(o) ==
  /\ pc[o] = "session"
  /\ reply[o].kind = "granted"
  /\ Store(reply[o].session, reply[o].session, clock)
  /\ Proceed(o, reply[o].session, reply[o].session)
  /\ UNCHANGED <<clock, open, hubVars>>

\* Mutation: the session's age counts from the moment it may be used.
GrantStampedAhead(o) ==
  /\ pc[o] = "session"
  /\ reply[o].kind = "granted"
  /\ Store(reply[o].session, reply[o].session, reply[o].until)
  /\ pc' = [pc EXCEPT ![o] = "sleep"]
  /\ UNCHANGED <<clock, open, lock, retry, sent, reply, outcome, hubVars>>

\* The session is stored before the rate limit is slept off.
HandleGrant(o) ==
  /\ pc[o] = "session"
  /\ reply[o].kind = "granted"
  /\ Store(reply[o].session, reply[o].session, clock)
  /\ \/ /\ reply[o].until > clock
        /\ pc' = [pc EXCEPT ![o] = "sleep"]
        /\ UNCHANGED <<lock, retry, sent, reply, outcome>>
     \/ /\ reply[o].until <= clock
        /\ Proceed(o, reply[o].session, reply[o].session)
  /\ UNCHANGED <<clock, open, hubVars>>

Wake(o) ==
  /\ pc[o] = "sleep"
  /\ clock >= reply[o].until
  /\ Proceed(o, token, secret)
  /\ UNCHANGED <<clock, sessionVars, open, hubVars>>

\* Mutation: the time stamp is assigned before the secret is looked up.
NoSecretStamped(o) ==
  /\ pc[o] = "session"
  /\ reply[o].kind = "noSecret"
  /\ Store(reply[o].session, secret, clock)
  /\ Finish(o, "broken")
  /\ UNCHANGED <<clock, open, hubVars>>

\* KeyError on reply["sessionSecret"], after the token has been assigned.
HandleNoSecret(o) ==
  /\ pc[o] = "session"
  /\ reply[o].kind = "noSecret"
  /\ Store(reply[o].session, secret, establishedAt)
  /\ Finish(o, "broken")
  /\ UNCHANGED <<clock, open, hubVars>>

\* TypeError or AttributeError in _respect_rate_limit, the session is stored.
HandleBadLimit(o) ==
  /\ pc[o] = "session"
  /\ reply[o].kind = "badLimit"
  /\ Store(reply[o].session, reply[o].session, clock)
  /\ Finish(o, "broken")
  /\ UNCHANGED <<clock, open, hubVars>>

HandleRefusal(o) ==
  /\ pc[o] = "session"
  /\ \/ reply[o].kind = "denied" /\ Finish(o, "auth")
     \/ reply[o].kind = "error" /\ Finish(o, "unreachable")
     \/ reply[o].kind = "garbled" /\ Finish(o, "broken")
  /\ UNCHANGED <<clock, sessionVars, open, hubVars>>

\* Mutation: whatever status is not 200 is worth a second attempt.
RetryAnyStatus(c) ==
  /\ pc[c] = "reply"
  /\ reply[c].kind \in {"forbidden", "error"}
  /\ ~retry[c]
  /\ Store(0, secret, 0)
  /\ PostConnect(c, TRUE)
  /\ UNCHANGED <<clock, open, hubVars>>

\* Mutation: the rejected session is not forgotten before the loop goes round.
RetryWithCache(c) ==
  /\ pc[c] = "reply"
  /\ reply[c].kind = "forbidden"
  /\ ~retry[c]
  /\ \/ Usable /\ Post(c, "call", Signature(token, secret), TRUE)
     \/ ~Usable /\ PostConnect(c, TRUE)
  /\ UNCHANGED <<clock, sessionVars, open, hubVars>>

\* A 403 to the first attempt: forget the session and go round the loop once
\* more, where _active_session finds no token and negotiates a new session.
HandleRejection(c) ==
  /\ pc[c] = "reply"
  /\ reply[c].kind = "forbidden"
  /\ ~retry[c]
  /\ Store(0, secret, 0)
  /\ PostConnect(c, TRUE)
  /\ UNCHANGED <<clock, open, hubVars>>

\* Mutation: only the body tells success from failure.
ReplyWithoutStatus(c) ==
  /\ pc[c] = "reply"
  /\ \/ reply[c].kind \in {"ok", "error"} /\ Finish(c, "ok")
     \/ reply[c].kind = "garbled" /\ Finish(c, "broken")
     \/ reply[c].kind = "forbidden" /\ retry[c] /\ Finish(c, "unreachable")
  /\ UNCHANGED <<clock, sessionVars, open, hubVars>>

\* Every other answer ends the call; a 403 to the retry is just "not 200".
HandleReply(c) ==
  /\ pc[c] = "reply"
  /\ \/ reply[c].kind = "ok" /\ Finish(c, "ok")
     \/ reply[c].kind = "garbled" /\ Finish(c, "broken")
     \/ reply[c].kind = "error" /\ Finish(c, "unreachable")
     \/ reply[c].kind = "forbidden" /\ retry[c] /\ Finish(c, "unreachable")
  /\ UNCHANGED <<clock, sessionVars, open, hubVars>>

\* The caller leaves whatever it was waiting for.  A request the hub has not
\* seen yet is on its way and cannot be recalled.
Abandon(o, how) ==
  /\ \/ /\ pc[o] = "call"
        /\ Leave(o, how)
        /\ late' = late \cup {o}
        /\ UNCHANGED sent
     \/ /\ pc[o] # "call"
        /\ Finish(o, how)
        /\ UNCHANGED late
  /\ UNCHANGED <<clock, sessionVars, open, granted, live, nextAccess, executed>>

\* Mutation: the control requests have no ClientTimeout.
NetFailOfConnect(o) ==
  /\ pc[o] \in {"connect", "session"}
  /\ Abandon(o, "unreachable")

\* The ClientTimeout of the POST or a ClientError.
NetFail(o) ==
  /\ pc[o] \in {"connect", "session", "call", "reply"}
  /\ Abandon(o, "unreachable")

\* The awaiting task is cancelled, for example by a caller's own timeout.
Cancel(o) ==
  /\ o \in Cancellable
  /\ pc[o] \notin {"idle", "done"}
  /\ Abandon(o, "cancelled")

\* close() of a client that owns its ClientSession.
Close ==
  /\ open
  /\ open' = FALSE
  /\ UNCHANGED <<clock, sessionVars, lock, pc, retry, sent, reply, outcome,
                 hubVars>>
-----------------------------------------------------------------------------
(* The hub, as the client's handling of its answers describes it.          *)

Accepts(signature) ==
  signature.token \in live /\ signature.token = signature.secret

Answer(o, where, answer) ==
  /\ pc' = [pc EXCEPT ![o] = where]
  /\ reply' = [reply EXCEPT ![o] = answer]
  /\ UNCHANGED <<clock, sessionVars, lock, open, retry, sent, outcome, late>>

\* A session is granted, in a reply that may be incomplete.
HubGrant(o) ==
  /\ pc[o] = "connect"
  /\ granted' = granted + 1
  /\ live' = live \cup {granted + 1}
  /\ \/ \E until \in {clock + d : d \in Throttles} :
          /\ until <= MaxClock
          /\ nextAccess' = until
          /\ Answer(o, "session", Reply("granted", granted + 1, until))
     \/ \E f \in Faults \cap {"noSecret", "badLimit"} :
          /\ nextAccess' = 0
          /\ Answer(o, "session", Reply(f, granted + 1, 0))
  /\ UNCHANGED executed

HubRefuse(o) ==
  /\ pc[o] = "connect"
  /\ \E f \in Faults \cap {"denied", "error", "garbled"} :
       Answer(o, "session", Reply(f, 0, 0))
  /\ UNCHANGED <<granted, live, nextAccess, executed>>

\* The hub carries the request out and answers, usefully or not.
HubServe(c) ==
  /\ pc[c] = "call"
  /\ Accepts(sent[c])
  /\ executed' = [executed EXCEPT ![c] = @ + 1]
  /\ \E k \in {"ok"} \cup (Faults \cap {"error", "garbled"}) :
       Answer(c, "reply", Reply(k, 0, 0))
  /\ UNCHANGED <<granted, live, nextAccess>>

\* A session the hub does not know, or a signature with another secret: 403,
\* nothing is carried out.  An "error" is also possible before anything is.
HubReject(c) ==
  /\ pc[c] = "call"
  /\ \/ ~Accepts(sent[c]) /\ Answer(c, "reply", Reply("forbidden", 0, 0))
     \/ "error" \in Faults /\ Answer(c, "reply", Reply("error", 0, 0))
  /\ UNCHANGED <<granted, live, nextAccess, executed>>

\* An abandoned request arrives; nobody is there for the answer.
HubServeLate(c) ==
  /\ c \in late
  /\ Accepts(sent[c])
  /\ executed' = [executed EXCEPT ![c] = @ + 1]
  /\ late' = late \ {c}
  /\ UNCHANGED <<clock, sessionVars, lock, open, pc, retry, sent, reply,
                 outcome, granted, live, nextAccess>>

\* Expiry, a restart of the hub, or a newer session of the same phone; of a
\* session that anybody could still present.
HubForget(s) ==
  /\ s \in live
  /\ \/ s = token
     \/ \E o \in Ops : s \in {sent[o].token, reply[o].session}
  /\ live' = live \ {s}
  /\ UNCHANGED <<clock, sessionVars, lock, open, pc, retry, sent, reply,
                 outcome, granted, nextAccess, executed, late>>

Tick ==
  /\ clock < MaxClock
  /\ clock' = clock + 1
  /\ UNCHANGED <<sessionVars, lock, open, pc, retry, sent, reply, outcome,
                 hubVars>>

\* Every invocation is over: the one state in which nothing need happen.
Over ==
  /\ \A o \in Ops : pc[o] = "done"
  /\ UNCHANGED vars
-----------------------------------------------------------------------------
Establish(o) ==
  \/ HandleGrant(o) \/ Wake(o) \/ HandleNoSecret(o) \/ HandleBadLimit(o)
  \/ HandleRefusal(o)

Client(o) == Establish(o) \/ NetFail(o) \/ Cancel(o)

Caller(c) ==
  StartCall(c) \/ Acquire(c) \/ HandleRejection(c) \/ HandleReply(c)

Hub ==
  \/ \E o \in Ops : HubGrant(o) \/ HubRefuse(o)
  \/ \E c \in Calls : HubServe(c) \/ HubReject(c) \/ HubServeLate(c)
  \/ \E s \in live : HubForget(s)

Next ==
  \/ \E o \in Ops : Client(o)
  \/ \E o \in Connects : StartConnect(o)
  \/ \E c \in Calls : Caller(c)
  \/ Close \/ Hub \/ Tick \/ Over

Spec == Init /\ [][Next]_vars
-----------------------------------------------------------------------------
(* Fairness.  The event loop runs whatever is ready; every POST carries a  *)
(* ClientTimeout, so an exchange ends even if the hub never answers; an    *)
(* asyncio.Lock wakes its waiters first come, first served; time passes.   *)
(* Nothing is assumed of the hub or of the callers.                        *)

Fairness ==
  /\ \A o \in Ops : WF_vars(Establish(o)) /\ WF_vars(NetFail(o))
  /\ \A c \in Calls :
       /\ SF_vars(Acquire(c))
       /\ WF_vars(HandleRejection(c) \/ HandleReply(c))
  /\ WF_vars(Tick)

FairSpec == Spec /\ Fairness
-----------------------------------------------------------------------------
(* Properties.                                                             *)

\* Every variable holds a value of its kind.
TypeOK ==
  /\ clock \in 0..MaxClock
  /\ token \in Nat /\ secret \in Nat /\ establishedAt \in 0..clock
  /\ lock \in Calls \cup {NoOne}
  /\ open \in BOOLEAN
  /\ pc \in [Ops -> Awaits]
  /\ retry \in [Ops -> BOOLEAN]
  /\ sent \in [Ops -> [token : Nat, secret : Nat]]
  /\ reply \in [Ops -> [kind : Answers, session : Nat, until : 0..MaxClock]]
  /\ outcome \in [Ops -> Outcomes]
  /\ granted \in Nat
  /\ live \subseteq Nat
  /\ nextAccess \in 0..MaxClock
  /\ executed \in [Calls -> Nat]
  /\ late \subseteq Calls

InCall == {"connect", "session", "sleep", "call", "reply"}

\* The lock is held exactly while a call is between acquiring it and ending,
\* however it ends: no two calls negotiate or use the session at once, and no
\* exception, timeout or cancellation leaves the lock behind (_call).
OneCallAtATime == \A c \in Calls : pc[c] \in InCall <=> lock = c

\* The hub carries a call's request out at most once, in spite of the retry
\* and of requests that arrive after their caller has timed out (_call).
ExecutedAtMostOnce == \A c \in Calls : executed[c] <= 1

\* Only the holder of the session lock changes the session fields while the
\* lock is held: the comment on _session_lock says that it "serializes access
\* to the mutable session-negotiation state".
SessionAccessSerialized ==
  [][\A c \in Calls :
       lock = c /\ sessionVars' # sessionVars => pc'[c] # pc[c]]_vars

\* The second attempt of a call is signed with the session that this very call
\* negotiated after the hub had rejected its first attempt, never with a
\* cached one and never with the secret of another session (_call).
RetryUsesOwnSession ==
  \A c \in Calls :
    retry[c] /\ pc[c] = "call" =>
      sent[c] = Signature(reply[c].session, reply[c].session)

\* As long as no task has been cancelled, no call reaches the hub before the
\* moment that the hub announced with its newest session (_respect_rate_limit
\* runs before the request, under the lock).  A call that is cancelled in that
\* sleep leaves its session stored, and the next call uses it at once.
RateLimitRespected ==
  [][(\A o \in Ops : outcome[o] # "cancelled") =>
       \A c \in Calls :
         pc[c] # "call" /\ pc'[c] = "call" => clock >= nextAccess]_vars

\* A session of which only the token was received, its secret still being that
\* of an older one, is never taken for the cached session by _active_session:
\* the old time stamp, or the initial 0.0, is too old by then.  This takes a host
\* that has been up for a session's lifetime (Uptimes); on one that has not, the
\* initial 0.0 passes for recent and the half-stored session is used once.
TornSessionUnused == token # secret => ~Usable

\* A call that the hub rejects with 403 again after the session has been
\* re-established raises AuthenticationError, as the last statement of _call
\* says ("rejected even after re-establishing a session").
RejectedTwiceIsAuthError ==
  [][\A c \in Calls :
       HandleReply(c) /\ reply[c].kind = "forbidden" => outcome'[c] = "auth"]_vars

\* Every call() and connect() that has been started returns or raises.
EveryOpEnds == \A o \in Ops : pc[o] # "idle" ~> pc[o] = "done"

\* Refinement: AtMostOnce seen through the invocations of _call.
Status(c) ==
  IF pc[c] = "idle" THEN "idle"
  ELSE IF pc[c] # "done" THEN "pending"
  ELSE IF outcome[c] = "ok" THEN "ok" ELSE "failed"

AMO == INSTANCE AtMostOnce
         WITH status <- [c \in Calls |-> Status(c)], runs <- executed

\* Every behaviour of the session layer is one the caller was promised.
ImplementsAtMostOnce == AMO!Spec
=============================================================================
