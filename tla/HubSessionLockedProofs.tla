----------------------- MODULE HubSessionLockedProofs -----------------------
(***************************************************************************)
(* Proofs about HubSession as long as nobody calls connect(), so that all  *)
(* that touches the session does so under the lock.  What the lock is for  *)
(* holds then, for any number of calls.                                    *)
(***************************************************************************)
EXTENDS HubSessionProofs

\* A call that negotiates does so because there is no session to use, and no
\* other call gives it one meanwhile.
NegotiatesForNeed ==
  \A c \in Calls : pc[c] \in {"connect", "session"} => ~Usable

\* The answers that grant a session name one.
GrantsAreNamed ==
  \A c \in Calls :
    pc[c] = "session" /\ reply[c].kind \in {"granted", "noSecret", "badLimit"}
      => reply[c].session # 0

\* The session that a call sleeps on is the one that is stored.
SleepsOnItsSession ==
  \A c \in Calls :
    pc[c] = "sleep" => token = reply[c].session /\ secret = reply[c].session

Locked ==
  /\ IInv
  /\ NegotiatesForNeed /\ GrantsAreNamed /\ SleepsOnItsSession
  /\ RetryUsesOwnSession

NobodyCancelled == \A o \in Ops : outcome[o] # "cancelled"

Settled == \A c \in Calls : pc[c] \notin {"connect", "session", "sleep"}

\* Who negotiates knows what the hub announced with its newest session; a
\* session found in the cache has been waited for.
Rated ==
  /\ \A c \in Calls :
       /\ pc[c] = "session" /\ reply[c].kind = "granted" =>
            reply[c].until = nextAccess
       /\ pc[c] = "session" /\ reply[c].kind \in {"noSecret", "badLimit"} =>
            nextAccess = 0
       /\ pc[c] = "sleep" => reply[c].until = nextAccess
  /\ Settled /\ Usable => clock >= nextAccess

RateInv == Locked /\ (NobodyCancelled => Rated)

\* The host has been up for a session's lifetime, and no token means no stamp.
LongUp ==
  /\ clock >= Lifetime
  /\ token = 0 => establishedAt = 0

TornInv == Locked /\ LongUp /\ TornSessionUnused

-----------------------------------------------------------------------------
USE OpsAssumption, TimeAssumption, FaultsAssumption
    DEF Ops, Awaits, Outcomes, Answers, AllFaults, InCall, Reply, NoReply,
        Signature, Unsigned, sessionVars, hubVars

\* Initially there is no session and nobody wants one.
LEMMA InitLocked == Init => Locked
<1> SUFFICES ASSUME Init PROVE Locked OBVIOUS
<1>1. IInv BY InitIInv
<1> QED
  BY <1>1 DEF Init, Locked, NegotiatesForNeed, GrantsAreNamed,
         SleepsOnItsSession, RetryUsesOwnSession

\* A call that begins to wait for the lock touches nothing.
LEMMA StartCallLocked ==
  ASSUME Locked, Connects = {}, NEW o \in Calls, StartCall(o)
  PROVE  Locked'
<1>1. IInv' BY StartCallIInv DEF Locked
<1>2. NegotiatesForNeed'
  BY DEF Locked, IInv, TypeOK, OneCallAtATime, NegotiatesForNeed,
         GrantsAreNamed, Usable, StartCall
<1>3. GrantsAreNamed'
  BY DEF Locked, IInv, TypeOK, OneCallAtATime, GrantsAreNamed, StartCall
<1>4. SleepsOnItsSession'
  BY DEF Locked, IInv, TypeOK, OneCallAtATime, SleepsOnItsSession, StartCall
<1>5. RetryUsesOwnSession'
  BY DEF Locked, IInv, TypeOK, OneCallAtATime, SleepsOnItsSession,
         RetryUsesOwnSession, StartCall
<1> QED BY <1>1, <1>2, <1>3, <1>4, <1>5 DEF Locked

\* The first attempt takes the cached session, if there is one to use.
LEMMA AcquireLocked ==
  ASSUME Locked, Connects = {}, NEW o \in Calls, Acquire(o)
  PROVE  Locked'
<1>1. IInv' BY AcquireIInv DEF Locked
<1>2. NegotiatesForNeed'
  BY DEF Locked, IInv, TypeOK, OneCallAtATime, NegotiatesForNeed,
         GrantsAreNamed, Usable, Acquire, PostConnect, Post, Finish, Leave
<1>3. GrantsAreNamed'
  BY SMTT(30) DEF Locked, IInv, TypeOK, OneCallAtATime, GrantsAreNamed, Acquire,
         PostConnect, Post, Finish, Leave
<1>4. SleepsOnItsSession'
  BY DEF Locked, IInv, TypeOK, OneCallAtATime, SleepsOnItsSession, Acquire,
         PostConnect, Post, Finish, Leave
<1>5. RetryUsesOwnSession'
  BY DEF Locked, IInv, TypeOK, OneCallAtATime, SleepsOnItsSession,
         RetryUsesOwnSession, Acquire, PostConnect, Post, Finish, Leave
<1> QED BY <1>1, <1>2, <1>3, <1>4, <1>5 DEF Locked

\* A granted session is stored, by the only call that negotiates.
LEMMA HandleGrantLocked ==
  ASSUME Locked, Connects = {}, NEW o \in Calls, HandleGrant(o)
  PROVE  Locked'
<1>1. IInv' BY HandleGrantIInv DEF Locked
<1>2. NegotiatesForNeed'
  BY DEF Locked, IInv, TypeOK, OneCallAtATime, NegotiatesForNeed,
         GrantsAreNamed, Usable, HandleGrant, Store, Proceed, Post, Finish,
         Leave
<1>3. GrantsAreNamed'
  BY DEF Locked, IInv, TypeOK, OneCallAtATime, GrantsAreNamed, HandleGrant,
         Store, Proceed, Post, Finish, Leave
<1>4. SleepsOnItsSession'
  BY DEF Locked, IInv, TypeOK, OneCallAtATime, SleepsOnItsSession,
         HandleGrant, Store, Proceed, Post, Finish, Leave
<1>5. RetryUsesOwnSession'
  BY DEF Locked, IInv, TypeOK, OneCallAtATime, SleepsOnItsSession,
         RetryUsesOwnSession, HandleGrant, Store, Proceed, Post, Finish, Leave
<1> QED BY <1>1, <1>2, <1>3, <1>4, <1>5 DEF Locked

\* Nobody has replaced the session during the sleep.
LEMMA WakeLocked ==
  ASSUME Locked, Connects = {}, NEW o \in Calls, Wake(o)
  PROVE  Locked'
<1>1. IInv' BY WakeIInv DEF Locked
<1>2. NegotiatesForNeed'
  BY DEF Locked, IInv, TypeOK, OneCallAtATime, NegotiatesForNeed,
         GrantsAreNamed, Usable, Wake, Proceed, Post, Finish, Leave
<1>3. GrantsAreNamed'
  BY DEF Locked, IInv, TypeOK, OneCallAtATime, GrantsAreNamed, Wake, Proceed,
         Post, Finish, Leave
<1>4. SleepsOnItsSession'
  BY DEF Locked, IInv, TypeOK, OneCallAtATime, SleepsOnItsSession, Wake,
         Proceed, Post, Finish, Leave
<1>5. RetryUsesOwnSession'
  BY DEF Locked, IInv, TypeOK, OneCallAtATime, SleepsOnItsSession,
         RetryUsesOwnSession, Wake, Proceed, Post, Finish, Leave
<1> QED BY <1>1, <1>2, <1>3, <1>4, <1>5 DEF Locked

\* A reply without sessionSecret ends the call that negotiated.
LEMMA HandleNoSecretLocked ==
  ASSUME Locked, Connects = {}, NEW o \in Calls, HandleNoSecret(o)
  PROVE  Locked'
<1>1. IInv' BY HandleNoSecretIInv DEF Locked
<1>2. NegotiatesForNeed'
  BY DEF Locked, IInv, TypeOK, OneCallAtATime, NegotiatesForNeed,
         GrantsAreNamed, Usable, HandleNoSecret, Store, Finish, Leave
<1>3. GrantsAreNamed'
  BY DEF Locked, IInv, TypeOK, OneCallAtATime, GrantsAreNamed, HandleNoSecret,
         Store, Finish, Leave
<1>4. SleepsOnItsSession'
  BY DEF Locked, IInv, TypeOK, OneCallAtATime, SleepsOnItsSession,
         HandleNoSecret, Store, Finish, Leave
<1>5. RetryUsesOwnSession'
  BY DEF Locked, IInv, TypeOK, OneCallAtATime, SleepsOnItsSession,
         RetryUsesOwnSession, HandleNoSecret, Store, Finish, Leave
<1> QED BY <1>1, <1>2, <1>3, <1>4, <1>5 DEF Locked

\* So does an unusable nextAccess.
LEMMA HandleBadLimitLocked ==
  ASSUME Locked, Connects = {}, NEW o \in Calls, HandleBadLimit(o)
  PROVE  Locked'
<1>1. IInv' BY HandleBadLimitIInv DEF Locked
<1>2. NegotiatesForNeed'
  BY DEF Locked, IInv, TypeOK, OneCallAtATime, NegotiatesForNeed,
         GrantsAreNamed, Usable, HandleBadLimit, Store, Finish, Leave
<1>3. GrantsAreNamed'
  BY DEF Locked, IInv, TypeOK, OneCallAtATime, GrantsAreNamed, HandleBadLimit,
         Store, Finish, Leave
<1>4. SleepsOnItsSession'
  BY DEF Locked, IInv, TypeOK, OneCallAtATime, SleepsOnItsSession,
         HandleBadLimit, Store, Finish, Leave
<1>5. RetryUsesOwnSession'
  BY DEF Locked, IInv, TypeOK, OneCallAtATime, SleepsOnItsSession,
         RetryUsesOwnSession, HandleBadLimit, Store, Finish, Leave
<1> QED BY <1>1, <1>2, <1>3, <1>4, <1>5 DEF Locked

\* So does a refusal.
LEMMA HandleRefusalLocked ==
  ASSUME Locked, Connects = {}, NEW o \in Calls, HandleRefusal(o)
  PROVE  Locked'
<1>1. IInv' BY HandleRefusalIInv DEF Locked
<1>2. NegotiatesForNeed'
  BY DEF Locked, IInv, TypeOK, OneCallAtATime, NegotiatesForNeed,
         GrantsAreNamed, Usable, HandleRefusal, Finish, Leave
<1>3. GrantsAreNamed'
  BY DEF Locked, IInv, TypeOK, OneCallAtATime, GrantsAreNamed, HandleRefusal,
         Finish, Leave
<1>4. SleepsOnItsSession'
  BY SMTT(30) DEF Locked, IInv, TypeOK, OneCallAtATime, SleepsOnItsSession,
         HandleRefusal, Finish, Leave
<1>5. RetryUsesOwnSession'
  BY DEF Locked, IInv, TypeOK, OneCallAtATime, SleepsOnItsSession,
         RetryUsesOwnSession, HandleRefusal, Finish, Leave
<1> QED BY <1>1, <1>2, <1>3, <1>4, <1>5 DEF Locked

\* After a 403 there is no session to use.
LEMMA HandleRejectionLocked ==
  ASSUME Locked, Connects = {}, NEW o \in Calls, HandleRejection(o)
  PROVE  Locked'
<1>1. IInv' BY HandleRejectionIInv DEF Locked
<1>2. NegotiatesForNeed'
  BY DEF Locked, IInv, TypeOK, OneCallAtATime, NegotiatesForNeed,
         GrantsAreNamed, Usable, HandleRejection, Store, PostConnect, Post,
         Finish, Leave
<1>3. GrantsAreNamed'
  BY DEF Locked, IInv, TypeOK, OneCallAtATime, GrantsAreNamed,
         HandleRejection, Store, PostConnect, Post, Finish, Leave
<1>4. SleepsOnItsSession'
  BY DEF Locked, IInv, TypeOK, OneCallAtATime, SleepsOnItsSession,
         HandleRejection, Store, PostConnect, Post, Finish, Leave
<1>5. RetryUsesOwnSession'
  BY DEF Locked, IInv, TypeOK, OneCallAtATime, SleepsOnItsSession,
         RetryUsesOwnSession, HandleRejection, Store, PostConnect, Post,
         Finish, Leave
<1> QED BY <1>1, <1>2, <1>3, <1>4, <1>5 DEF Locked

\* Any other answer ends the call.
LEMMA HandleReplyLocked ==
  ASSUME Locked, Connects = {}, NEW o \in Calls, HandleReply(o)
  PROVE  Locked'
<1>1. IInv' BY HandleReplyIInv DEF Locked
<1>2. NegotiatesForNeed'
  BY DEF Locked, IInv, TypeOK, OneCallAtATime, NegotiatesForNeed,
         GrantsAreNamed, Usable, HandleReply, Finish, Leave
<1>3. GrantsAreNamed'
  BY SMTT(30) DEF Locked, IInv, TypeOK, OneCallAtATime, GrantsAreNamed, HandleReply,
         Finish, Leave
<1>4. SleepsOnItsSession'
  BY DEF Locked, IInv, TypeOK, OneCallAtATime, SleepsOnItsSession,
         HandleReply, Finish, Leave
<1>5. RetryUsesOwnSession'
  BY DEF Locked, IInv, TypeOK, OneCallAtATime, SleepsOnItsSession,
         RetryUsesOwnSession, HandleReply, Finish, Leave
<1> QED BY <1>1, <1>2, <1>3, <1>4, <1>5 DEF Locked

\* Giving up leaves the session as it is.
LEMMA AbandonLocked ==
  ASSUME Locked, Connects = {}, NEW o \in Calls,
         NEW how \in Outcomes \ {"none", "ok"},
         pc[o] \notin {"idle", "done"}, Abandon(o, how)
  PROVE  Locked'
<1>1. IInv' BY AbandonIInv DEF Locked
<1>2. NegotiatesForNeed'
  BY DEF Locked, IInv, TypeOK, OneCallAtATime, NegotiatesForNeed,
         GrantsAreNamed, Usable, Abandon, Finish, Leave
<1>3. GrantsAreNamed'
  BY SMTT(30) DEF Locked, IInv, TypeOK, OneCallAtATime, GrantsAreNamed, Abandon,
         Finish, Leave
<1>4. SleepsOnItsSession'
  BY SMTT(30) DEF Locked, IInv, TypeOK, OneCallAtATime, SleepsOnItsSession, Abandon,
         Finish, Leave
<1>5. RetryUsesOwnSession'
  BY SMTT(30) DEF Locked, IInv, TypeOK, OneCallAtATime, SleepsOnItsSession,
         RetryUsesOwnSession, Abandon, Finish, Leave
<1> QED BY <1>1, <1>2, <1>3, <1>4, <1>5 DEF Locked

\* The hub grants a session of a new name.
LEMMA HubGrantLocked ==
  ASSUME Locked, Connects = {}, NEW o \in Calls, HubGrant(o)
  PROVE  Locked'
<1>1. IInv' BY HubGrantIInv DEF Locked
<1>2. NegotiatesForNeed'
  BY DEF Locked, IInv, TypeOK, OneCallAtATime, NegotiatesForNeed,
         GrantsAreNamed, Usable, HubGrant, Answer
<1>3. GrantsAreNamed'
  BY DEF Locked, IInv, TypeOK, OneCallAtATime, GrantsAreNamed, HubGrant,
         Answer
<1>4. SleepsOnItsSession'
  BY DEF Locked, IInv, TypeOK, OneCallAtATime, SleepsOnItsSession, HubGrant,
         Answer
<1>5. RetryUsesOwnSession'
  BY DEF Locked, IInv, TypeOK, OneCallAtATime, SleepsOnItsSession,
         RetryUsesOwnSession, HubGrant, Answer
<1> QED BY <1>1, <1>2, <1>3, <1>4, <1>5 DEF Locked

\* The hub grants no session.
LEMMA HubRefuseLocked ==
  ASSUME Locked, Connects = {}, NEW o \in Calls, HubRefuse(o)
  PROVE  Locked'
<1>1. IInv' BY HubRefuseIInv DEF Locked
<1>2. NegotiatesForNeed'
  BY DEF Locked, IInv, TypeOK, OneCallAtATime, NegotiatesForNeed,
         GrantsAreNamed, Usable, HubRefuse, Answer
<1>3. GrantsAreNamed'
  BY DEF Locked, IInv, TypeOK, OneCallAtATime, GrantsAreNamed, HubRefuse,
         Answer
<1>4. SleepsOnItsSession'
  BY DEF Locked, IInv, TypeOK, OneCallAtATime, SleepsOnItsSession, HubRefuse,
         Answer
<1>5. RetryUsesOwnSession'
  BY DEF Locked, IInv, TypeOK, OneCallAtATime, SleepsOnItsSession,
         RetryUsesOwnSession, HubRefuse, Answer
<1> QED BY <1>1, <1>2, <1>3, <1>4, <1>5 DEF Locked

\* The hub answers a request.
LEMMA HubServeLocked ==
  ASSUME Locked, Connects = {}, NEW o \in Calls, HubServe(o)
  PROVE  Locked'
<1>1. IInv' BY HubServeIInv DEF Locked
<1>2. NegotiatesForNeed'
  BY DEF Locked, IInv, TypeOK, OneCallAtATime, NegotiatesForNeed,
         GrantsAreNamed, Usable, HubServe, Answer
<1>3. GrantsAreNamed'
  BY DEF Locked, IInv, TypeOK, OneCallAtATime, GrantsAreNamed, HubServe,
         Answer
<1>4. SleepsOnItsSession'
  BY DEF Locked, IInv, TypeOK, OneCallAtATime, SleepsOnItsSession, HubServe,
         Answer
<1>5. RetryUsesOwnSession'
  BY DEF Locked, IInv, TypeOK, OneCallAtATime, SleepsOnItsSession,
         RetryUsesOwnSession, HubServe, Answer
<1> QED BY <1>1, <1>2, <1>3, <1>4, <1>5 DEF Locked

\* The hub turns a request down.
LEMMA HubRejectLocked ==
  ASSUME Locked, Connects = {}, NEW o \in Calls, HubReject(o)
  PROVE  Locked'
<1>1. IInv' BY HubRejectIInv DEF Locked
<1>2. NegotiatesForNeed'
  BY DEF Locked, IInv, TypeOK, OneCallAtATime, NegotiatesForNeed,
         GrantsAreNamed, Usable, HubReject, Answer
<1>3. GrantsAreNamed'
  BY DEF Locked, IInv, TypeOK, OneCallAtATime, GrantsAreNamed, HubReject,
         Answer
<1>4. SleepsOnItsSession'
  BY DEF Locked, IInv, TypeOK, OneCallAtATime, SleepsOnItsSession, HubReject,
         Answer
<1>5. RetryUsesOwnSession'
  BY DEF Locked, IInv, TypeOK, OneCallAtATime, SleepsOnItsSession,
         RetryUsesOwnSession, HubReject, Answer
<1> QED BY <1>1, <1>2, <1>3, <1>4, <1>5 DEF Locked

\* The hub carries out an abandoned request.
LEMMA HubServeLateLocked ==
  ASSUME Locked, Connects = {}, NEW o \in Calls, HubServeLate(o)
  PROVE  Locked'
<1>1. IInv' BY HubServeLateIInv DEF Locked
<1>2. NegotiatesForNeed'
  BY DEF Locked, IInv, TypeOK, OneCallAtATime, NegotiatesForNeed,
         GrantsAreNamed, Usable, HubServeLate
<1>3. GrantsAreNamed'
  BY DEF Locked, IInv, TypeOK, OneCallAtATime, GrantsAreNamed, HubServeLate
<1>4. SleepsOnItsSession'
  BY DEF Locked, IInv, TypeOK, OneCallAtATime, SleepsOnItsSession,
         HubServeLate
<1>5. RetryUsesOwnSession'
  BY DEF Locked, IInv, TypeOK, OneCallAtATime, SleepsOnItsSession,
         RetryUsesOwnSession, HubServeLate
<1> QED BY <1>1, <1>2, <1>3, <1>4, <1>5 DEF Locked

\* What changes neither a session nor where a call stands.
LEMMA BackgroundLocked ==
  ASSUME Locked, IInv',
         \/ \E s \in live : HubForget(s)
         \/ Close \/ Tick \/ UNCHANGED vars
  PROVE  Locked'
<1>1. UNCHANGED <<pc, retry, sent, reply, token, secret, establishedAt>>
  BY DEF HubForget, Close, Tick, vars
<1>2. clock' = clock \/ clock' = clock + 1
  BY DEF HubForget, Close, Tick, vars
<1>3. clock \in Nat /\ establishedAt \in Nat /\ Lifetime \in Nat
  BY DEF Locked, IInv, TypeOK
<1>4. NegotiatesForNeed'
  <2> SUFFICES ASSUME NEW c \in Calls, pc[c] \in {"connect", "session"},
                      Usable'
               PROVE  FALSE
    BY <1>1 DEF NegotiatesForNeed
  <2>1. token # 0 /\ clock - establishedAt < Lifetime
    BY <1>1, <1>2, <1>3 DEF Usable
  <2> QED BY <2>1 DEF Locked, NegotiatesForNeed, Usable
<1> QED
  BY <1>1, <1>4 DEF Locked, GrantsAreNamed, SleepsOnItsSession,
         RetryUsesOwnSession

\* Every step preserves the invariant.
LEMMA NextLocked ==
  ASSUME Connects = {}
  PROVE  Locked /\ [Next]_vars => Locked'
<1> SUFFICES ASSUME Locked, [Next]_vars PROVE Locked' OBVIOUS
<1>1. ASSUME NEW o \in Ops, Client(o) PROVE Locked'
  BY <1>1, HandleGrantLocked, WakeLocked, HandleNoSecretLocked,
     HandleBadLimitLocked, HandleRefusalLocked, AbandonLocked
     DEF Client, Establish, NetFail, Cancel
<1>2. ASSUME NEW c \in Calls, Caller(c) PROVE Locked'
  BY <1>2, StartCallLocked, AcquireLocked, HandleRejectionLocked,
     HandleReplyLocked DEF Caller
<1>3. IInv' BY NextIInv DEF Locked
<1>4. CASE Hub
  BY <1>3, <1>4, HubGrantLocked, HubRefuseLocked, HubServeLocked,
     HubRejectLocked, HubServeLateLocked, BackgroundLocked DEF Hub
<1>5. CASE Close \/ Tick \/ Over \/ UNCHANGED vars
  BY <1>3, <1>5, BackgroundLocked DEF Over
<1> QED BY <1>1, <1>2, <1>4, <1>5 DEF Next

\* Without connect() the invariant holds in every reachable state.
THEOREM LockedInvariance ==
  ASSUME Connects = {}
  PROVE  Spec => []Locked
  BY InitLocked, NextLocked, PTL DEF Spec

\* If nobody calls connect(), every retry is signed with the session that its
\* own call negotiated, with any number of calls and cancellations around it.
THEOREM RetriesUseTheirSession ==
  ASSUME Connects = {}
  PROVE  Spec => []RetryUsesOwnSession
<1>1. Locked => RetryUsesOwnSession BY DEF Locked
<1> QED BY <1>1, LockedInvariance, PTL
-----------------------------------------------------------------------------
(* What the lock serializes.                                               *)

\* A step of one call leaves another that holds the lock its session.
LEMMA HolderAlone ==
  ASSUME IInv, Connects = {}, [Next]_vars, NEW c \in Calls, lock = c,
         sessionVars' # sessionVars
  PROVE  pc'[c] # pc[c]
<1>1. ASSUME NEW o \in Ops, Client(o) PROVE pc'[c] # pc[c]
  BY <1>1 DEF IInv, TypeOK, OneCallAtATime, Client, Establish, HandleGrant,
         Wake, HandleNoSecret, HandleBadLimit, HandleRefusal, NetFail, Cancel,
         Abandon, Store, Proceed, Post, Finish, Leave
<1>2. ASSUME NEW o \in Calls, Caller(o) PROVE pc'[c] # pc[c]
  BY <1>2 DEF IInv, TypeOK, OneCallAtATime, Caller, StartCall, Acquire,
         HandleRejection, HandleReply, Store, PostConnect, Post, Finish, Leave
<1>3. ~Hub
  BY DEF Hub, HubGrant, HubRefuse, HubServe, HubReject, HubServeLate,
         HubForget, Answer
<1>4. ~(Close \/ Tick \/ Over \/ UNCHANGED vars)
  BY DEF Close, Tick, Over, vars
<1> QED BY <1>1, <1>2, <1>3, <1>4 DEF Next

\* If nobody calls connect(), the lock does what its comment says: while a call
\* holds it, the session fields change only in that call's own steps.
THEOREM AccessIsSerialized ==
  ASSUME Connects = {}
  PROVE  Spec => SessionAccessSerialized
<1>1. IInv /\ [Next]_vars =>
        [\A c \in Calls :
           lock = c /\ sessionVars' # sessionVars => pc'[c] # pc[c]]_vars
  BY HolderAlone
<1> QED BY <1>1, Invariance, PTL DEF Spec, SessionAccessSerialized
-----------------------------------------------------------------------------
(* The rate limit.                                                         *)

\* No step takes a cancellation back.
LEMMA CancelledStays ==
  ASSUME IInv, [Next]_vars, NobodyCancelled'
  PROVE  NobodyCancelled
<1>1. ASSUME NEW o \in Ops, outcome[o] = "cancelled"
      PROVE  outcome'[o] = "cancelled"
  <2>1. pc[o] = "done" BY <1>1 DEF IInv, OutcomeWhenDone
  <2>2. ASSUME NEW p \in Ops, Client(p) PROVE outcome'[o] = outcome[o]
    BY <2>1, <2>2 DEF IInv, TypeOK, OneCallAtATime, Client, Establish,
           HandleGrant, Wake, HandleNoSecret, HandleBadLimit, HandleRefusal,
           NetFail, Cancel, Abandon, Store, Proceed, Post, Finish, Leave
  <2>3. ASSUME NEW c \in Calls, Caller(c) PROVE outcome'[o] = outcome[o]
    BY <2>1, <2>3 DEF IInv, TypeOK, OneCallAtATime, Caller, StartCall,
           Acquire, HandleRejection, HandleReply, Store, PostConnect, Post,
           Finish, Leave
  <2>4. ASSUME NEW k \in Connects, StartConnect(k)
        PROVE  outcome'[o] = outcome[o]
    BY <2>1, <2>4 DEF IInv, TypeOK, OneCallAtATime, StartConnect, PostConnect,
           Post, Finish, Leave
  <2>5. CASE Hub
    <3>1. UNCHANGED outcome
      BY <2>5 DEF Hub, HubGrant, HubRefuse, HubServe, HubReject, HubServeLate,
             HubForget, Answer
    <3> QED BY <1>1, <3>1
  <2>6. CASE Close \/ Tick \/ Over \/ UNCHANGED vars
    <3>1. UNCHANGED outcome BY <2>6 DEF Close, Tick, Over, vars
    <3> QED BY <1>1, <3>1
  <2> QED BY <1>1, <2>2, <2>3, <2>4, <2>5, <2>6 DEF Next
<1> QED BY <1>1 DEF NobodyCancelled

\* A call that begins announces nothing.
LEMMA StartCallRated ==
  ASSUME Locked, Rated, Connects = {}, NEW o \in Calls, StartCall(o)
  PROVE  Rated'
  BY DEF IInv, TypeOK, OneCallAtATime, Locked, NegotiatesForNeed, Usable,
         Settled, Rated, StartCall

\* A cached session that is usable has been waited for.
LEMMA AcquireRated ==
  ASSUME Locked, Rated, Connects = {}, NEW o \in Calls, Acquire(o)
  PROVE  Rated'
  BY SMTT(30) DEF IInv, TypeOK, OneCallAtATime, Locked, NegotiatesForNeed, Usable,
         Settled, Rated, Acquire, PostConnect, Post, Finish, Leave

\* The moment that a grant announces is waited for, or past.
LEMMA HandleGrantRated ==
  ASSUME Locked, Rated, Connects = {}, NEW o \in Calls, HandleGrant(o)
  PROVE  Rated'
  BY SMTT(30) DEF IInv, TypeOK, OneCallAtATime, Locked, NegotiatesForNeed, Usable,
         Settled, Rated, HandleGrant, Store, Proceed, Post, Finish, Leave

\* It is past when the call wakes up.
LEMMA WakeRated ==
  ASSUME Locked, Rated, Connects = {}, NEW o \in Calls, Wake(o)
  PROVE  Rated'
  BY DEF IInv, TypeOK, OneCallAtATime, Locked, NegotiatesForNeed, Usable,
         Settled, Rated, Wake, Proceed, Post, Finish, Leave

\* A session without its secret was announced without a moment.
LEMMA HandleNoSecretRated ==
  ASSUME Locked, Rated, Connects = {}, NEW o \in Calls, HandleNoSecret(o)
  PROVE  Rated'
  BY DEF IInv, TypeOK, OneCallAtATime, Locked, NegotiatesForNeed, Usable,
         Settled, Rated, HandleNoSecret, Store, Finish, Leave

\* So was one with a moment that cannot be read.
LEMMA HandleBadLimitRated ==
  ASSUME Locked, Rated, Connects = {}, NEW o \in Calls, HandleBadLimit(o)
  PROVE  Rated'
  BY DEF IInv, TypeOK, OneCallAtATime, Locked, NegotiatesForNeed, Usable,
         Settled, Rated, HandleBadLimit, Store, Finish, Leave

\* A call that is refused leaves no usable session behind.
LEMMA HandleRefusalRated ==
  ASSUME Locked, Rated, Connects = {}, NEW o \in Calls, HandleRefusal(o)
  PROVE  Rated'
<1>1. \A c \in Calls :
        /\ (pc'[c] = pc[c] /\ reply'[c] = reply[c]) \/ pc'[c] = "done"
        /\ pc'[c] = pc[c] \/ c = o
  BY DEF Locked, IInv, TypeOK, HandleRefusal, Finish, Leave
<1>2. UNCHANGED <<clock, token, establishedAt, nextAccess>>
  BY DEF HandleRefusal
<1>3. CASE pc[o] \in {"connect", "session"}
  BY <1>1, <1>2, <1>3 DEF Locked, NegotiatesForNeed, Rated, Usable
<1> QED BY <1>3 DEF HandleRefusal

\* Nor is there one after a 403.
LEMMA HandleRejectionRated ==
  ASSUME Locked, Rated, Connects = {}, NEW o \in Calls, HandleRejection(o)
  PROVE  Rated'
  BY DEF IInv, TypeOK, OneCallAtATime, Locked, NegotiatesForNeed, Usable,
         Settled, Rated, HandleRejection, Store, PostConnect, Post, Finish,
         Leave

\* A call that ends otherwise leaves its session as it was.
LEMMA HandleReplyRated ==
  ASSUME Locked, Rated, Connects = {}, NEW o \in Calls, HandleReply(o)
  PROVE  Rated'
  BY DEF IInv, TypeOK, OneCallAtATime, Locked, NegotiatesForNeed, Usable,
         Settled, Rated, HandleReply, Finish, Leave

\* Giving up does not cut a sleep short; only a cancellation does.
LEMMA AbandonRated ==
  ASSUME Locked, Rated, Connects = {}, NEW o \in Calls,
         NEW how \in Outcomes \ {"none", "ok", "cancelled"},
         pc[o] \notin {"idle", "done", "sleep"}, Abandon(o, how)
  PROVE  Rated'
<1>1. \A c \in Calls :
        /\ (pc'[c] = pc[c] /\ reply'[c] = reply[c]) \/ pc'[c] = "done"
        /\ pc'[c] = pc[c] \/ c = o
  BY DEF Locked, IInv, TypeOK, Abandon, Finish, Leave
<1>2. UNCHANGED <<clock, token, establishedAt, nextAccess>>
  BY DEF Abandon
<1>3. CASE pc[o] \in {"connect", "session"}
  BY <1>1, <1>2, <1>3 DEF Locked, NegotiatesForNeed, Rated, Usable
<1>4. CASE pc[o] \in {"lock", "call", "reply"}
  BY <1>1, <1>2, <1>4 DEF Rated, Settled, Usable
<1>5. pc[o] \in Awaits BY DEF Locked, IInv, TypeOK
<1> QED BY <1>3, <1>4, <1>5

\* Whoever asked the hub for a session is told what it announces.
LEMMA HubGrantRated ==
  ASSUME Locked, Rated, Connects = {}, NEW o \in Calls, HubGrant(o)
  PROVE  Rated'
<1>1. pc[o] = "connect" /\ \A c \in Calls \ {o} : pc[c] \notin InCall
  BY DEF Locked, IInv, OneCallAtATime, HubGrant
<1>2. /\ pc' = [pc EXCEPT ![o] = "session"]
      /\ \/ reply' = [reply EXCEPT
                        ![o] = Reply("granted", granted + 1, nextAccess')]
         \/ /\ nextAccess' = 0
            /\ \E f \in {"noSecret", "badLimit"} :
                 reply' = [reply EXCEPT ![o] = Reply(f, granted + 1, 0)]
  BY DEF HubGrant, Answer
<1>3. /\ pc'[o] = "session"
      /\ \/ reply'[o].kind = "granted" /\ reply'[o].until = nextAccess'
         \/ reply'[o].kind # "granted" /\ nextAccess' = 0
  BY <1>2 DEF Locked, IInv, TypeOK
<1>4. \A c \in Calls \ {o} : pc'[c] \notin InCall
  BY <1>1, <1>2 DEF Locked, IInv, TypeOK
<1>5. ~Settled' BY <1>3 DEF Settled
<1> QED BY <1>3, <1>4, <1>5 DEF Rated

\* A refusal announces nothing.
LEMMA HubRefuseRated ==
  ASSUME Locked, Rated, Connects = {}, NEW o \in Calls, HubRefuse(o)
  PROVE  Rated'
  BY DEF IInv, TypeOK, OneCallAtATime, Locked, NegotiatesForNeed, Usable,
         Settled, Rated, HubRefuse, Answer

\* Nor does the answer to a request.
LEMMA HubServeRated ==
  ASSUME Locked, Rated, Connects = {}, NEW o \in Calls, HubServe(o)
  PROVE  Rated'
  BY DEF IInv, TypeOK, OneCallAtATime, Locked, NegotiatesForNeed, Usable,
         Settled, Rated, HubServe, Answer

\* Nor does a 403.
LEMMA HubRejectRated ==
  ASSUME Locked, Rated, Connects = {}, NEW o \in Calls, HubReject(o)
  PROVE  Rated'
  BY DEF IInv, TypeOK, OneCallAtATime, Locked, NegotiatesForNeed, Usable,
         Settled, Rated, HubReject, Answer

\* Nor does an abandoned request.
LEMMA HubServeLateRated ==
  ASSUME Locked, Rated, Connects = {}, NEW o \in Calls, HubServeLate(o)
  PROVE  Rated'
  BY DEF IInv, TypeOK, OneCallAtATime, Locked, NegotiatesForNeed, Usable,
         Settled, Rated, HubServeLate

\* Time passes, sessions expire and clients close: nothing is announced.
LEMMA BackgroundRated ==
  ASSUME Locked, Rated,
         \/ \E s \in live : HubForget(s)
         \/ Close \/ Tick \/ UNCHANGED vars
  PROVE  Rated'
  BY DEF IInv, TypeOK, OneCallAtATime, Locked, NegotiatesForNeed, Usable,
         Settled, Rated, HubForget, Close, Tick, vars

\* As long as nobody has been cancelled, every step keeps to the rate limit.
LEMMA NextRated ==
  ASSUME Locked, Rated, Connects = {}, [Next]_vars, NobodyCancelled'
  PROVE  Rated'
<1>1. ASSUME NEW o \in Ops, Client(o) PROVE Rated'
  <2>1. ~Cancel(o)
    BY DEF Locked, IInv, TypeOK, NobodyCancelled, Cancel, Abandon, Finish,
           Leave
  <2> QED
    BY <1>1, <2>1, HandleGrantRated, WakeRated, HandleNoSecretRated,
       HandleBadLimitRated, HandleRefusalRated, AbandonRated
       DEF Client, Establish, NetFail
<1>2. ASSUME NEW c \in Calls, Caller(c) PROVE Rated'
  BY <1>2, StartCallRated, AcquireRated, HandleRejectionRated,
     HandleReplyRated DEF Caller
<1>3. CASE Hub
  BY <1>3, HubGrantRated, HubRefuseRated, HubServeRated, HubRejectRated,
     HubServeLateRated, BackgroundRated DEF Hub
<1>4. CASE Close \/ Tick \/ Over \/ UNCHANGED vars
  BY <1>4, BackgroundRated DEF Over
<1> QED BY <1>1, <1>2, <1>3, <1>4 DEF Next

\* Together with the session invariant that is inductive ...
LEMMA NextRateInv ==
  ASSUME Connects = {}
  PROVE  RateInv /\ [Next]_vars => RateInv'
  BY NextLocked, NextRated, CancelledStays DEF RateInv, Locked

\* ... and it holds before the first call.
LEMMA InitRateInv == Init => RateInv
<1> SUFFICES ASSUME Init PROVE RateInv OBVIOUS
<1>1. Rated BY DEF Init, Rated, Usable
<1> QED BY <1>1, InitLocked DEF RateInv

\* A call that goes on to post its request does so past the announced moment.
LEMMA PostsInTime ==
  ASSUME Locked, Rated, Connects = {}, [Next]_vars, NEW c \in Calls,
         pc[c] # "call", pc'[c] = "call"
  PROVE  clock >= nextAccess
<1>1. ASSUME NEW o \in Ops, Client(o) PROVE clock >= nextAccess
  BY <1>1 DEF Locked, Rated, IInv, TypeOK, OneCallAtATime, Client, Establish,
         HandleGrant, Wake, HandleNoSecret, HandleBadLimit, HandleRefusal,
         NetFail, Cancel, Abandon, Store, Proceed, Post, Finish, Leave
<1>2. ASSUME NEW o \in Calls, Caller(o) PROVE clock >= nextAccess
  <2>1. Acquire(o) /\ Usable
    BY <1>2 DEF Locked, IInv, TypeOK, Caller, StartCall, Acquire,
           HandleRejection, HandleReply, PostConnect, Post, Finish, Leave
  <2>2. Settled
    BY <2>1 DEF Locked, IInv, TypeOK, OneCallAtATime, Settled, Acquire
  <2> QED BY <2>1, <2>2 DEF Rated
<1>3. ~Hub
  BY DEF Locked, IInv, TypeOK, Hub, HubGrant, HubRefuse, HubServe, HubReject,
         HubServeLate, HubForget, Answer
<1>4. ~(Close \/ Tick \/ Over \/ UNCHANGED vars)
  BY DEF Close, Tick, Over, vars
<1> QED BY <1>1, <1>2, <1>3, <1>4 DEF Next

\* If nobody calls connect() and no task is cancelled, no call reaches the hub
\* before the moment it announced: not the call that negotiated, which sleeps,
\* and not the next one, which finds its session stored already.
THEOREM RateLimitKept ==
  ASSUME Connects = {}
  PROVE  Spec => RateLimitRespected
<1>1. RateInv /\ [Next]_vars =>
        [(\A o \in Ops : outcome[o] # "cancelled") =>
           \A c \in Calls :
             pc[c] # "call" /\ pc'[c] = "call" => clock >= nextAccess]_vars
  BY PostsInTime DEF RateInv, NobodyCancelled
<1> QED
  BY <1>1, InitRateInv, NextRateInv, PTL DEF Spec, RateLimitRespected
-----------------------------------------------------------------------------
(* A session that was stored by half.                                      *)

\* Every step leaves a torn session too old to be used: it arrives in a call
\* that negotiates, when the stored stamp has expired or there is none.
LEMMA NextTorn ==
  ASSUME TornInv, Connects = {}, [Next]_vars
  PROVE  LongUp' /\ TornSessionUnused'
<1>1. ASSUME NEW o \in Ops, Client(o) PROVE LongUp' /\ TornSessionUnused'
  <2>1. CASE HandleNoSecret(o)
    BY <2>1 DEF TornInv, Locked, IInv, TypeOK, NegotiatesForNeed,
           GrantsAreNamed, LongUp, TornSessionUnused, Usable, HandleNoSecret,
           Store
  <2>2. CASE HandleGrant(o) \/ HandleBadLimit(o)
    BY <2>2 DEF TornInv, Locked, IInv, TypeOK, GrantsAreNamed, LongUp,
           TornSessionUnused, HandleGrant, HandleBadLimit, Store
  <2>3. CASE Wake(o) \/ HandleRefusal(o) \/ NetFail(o) \/ Cancel(o)
    <3>1. UNCHANGED <<clock, sessionVars>>
      BY <2>3 DEF Wake, HandleRefusal, NetFail, Cancel, Abandon
    <3> QED BY <3>1 DEF TornInv, LongUp, TornSessionUnused, Usable
  <2> QED BY <1>1, <2>1, <2>2, <2>3 DEF Client, Establish
<1>2. ASSUME NEW c \in Calls, Caller(c) PROVE LongUp' /\ TornSessionUnused'
  <2>1. UNCHANGED clock /\ (UNCHANGED sessionVars \/ Store(0, secret, 0))
    BY <1>2 DEF Caller, StartCall, Acquire, HandleRejection, HandleReply
  <2> QED
    BY <2>1 DEF TornInv, LongUp, TornSessionUnused, Usable, Store
<1>3. CASE Hub \/ Close \/ Over \/ UNCHANGED vars
  <2>1. UNCHANGED <<clock, sessionVars>>
    BY <1>3 DEF Hub, HubGrant, HubRefuse, HubServe, HubReject, HubServeLate,
           HubForget, Answer, Close, Over, vars
  <2> QED BY <2>1 DEF TornInv, LongUp, TornSessionUnused, Usable
<1>4. CASE Tick
  BY <1>4 DEF TornInv, Locked, IInv, TypeOK, LongUp, TornSessionUnused,
         Usable, Tick
<1> QED BY <1>1, <1>2, <1>3, <1>4 DEF Next

\* If nobody calls connect(), and the host has been up for as long as a session
\* lives, a session whose secret never arrived is not taken from the cache.
THEOREM TornSessionsUnused ==
  ASSUME Connects = {}, \A u \in Uptimes : u >= Lifetime
  PROVE  Spec => []TornSessionUnused
<1>1. Init => TornInv
  <2> SUFFICES ASSUME Init PROVE TornInv OBVIOUS
  <2>1. LongUp /\ TornSessionUnused
    BY DEF Init, LongUp, TornSessionUnused
  <2> QED BY <2>1, InitLocked DEF TornInv
<1>2. TornInv /\ [Next]_vars => TornInv'
  BY NextLocked, NextTorn DEF TornInv
<1>3. TornInv => TornSessionUnused BY DEF TornInv
<1> QED BY <1>1, <1>2, <1>3, PTL DEF Spec

=============================================================================
